SPECIFICATION LiveSpec
CONSTANTS
  Parents = {p1}
  Runs = {1, 2, 3}
  Limit = 2
  None = None
  MayCrash = FALSE
  WritesMayFail = FALSE
ACTION_CONSTRAINT InOrder
INVARIANTS RunningIsCharged ActiveWithinLimit
PROPERTY CapacityComesBack
CHECK_DEADLOCK FALSE
