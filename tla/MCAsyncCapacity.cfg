SPECIFICATION Spec
CONSTANTS
  Parents = {p1, p2}
  Runs = {a, b, c}
  Limit = 1
  None = None
  MayCrash = TRUE
  WritesMayFail = TRUE
SYMMETRY Symmetric
ACTION_CONSTRAINT PairsOfOperations
INVARIANTS TypeOK AcceptedIsCharged
PROPERTY StartedSlotNeedsProof
CHECK_DEADLOCK FALSE
