SPECIFICATION Spec
CONSTANTS
  Parents = {p1, p2}
  Runs = {a, b, c}
  Limit = 1
  None = None
  MayCrash = FALSE
  WritesMayFail = FALSE
SYMMETRY Symmetric
INVARIANT ActiveWithinLimit
CHECK_DEADLOCK FALSE
