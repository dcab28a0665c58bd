SPECIFICATION Spec
CONSTANTS
  Runs = {a}
  Ended = {}
  MaxTrouble = 0
PROPERTIES RepairPreservesResult
CHECK_DEADLOCK FALSE
