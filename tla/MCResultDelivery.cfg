SPECIFICATION LiveSpec
CONSTANTS
  Runs = {a}
  Ended = {}
  MaxTrouble = 1
INVARIANTS TypeOK
PROPERTIES EveryEndIsTold
CHECK_DEADLOCK FALSE
