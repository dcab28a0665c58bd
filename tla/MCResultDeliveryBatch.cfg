SPECIFICATION Spec
CONSTANTS
  Runs = {a, b}
  Ended = {b}
  MaxTrouble = 1
INVARIANTS NoEndGoesUnreported ToldOncePerRuntime
PROPERTIES DeletedOnlyOnceTold
CHECK_DEADLOCK FALSE
