SPECIFICATION LiveSpec
CONSTANTS
  Attempts = {a, b}
  ParentTimeout = 1
  RunnerTimeout = 3
  MaxStall = 1
INVARIANTS TypeOK FailedStartNeverRuns CommittedIsNotGivenUp RolledBackIsGone
PROPERTIES EveryStartIsAnswered UncommittedStartFreesSession
CHECK_DEADLOCK FALSE
