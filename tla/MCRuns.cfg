SPECIFICATION RunsSpec
CONSTANTS
  Plans <- Chains
  Steers = {r}
  Appends = {a}
  Concurrency = 1
  MaxAttempts = 2
  MaxItems = 2
  Old <- OldStep
  FailFast = TRUE
  MaxTrouble = 2
  Questions = {1, 2}
  MaxLaunches = 2
ACTION_CONSTRAINT Smaller
INVARIANTS RunsTypeOK AcceptedSteerIsSettled EveryChildIsTold CompleteRunRanEverything SteerReachesItsChild ToldExactlyOnce QuestionStaysAnswerable
PROPERTIES NoChildAfterStop StopEndsRun HandoverIsFinal QuestionFreesParent
CHECK_DEADLOCK FALSE
