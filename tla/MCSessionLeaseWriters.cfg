SPECIFICATION Spec
CONSTANTS
  Runners = {r1, r2, r3}
  NoRunner = NoRunner
  Host <- OneHost
  MaxWriters = 1
  MaxAttempts = 2
  DeathPoints <- OnlyAfterRelease
  UncaughtExits = FALSE
INVARIANT WriterExclusive
CHECK_DEADLOCK FALSE
