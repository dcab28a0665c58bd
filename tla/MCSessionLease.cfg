SPECIFICATION SpecButRename
CONSTANTS
  Runners = {r1, r2, r3}
  NoRunner = NoRunner
  Host <- OneHost
  MaxWriters = 2
  MaxAttempts = 2
  DeathPoints <- Anywhere
  UncaughtExits = TRUE
SYMMETRY Symmetric
INVARIANTS TypeOK SingleHolder HolderOwnsSlot VerdictOnLastRecordIsRight
PROPERTIES OnlyTheDeadAreMoved LockSpec
CHECK_DEADLOCK FALSE
