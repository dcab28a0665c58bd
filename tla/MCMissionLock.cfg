SPECIFICATION LiveSpec
CONSTANTS
  Processes = {m, p, q}
  NoProcess = NoProcess
  mortal = m
  Mortal <- OneMortal
  MaxTries = 2
INVARIANTS TypeOK MutualExclusion LiveLockIsKept
PROPERTIES NoUpdateIsLost LeftoversDoNotBlock
CHECK_DEADLOCK FALSE
