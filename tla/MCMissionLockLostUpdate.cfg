SPECIFICATION Spec
CONSTANTS
  Processes = {m, p, q, r}
  NoProcess = NoProcess
  mortal = m
  Mortal = {}
  MaxTries = 1
SYMMETRY Symmetric
PROPERTY NoUpdateIsLost
CHECK_DEADLOCK FALSE
