CONSTANTS
  MaxTries = 3
  NumKeys = 2
  PipeCap = 3
  MaxCmds = 2
SPECIFICATION Spec
INVARIANT
  NoLogStall
CHECK_DEADLOCK FALSE
