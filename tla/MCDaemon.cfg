CONSTANTS
  MaxTries = 3
  NumKeys = 2
  PipeCap = 3
  MaxCmds = 2
SPECIFICATION Spec
INVARIANTS
  TypeOK
PROPERTIES
  StartReturns
  ShutdownReturns
CHECK_DEADLOCK FALSE
