CONSTANTS
  PipeCap = 1
  MaxScript = 3
SPECIFICATION Spec
INVARIANT
  NoMutualWait
CHECK_DEADLOCK FALSE
