CONSTANTS
  PipeCap = 1
  MaxScript = 3
SPECIFICATION Spec
INVARIANT
  FailedExitPassesAssertFail
CHECK_DEADLOCK FALSE
