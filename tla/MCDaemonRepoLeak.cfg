CONSTANTS
  MaxTries = 3
  NumKeys = 2
  PipeCap = 3
  MaxCmds = 2
SPECIFICATION Spec
INVARIANT
  RepoDeletedAfterTermination
CHECK_DEADLOCK FALSE
