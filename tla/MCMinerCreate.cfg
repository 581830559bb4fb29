CONSTANTS
  MaxForeign = 2
SPECIFICATION Spec
INVARIANTS
  TypeOK
  ReturnsCreatedMiner
PROPERTIES
  DoneReleasesWait
CHECK_DEADLOCK FALSE
