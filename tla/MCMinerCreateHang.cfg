CONSTANTS
  MaxForeign = 0
SPECIFICATION Spec
PROPERTY
  CreateMinerAddrEnds
CHECK_DEADLOCK FALSE
