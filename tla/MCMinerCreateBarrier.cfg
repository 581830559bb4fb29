CONSTANTS
  MaxForeign = 1
SPECIFICATION Spec
PROPERTY
  MineAfterCreatePending
CHECK_DEADLOCK FALSE
