CONSTANTS
  PipeCap = 1
  MaxScript = 3
SPECIFICATION Spec
INVARIANTS
  TypeOK
  OutputPreserved
  ResultClassification
  CleanExitPassesAssertSuccess
PROPERTIES
  CommandReturns
  ImplementsCommandRun
CHECK_DEADLOCK FALSE
