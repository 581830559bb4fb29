CONSTANTS
  n1 = n1
  n2 = n2
  n3 = n3
  Node <- MCNode
  Ref = n1
  Peers <- MCPeers
  MaxBlocks = 3
SPECIFICATION Spec
INVARIANTS
  TypeOK
  WaitGroupAccounting
  SyncedOnSuccess
PROPERTIES
  CheckEnds
  ImplementsHeadCheck
CHECK_DEADLOCK FALSE
