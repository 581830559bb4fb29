CONSTANTS
  n1 = n1
  n2 = n2
  n3 = n3
  Node <- MCNode
  Ref = n1
  Peers <- MCPeers
  MaxBlocks = 2
  Rewards = 2
SPECIFICATION Spec
INVARIANTS
  PeersFunded
PROPERTIES
  MakeMoneyEnds
  RoundsPropagated
CHECK_DEADLOCK FALSE
