------------------------- MODULE MCChainHeadSync -------------------------
(* Model-checking instance of ChainHeadSync: a reference daemon and two   *)
(* peers, with up to three tipsets mined while the check runs.            *)
EXTENDS ChainHeadSync

CONSTANTS n1, n2, n3

MCNode == {n1, n2, n3}
MCPeers == {n2, n3}
=============================================================================
