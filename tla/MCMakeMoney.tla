---------------------------- MODULE MCMakeMoney ----------------------------
(* Model-checking instance of MakeMoney: a reference daemon and two peers, *)
(* two rounds of mining and propagation.                                   *)
EXTENDS MakeMoney

CONSTANTS n1, n2, n3

MCNode == {n1, n2, n3}
MCPeers == {n2, n3}
=============================================================================
