--------------------------- MODULE MCMinerCreate ---------------------------
(* Model-checking instance of MinerCreate: MaxForeign is set by each .cfg. *)
EXTENDS MinerCreate
=============================================================================
