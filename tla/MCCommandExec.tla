--------------------------- MODULE MCCommandExec ---------------------------
(* Model-checking instance of CommandExec: pipes of one chunk and children *)
(* writing up to three chunks, enough for a full pipe and a blocked write. *)
EXTENDS CommandExec
=============================================================================
