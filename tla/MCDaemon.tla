------------------------------ MODULE MCDaemon ------------------------------
(* Model-checking instance of Daemon: a pipe of three log lines, so that   *)
(* boot, two key imports and a command fill it.                            *)
EXTENDS Daemon
=============================================================================
