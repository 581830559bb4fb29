----------------------------- MODULE CommandRun -----------------------------
(***************************************************************************)
(* What the command executor promises (spec, "Command Executor" contract   *)
(* and its properties), independent of pipes, reads and contexts: a child  *)
(* writes to stdout and stderr and ends (exits 0, exits non-zero, or is    *)
(* killed at the deadline); the call then returns one result that carries  *)
(* everything the child wrote, code 0 exactly for a clean exit, and the    *)
(* deadline error for a killed child.  A spawn failure ends the call       *)
(* before the child ran.  A non-zero exit may carry the deadline error     *)
(* too: the deadline can pass after the exit and before the call returns.  *)
(***************************************************************************)
EXTENDS Naturals, Sequences

VARIABLES
  outWritten,  \* stdout chunks the child wrote
  errWritten,  \* the stderr chunks it wrote, in order
  fate,        \* "running", "ok", "failed" or "killed"
  call,        \* "pending", "returned", or "aborted" (the test failed)
  output       \* the Output returned, NoOutput until then

avars == <<outWritten, errWritten, fate, call, output>>

NoOutput == [code |-> 0, error |-> "none", out |-> 0, err |-> << >>]

(* The invocation errors a result may carry for each way the child ended. *)
ErrorsOf(f) ==
  CASE f = "ok"     -> {"none"}
    [] f = "failed" -> {"none", "deadline"}
    [] f = "killed" -> {"deadline"}

Init ==
  /\ outWritten = 0
  /\ errWritten = << >>
  /\ fate = "running"
  /\ call = "pending"
  /\ output = NoOutput

Write ==
  /\ fate = "running"
  /\ \/ outWritten' = outWritten + 1 /\ UNCHANGED errWritten
     \/ \E c \in {"log", "marker"} :
          errWritten' = Append(errWritten, c) /\ UNCHANGED outWritten
  /\ UNCHANGED <<fate, call, output>>

End ==
  /\ fate = "running"
  /\ call = "pending"
  /\ fate' \in {"ok", "failed", "killed"}
  /\ UNCHANGED <<outWritten, errWritten, call, output>>

Return ==
  /\ fate # "running"
  /\ call = "pending"
  /\ call' = "returned"
  /\ \E e \in ErrorsOf(fate) :
       output' = [code |-> IF fate = "ok" THEN 0 ELSE 1, error |-> e,
                  out |-> outWritten, err |-> errWritten]
  /\ UNCHANGED <<outWritten, errWritten, fate>>

Abort ==
  /\ call = "pending"
  /\ fate = "running"
  /\ outWritten = 0 /\ errWritten = << >>
  /\ call' = "aborted"
  /\ UNCHANGED <<outWritten, errWritten, fate, output>>

Next == Write \/ End \/ Return \/ Abort

SafetySpec == Init /\ [][Next]_avars

(* The call does not hang: a running child ends, and an ended child's      *)
(* result is returned.                                                     *)
Spec == SafetySpec /\ WF_avars(End) /\ WF_avars(Return)

=============================================================================
