---------------------------- MODULE DaemonProofs ----------------------------
(***************************************************************************)
(* Proofs about one TestDaemon's lifecycle (Daemon), for every bound on    *)
(* WaitForAPI's tries, the key files, the log pipe and the commands.       *)
(* TypeOK is inductive by itself: every counter is advanced only under    *)
(* the guard that keeps it within its bound.                               *)
(***************************************************************************)
EXTENDS Daemon, TLAPS

IInv == TypeOK

(* The initial state satisfies the inductive invariant. *)
LEMMA InitIInv == Init => IInv
BY ConstAssumption DEF Init, IInv, TypeOK, TdStates,
   ProcStates, ShStates

LEMMA NextIInv == IInv /\ [Next]_vars => IInv'
<1> SUFFICES ASSUME IInv, [Next]_vars PROVE IInv'
  OBVIOUS
<1>0. TypeOK
  BY DEF IInv
<1> USE ConstAssumption DEF IInv, TypeOK, TdStates,
        ProcStates, ShStates
<1>1. CASE DaemonBoot
  BY <1>0, <1>1 DEF DaemonBoot
<1>2. CASE DaemonUnblock
  BY <1>0, <1>2 DEF DaemonUnblock
<1>3. CASE DaemonCrash
  BY <1>0, <1>3 DEF DaemonCrash
<1>4. CASE DaemonTerminate
  BY <1>0, <1>4 DEF DaemonTerminate
<1>5. CASE NewDaemon
  BY <1>0, <1>5 DEF NewDaemon
<1>6. CASE StartProcess
  BY <1>0, <1>6 DEF StartProcess
<1>7. CASE ProbeAPI
  BY <1>0, <1>7 DEF ProbeAPI, Serving
<1>8. CASE ImportKey
  BY <1>0, <1>8 DEF ImportKey, RunCommand, Serving
<1>9. CASE StartDone
  BY <1>0, <1>9 DEF StartDone
<1>10. CASE TestCommand
  BY <1>0, <1>10 DEF TestCommand, RunCommand, Serving
<1>11. CASE Shutdown
  BY <1>0, <1>11 DEF Shutdown
<1>12. ASSUME NEW kind \in {"readTerm", "readInt"}, ShutdownSignal(kind)
       PROVE  IInv'
  BY <1>0, <1>12 DEF ShutdownSignal, SignalOf
<1>13. CASE ReadStderrChunk
  BY <1>0, <1>13 DEF ReadStderrChunk
<1>14. CASE ReadStderrEOF
  BY <1>0, <1>14 DEF ReadStderrEOF
<1>15. CASE UNCHANGED vars
  BY <1>0, <1>15 DEF vars
<1>16. QED
  BY <1>1, <1>2, <1>3, <1>4, <1>5, <1>6, <1>7, <1>8, <1>9, <1>10, <1>11,
     <1>12, <1>13, <1>14, <1>15 DEF Next

(* Type correctness of the TestDaemon model: WaitForAPI never probes more  *)
(* than MaxTries times, imports and commands stay within their counts, and *)
(* the log pipe never holds more than its capacity.                        *)
THEOREM DaemonTypeCorrect == Spec => []TypeOK
<1>1. Spec => []IInv
  BY InitIInv, NextIInv, PTL DEF Spec
<1>2. QED
  BY <1>1, PTL DEF IInv
=============================================================================
