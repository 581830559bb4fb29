------------------------- MODULE MinerCreateProofs -------------------------
(***************************************************************************)
(* Proofs about CreateMinerAddr (MinerCreate), for every bound on the      *)
(* messages other nodes put into the pool.                                 *)
(*                                                                         *)
(* Neither TypeOK nor ReturnsCreatedMiner is inductive by itself: wg.Wait  *)
(* returning says nothing about minerAddr unless wg is tied to where the   *)
(* goroutine is.  IInv adds that the WaitGroup counts the goroutine from   *)
(* wg.Add(1) until its wg.Done() (and forever when it exits by FailNow),   *)
(* that the goroutine exists exactly once the test goroutine is past the   *)
(* spawn, that minerAddr is set once the goroutine is at wg.Done(), and    *)
(* that a returned call has seen that wg.Done().                           *)
(***************************************************************************)
EXTENDS MinerCreate, TLAPS

(* The goroutine states in which it holds its wg.Add(1). *)
Spawned == {"send", "await", "parse", "assign", "signal", "exited", "panicked"}

IInv ==
  /\ TypeOK
  /\ foreign <= arrived
  /\ wg = IF gPc \in Spawned THEN 1 ELSE 0
  /\ mainPc \in {"fund", "spawn"} => gPc = "idle"
  /\ mainPc \in {"poolWait", "mine", "wait", "returned"} => gPc # "idle"
  /\ gPc \in {"signal", "done"} => minerAddr = "addr"
  /\ mainPc = "returned" => gPc = "done"

LEMMA InitIInv == Init => IInv
BY MaxForeignAssumption DEF Init, IInv, TypeOK, MainStates, GStates, Spawned

LEMMA NextIInv == IInv /\ [Next]_vars => IInv'
<1> SUFFICES ASSUME IInv, [Next]_vars PROVE IInv'
  OBVIOUS
<1> USE MaxForeignAssumption DEF IInv, TypeOK, MainStates, GStates, Spawned
<1>1. CASE Fund
  BY <1>1 DEF Fund, MinePool
<1>2. CASE Spawn
  BY <1>2 DEF Spawn
<1>3. CASE PoolWait
  BY <1>3 DEF PoolWait
<1>4. CASE MineOnce
  BY <1>4 DEF MineOnce, MinePool
<1>5. CASE MainFails
  BY <1>5 DEF MainFails
<1>6. CASE WaitReturn
  BY <1>6 DEF WaitReturn
<1>7. CASE TestEnd
  BY <1>7 DEF TestEnd
<1>8. CASE SendCreate
  BY <1>8 DEF SendCreate
<1>9. CASE Included
  BY <1>9 DEF Included
<1>10. CASE Parse
  BY <1>10 DEF Parse
<1>11. CASE CreateFails
  BY <1>11 DEF CreateFails, GoroutineFails
<1>12. CASE Assign
  BY <1>12 DEF Assign
<1>13. CASE Signal
  BY <1>13 DEF Signal
<1>14. CASE ForeignArrives
  BY <1>14 DEF ForeignArrives
<1>15. CASE UNCHANGED vars
  BY <1>15 DEF vars
<1>16. QED
  BY <1>1, <1>2, <1>3, <1>4, <1>5, <1>6, <1>7, <1>8, <1>9, <1>10, <1>11,
     <1>12, <1>13, <1>14, <1>15 DEF Next

(* Type correctness of CreateMinerAddr: the WaitGroup counter stays 0 or 1 *)
(* (wg.Add(1) once, wg.Done() at most once) for any number of foreign      *)
(* messages.                                                               *)
THEOREM MinerCreateTypeCorrect == Spec => []TypeOK
<1>1. Spec => []IInv
  BY InitIInv, NextIInv, PTL DEF Spec
<1>2. QED
  BY <1>1, PTL DEF IInv

(* CreateMinerAddr never returns the zero address: wg.Wait() returns only  *)
(* after the goroutine's wg.Done(), which follows its minerAddr = addr.    *)
THEOREM CreatedMinerReturned == Spec => []ReturnsCreatedMiner
<1>1. Spec => []IInv
  BY InitIInv, NextIInv, PTL DEF Spec
<1>2. IInv => ReturnsCreatedMiner
  BY DEF IInv, ReturnsCreatedMiner
<1>3. QED
  BY <1>1, <1>2, PTL
=============================================================================
