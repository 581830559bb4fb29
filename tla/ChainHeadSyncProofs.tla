------------------------ MODULE ChainHeadSyncProofs ------------------------
(***************************************************************************)
(* Proofs about the convergence coordinator (ChainHeadSync), for every     *)
(* set of daemons and peers and every bound on the blocks mined.           *)
(*                                                                         *)
(* The invariant SyncedOnSuccess is not inductive: a state where the       *)
(* waiter could wake with pollers still outstanding satisfies it.  IInv    *)
(* adds the WaitGroup accounting and the order in which the test           *)
(* goroutine starts the pollers, the waiter and the select.                *)
(***************************************************************************)
EXTENDS ChainHeadSync, FiniteSetTheorems, TLAPS

(* The waiter is started only after every poller, and only once the test   *)
(* goroutine has left the spawn loop.                                      *)
WaiterAfterSpawn ==
  /\ waiterPc # "none" => \A p \in Peers : peerPc[p] # "idle"
  /\ waiterPc # "none" => mainPc \in {"select", "success", "timeout"}
  /\ mainPc = "select" => waiterPc # "none"

(* The waiter sends on `done` only with a zero counter, and the select     *)
(* returns only by receiving that send.                                    *)
DoneAfterZero ==
  /\ waiterPc \in {"sending", "sent"} => wg = 0
  /\ mainPc = "success" => waiterPc = "sent"

IInv ==
  /\ TypeOK
  /\ WaitGroupAccounting
  /\ WaiterAfterSpawn
  /\ DoneAfterZero

-----------------------------------------------------------------------------
(* Lemmas on the set of outstanding pollers.                               *)

LEMMA PeersFinite == IsFiniteSet(Peers)
BY NodeAssumption, FS_Subset

LEMMA OutstandingFinite ==
  ASSUME peerPc \in [Peers -> PeerStates]
  PROVE  /\ IsFiniteSet(Outstanding)
         /\ Cardinality(Outstanding) \in Nat
<1>1. Outstanding \subseteq Peers
  BY DEF Outstanding
<1>2. IsFiniteSet(Outstanding)
  BY <1>1, PeersFinite, FS_Subset
<1>3. QED
  BY <1>2, FS_CardinalityType

(* With a zero counter no poller is outstanding. *)
LEMMA ZeroMeansNoneOutstanding ==
  ASSUME peerPc \in [Peers -> PeerStates], WaitGroupAccounting, wg = 0
  PROVE  Outstanding = {}
BY OutstandingFinite, FS_EmptySet DEF WaitGroupAccounting

-----------------------------------------------------------------------------
LEMMA InitIInv == Init => IInv
<1> SUFFICES ASSUME Init PROVE IInv
  OBVIOUS
<1>1. TypeOK
  BY MaxBlocksAssumption DEF Init, TypeOK, Blk, PeerStates, MainStates, WaiterStates
<1>2. Outstanding = {}
  BY DEF Init, Outstanding
<1>3. WaitGroupAccounting
  BY <1>2, FS_EmptySet DEF Init, WaitGroupAccounting
<1>4. WaiterAfterSpawn /\ DoneAfterZero
  BY DEF Init, WaiterAfterSpawn, DoneAfterZero
<1>5. QED
  BY <1>1, <1>3, <1>4 DEF IInv

LEMMA NextIInv == IInv /\ [Next]_vars => IInv'
<1> SUFFICES ASSUME IInv, [Next]_vars PROVE IInv'
  OBVIOUS
<1>0. /\ TypeOK
      /\ WaitGroupAccounting
      /\ WaiterAfterSpawn
      /\ DoneAfterZero
      /\ IsFiniteSet(Outstanding)
      /\ Cardinality(Outstanding) \in Nat
  BY OutstandingFinite DEF IInv, TypeOK
<1>1. ASSUME NEW n \in Node, Mine(n) PROVE IInv'
  <2>1. TypeOK'
    BY <1>0, <1>1, MaxBlocksAssumption DEF Mine, TypeOK, Blk
  <2>2. Outstanding' = Outstanding
    BY <1>1 DEF Mine, Outstanding
  <2>3. QED
    BY <1>0, <1>1, <2>1, <2>2
       DEF Mine, IInv, WaitGroupAccounting, WaiterAfterSpawn, DoneAfterZero
<1>2. ASSUME NEW m \in Node, NEW n \in Node, Propagate(m, n) PROVE IInv'
  <2>1. TypeOK'
    BY <1>0, <1>2 DEF Propagate, TypeOK
  <2>2. Outstanding' = Outstanding
    BY <1>2 DEF Propagate, Outstanding
  <2>3. QED
    BY <1>0, <1>2, <2>1, <2>2
       DEF Propagate, IInv, WaitGroupAccounting, WaiterAfterSpawn, DoneAfterZero
<1>3. CASE Snapshot
  <2>1. TypeOK'
    BY <1>0, <1>3, NodeAssumption DEF Snapshot, GetChainHead, chainVars, TypeOK, MainStates
  <2>2. Outstanding' = Outstanding
    BY <1>3 DEF Snapshot, Outstanding
  <2>3. QED
    BY <1>0, <1>3, <2>1, <2>2
       DEF Snapshot, IInv, WaitGroupAccounting, WaiterAfterSpawn, DoneAfterZero
<1>4. ASSUME NEW p \in Peers, Spawn(p) PROVE IInv'
  <2>1. p \notin Outstanding /\ Outstanding' = Outstanding \cup {p}
    BY <1>0, <1>4 DEF Spawn, Outstanding, TypeOK
  <2>2. Cardinality(Outstanding') = Cardinality(Outstanding) + 1
    BY <1>0, <2>1, FS_AddElement
  <2>3. WaitGroupAccounting'
    BY <1>0, <1>4, <2>2 DEF Spawn, WaitGroupAccounting
  <2>4. TypeOK'
    BY <1>0, <1>4 DEF Spawn, chainVars, TypeOK, PeerStates
  <2>5. waiterPc = "none"
    BY <1>0, <1>4 DEF Spawn, WaiterAfterSpawn
  <2>6. (WaiterAfterSpawn /\ DoneAfterZero)'
    BY <1>4, <2>5 DEF Spawn, WaiterAfterSpawn, DoneAfterZero
  <2>7. QED
    BY <2>3, <2>4, <2>6 DEF IInv
<1>5. CASE StartWaiter
  <2>1. TypeOK'
    BY <1>0, <1>5 DEF StartWaiter, chainVars, TypeOK, MainStates, WaiterStates
  <2>2. Outstanding' = Outstanding
    BY <1>5 DEF StartWaiter, Outstanding
  <2>3. QED
    BY <1>0, <1>5, <2>1, <2>2
       DEF StartWaiter, IInv, WaitGroupAccounting, WaiterAfterSpawn, DoneAfterZero
<1>6. CASE ReceiveDone
  <2>1. TypeOK'
    BY <1>0, <1>6 DEF ReceiveDone, chainVars, TypeOK, MainStates, WaiterStates
  <2>2. Outstanding' = Outstanding
    BY <1>6 DEF ReceiveDone, Outstanding
  <2>3. QED
    BY <1>0, <1>6, <2>1, <2>2
       DEF ReceiveDone, IInv, WaitGroupAccounting, WaiterAfterSpawn, DoneAfterZero
<1>7. CASE Timeout
  <2>1. TypeOK'
    BY <1>0, <1>7 DEF Timeout, chainVars, TypeOK, MainStates
  <2>2. Outstanding' = Outstanding
    BY <1>7 DEF Timeout, Outstanding
  <2>3. QED
    BY <1>0, <1>7, <2>1, <2>2
       DEF Timeout, IInv, WaitGroupAccounting, WaiterAfterSpawn, DoneAfterZero
<1>8. CASE TestEnd
  <2>1. TypeOK'
    BY <1>0, <1>8 DEF TestEnd, chainVars, TypeOK
  <2>2. Outstanding' = Outstanding
    BY <1>8 DEF TestEnd, Outstanding
  <2>3. QED
    BY <1>0, <1>8, <2>1, <2>2
       DEF TestEnd, IInv, WaitGroupAccounting, WaiterAfterSpawn, DoneAfterZero
<1>9. ASSUME NEW p \in Peers, PollMatch(p) PROVE IInv'
  <2>1. p \in Outstanding /\ Outstanding' = Outstanding \ {p}
    BY <1>0, <1>9 DEF PollMatch, Outstanding, TypeOK
  <2>2. Cardinality(Outstanding') = Cardinality(Outstanding) - 1
    BY <1>0, <2>1, FS_RemoveElement
  <2>3. Cardinality(Outstanding) >= 1
    BY <1>0, <2>1, FS_EmptySet
  <2>4. WaitGroupAccounting'
    BY <1>0, <1>9, <2>2 DEF PollMatch, WaitGroupAccounting
  <2>5. TypeOK'
    BY <1>0, <1>9, <2>3 DEF PollMatch, chainVars, TypeOK, PeerStates, WaitGroupAccounting
  <2>6. waiterPc \notin {"sending", "sent"}
    BY <1>0, <2>1, <2>3 DEF DoneAfterZero, WaitGroupAccounting
  <2>7. (WaiterAfterSpawn /\ DoneAfterZero)'
    BY <1>0, <1>9, <2>6 DEF PollMatch, WaiterAfterSpawn, DoneAfterZero
  <2>8. QED
    BY <2>4, <2>5, <2>7 DEF IInv
<1>10. ASSUME NEW p \in Peers, PollFail(p) PROVE IInv'
  <2>1. Outstanding' = Outstanding
    BY <1>0, <1>10 DEF PollFail, Outstanding, TypeOK
  <2>2. TypeOK'
    BY <1>0, <1>10 DEF PollFail, chainVars, TypeOK, PeerStates
  <2>3. QED
    BY <1>0, <1>10, <2>1, <2>2
       DEF PollFail, IInv, WaitGroupAccounting, WaiterAfterSpawn, DoneAfterZero
<1>11. CASE WaiterWake
  <2>1. TypeOK'
    BY <1>0, <1>11 DEF WaiterWake, chainVars, TypeOK, WaiterStates
  <2>2. Outstanding' = Outstanding
    BY <1>11 DEF WaiterWake, Outstanding
  <2>3. QED
    BY <1>0, <1>11, <2>1, <2>2
       DEF WaiterWake, IInv, WaitGroupAccounting, WaiterAfterSpawn, DoneAfterZero
<1>12. CASE UNCHANGED vars
  <2>1. Outstanding' = Outstanding
    BY <1>12 DEF vars, Outstanding
  <2>2. QED
    BY <1>0, <1>12, <2>1
       DEF vars, IInv, TypeOK, WaitGroupAccounting, WaiterAfterSpawn, DoneAfterZero
<1>13. QED
  BY <1>1, <1>2, <1>3, <1>4, <1>5, <1>6, <1>7, <1>8, <1>9, <1>10, <1>11, <1>12
     DEF Next, Environment, Harness

-----------------------------------------------------------------------------
(* IInv holds in every reachable state. *)
THEOREM IInvariant == Spec => []IInv
BY InitIInv, NextIInv, PTL DEF Spec

(* Type correctness: every variable of MustHaveChainHeadBy and of the      *)
(* daemons' heads stays in its type, in particular the WaitGroup counter   *)
(* never goes negative.                                                    *)
THEOREM TypeCorrect == Spec => []TypeOK
BY IInvariant, PTL DEF IInv

(* The WaitGroup counter always equals the number of started pollers that  *)
(* have not called wg.Done.                                                *)
THEOREM WaitGroupAccounted == Spec => []WaitGroupAccounting
BY IInvariant, PTL DEF IInv

(* When MustHaveChainHeadBy returns normally, every peer's poller has      *)
(* matched the snapshot of the reference head.                             *)
THEOREM SyncedOnSuccessHolds == Spec => []SyncedOnSuccess
<1>1. IInv => SyncedOnSuccess
  <2> SUFFICES ASSUME IInv, mainPc = "success", NEW p \in Peers
               PROVE  peerPc[p] = "matched"
    BY DEF SyncedOnSuccess
  <2>1. waiterPc = "sent" /\ wg = 0
    BY DEF IInv, DoneAfterZero
  <2>2. Outstanding = {}
    BY <2>1, ZeroMeansNoneOutstanding DEF IInv, TypeOK
  <2>3. peerPc[p] # "idle"
    BY <2>1 DEF IInv, WaiterAfterSpawn
  <2>4. QED
    BY <2>2, <2>3 DEF IInv, TypeOK, PeerStates, Outstanding
<1>2. QED
  BY <1>1, IInvariant, PTL

-----------------------------------------------------------------------------
(* The refinement of HeadCheck.                                            *)

(* No poller runs before the snapshot has been taken. *)
SnapshotOrder == mainPc = "snapshot" => \A p \in Peers : peerPc[p] = "idle"

LEMMA SnapshotOrderInvariant == Spec => []SnapshotOrder
<1>1. Init => SnapshotOrder
  BY DEF Init, SnapshotOrder
<1>2. SnapshotOrder /\ [Next]_vars => SnapshotOrder'
  <2> SUFFICES ASSUME SnapshotOrder, [Next]_vars PROVE SnapshotOrder'
    OBVIOUS
  <2>1. CASE mainPc = "snapshot"
    <3>1. \A p \in Peers : peerPc[p] = "idle"
      BY <2>1 DEF SnapshotOrder
    <3>2. QED
      BY <2>1, <3>1 DEF SnapshotOrder, Next, Environment, Harness, Mine,
         Propagate, Snapshot, Spawn, StartWaiter, ReceiveDone, Timeout, TestEnd,
         PollMatch, PollFail, WaiterWake, vars
  <2>2. CASE mainPc # "snapshot"
    BY <2>2 DEF SnapshotOrder, Next, Environment, Harness, Mine, Propagate,
       Snapshot, Spawn, StartWaiter, ReceiveDone, Timeout, TestEnd, PollMatch,
       PollFail, WaiterWake, vars
  <2>3. QED
    BY <2>1, <2>2
<1>3. QED
  BY <1>1, <1>2, PTL DEF Spec

LEMMA InitRefines == Init => HC!Init
BY DEF Init, HC!Init, Blk, Matched, CheckPhase

(* Every step of MustHaveChainHeadBy is a step of HeadCheck or leaves the  *)
(* mapped state unchanged.                                                 *)
LEMMA NextRefines ==
  IInv /\ SnapshotOrder /\ [Next]_vars => [HC!Next]_HC!avars
<1> SUFFICES ASSUME IInv, SnapshotOrder, [Next]_vars PROVE [HC!Next]_HC!avars
  OBVIOUS
<1>0. TypeOK
  BY DEF IInv
<1>1. ASSUME NEW n \in Node, Mine(n) PROVE HC!ChainStep
  BY <1>1 DEF Mine, HC!ChainStep, Matched, CheckPhase
<1>2. ASSUME NEW m \in Node, NEW n \in Node, Propagate(m, n) PROVE HC!ChainStep
  BY <1>2 DEF Propagate, HC!ChainStep, Matched, CheckPhase
<1>3. CASE Snapshot
  <2>1. CheckPhase = "init" /\ Matched' = Matched
    BY <1>3 DEF Snapshot, CheckPhase, Matched
  <2>2. ASSUME mainPc' = "spawn", expHead' = GetChainHead(Ref)
        PROVE  HC!TakeSnapshot
    <3>1. CheckPhase' = "checking"
      BY <2>2 DEF CheckPhase
    <3>2. QED
      BY <1>3, <2>1, <2>2, <3>1 DEF Snapshot, GetChainHead, chainVars,
         HC!TakeSnapshot
  <2>3. ASSUME mainPc' = "aborted" PROVE HC!Fail
    <3>1. CheckPhase' = "failed"
      BY <2>3 DEF CheckPhase
    <3>2. QED
      BY <1>3, <2>1, <2>3, <3>1 DEF Snapshot, chainVars, HC!Fail
  <2>4. QED
    BY <1>3, <2>2, <2>3 DEF Snapshot, HC!Next
<1>4. ASSUME NEW p \in Peers, Spawn(p) PROVE UNCHANGED HC!avars
  BY <1>4, <1>0 DEF Spawn, chainVars, HC!avars, Matched, CheckPhase, TypeOK
<1>5. CASE StartWaiter
  BY <1>5 DEF StartWaiter, chainVars, HC!avars, Matched, CheckPhase
<1>6. CASE ReceiveDone
  <2>1. wg = 0 /\ \A p \in Peers : peerPc[p] # "idle"
    BY <1>6 DEF ReceiveDone, IInv, DoneAfterZero, WaiterAfterSpawn
  <2>2. Outstanding = {}
    BY <1>0, <2>1, ZeroMeansNoneOutstanding DEF IInv, TypeOK
  <2>3. Matched = Peers
    BY <1>0, <2>1, <2>2 DEF Outstanding, Matched, TypeOK, PeerStates
  <2>4. QED
    BY <1>6, <2>3 DEF ReceiveDone, chainVars, HC!Succeed, HC!Next, Matched,
       CheckPhase
<1>7. CASE Timeout
  BY <1>7 DEF Timeout, chainVars, HC!Fail, HC!Next, Matched, CheckPhase
<1>8. CASE TestEnd
  BY <1>8 DEF TestEnd, chainVars, HC!avars, Matched, CheckPhase
<1>9. ASSUME NEW p \in Peers, PollMatch(p) PROVE HC!Observe(p)
  <2>1. mainPc # "snapshot"
    BY <1>9 DEF PollMatch, SnapshotOrder
  <2>2. CheckPhase # "init" /\ CheckPhase' = CheckPhase
    BY <1>9, <2>1 DEF PollMatch, CheckPhase
  <2>3. p \notin Matched /\ Matched' = Matched \cup {p}
    BY <1>0, <1>9 DEF PollMatch, Matched, TypeOK
  <2>4. QED
    BY <1>9, <2>2, <2>3 DEF PollMatch, GetChainHead, chainVars, HC!Observe
<1>10. ASSUME NEW p \in Peers, PollFail(p) PROVE UNCHANGED HC!avars
  BY <1>0, <1>10 DEF PollFail, chainVars, HC!avars, Matched, CheckPhase, TypeOK
<1>11. CASE WaiterWake
  BY <1>11 DEF WaiterWake, chainVars, HC!avars, Matched, CheckPhase
<1>12. CASE UNCHANGED vars
  BY <1>12 DEF vars, HC!avars, Matched, CheckPhase
<1>13. QED
  BY <1>1, <1>2, <1>3, <1>4, <1>5, <1>6, <1>7, <1>8, <1>9, <1>10, <1>11, <1>12
     DEF Next, Environment, Harness, HC!Next

(* MustHaveChainHeadBy implements the safety part of the convergence       *)
(* contract HeadCheck: the goroutines, WaitGroup and channel report        *)
(* success only after every peer reported the reference snapshot.          *)
THEOREM RefinesHeadCheck == Spec => HC!SafetySpec
BY InitRefines, NextRefines, IInvariant, SnapshotOrderInvariant, PTL
   DEF Spec, HC!SafetySpec
=============================================================================
