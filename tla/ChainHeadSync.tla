--------------------------- MODULE ChainHeadSync ---------------------------
(***************************************************************************)
(* The convergence coordinator of the test harness:                       *)
(* TestDaemon.MustHaveChainHeadBy (src/testhelpers/commands.go 436-478).   *)
(*                                                                         *)
(* The test goroutine reads the reference daemon's chain head once         *)
(* (GetChainHead), starts one polling goroutine per peer after a           *)
(* wg.Add(1), starts a waiter goroutine that does wg.Wait() and then sends *)
(* on the unbuffered channel `done`, and finally selects between `done`    *)
(* and time.After(wait).  Each poller loops on GetChainHead until the      *)
(* peer's head equals the snapshot, then calls wg.Done().                  *)
(*                                                                         *)
(* GetChainHead runs a CLI command through RunSuccess; when the command    *)
(* fails, require calls t.FailNow, which ends the calling goroutine with   *)
(* runtime.Goexit: on the test goroutine the test ends, on a poller only   *)
(* that poller ends (without wg.Done).  The daemons' heads evolve on their *)
(* own (mining and block propagation inside the daemons, outside this     *)
(* repository), concurrently with the check.                               *)
(***************************************************************************)
EXTENDS Naturals, FiniteSets

CONSTANTS
  Node,       \* the daemons of the test
  Ref,        \* td, the reference daemon
  Peers,      \* the `peers` argument
  MaxBlocks   \* bound on the blocks the daemons mine during a behaviour

ASSUME NodeAssumption == /\ IsFiniteSet(Node)
                         /\ Ref \in Node
                         /\ Peers \subseteq Node
ASSUME MaxBlocksAssumption == MaxBlocks \in Nat

(* A head is identified by its tipset; block 0 is the genesis tipset.     *)
Blk == 0 .. MaxBlocks

VARIABLES
  head,      \* head[n]: the tipset daemon n reports in `chain ls`
  hgt,       \* hgt[b]: height of tipset b (for the heaviest-chain choice)
  nBlk,      \* number of tipsets mined so far
  mainPc,    \* where the test goroutine is in MustHaveChainHeadBy
  expHead,   \* expHead: the reference head read once at the start
  wg,        \* the sync.WaitGroup counter
  peerPc,    \* peerPc[p]: state of the polling goroutine of peer p
  waiterPc,  \* the goroutine running wg.Wait(); done <- struct{}{}
  testState  \* "running", or "completed" once the test function has returned

chainVars == <<head, hgt, nBlk>>
vars == <<head, hgt, nBlk, mainPc, expHead, wg, peerPc, waiterPc, testState>>

MainStates == {"snapshot", "spawn", "select", "success", "timeout", "aborted"}
(* idle: not started; poll: in its loop; matched: called wg.Done and      *)
(* returned; exited: FailNow/Goexit while the test runs; panicked: a      *)
(* FailNow on the completed test (the testing package panics).            *)
PeerStates == {"idle", "poll", "matched", "exited", "panicked"}
WaiterStates == {"none", "waiting", "sending", "sent"}

Init ==
  /\ head = [n \in Node |-> 0]
  /\ hgt = [b \in Blk |-> 0]
  /\ nBlk = 0
  /\ mainPc = "snapshot"
  /\ expHead = 0
  /\ wg = 0
  /\ peerPc = [p \in Peers |-> "idle"]
  /\ waiterPc = "none"
  /\ testState = "running"

(* GetChainHead: the head tipset of `chain ls --enc=json` (the first line  *)
(* of MustUnmarshalChain's result), as a set of CIDs compared with Equals. *)
GetChainHead(n) == head[n]

-----------------------------------------------------------------------------
(* The daemons (outside the harness).                                      *)

(* Daemon n mines a tipset on top of its head. *)
Mine(n) ==
  /\ nBlk < MaxBlocks
  /\ nBlk' = nBlk + 1
  /\ hgt' = [hgt EXCEPT ![nBlk + 1] = hgt[head[n]] + 1]
  /\ head' = [head EXCEPT ![n] = nBlk + 1]
  /\ UNCHANGED <<mainPc, expHead, wg, peerPc, waiterPc, testState>>

(* Daemon m receives daemon n's head and adopts it when it is heavier. *)
Propagate(m, n) ==
  /\ hgt[head[n]] > hgt[head[m]]
  /\ head' = [head EXCEPT ![m] = head[n]]
  /\ UNCHANGED <<hgt, nBlk, mainPc, expHead, wg, peerPc, waiterPc, testState>>

-----------------------------------------------------------------------------
(* The test goroutine.                                                     *)

(* expHeadBlks := td.GetChainHead(): a successful read snapshots the       *)
(* reference head; a failed command is fatal to the test goroutine.        *)
Snapshot ==
  /\ mainPc = "snapshot"
  /\ \/ /\ expHead' = GetChainHead(Ref)
        /\ mainPc' = "spawn"
     \/ /\ mainPc' = "aborted"
        /\ UNCHANGED expHead
  /\ UNCHANGED <<chainVars, wg, peerPc, waiterPc, testState>>

(* Mutant: the loop starts the poller without wg.Add(1). *)
SpawnNoAdd(p) ==
  /\ mainPc = "spawn"
  /\ peerPc[p] = "idle"
  /\ peerPc' = [peerPc EXCEPT ![p] = "poll"]
  /\ UNCHANGED <<chainVars, mainPc, expHead, wg, waiterPc, testState>>

(* One iteration of `for _, p := range peers`: wg.Add(1); go func(p). *)
Spawn(p) ==
  /\ mainPc = "spawn"
  /\ peerPc[p] = "idle"
  /\ wg' = wg + 1
  /\ peerPc' = [peerPc EXCEPT ![p] = "poll"]
  /\ UNCHANGED <<chainVars, mainPc, expHead, waiterPc, testState>>

(* After the loop: go func() { wg.Wait(); done <- struct{}{} }(), then    *)
(* the select is entered (time.After(wait) starts here).                   *)
StartWaiter ==
  /\ mainPc = "spawn"
  /\ \A p \in Peers : peerPc[p] # "idle"
  /\ waiterPc' = "waiting"
  /\ mainPc' = "select"
  /\ UNCHANGED <<chainVars, expHead, wg, peerPc, testState>>

(* case <-done: return. *)
ReceiveDone ==
  /\ mainPc = "select"
  /\ waiterPc = "sending"
  /\ mainPc' = "success"
  /\ waiterPc' = "sent"
  /\ UNCHANGED <<chainVars, expHead, wg, peerPc, testState>>

(* Mutant: a select with no time.After case. *)
TimeoutNever ==
  /\ FALSE
  /\ UNCHANGED vars

(* case <-time.After(wait): td.test.Fatal(...). *)
Timeout ==
  /\ mainPc = "select"
  /\ mainPc' = "timeout"
  /\ UNCHANGED <<chainVars, expHead, wg, peerPc, waiterPc, testState>>

(* The test function returns (after a return or a Fatal of the check);     *)
(* goroutines still running outlive it.                                    *)
TestEnd ==
  /\ mainPc \in {"success", "timeout", "aborted"}
  /\ testState = "running"
  /\ testState' = "completed"
  /\ UNCHANGED <<chainVars, mainPc, expHead, wg, peerPc, waiterPc>>

-----------------------------------------------------------------------------
(* The goroutines.                                                         *)

(* Mutant: the poller returns on a match without wg.Done(). *)
PollMatchNoDone(p) ==
  /\ peerPc[p] = "poll"
  /\ head[p] = expHead
  /\ peerPc' = [peerPc EXCEPT ![p] = "matched"]
  /\ UNCHANGED <<chainVars, mainPc, expHead, wg, waiterPc, testState>>

(* Mutant: the comparison ignores the head read (an Equals that is        *)
(* always true).                                                           *)
PollMatchAnyHead(p) ==
  /\ peerPc[p] = "poll"
  /\ wg' = wg - 1
  /\ peerPc' = [peerPc EXCEPT ![p] = "matched"]
  /\ UNCHANGED <<chainVars, mainPc, expHead, waiterPc, testState>>

(* One loop iteration of the poller of p whose GetChainHead returned the   *)
(* snapshot: wg.Done(); return.  An iteration that reads another head      *)
(* sleeps and leaves the state unchanged.                                  *)
PollMatch(p) ==
  /\ peerPc[p] = "poll"
  /\ GetChainHead(p) = expHead
  /\ wg' = wg - 1
  /\ peerPc' = [peerPc EXCEPT ![p] = "matched"]
  /\ UNCHANGED <<chainVars, mainPc, expHead, waiterPc, testState>>

(* Mutant: the poller defers wg.Done(), so a failed poll also counts down. *)
PollFailDeferDone(p) ==
  /\ peerPc[p] = "poll"
  /\ wg' = wg - 1
  /\ peerPc' = [peerPc EXCEPT ![p] = IF testState = "completed" THEN "panicked" ELSE "exited"]
  /\ UNCHANGED <<chainVars, mainPc, expHead, waiterPc, testState>>

(* GetChainHead of the poller fails: require calls t.FailNow, the poller   *)
(* ends by runtime.Goexit without wg.Done; on a completed test the         *)
(* testing package panics instead.                                         *)
PollFail(p) ==
  /\ peerPc[p] = "poll"
  /\ peerPc' = [peerPc EXCEPT ![p] = IF testState = "completed" THEN "panicked" ELSE "exited"]
  /\ UNCHANGED <<chainVars, mainPc, expHead, wg, waiterPc, testState>>

(* wg.Wait() returns once the counter is zero; the send on `done` then     *)
(* blocks until the select receives it.                                    *)
WaiterWake ==
  /\ waiterPc = "waiting"
  /\ wg = 0
  /\ waiterPc' = "sending"
  /\ UNCHANGED <<chainVars, mainPc, expHead, wg, peerPc, testState>>

-----------------------------------------------------------------------------
Environment ==
  \/ \E n \in Node : Mine(n)
  \/ \E m, n \in Node : Propagate(m, n)

Harness ==
  \/ Snapshot
  \/ \E p \in Peers : Spawn(p)
  \/ StartWaiter
  \/ ReceiveDone
  \/ Timeout
  \/ TestEnd
  \/ \E p \in Peers : PollMatch(p) \/ PollFail(p)
  \/ WaiterWake

Next == Environment \/ Harness

(* The test goroutine is scheduled (WF on its steps) and time.After fires  *)
(* (WF on Timeout); nothing obliges a poller to see a match.               *)
Fairness ==
  /\ WF_vars(Snapshot)
  /\ \A p \in Peers : WF_vars(Spawn(p))
  /\ WF_vars(StartWaiter)
  /\ WF_vars(ReceiveDone)
  /\ WF_vars(Timeout)
  /\ WF_vars(WaiterWake)

Spec == Init /\ [][Next]_vars /\ Fairness

-----------------------------------------------------------------------------
(* Properties.                                                             *)

TypeOK ==
  /\ head \in [Node -> Blk]
  /\ hgt \in [Blk -> Nat]
  /\ nBlk \in 0 .. MaxBlocks
  /\ mainPc \in MainStates
  /\ expHead \in Blk
  /\ wg \in Nat
  /\ peerPc \in [Peers -> PeerStates]
  /\ waiterPc \in WaiterStates
  /\ testState \in {"running", "completed"}

(* Pollers that called wg.Add(1) and have not called wg.Done(). *)
Outstanding == {p \in Peers : peerPc[p] \in {"poll", "exited", "panicked"}}

(* The WaitGroup counter equals the number of started pollers that have    *)
(* not called wg.Done: the accounting MustHaveChainHeadBy relies on.      *)
WaitGroupAccounting == wg = Cardinality(Outstanding)

(* When MustHaveChainHeadBy returns normally, every peer's poller has      *)
(* seen the snapshot of the reference head and none has failed.            *)
SyncedOnSuccess ==
  mainPc = "success" => \A p \in Peers : peerPc[p] = "matched"

(* MustHaveChainHeadBy always ends: it returns or fails the test, even     *)
(* when a peer never converges or its poller dies.                         *)
CheckEnds == <>(mainPc \in {"success", "timeout", "aborted"})

(* The spec (section 5) accepts leaked pollers as harmless: no poller      *)
(* acts on the test after it has completed.                                *)
LeakedPollersHarmless == \A p \in Peers : peerPc[p] # "panicked"

-----------------------------------------------------------------------------
(* Refinement: MustHaveChainHeadBy implements the convergence contract     *)
(* HeadCheck.  The snapshot is expHead, a peer is observed when its poller *)
(* matched, and the phase is read off the test goroutine.                  *)

Matched == {p \in Peers : peerPc[p] = "matched"}

CheckPhase ==
  CASE mainPc = "snapshot"           -> "init"
    [] mainPc \in {"spawn", "select"} -> "checking"
    [] mainPc = "success"            -> "success"
    [] OTHER                         -> "failed"

HC == INSTANCE HeadCheck WITH snap <- expHead, seen <- Matched, phase <- CheckPhase

(* The goroutines, the WaitGroup and the channel together implement the     *)
(* contract: success only after every peer reported the snapshot, pollers  *)
(* only compare with that snapshot, and the check ends.                    *)
ImplementsHeadCheck == HC!Spec

=============================================================================
