----------------------------- MODULE MakeMoney -----------------------------
(***************************************************************************)
(* TestDaemon.MakeMoney and MineAndPropagate                               *)
(* (src/testhelpers/commands.go 426-434, 504-508), composed with the       *)
(* convergence check of ChainHeadSync.                                     *)
(*                                                                         *)
(* MakeMoney runs MineAndPropagate `rewards` times.  Each round the        *)
(* reference daemon mines one block with `mining once`; when peers were    *)
(* given the round then runs MustHaveChainHeadBy, whose goroutines are the *)
(* ones of ChainHeadSync.  A failed command or a timeout fails the test.  *)
(* Only the reference mines here; the peers adopt heavier heads.           *)
(***************************************************************************)
EXTENDS Naturals, FiniteSets

CONSTANTS Node, Ref, Peers, MaxBlocks,
  Rewards     \* the `rewards` argument

ASSUME RewardsAssumption == Rewards \in Nat /\ Rewards <= MaxBlocks
(* The assumptions of ChainHeadSync, on the constants passed to it. *)
ASSUME DaemonsAssumption == /\ IsFiniteSet(Node)
                            /\ Ref \in Node
                            /\ Peers \subseteq Node
ASSUME BlocksAssumption == MaxBlocks \in Nat

VARIABLES head, hgt, nBlk, mainPc, expHead, wg, peerPc, waiterPc, testState,
  round,      \* the loop index i of MakeMoney
  mpPc        \* "mine", "check" (in MustHaveChainHeadBy), "done", "aborted"

CHS == INSTANCE ChainHeadSync

vars == <<head, hgt, nBlk, mainPc, expHead, wg, peerPc, waiterPc, testState,
          round, mpPc>>
loopVars == <<round, mpPc>>
chsVars == <<head, hgt, nBlk, mainPc, expHead, wg, peerPc, waiterPc, testState>>

Init ==
  /\ CHS!Init
  /\ round = 0
  /\ mpPc = "mine"

(* Mutant: MakeMoney calls td.MineAndPropagate(time.Second*1) without     *)
(* passing peers..., so every round takes the short circuit.               *)
MineAndPropagateNoPeers ==
  /\ mpPc = "mine"
  /\ round < Rewards
  /\ CHS!Mine(Ref)
  /\ round' = round + 1
  /\ mpPc' = "mine"

(* MineAndPropagate: td.RunSuccess("mining", "once"), then return when    *)
(* peers is nil, else MustHaveChainHeadBy.                                 *)
MineAndPropagate ==
  /\ mpPc = "mine"
  /\ round < Rewards
  /\ CHS!Mine(Ref)
  /\ IF Peers = {}
       THEN round' = round + 1 /\ mpPc' = "mine"
       ELSE mpPc' = "check" /\ UNCHANGED round

(* `mining once` fails: RunSuccess fails the test. *)
MineFails ==
  /\ mpPc = "mine"
  /\ round < Rewards
  /\ mpPc' = "aborted"
  /\ UNCHANGED <<chsVars, round>>

(* The test goroutine inside MustHaveChainHeadBy. *)
CheckStep ==
  /\ mpPc = "check"
  /\ \/ CHS!Snapshot
     \/ \E p \in Peers : CHS!Spawn(p)
     \/ CHS!StartWaiter
     \/ CHS!ReceiveDone
     \/ CHS!Timeout
  /\ UNCHANGED loopVars

(* Mutant: the loop index is not advanced after a round. *)
RoundEndNoAdvance ==
  /\ mpPc = "check"
  /\ mainPc = "success"
  /\ mpPc' = "mine"
  /\ mainPc' = "snapshot"
  /\ peerPc' = [p \in Peers |-> "idle"]
  /\ waiterPc' = "none"
  /\ UNCHANGED <<head, hgt, nBlk, expHead, wg, testState, round>>

(* MustHaveChainHeadBy returned: the loop of MakeMoney goes on; the next   *)
(* call starts with fresh goroutines, WaitGroup and channel.               *)
RoundEnd ==
  /\ mpPc = "check"
  /\ mainPc = "success"
  /\ round' = round + 1
  /\ mpPc' = "mine"
  /\ mainPc' = "snapshot"
  /\ peerPc' = [p \in Peers |-> "idle"]
  /\ waiterPc' = "none"
  /\ UNCHANGED <<head, hgt, nBlk, expHead, wg, testState>>

(* The check failed the test (timeout, or a failed GetChainHead). *)
CheckFailed ==
  /\ mpPc = "check"
  /\ mainPc \in {"timeout", "aborted"}
  /\ mpPc' = "aborted"
  /\ UNCHANGED <<chsVars, round>>

(* The loop is over. *)
LoopDone ==
  /\ mpPc = "mine"
  /\ round = Rewards
  /\ mpPc' = "done"
  /\ UNCHANGED <<chsVars, round>>

(* The test function returns; leaked pollers outlive it. *)
TestEnd ==
  /\ mpPc \in {"done", "aborted"}
  /\ testState = "running"
  /\ testState' = "completed"
  /\ UNCHANGED <<head, hgt, nBlk, mainPc, expHead, wg, peerPc, waiterPc,
                 loopVars>>

(* The peers' polling goroutines, the waiter, and block propagation. *)
Background ==
  /\ \/ \E p \in Peers : CHS!PollMatch(p) \/ CHS!PollFail(p)
     \/ CHS!WaiterWake
     \/ \E m, n \in Node : CHS!Propagate(m, n)
  /\ UNCHANGED loopVars

Next ==
  \/ MineAndPropagate \/ MineFails \/ CheckStep \/ RoundEnd \/ CheckFailed \/ LoopDone
  \/ TestEnd \/ Background

(* The test goroutine and the waiter are scheduled and time.After fires;   *)
(* nothing obliges a peer to adopt the new head before the timeout.        *)
Fairness ==
  /\ WF_vars(MineAndPropagate) /\ WF_vars(CheckStep) /\ WF_vars(RoundEnd)
  /\ WF_vars(CheckFailed) /\ WF_vars(LoopDone)
  /\ WF_vars(CHS!WaiterWake /\ UNCHANGED loopVars)

Spec == Init /\ [][Next]_vars /\ Fairness

-----------------------------------------------------------------------------
(* Properties.                                                             *)

(* When MakeMoney returns, every peer's head is at least as high as the    *)
(* `rewards` blocks the reference mined: each round's check waited for the *)
(* peers to reach the reference's head after its block.                    *)
PeersFunded ==
  mpPc = "done" => \A p \in Peers : hgt[head[p]] >= Rewards

(* Each call of MineAndPropagate returns, and the loop index advances,     *)
(* only once every peer's head is at least as high as the block this       *)
(* round mined: MustHaveChainHeadBy must not return before the peers       *)
(* caught up.                                                              *)
RoundsPropagated ==
  [][round' = round + 1 => \A p \in Peers : hgt'[head'[p]] >= round + 1]_vars

(* MakeMoney ends: it returns or fails the test, even when a peer never    *)
(* converges.                                                              *)
MakeMoneyEnds == <>(mpPc \in {"done", "aborted"})

=============================================================================
