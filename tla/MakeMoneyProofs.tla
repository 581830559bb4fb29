-------------------------- MODULE MakeMoneyProofs --------------------------
(***************************************************************************)
(* Proofs about MakeMoney composed with MustHaveChainHeadBy (MakeMoney),   *)
(* for every set of daemons and peers, every bound on the blocks and every *)
(* number of rewards.                                                      *)
(*                                                                         *)
(* PeersFunded speaks only of the end of the loop.  FInv carries, round by *)
(* round, what the loop has established: heights of heads only grow (a     *)
(* mined block sits on its miner's head, a daemon adopts only a heavier    *)
(* head, and a head never points to a block not yet mined); before round   *)
(* i mines, every peer is at height i or more and so is the reference;     *)
(* once the reference mined, its head is higher than i, the snapshot taken *)
(* by the check is too, and a peer whose poller matched is at least as     *)
(* high as the snapshot.  The check's own inductive invariant (IInv of     *)
(* ChainHeadSyncProofs) gives that success means every poller matched;    *)
(* RoundEnd resets the check to a state in which it holds again.           *)
(***************************************************************************)
EXTENDS MakeMoney, FiniteSetTheorems, TLAPS

CHSP == INSTANCE ChainHeadSyncProofs

(* The height of the head daemon n reports. *)
Height(n) == hgt[head[n]]

(* What the loop of MakeMoney has established, besides the check's own    *)
(* invariant.                                                              *)
LoopInv ==
  /\ round \in 0 .. Rewards
  /\ mpPc \in {"mine", "check", "done", "aborted"}
  /\ \A n \in Node : head[n] <= nBlk
  /\ expHead <= nBlk
  /\ mpPc = "mine" => /\ mainPc = "snapshot"
                      /\ \A p \in Peers : peerPc[p] = "idle"
                      /\ Height(Ref) >= round
  /\ mpPc \in {"mine", "done"} => \A p \in Peers : Height(p) >= round
  /\ mpPc = "done" => round = Rewards
  /\ mpPc = "check" =>
       /\ Height(Ref) >= round + 1
       /\ mainPc = "snapshot" => \A p \in Peers : peerPc[p] = "idle"
       /\ mainPc \in {"spawn", "select", "success"} => hgt[expHead] >= round + 1
       /\ round < Rewards
       /\ \A p \in Peers : peerPc[p] = "matched" => Height(p) >= hgt[expHead]

FInv == CHSP!IInv /\ LoopInv

-----------------------------------------------------------------------------
(* The constants satisfy the assumptions of ChainHeadSync, so its proved   *)
(* results hold of the check MakeMoney runs.                               *)
LEMMA CheckAssumptions == CHSP!NodeAssumption /\ CHSP!MaxBlocksAssumption
<1>1. CHSP!MaxBlocksAssumption
  BY BlocksAssumption
<1>2. CHSP!NodeAssumption
  BY DaemonsAssumption DEF IsFiniteSet, CHSP!IsFiniteSet
<1>3. QED
  BY <1>1, <1>2

(* Steps of the check preserve its inductive invariant. *)
LEMMA CheckIInv == CHSP!IInv /\ [CHSP!Next]_CHSP!vars => CHSP!IInv'
BY CheckAssumptions, CHSP!NextIInv

LEMMA InitFInv == Init => FInv
<1> SUFFICES ASSUME Init PROVE FInv
  OBVIOUS
<1>1. CHSP!Init
  BY DEF Init, CHS!Init, CHSP!Init, CHS!Blk, CHSP!Blk
<1>2. CHSP!IInv
  BY <1>1, CheckAssumptions, CHSP!InitIInv
<1>3. ASSUME NEW n \in Node PROVE head[n] = 0 /\ Height(n) = 0
  <2>1. head[n] = 0
    BY DEF Init, CHS!Init
  <2>2. 0 \in CHS!Blk
    BY BlocksAssumption DEF CHS!Blk
  <2>3. QED
    BY <2>1, <2>2 DEF Init, CHS!Init, Height
<1>4. QED
  BY <1>2, <1>3, DaemonsAssumption, RewardsAssumption DEF Init, CHS!Init, FInv, LoopInv

(* The steps of MakeMoney preserve the check's invariant: all but RoundEnd *)
(* and TestEnd are steps of the check or leave it unchanged; RoundEnd      *)
(* restarts it with a zero counter, TestEnd touches only testState.        *)
LEMMA NextCheckIInv == FInv /\ [Next]_vars => CHSP!IInv'
<1> SUFFICES ASSUME FInv, [Next]_vars PROVE CHSP!IInv'
  OBVIOUS
<1>0. CHSP!IInv
  BY DEF FInv
<1>1. ASSUME [CHSP!Next]_CHSP!vars PROVE CHSP!IInv'
  BY <1>0, <1>1, CheckIInv
<1>2. ASSUME UNCHANGED chsVars PROVE CHSP!IInv'
  BY <1>1, <1>2 DEF chsVars, CHSP!vars
<1>3. CASE MineAndPropagate
  <2>1. CHSP!Mine(Ref)
    BY <1>3 DEF MineAndPropagate, CHS!Mine, CHSP!Mine
  <2>2. CHSP!Next
    BY <2>1, DaemonsAssumption DEF CHSP!Next, CHSP!Environment
  <2>3. QED
    BY <1>1, <2>2
<1>4. CASE CheckStep
  <2>1. CHSP!Harness
    BY <1>4 DEF CheckStep, CHSP!Harness, CHS!Snapshot, CHSP!Snapshot,
       CHS!Spawn, CHSP!Spawn, CHS!StartWaiter, CHSP!StartWaiter,
       CHS!ReceiveDone, CHSP!ReceiveDone, CHS!Timeout, CHSP!Timeout,
       CHS!GetChainHead, CHSP!GetChainHead, CHS!chainVars, CHSP!chainVars
  <2>2. QED
    BY <1>1, <2>1 DEF CHSP!Next
<1>5. CASE Background
  <2>1. CHSP!Next
    BY <1>5 DEF Background, CHSP!Next, CHSP!Harness, CHSP!Environment,
       CHS!PollMatch, CHSP!PollMatch, CHS!PollFail, CHSP!PollFail,
       CHS!WaiterWake, CHSP!WaiterWake, CHS!Propagate, CHSP!Propagate,
       CHS!GetChainHead, CHSP!GetChainHead, CHS!chainVars, CHSP!chainVars
  <2>2. QED
    BY <1>1, <2>1
<1>6. CASE MineFails \/ CheckFailed \/ LoopDone
  BY <1>2, <1>6 DEF MineFails, CheckFailed, LoopDone
<1>7. CASE UNCHANGED vars
  BY <1>2, <1>7 DEF vars, chsVars
<1>8. CASE TestEnd
  <2>1. CHSP!Outstanding' = CHSP!Outstanding
    BY <1>8 DEF TestEnd, CHSP!Outstanding
  <2>2. CHSP!TypeOK'
    BY <1>0, <1>8 DEF TestEnd, CHSP!IInv, CHSP!TypeOK
  <2>3. QED
    BY <1>0, <1>8, <2>1, <2>2 DEF TestEnd, CHSP!IInv, CHSP!WaitGroupAccounting,
       CHSP!WaiterAfterSpawn, CHSP!DoneAfterZero
<1>9. CASE RoundEnd
  <2>1. wg = 0
    BY <1>0, <1>9 DEF RoundEnd, CHSP!IInv, CHSP!DoneAfterZero
  <2>2. CHSP!Outstanding' = {}
    BY <1>9 DEF RoundEnd, CHSP!Outstanding
  <2>3. CHSP!WaitGroupAccounting'
    <3>1. CHSP!Cardinality(CHSP!Outstanding') = 0
      BY <2>2, FS_EmptySet DEF Cardinality, CHSP!Cardinality
    <3>2. QED
      BY <1>9, <2>1, <3>1 DEF RoundEnd, CHSP!WaitGroupAccounting
  <2>4. CHSP!TypeOK'
    BY <1>0, <1>9, <2>1 DEF RoundEnd, CHSP!IInv, CHSP!TypeOK, CHSP!MainStates,
       CHSP!PeerStates, CHSP!WaiterStates
  <2>5. QED
    BY <1>9, <2>3, <2>4 DEF RoundEnd, CHSP!IInv, CHSP!WaiterAfterSpawn,
       CHSP!DoneAfterZero
<1>10. QED
  BY <1>3, <1>4, <1>5, <1>6, <1>7, <1>8, <1>9 DEF Next

(* The types the loop's invariant relies on. *)
LEMMA FTypes ==
  ASSUME FInv
  PROVE  /\ head \in [Node -> 0 .. MaxBlocks]
         /\ hgt \in [0 .. MaxBlocks -> Nat]
         /\ nBlk \in 0 .. MaxBlocks
         /\ expHead \in 0 .. MaxBlocks
         /\ peerPc \in [Peers -> CHSP!PeerStates]
         /\ Ref \in Node /\ Peers \subseteq Node
         /\ Rewards \in Nat /\ MaxBlocks \in Nat
BY DaemonsAssumption, RewardsAssumption, BlocksAssumption
   DEF FInv, CHSP!IInv, CHSP!TypeOK, CHSP!Blk

(* MustHaveChainHeadBy returns only when every peer is at the height of   *)
(* the round's block: success means the waiter sent on `done`, so the      *)
(* counter was zero, so every poller matched the snapshot, which is at     *)
(* least that high.                                                        *)
LEMMA RoundEndSynced ==
  ASSUME FInv, RoundEnd
  PROVE  \A p \in Peers : Height(p) >= round + 1
<1>0. /\ peerPc \in [Peers -> CHSP!PeerStates]
      /\ mpPc = "check" /\ mainPc = "success"
  BY FTypes DEF RoundEnd
<1>1. waiterPc = "sent" /\ wg = 0
  BY <1>0 DEF FInv, CHSP!IInv, CHSP!DoneAfterZero
<1>2. CHSP!Outstanding = {}
  BY <1>0, <1>1, CheckAssumptions, CHSP!ZeroMeansNoneOutstanding
     DEF FInv, CHSP!IInv
<1>3. \A p \in Peers : peerPc[p] = "matched"
  BY <1>0, <1>1, <1>2 DEF FInv, CHSP!IInv, CHSP!WaiterAfterSpawn,
     CHSP!Outstanding, CHSP!PeerStates
<1>4. QED
  BY <1>0, <1>3, FTypes DEF FInv, LoopInv, Height

LEMMA NextLoopInv == FInv /\ [Next]_vars => LoopInv'
<1> SUFFICES ASSUME FInv, [Next]_vars PROVE LoopInv'
  OBVIOUS
<1>0. /\ head \in [Node -> 0 .. MaxBlocks]
      /\ hgt \in [0 .. MaxBlocks -> Nat]
      /\ nBlk \in 0 .. MaxBlocks
      /\ expHead \in 0 .. MaxBlocks
      /\ peerPc \in [Peers -> CHSP!PeerStates]
      /\ Ref \in Node /\ Peers \subseteq Node
      /\ Rewards \in Nat /\ MaxBlocks \in Nat
      /\ LoopInv
  BY FTypes DEF FInv
<1>0a. \A n \in Node : Height(n) \in Nat /\ Height(n)' \in Nat
  <2>1. CHSP!IInv'
    BY NextCheckIInv
  <2>2. head' \in [Node -> 0 .. MaxBlocks] /\ hgt' \in [0 .. MaxBlocks -> Nat]
    BY <2>1 DEF CHSP!IInv, CHSP!TypeOK, CHSP!Blk
  <2>3. QED
    BY <1>0, <2>2 DEF Height
<1>1. CASE MineAndPropagate
  <2>1. /\ mpPc = "mine" /\ round < Rewards
        /\ nBlk < MaxBlocks /\ nBlk' = nBlk + 1
        /\ hgt' = [hgt EXCEPT ![nBlk + 1] = hgt[head[Ref]] + 1]
        /\ head' = [head EXCEPT ![Ref] = nBlk + 1]
        /\ UNCHANGED <<mainPc, expHead, peerPc>>
    BY <1>1 DEF MineAndPropagate, CHS!Mine
  <2>2. \A n \in Node \ {Ref} : Height(n)' = Height(n)
    BY <1>0, <2>1 DEF LoopInv, Height
  <2>3. Height(Ref)' = Height(Ref) + 1 /\ Height(Ref) \in Nat
    BY <1>0, <2>1 DEF Height
  <2>4. /\ \A n \in Node : head'[n] <= nBlk'
        /\ expHead' <= nBlk'
        /\ hgt'[expHead'] = hgt[expHead]
    BY <1>0, <2>1 DEF LoopInv
  <2>5. /\ mainPc = "snapshot"
        /\ \A p \in Peers : peerPc[p] = "idle"
        /\ Height(Ref) >= round
    BY <1>0, <2>1 DEF LoopInv
  <2>6. /\ mpPc = "mine" /\ round < Rewards /\ round \in 0 .. Rewards
        /\ mainPc' = mainPc /\ peerPc' = peerPc
    BY <1>0, <2>1 DEF LoopInv
  <2>7. CASE Peers = {}
    <3>1. round' = round + 1 /\ mpPc' = "mine"
      BY <1>1, <2>7 DEF MineAndPropagate
    <3>2. QED
      BY <1>0, <2>3, <2>4, <2>5, <2>6, <2>7, <3>1 DEF LoopInv
  <2>8. CASE Peers # {}
    <3>1. round' = round /\ mpPc' = "check"
      BY <1>1, <2>8 DEF MineAndPropagate
    <3>2. QED
      BY <1>0, <2>3, <2>4, <2>5, <2>6, <3>1 DEF LoopInv
  <2>9. QED
    BY <2>7, <2>8
<1>2. CASE MineFails \/ CheckFailed \/ LoopDone
  BY <1>0, <1>2 DEF MineFails, CheckFailed, LoopDone, chsVars, LoopInv, Height
<1>3. CASE TestEnd
  BY <1>0, <1>3 DEF TestEnd, loopVars, LoopInv, Height
<1>4. CASE UNCHANGED vars
  BY <1>0, <1>4 DEF vars, LoopInv, Height
<1>5. CASE CheckStep
  <2>1. /\ mpPc = "check" /\ mpPc' = "check" /\ round' = round
        /\ UNCHANGED <<head, hgt, nBlk>>
        /\ Height(Ref) >= round + 1 /\ round < Rewards
    BY <1>0, <1>5 DEF CheckStep, loopVars, LoopInv, Height, CHS!Snapshot,
       CHS!Spawn, CHS!StartWaiter, CHS!ReceiveDone, CHS!Timeout, CHS!chainVars
  <2> DEFINE CheckOK ==
        /\ mainPc' # "snapshot"
        /\ expHead' <= nBlk
        /\ mainPc' \in {"spawn", "select", "success"} => hgt[expHead'] >= round + 1
        /\ \A p \in Peers : peerPc'[p] = "matched" => Height(p) >= hgt[expHead']
  <2>2. CheckOK => LoopInv'
    BY <1>0, <2>1 DEF LoopInv, Height
  <2>3. CASE CHS!Snapshot
    <3>1. \A p \in Peers : peerPc'[p] = "idle"
      BY <1>0, <2>1, <2>3 DEF CHS!Snapshot, LoopInv
    <3>2. QED
      BY <1>0, <2>1, <2>3, <3>1 DEF CHS!Snapshot, CHS!GetChainHead, LoopInv,
         Height
  <2>4. ASSUME NEW q \in Peers, CHS!Spawn(q) PROVE CheckOK
    BY <1>0, <2>1, <2>4 DEF CHS!Spawn, LoopInv, Height
  <2>5. CASE CHS!StartWaiter \/ CHS!ReceiveDone \/ CHS!Timeout
    BY <1>0, <2>1, <2>5 DEF CHS!StartWaiter, CHS!ReceiveDone, CHS!Timeout, LoopInv, Height
  <2>6. QED
    BY <1>5, <2>2, <2>3, <2>4, <2>5 DEF CheckStep
<1>6. CASE RoundEnd
  <2>1. /\ mpPc = "check" /\ mainPc = "success"
        /\ round' = round + 1 /\ mpPc' = "mine" /\ mainPc' = "snapshot"
        /\ peerPc' = [p \in Peers |-> "idle"]
        /\ UNCHANGED <<head, hgt, nBlk, expHead>>
    BY <1>6 DEF RoundEnd
  <2>5. \A p \in Peers : Height(p) >= round + 1
    BY <1>6, RoundEndSynced
  <2>6. QED
    BY <1>0, <2>1, <2>5 DEF LoopInv, Height
<1>7. CASE Background
  <2>1. /\ UNCHANGED <<hgt, nBlk, expHead, round, mpPc>>
        /\ (mpPc = "mine" => UNCHANGED <<mainPc, peerPc>>)
    BY <1>0, <1>7 DEF Background, loopVars, LoopInv, CHS!PollMatch,
       CHS!PollFail, CHS!WaiterWake, CHS!Propagate, CHS!GetChainHead,
       CHS!chainVars
  <2> DEFINE BackOK ==
        /\ \A n \in Node : head'[n] <= nBlk /\ Height(n)' >= Height(n)
        /\ mainPc' = mainPc
        /\ (\A p \in Peers : peerPc[p] = "idle") => peerPc' = peerPc
        /\ \A p \in Peers : peerPc'[p] = "matched"
                            => peerPc[p] = "matched" \/ Height(p)' >= hgt[expHead]
  <2>2. BackOK => LoopInv'
    BY <1>0, <1>0a, <2>1 DEF LoopInv
  <2>3. ASSUME NEW q \in Peers, CHS!PollMatch(q) PROVE BackOK
    <3>1. \A n \in Node : Height(n)' = Height(n)
      BY <2>3 DEF CHS!PollMatch, CHS!chainVars, Height
    <3>2. QED
      BY <1>0, <1>0a, <2>3, <3>1 DEF CHS!PollMatch, CHS!GetChainHead,
         CHS!chainVars, LoopInv, Height
  <2>4. ASSUME NEW q \in Peers, CHS!PollFail(q) PROVE BackOK
    BY <1>0, <2>4 DEF CHS!PollFail, CHS!chainVars, LoopInv, Height
  <2>5. ASSUME CHS!WaiterWake PROVE BackOK
    BY <1>0, <1>0a, <2>5 DEF CHS!WaiterWake, CHS!chainVars, LoopInv, Height
  <2>6. ASSUME NEW m \in Node, NEW n \in Node, CHS!Propagate(m, n)
        PROVE BackOK
    <3>1. ASSUME NEW x \in Node PROVE head'[x] <= nBlk /\ Height(x)' >= Height(x)
      <4>1. CASE x = m
        BY <1>0, <2>6, <4>1 DEF CHS!Propagate, LoopInv, Height
      <4>2. CASE x # m
        BY <1>0, <1>0a, <2>6, <4>2 DEF CHS!Propagate, LoopInv, Height
      <4>3. QED
        BY <4>1, <4>2
    <3>2. QED
      BY <2>6, <3>1 DEF CHS!Propagate
  <2>7. QED
    BY <1>7, <2>2, <2>3, <2>4, <2>5, <2>6 DEF Background
<1>9. QED
  BY <1>1, <1>2, <1>3, <1>4, <1>5, <1>6, <1>7 DEF Next

LEMMA NextFInv == FInv /\ [Next]_vars => FInv'
BY NextCheckIInv, NextLoopInv DEF FInv

-----------------------------------------------------------------------------
(* When MakeMoney returns, every peer's head is at least `rewards` high:   *)
(* each round's MustHaveChainHeadBy returned only after every poller saw   *)
(* the reference head taken after that round's block, and a daemon's head  *)
(* never loses height.  For every set of daemons and peers and every       *)
(* number of rewards within the blocks.                                    *)
THEOREM PeersFundedHolds == Spec => []PeersFunded
<1>1. FInv => PeersFunded
  BY DEF FInv, LoopInv, Height, PeersFunded
<1>2. QED
  BY <1>1, InitFInv, NextFInv, PTL DEF Spec

(* Each round of MakeMoney ends with the peers caught up with its block:   *)
(* the loop index advances only when every peer's head is at least as      *)
(* high as the number of rounds done, for every set of peers and rewards.  *)
THEOREM RoundsPropagatedHolds == Spec => RoundsPropagated
<1>1. FInv /\ [Next]_vars
        => [round' = round + 1 => \A p \in Peers : hgt'[head'[p]] >= round + 1]_vars
  <2> SUFFICES ASSUME FInv, [Next]_vars, round' = round + 1, NEW p \in Peers
               PROVE  hgt'[head'[p]] >= round + 1
    OBVIOUS
  <2>1. round \in Nat
    BY RewardsAssumption DEF FInv, LoopInv
  <2>2. CASE RoundEnd
    BY <2>2, RoundEndSynced DEF RoundEnd, Height
  <2>3. CASE MineAndPropagate
    <3>1. Peers = {}
      BY <2>1, <2>3 DEF MineAndPropagate
    <3>2. QED
      BY <3>1
  <2>4. CASE ~RoundEnd /\ ~MineAndPropagate
    <3>1. round' = round
      BY <2>4 DEF Next, MineFails, CheckStep, CheckFailed, LoopDone, TestEnd,
         Background, loopVars, vars
    <3>2. QED
      BY <2>1, <3>1
  <2>5. QED
    BY <2>2, <2>3, <2>4
<1>2. QED
  BY <1>1, InitFInv, NextFInv, PTL DEF Spec, RoundsPropagated
=============================================================================
