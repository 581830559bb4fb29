----------------------------- MODULE HeadCheck -----------------------------
(***************************************************************************)
(* What the convergence coordinator promises (spec 4.4), independent of    *)
(* goroutines and WaitGroups: the check takes the reference head once,     *)
(* observes peers reporting that head, and ends either in success, only    *)
(* when every peer has been observed on the snapshot, or in failure        *)
(* (timeout or a failed command).  Peers may still be observed after a     *)
(* failure: the spec lets poll tasks outlive the check.  The daemons'      *)
(* chains evolve as in ChainHeadSync.                                      *)
(***************************************************************************)
EXTENDS Naturals

CONSTANTS Node, Ref, Peers, MaxBlocks

VARIABLES
  head, hgt, nBlk, \* the daemons' chains
  snap,            \* the reference head the check compares with
  seen,            \* peers observed reporting snap
  phase            \* "init", "checking", "success" or "failed"

avars == <<head, hgt, nBlk, snap, seen, phase>>

Init ==
  /\ head = [n \in Node |-> 0]
  /\ hgt = [b \in 0 .. MaxBlocks |-> 0]
  /\ nBlk = 0
  /\ snap = 0
  /\ seen = {}
  /\ phase = "init"

ChainStep ==
  /\ \/ \E n \in Node :
          /\ nBlk < MaxBlocks
          /\ nBlk' = nBlk + 1
          /\ hgt' = [hgt EXCEPT ![nBlk + 1] = hgt[head[n]] + 1]
          /\ head' = [head EXCEPT ![n] = nBlk + 1]
     \/ \E m, n \in Node :
          /\ hgt[head[n]] > hgt[head[m]]
          /\ head' = [head EXCEPT ![m] = head[n]]
          /\ UNCHANGED <<hgt, nBlk>>
  /\ UNCHANGED <<snap, seen, phase>>

TakeSnapshot ==
  /\ phase = "init"
  /\ snap' = head[Ref]
  /\ phase' = "checking"
  /\ UNCHANGED <<head, hgt, nBlk, seen>>

Observe(p) ==
  /\ phase # "init"
  /\ p \notin seen
  /\ head[p] = snap
  /\ seen' = seen \cup {p}
  /\ UNCHANGED <<head, hgt, nBlk, snap, phase>>

Succeed ==
  /\ phase = "checking"
  /\ seen = Peers
  /\ phase' = "success"
  /\ UNCHANGED <<head, hgt, nBlk, snap, seen>>

Fail ==
  /\ phase \in {"init", "checking"}
  /\ phase' = "failed"
  /\ UNCHANGED <<head, hgt, nBlk, snap, seen>>

Next ==
  \/ ChainStep
  \/ TakeSnapshot
  \/ \E p \in Peers : Observe(p)
  \/ Succeed
  \/ Fail

SafetySpec == Init /\ [][Next]_avars

(* The check does not hang: it ends in success or failure. *)
Spec == SafetySpec /\ WF_avars(Fail)

=============================================================================
