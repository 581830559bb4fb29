---------------------------- MODULE MinerCreate ----------------------------
(***************************************************************************)
(* TestDaemon.CreateMinerAddr (src/testhelpers/commands.go 369-393).       *)
(*                                                                         *)
(* The test goroutine mines once (funds), does wg.Add(1) and starts a      *)
(* goroutine that runs `miner create`; that command puts its message into  *)
(* the daemon's message pool and blocks until the message is mined, then   *)
(* prints the new address, which the goroutine parses, checks with        *)
(* require, stores in minerAddr and signals with wg.Done().  Meanwhile the *)
(* test goroutine runs `mpool --wait-for-count=1`, which returns once the  *)
(* pool holds a message, mines once, and waits on the WaitGroup.           *)
(*                                                                         *)
(* Every command runs through RunSuccess: a failed command calls           *)
(* t.FailNow, which on the test goroutine ends the test and on the other   *)
(* goroutine only ends that goroutine (runtime.Goexit), or panics once the *)
(* test has completed.  A command blocked past cmdTimeout fails.  Other    *)
(* nodes' messages may reach the pool at any time (gossip, outside src/).  *)
(***************************************************************************)
EXTENDS Naturals

CONSTANT MaxForeign   \* messages from other nodes that reach the pool

ASSUME MaxForeignAssumption == MaxForeign \in Nat

VARIABLES
  mainPc,     \* the test goroutine in CreateMinerAddr
  gPc,        \* the goroutine running `miner create`
  wg,         \* the WaitGroup counter
  minerAddr,  \* "zero" (types.Address{}) or "addr", the created miner
  createMsg,  \* the create message: "none", "pending" in the pool, "mined"
  foreign,    \* other nodes' messages pending in the pool
  arrived,    \* other nodes' messages that have arrived so far
  testState   \* "running", or "completed" once the test function returned

vars == <<mainPc, gPc, wg, minerAddr, createMsg, foreign, arrived, testState>>

MainStates == {"fund", "spawn", "poolWait", "mine", "wait", "returned", "aborted"}
(* send: `miner create` running; await: its message pending, the command   *)
(* waiting for it to be mined; parse: the command returned the address;    *)
(* assign: the checks passed; signal: minerAddr stored; done: wg.Done()    *)
(* called; exited/panicked: a FailNow while the test runs / after it       *)
(* completed.                                                              *)
GStates ==
  {"idle", "send", "await", "parse", "assign", "signal", "done", "exited", "panicked"}

Init ==
  /\ mainPc = "fund"
  /\ gPc = "idle"
  /\ wg = 0
  /\ minerAddr = "zero"
  /\ createMsg = "none"
  /\ foreign = 0
  /\ arrived = 0
  /\ testState = "running"

(* `mining once`: the block includes every pending message. *)
MinePool ==
  /\ createMsg' = IF createMsg = "pending" THEN "mined" ELSE createMsg
  /\ foreign' = 0

(* FailNow on the goroutine: Goexit, or a panic on a completed test. *)
GoroutineFails ==
  gPc' = IF testState = "completed" THEN "panicked" ELSE "exited"

-----------------------------------------------------------------------------
(* The test goroutine.                                                     *)

(* td.RunSuccess("mining", "once") before anything else ("need money"). *)
Fund ==
  /\ mainPc = "fund"
  /\ MinePool
  /\ mainPc' = "spawn"
  /\ UNCHANGED <<gPc, wg, minerAddr, arrived, testState>>

(* Mutant: wg.Add(1) is also called inside the goroutine. *)
SpawnAddTwice ==
  /\ mainPc = "spawn"
  /\ wg' = wg + 2
  /\ gPc' = "send"
  /\ mainPc' = "poolWait"
  /\ UNCHANGED <<minerAddr, createMsg, foreign, arrived, testState>>

(* wg.Add(1); go func() {...}(). *)
Spawn ==
  /\ mainPc = "spawn"
  /\ wg' = wg + 1
  /\ gPc' = "send"
  /\ mainPc' = "poolWait"
  /\ UNCHANGED <<minerAddr, createMsg, foreign, arrived, testState>>

(* td.RunSuccess("mpool --wait-for-count=1") returns once the pool holds   *)
(* a message, whichever message it is.                                     *)
PoolWait ==
  /\ mainPc = "poolWait"
  /\ createMsg = "pending" \/ foreign > 0
  /\ mainPc' = "mine"
  /\ UNCHANGED <<gPc, wg, minerAddr, createMsg, foreign, arrived, testState>>

(* td.RunSuccess("mining", "once"): mines the pending messages. *)
MineOnce ==
  /\ mainPc = "mine"
  /\ MinePool
  /\ mainPc' = "wait"
  /\ UNCHANGED <<gPc, wg, minerAddr, arrived, testState>>

(* A RunSuccess of the test goroutine fails (its command errs, or the pool *)
(* wait reaches cmdTimeout): FailNow ends the test goroutine.              *)
MainFails ==
  /\ \/ mainPc \in {"fund", "mine"}
     \/ mainPc = "poolWait" /\ createMsg # "pending" /\ foreign = 0
  /\ mainPc' = "aborted"
  /\ UNCHANGED <<gPc, wg, minerAddr, createMsg, foreign, arrived, testState>>

(* wg.Wait(); return minerAddr. *)
WaitReturn ==
  /\ mainPc = "wait"
  /\ wg = 0
  /\ mainPc' = "returned"
  /\ UNCHANGED <<gPc, wg, minerAddr, createMsg, foreign, arrived, testState>>

(* The test function returns after CreateMinerAddr returned or failed it. *)
TestEnd ==
  /\ mainPc \in {"returned", "aborted"}
  /\ testState = "running"
  /\ testState' = "completed"
  /\ UNCHANGED <<mainPc, gPc, wg, minerAddr, createMsg, foreign, arrived>>

-----------------------------------------------------------------------------
(* The goroutine.                                                          *)

(* `miner create` reaches the daemon, which puts the message in its pool. *)
SendCreate ==
  /\ gPc = "send"
  /\ createMsg' = "pending"
  /\ gPc' = "await"
  /\ UNCHANGED <<mainPc, wg, minerAddr, foreign, arrived, testState>>

(* The message is mined: `miner create` prints the new address. *)
Included ==
  /\ gPc = "await"
  /\ createMsg = "mined"
  /\ gPc' = "parse"
  /\ UNCHANGED <<mainPc, wg, minerAddr, createMsg, foreign, arrived, testState>>

(* NewAddressFromString succeeds and require.NotEqual passes. *)
Parse ==
  /\ gPc = "parse"
  /\ gPc' = "assign"
  /\ UNCHANGED <<mainPc, wg, minerAddr, createMsg, foreign, arrived, testState>>

(* The goroutine's RunSuccess or one of its require checks fails: the      *)
(* command errs, its message is never mined before cmdTimeout, or the      *)
(* output is no address.  wg.Done() is not reached.                        *)
CreateFails ==
  /\ \/ gPc \in {"send", "parse"}
     \/ gPc = "await" /\ createMsg = "pending"
  /\ GoroutineFails
  /\ UNCHANGED <<mainPc, wg, minerAddr, createMsg, foreign, arrived, testState>>

(* Mutant: wg.Done() before minerAddr = addr. *)
AssignAfterDone ==
  /\ gPc = "assign"
  /\ wg' = wg - 1
  /\ gPc' = "done"
  /\ UNCHANGED <<mainPc, minerAddr, createMsg, foreign, arrived, testState>>

(* minerAddr = addr. *)
Assign ==
  /\ gPc = "assign"
  /\ minerAddr' = "addr"
  /\ gPc' = "signal"
  /\ UNCHANGED <<mainPc, wg, createMsg, foreign, arrived, testState>>

(* Mutant: the goroutine returns without wg.Done(). *)
SignalForgotten ==
  /\ gPc = "signal"
  /\ gPc' = "done"
  /\ UNCHANGED <<mainPc, wg, minerAddr, createMsg, foreign, arrived, testState>>

(* wg.Done(). *)
Signal ==
  /\ gPc = "signal"
  /\ wg' = wg - 1
  /\ gPc' = "done"
  /\ UNCHANGED <<mainPc, minerAddr, createMsg, foreign, arrived, testState>>

-----------------------------------------------------------------------------
(* Another node's message reaches this daemon's pool. *)
ForeignArrives ==
  /\ arrived < MaxForeign
  /\ arrived' = arrived + 1
  /\ foreign' = foreign + 1
  /\ UNCHANGED <<mainPc, gPc, wg, minerAddr, createMsg, testState>>

Next ==
  \/ Fund \/ Spawn \/ PoolWait \/ MineOnce \/ MainFails \/ WaitReturn \/ TestEnd
  \/ SendCreate \/ Included \/ Parse \/ CreateFails \/ Assign \/ Signal
  \/ ForeignArrives

(* Both goroutines are scheduled; a command that cannot succeed reaches    *)
(* its timeout.  Failures of commands that can succeed are not forced.     *)
Fairness ==
  /\ WF_vars(Fund) /\ WF_vars(Spawn) /\ WF_vars(PoolWait) /\ WF_vars(MineOnce)
  /\ WF_vars(WaitReturn)
  /\ WF_vars(SendCreate) /\ WF_vars(Included) /\ WF_vars(Parse)
  /\ WF_vars(Assign) /\ WF_vars(Signal)
  /\ WF_vars(mainPc = "poolWait" /\ MainFails)
  /\ WF_vars(gPc = "await" /\ CreateFails)

Spec == Init /\ [][Next]_vars /\ Fairness

-----------------------------------------------------------------------------
(* Properties.                                                             *)

TypeOK ==
  /\ mainPc \in MainStates
  /\ gPc \in GStates
  /\ wg \in {0, 1}
  /\ minerAddr \in {"zero", "addr"}
  /\ createMsg \in {"none", "pending", "mined"}
  /\ foreign \in 0 .. MaxForeign
  /\ arrived \in 0 .. MaxForeign
  /\ testState \in {"running", "completed"}

(* CreateMinerAddr never returns the zero address: the WaitGroup orders    *)
(* the goroutine's write of minerAddr before the test goroutine's read.   *)
ReturnsCreatedMiner ==
  mainPc = "returned" => minerAddr = "addr"

(* Once the goroutine has called wg.Done(), CreateMinerAddr returns (or    *)
(* has already failed the test): nothing else keeps wg.Wait() blocked.     *)
DoneReleasesWait ==
  (gPc = "done") ~> (mainPc \in {"returned", "aborted"})

(* Spec 7: the pool wait is a barrier: `mining once` runs only while the   *)
(* create message is pending, so the block includes it.                    *)
MineAfterCreatePending ==
  [][mainPc = "mine" /\ mainPc' = "wait" => createMsg = "pending"]_vars

(* Every call of CreateMinerAddr ends: it returns or fails the test.       *)
CreateMinerAddrEnds ==
  <>(mainPc \in {"returned", "aborted"})

=============================================================================
