# TLA+ models of the go-filecoin test harness

This project models `src/testhelpers/commands.go`. That file is the harness the
go-filecoin integration tests use to run `go-filecoin` processes:

- one-shot CLI commands (`RunWithStdin` and the `Assert*` helpers);
- long-lived daemons (`NewDaemon`, `Start`, `WaitForAPI`, the shutdown calls);
- the check that several daemons agree on their chain head (`MustHaveChainHeadBy`).

The rest of the sources (`src/unnamed/part_000`) is the wallet `Backend`
interface. It has no implementation, so it is not modelled.

## Parts of the system and how they interact

| Part (spec name) | Code | Module | Status |
|---|---|---|---|
| Command Executor | `RunWithStdin` 142-204, `AssertSuccess` 213-226, `AssertFail` 237-244 | `CommandExec`, `CommandExecProofs`, `CommandRun` (abstract) | partly |
| Liveness Prober | `WaitForAPI` 354-363, `tryAPICheck` 553-572 | `Daemon` | modelled |
| Node Supervisor | `NewDaemon` 624-706, `Start` 305-317, `Shutdown*` 320-350, `ReadStderr` 294-302 | `Daemon`, `DaemonProofs` | partly |
| Convergence Coordinator | `MustHaveChainHeadBy` 438-478, `GetChainHead` 481-501 | `ChainHeadSync`, `ChainHeadSyncProofs`, `HeadCheck` (abstract) | modelled |
| Scenario Helpers | `CreateMinerAddr` 369-393, `MineAndPropagate` 426-434, `MakeMoney` 504-508 | `MinerCreate`, `MinerCreateProofs`, `MakeMoney`, `MakeMoneyProofs` | partly (`MakeDeal`, `ConnectSuccess` and the getters are not) |
| Init runner | `RunInit`, `RunCommand` 709-722 | — | not modelled |
| Wallet backend | `src/unnamed/part_000` | — | not modelled (interface only) |

How the parts interact:

- Every daemon command goes through the Command Executor: `RunSuccess` calls
  `RunWithStdin` and then `AssertSuccess`.
- `Start` runs the Liveness Prober and then imports keys with commands.
- The Convergence Coordinator polls each peer with a command
  (`GetChainHead` → `RunSuccess("chain","ls")`).
- A command that fails calls `require`'s `t.FailNow`. This ends the goroutine
  that made the call: on the test goroutine it ends the test; on a helper
  goroutine it ends only that goroutine. If the test has already completed,
  the testing package panics instead.

## Modules

### ChainHeadSync: MustHaveChainHeadBy

**State.**

- `head`, `hgt` and `nBlk`: the daemons' chains, abstracted to tipset numbers
  with heights.
- `mainPc`: the test goroutine.
- `expHead`: the snapshot `expHeadBlks` of the reference head.
- `wg`: the WaitGroup counter.
- `peerPc[p]`: the poller goroutine of each peer.
- `waiterPc`: the goroutine doing `wg.Wait(); done <- struct{}{}`.
- `testState`: whether the test function has returned.

**Actions.** Each is one step of the code:

- `Snapshot`: the first `GetChainHead`, which either succeeds or aborts the test.
- `Spawn(p)`: `wg.Add(1); go func`.
- `StartWaiter`: starts the waiter goroutine and enters the `select`.
- `ReceiveDone` and `Timeout`: the two cases of the `select`.
- `PollMatch(p)`: `Equals`, then `wg.Done(); return`. A poll that does not
  match sleeps and changes nothing, so it is a stutter.
- `PollFail(p)`: a failed `GetChainHead` in a poller. It is Goexit without
  `wg.Done`, or a panic once the test has completed.
- `WaiterWake`: `wg.Wait` returns and the waiter blocks on the unbuffered send.
- `Mine`, `Propagate` and `TestEnd` are the environment. Mining and block
  propagation happen inside the daemon, outside `src/`. The test returns
  through test code. These three are modelled from the spec.

### CommandExec: RunWithStdin, AssertSuccess, AssertFail

**The child.** It is a script of chunks:

- `out` goes to stdout;
- `log` goes to stderr;
- `marker` is a stderr line containing CRITICAL, ERROR or WARNING.

The script may end in an exit with code 0, an exit with code 1, or a hang.
The child writes into two pipes of capacity `PipeCap` and blocks when a pipe
is full.

**The harness.**

- `Start`: `cmd.Start`.
- `ReadErr` and `ErrEOF`: `ioutil.ReadAll(stderr)` runs first.
- `ReadOut` and `OutEOF`: then `ioutil.ReadAll(stdout)`.
- `Wait`: `cmd.Wait`, then the error switch of lines 187-201. `ctx.Err()` is
  read after `Wait`.
- `Expire`: the deadline of `context.WithTimeout`. `CommandContext` kills the
  running child and closes both pipes.
- `AssertSuccess` and `AssertFail`: the assertions as predicates on the
  resulting `Output`.

Two history variables record what the child wrote: `writtenOut` counts its
stdout chunks and `writtenErr` is the sequence of its stderr chunks. Only
`ChildWrite` changes them. They are not state of the program; they let
`OutputPreserved` compare the `Output` with what the child wrote without a
recursive definition over the script.

Argument splitting, stdin content and logging are left out. They are data and
do not change the control flow.

### Daemon: one TestDaemon's lifecycle

**State.**

- `hasRepoDir`: whether `td.repoDir` is non-empty.
- `tdPc`: the test goroutine.
- `proc`: the daemon process, which can be `none`, `booting`, `up`, `stuck`
  or `exited`.
- `tries`: WaitForAPI's loop index.
- `imported`: key files imported so far.
- `cmds`: commands the test has run.
- `logBuf`: lines in the never-drained stderr pipe.
- `repo`: the repo directory.
- `signal`: the signal a shutdown call sent.
- `shPc`: the shutdown call in progress.

**Harness actions.**

- `NewDaemon`.
- `StartProcess`.
- `ProbeAPI`: one loop iteration of `WaitForAPI`. `Serving` models
  `tryAPICheck`.
- `ImportKey` and `StartDone`: the rest of `Start`.
- `TestCommand`: commands issued by the test.
- `Shutdown`.
- `ShutdownSignal(kind)`: `ShutdownSuccess` or `ShutdownEasy`.
- `ReadStderrChunk` and `ReadStderrEOF`: `ReadStderr`.

**Daemon actions.** `DaemonBoot`, `DaemonUnblock`, `DaemonCrash` and
`DaemonTerminate` model the daemon itself, from the spec. A log write to a
full pipe makes the daemon `stuck`.

### HeadCheck: what the convergence check promises

`HeadCheck` is an abstract specification, written from spec section 6 rather
than from code. It keeps the chain (`head`, `hgt`, `nBlk`, changed by
`ChainStep`) and three abstract variables:

- `snap`: the reference head taken as the target;
- `seen`: the peers observed at that head;
- `phase`: `init`, `checking`, `success` or `failed`.

`TakeSnapshot` fixes the target, `Observe(p)` records a peer seen at it,
`Succeed` needs every peer seen, and `Fail` may end the check at any time
before success. `Spec` adds weak fairness of `Fail`: the check ends.

`ChainHeadSync` implements it under the refinement mapping

    snap <- expHead,  seen <- Matched,  phase <- CheckPhase

where `Matched` is the set of pollers that returned on a match and
`CheckPhase` maps the test goroutine's `mainPc` to the abstract phase.
`ImplementsHeadCheck == HC!Spec` is the property checked.

### CommandRun: what the command executor promises

`CommandRun` is an abstract specification, written from the spec's Command
Executor contract and its properties rather than from code. Its variables:

- `outWritten` and `errWritten`: what the child wrote to each stream;
- `fate`: `running`, `ok` (exit 0), `failed` (non-zero exit) or `killed`;
- `call`: `pending`, `returned` or `aborted`;
- `output`: the returned `Output` (code, error, stdout, stderr).

`Write` and `End` are the child. `Return` hands back everything written,
code 0 exactly for `ok`, and an error from `ErrorsOf(fate)`: none for `ok`,
the deadline error for `killed`, either for `failed` (the deadline may pass
between the exit and `Wait`; the run `cmd_deadline_race` shows that this
happens). `Abort` is a spawn failure before the child wrote anything.
`Spec` adds weak fairness of `End` and `Return`: the call does not hang.

`CommandExec` implements it under the mapping

    outWritten <- writtenOut,  errWritten <- writtenErr,
    fate <- Fate,  call <- Call,  output <- ReturnedOutput

where `Fate` reads the child's state and exit status, `Call` the harness's
phase, and `ReturnedOutput` is the `Output` once `Wait` returned.

### MinerCreate: CreateMinerAddr

**State.** `mainPc` (the test goroutine), `gPc` (the goroutine running
`miner create`), `wg`, `minerAddr` (`zero` or `addr`), `createMsg` (`none`,
`pending`, `mined`), `foreign` and `arrived` (other nodes' messages in the
pool and so far), `testState`.

**Actions.** `Fund` (the first `mining once`), `Spawn` (`wg.Add(1)` and
`go`), `PoolWait` (`mpool --wait-for-count=1`, enabled by any pending
message), `MineOnce`, `WaitReturn` (`wg.Wait`, `return minerAddr`),
`MainFails` (a `RunSuccess` of the test goroutine fails); for the goroutine
`SendCreate`, `Included` (the command returns once its message is mined),
`Parse`, `Assign`, `Signal` (`wg.Done`) and `CreateFails` (the goroutine's
`RunSuccess` or `require` fails: `Goexit`, or a panic once the test
completed). `ForeignArrives` is the environment.

### MakeMoney: MakeMoney and MineAndPropagate

Composes `ChainHeadSync` (as `CHS == INSTANCE ChainHeadSync`) with the loop
of `MakeMoney`. `round` is the loop index and `mpPc` where the loop is.
`MineAndPropagate` is `CHS!Mine(Ref)` followed by the check (or the next
round when there are no peers). `CheckStep` is a step of the test goroutine
of `MustHaveChainHeadBy`. `RoundEnd` starts the next round with fresh
goroutines, `CheckFailed` and `MineFails` end it by failing the test,
`LoopDone` returns, and `Background` are the pollers, the waiter and block
propagation.

## Runs

### chs_safety (pass)

Three daemons: a reference and two peers. Up to 3 mined tipsets.

Invariants:

- `TypeOK`.
- `WaitGroupAccounting`: `wg` equals the number of pollers that called
  `wg.Add` and not `wg.Done`.
- `SyncedOnSuccess`: when the check returns normally, every peer has matched
  the snapshot.

Liveness:

- `CheckEnds`: the check always returns or fails.

Refinement:

- `ImplementsHeadCheck`: every behaviour of `MustHaveChainHeadBy` is a
  behaviour of the abstract `HeadCheck` under the mapping, including its
  liveness (the check ends).

Two peers are enough for pollers to interleave with each other and with the
spawn loop. Three blocks let heads move both before and after the snapshot,
and let a peer overtake the snapshot so that it never matches. The run
reaches 17928 states.

### chs_leaked_pollers (violation)

TLC finds the following trace:

1. The check times out.
2. The test returns.
3. A poller still running makes a failing `GetChainHead` on the completed test.

The testing package panics. The spec calls leaked pollers harmless.

### cmd_exec (pass)

Every script of up to 3 chunks, with each of the three endings. Pipes of
capacity 1.

Properties:

- `OutputPreserved`: the captured stdout and stderr equal what the child wrote.
  This includes children killed by the deadline.
- `ResultClassification`: the code is 0 exactly on a clean exit. The deadline
  error appears only when the context expired.
- `CleanExitPassesAssertSuccess`.
- `CommandReturns`: the call always returns, because the deadline kills a hung
  or blocked child.
- `ImplementsCommandRun`: every behaviour is a behaviour of the executor
  contract `CommandRun` under the mapping, fairness included.

With capacity 1, a second chunk on the same stream already fills the pipe.
Three chunks are enough for one stream to block while the other still has
output to give.

### cmd_pipe_stall (violation)

Property: `NoMutualWait`. The child is blocked on a full stdout pipe while the
harness blocks on stderr. The two wait on each other until the deadline.

### cmd_deadline_race (violation)

Property: `FailedExitPassesAssertFail`. The child exits with code 1 on its
own. The deadline passes before `ctx.Err()` is read, and the result carries
the deadline error.

### daemon_lifecycle (pass)

Bounds:

- `MaxTries` = 3, against 100 in the code;
- 2 key files;
- a pipe of 3 lines;
- 2 test commands.

Properties:

- `StartReturns`.
- `ShutdownReturns`. It assumes `DaemonTerminate` is weakly fair: a
  signalled daemon exits. That is exactly what the code relies on without a
  timeout (hazard at 337), so the run shows only that the signal is sent
  before `ReadStderr` reads to EOF, not that a daemon which ignores the
  signal lets the call return.

These bounds let the pipe fill before and after `Start` returns. They also let
`WaitForAPI` both succeed after a retry and exhaust its tries.

### daemon_log_stall (violation)

Property: `NoLogStall`. The daemon blocks on its undrained stderr pipe.

### daemon_repo_leak (violation)

Property: `RepoDeletedAfterTermination` (spec 4.3: terminate, then delete
the repo). `Shutdown` removes the repo right after `SIGTERM`, while the daemon
is still booting or serving: this is the trace TLC reports. `ShutdownSuccess`
and `ShutdownEasy` wait for the exit but leave the repo in place, the other
way to break the property.

### miner_create (pass)

`MaxForeign = 2`. Properties `TypeOK`, `ReturnsCreatedMiner` (the WaitGroup
orders the write of `minerAddr` before the return) and `DoneReleasesWait`
(once `wg.Done` ran, `CreateMinerAddr` returns).

### miner_create_barrier (violation)

Property `MineAfterCreatePending` (spec 7: the pool wait is a barrier). With
one foreign message, `PoolWait` returns before `miner create` reached the
pool and `MineOnce` mines a block without the create message.

### miner_create_hang (violation)

Property `CreateMinerAddrEnds`. The goroutine's `require` fails, `Goexit`
skips `wg.Done`, and the test goroutine waits in `wg.Wait` forever.

### make_money (pass)

Two rounds, two peers, `MaxBlocks = 2`. `PeersFunded`: when `MakeMoney`
returns every peer is at height `Rewards` or more. `RoundsPropagated`, an
action property: a step that advances the loop index leaves every peer at
least as high as the rounds done, so no round moves on before its check saw
the peers catch up. `MakeMoneyEnds`: the loop always ends, even when a peer
never converges. The make_money configuration also declares the assumptions
`ChainHeadSync` needs (`DaemonsAssumption`, `BlocksAssumption`), so TLC
evaluates them.

### Mutants

Each property of a passing run has a mutant, defined in its module just before
the action it replaces, and TLC finds that property violated when the mutant
is used. The mutants:

- `Spawn` without `wg.Add`.
- A poller that returns without `wg.Done`.
- `defer wg.Done()`, which also counts down failed polls.
- A `select` without `time.After`.
- `ReadAll` that loses data.
- stdout EOF taken early.
- The exit code classified from the exit status alone.
- `ctx.Err()` checked before the exit status.
- A deadline that does not kill.
- `WaitForAPI` with an off-by-one bound.
- `WaitForAPI` with no bound.
- `ReadStderr` called before the signal is sent.
- A poller that matches whatever head the peer has (`PollMatchAnyHead`),
  which breaks the refinement.
- `wg.Add` done twice (`SpawnAddTwice`).
- `wg.Done` before the write of `minerAddr` (`AssignAfterDone`).
- A goroutine that forgets `wg.Done` (`SignalForgotten`).
- `MakeMoney` calling `MineAndPropagate` without passing `peers...`, so
  every round takes the short circuit and no check runs
  (`MineAndPropagateNoPeers`). A round that does not advance the loop
  index (`RoundEndNoAdvance`).

## Fairness

**ChainHeadSync.**

- The test goroutine and the waiter are weakly fair. The Go scheduler runs
  runnable goroutines.
- `Timeout` is weakly fair. `time.After` fires.
- Pollers are not fair toward a match. A peer may never converge, and the
  check must still end through its timer.

**CommandExec.** Every step is weakly fair. The child runs, the harness runs,
and the deadline eventually expires.

**Daemon.**

- Weak fairness covers the harness steps of `Start` and `ReadStderr`, the
  daemon's boot and unblock steps, and its exit on a signal.
- The test is not obliged to run commands or to shut the daemon down.
- `DaemonCrash` is not fair. Crashing is possible, not required.

**MinerCreate.** Both goroutines are weakly fair on their successful
steps. A command that cannot succeed (the pool wait with an empty pool, a
`miner create` whose message stays pending) is weakly fair toward failing:
`RunWithStdin`'s deadline fires. Failures of commands that can succeed are
not fair: they may happen, they are not forced.

**MakeMoney.** The loop, the test goroutine of the check and the waiter are
weakly fair, as in `ChainHeadSync`. `MineFails` is not fair, so the loop is
not forced to abort.

All runs say `CHECK_DEADLOCK FALSE`. The test, the command and the shutdown
all end, and a finished harness really stops.

## Proofs (TLAPS)

`ChainHeadSyncProofs` proves the following for every finite set of daemons and
peers and every `MaxBlocks`:

- `TypeCorrect`: `Spec => []TypeOK`.
- `WaitGroupAccounted`: `Spec => []WaitGroupAccounting`.
- `SyncedOnSuccessHolds`: `Spec => []SyncedOnSuccess`.

The proofs assume only `NodeAssumption` (finite `Node`, with `Ref` and `Peers`
inside it) and `MaxBlocksAssumption`.

### Why a strengthening is needed

`SyncedOnSuccess` is not inductive. A state where `mainPc = "success"` is
reached by `ReceiveDone`, and only the history says that `wg` was 0 then.

The proofs therefore use an inductive invariant, `IInv`, made of four parts:

- `TypeOK`.
- `WaitGroupAccounting`.
- `WaiterAfterSpawn`: the waiter exists only after the spawn loop, with no idle
  peer left. `mainPc = "select"` implies the waiter exists.
- `DoneAfterZero`: a waiter that is sending or has sent saw `wg = 0`, and
  `success` implies the waiter has sent.

### Argument

With `WaitGroupAccounting`, `wg = 0` means no poller is outstanding. With no
idle peer, every peer is then `matched`.

`WaitGroupAccounting` is preserved as follows:

- `Spawn` adds an idle peer to `Outstanding`, by `FS_AddElement`.
- `PollMatch` removes one, by `FS_RemoveElement`.
- `PollFail` moves a peer between outstanding states.

`NextIInv` has one step per action. `IInv` was checked with TLC as an
invariant of the `chs_safety` configuration before it was proved.

### The refinement

`ChainHeadSyncProofs` also proves `RefinesHeadCheck`:
`Spec => HC!SafetySpec`, the safety part of `HeadCheck` under the mapping.

- `InitRefines`: the initial state maps to `HC!Init`.
- `NextRefines`: from `IInv /\ SnapshotOrder`, every step maps to a
  `HeadCheck` step or a stutter. `Mine` and `Propagate` are `ChainStep`;
  `Snapshot` is `TakeSnapshot` (or `Fail` when `GetChainHead` fails);
  `PollMatch(p)` is `Observe(p)`; `ReceiveDone` is `Succeed`, because with
  `wg = 0` no poller is outstanding and `Matched = Peers`; `Timeout` is
  `Fail`; every other step leaves the mapped variables unchanged.
- `SnapshotOrder` (all pollers idle before the snapshot) is an extra
  invariant, proved first: it makes `Matched` empty when `TakeSnapshot` runs.

### CommandExec

`CommandExecProofs` proves the following for every `PipeCap` > 0 and
`MaxScript`:

- `ResultClassified`: `Spec => []ResultClassification`. It is strengthened
  by `RInv`: the code and error keep their zero values until `Wait`, only
  the deadline kills the child (so a kill implies the context expired),
  `Wait` runs only once the child is gone, and a child that exited 0 by
  itself leaves the error at `none`.
- `CommandExecTypeCorrect`: `Spec => []TypeOK`, in particular the pipes
  never hold more than `PipeCap` chunks.
- `OutputPreservedHolds`: `Spec => []OutputPreserved`. Its strengthening
  `OInv` is a conservation law: what the harness read plus what is still in
  the pipe is what the child wrote (`outCap + outBuf = writtenOut`,
  `errCap \o errBuf = writtenErr`), and once stderr (stdout) reached EOF its
  pipe is empty and the child is gone. `ReadErr` moves the head of the pipe
  to the end of the captured sequence (lemma `ConcatMoveHead`); a child
  write appends to both the pipe and the history (lemma `ConcatAppend`).
- `CleanExitPasses`: `Spec => []CleanExitPassesAssertSuccess`, from `RInv`
  (a clean exit leaves code 0 and no error) and `OutputPreservedHolds` (the
  captured stderr is what the child wrote, so it holds no marker).
- `RefinesCommandRun`: `Spec => CR!SafetySpec`. `InitRefinesRun` maps the
  initial state; `NextRefinesRun` maps each step, from `OInv`, `RInv` and a
  third invariant `SInv` (the child runs only while stderr is drained, and
  writes nothing before `cmd.Start`). `ChildWrite` is `Write`; `ChildExit`,
  and `Expire` on a running child, are `End`; `Start` failing is `Abort`,
  which needs `SInv`'s "nothing written yet"; `Wait` is `Return`, whose
  output equals what was written by `OInv` and whose code and error are
  allowed by `RInv`; the reads and `Start` succeeding are stutters.

### Daemon

`DaemonProofs.DaemonTypeCorrect`: `TypeOK` is inductive by itself. Every
counter (`tries`, `imported`, `cmds`, `logBuf`) is advanced only under the
guard that keeps it within its bound.

### MinerCreate

`MinerCreateProofs` proves `MinerCreateTypeCorrect` (`Spec => []TypeOK`) and
`CreatedMinerReturned` (`Spec => []ReturnsCreatedMiner`) for every
`MaxForeign`. `ReturnsCreatedMiner` is not inductive: `WaitReturn` needs
only `wg = 0`. The strengthening `IInv` ties the WaitGroup to the goroutine:
`wg` is 1 exactly while the goroutine is between `wg.Add(1)` and `wg.Done()`
(and forever once it exited by `FailNow`), the goroutine exists exactly once
the test goroutine is past the spawn, `minerAddr` is set once the goroutine
reaches `wg.Done()`, and a returned call has seen that `wg.Done()`.

### MakeMoney

`MakeMoneyProofs` proves `PeersFundedHolds` (`Spec => []PeersFunded`) and
`RoundsPropagatedHolds` (`Spec => RoundsPropagated`) for every finite set of
daemons and peers and every `Rewards <= MaxBlocks`.

The proof reuses the check's proof. `CHSP == INSTANCE ChainHeadSyncProofs`
brings in `IInv` and `NextIInv` of `ChainHeadSync`; the lemma
`CheckAssumptions` discharges the instance's assumptions from MakeMoney's
own. The strengthening is `FInv == CHSP!IInv /\ LoopInv`:

- `NextCheckIInv`: every MakeMoney step is a step of the check, leaves it
  unchanged, or is `RoundEnd` (which restarts it with `wg = 0` and no
  outstanding poller) or `TestEnd` (which touches only `testState`).
- `LoopInv` says what the loop established. No head points past the last
  mined block, so `Mine` changes no existing head's height. Before round i
  mines, every peer and the reference are at height i or more. During the
  check, the reference is above i, so is the snapshot once taken, and a
  poller that matched has its peer at least as high as the snapshot.
  `Propagate` only raises heights.
- `RoundEndSynced`: `RoundEnd` follows `success`, so the waiter sent with
  `wg = 0`, no poller is outstanding, every peer matched, and every peer is
  above round i. This is the step both theorems rest on.

`FInv` was checked with TLC as an invariant on three configurations (two
peers and `MaxBlocks = Rewards = 2`; two peers, `MaxBlocks = 4`,
`Rewards = 3`; one peer) before it was proved.

### What stays with TLC

The liveness properties (`CheckEnds`, `CommandReturns`, `StartReturns`,
`ShutdownReturns`, `DoneReleasesWait`, `MakeMoneyEnds`) are checked only by
TLC. TLAPS does not handle liveness under fairness or `ENABLED`. The
liveness halves of the refinements (the `WF` of `Fail` in `HC!Spec`, and of
`End` and `Return` in `CR!Spec`) are checked only by `chs_safety` and
`cmd_exec`.

## Other observations from the source, not yet model properties

- `WaitForAPI` gives up after 100 × 100 ms = 10 s, but its error says
  "20 seconds".
- `RunCommand` ignores its `cmd` argument and always runs `init`.
- `Shutdown` on a never-started process dereferences a nil `Process`. The model
  reaches this case as `shPc = "panicked"`.
- `ConnectSuccess` checks the remote's `swarm peers` right after the local
  `swarm connect` returned, with no retry. Whether the remote registered the
  connection by then is libp2p behaviour outside `src/`.

The `Shutdown` repo removal and the two `CreateMinerAddr` problems are now
the runs `daemon_repo_leak`, `miner_create_barrier` and `miner_create_hang`.

## Plan (later work)

1. Several `TestDaemon`s sharing one repo through the `RepoDir` option, and
   the shutdown of one of them removing the others' repo.
2. `MinerCreate` composed with `Daemon`, so that a failed command and a
   daemon crash are the same event.
3. The hazards at `Shutdown` (line 321) and `ConnectSuccess` (line 277),
   which no property covers yet.

## Not modelled, and why

- The contents of command output: JSON decoding, CIDs, addresses.
  These are data, not control.
- `Config`: a file read.
- `RunInit` and `RunCommand`: one blocking `CombinedOutput` call.
- The wallet interface: it has no code.
- `MakeDeal`, `ConnectSuccess`, `GetID`, `GetAddress`, `CreateWalletAddr`,
  `WaitForMessageRequireSuccess`: sequential chains of commands. What they
  return depends on the daemon's ledger and network code, outside `src/`.
