------------------------------- MODULE Daemon -------------------------------
(***************************************************************************)
(* The node supervisor: one TestDaemon from NewDaemon to its shutdown      *)
(* (src/testhelpers/commands.go: NewDaemon 624-706, Start 305-317,         *)
(* WaitForAPI 354-363, tryAPICheck 553-572, Shutdown 320-331,              *)
(* ShutdownSuccess 334-342, ShutdownEasy 345-350, ReadStderr 294-302).     *)
(*                                                                         *)
(* NewDaemon allocates a temporary repo directory (unless the RepoDir      *)
(* option replaces it), runs `init`, and attaches pipes to the daemon's    *)
(* stdin, stdout and stderr.  Nothing reads the stderr pipe until a        *)
(* shutdown call reads it; the daemon logs a line when it comes up and for *)
(* every command it serves, and a log write to a full pipe blocks it.      *)
(* Start launches the process, probes /api/id up to MaxTries times, and    *)
(* imports the key files with `wallet import`.  Commands are RunSuccess    *)
(* calls: a command to a daemon that is not serving fails (by its          *)
(* timeout), and the failure ends the test goroutine; its deferred         *)
(* shutdown still runs.                                                    *)
(***************************************************************************)
EXTENDS Naturals

CONSTANTS
  MaxTries,   \* attempts of WaitForAPI (100 in the code)
  NumKeys,    \* key files imported on first start (five by default)
  PipeCap,    \* log lines the stderr pipe buffers
  MaxCmds     \* bound on the test's commands to the running daemon

ASSUME ConstAssumption ==
  /\ MaxTries \in Nat \ {0}
  /\ NumKeys \in Nat
  /\ PipeCap \in Nat \ {0}
  /\ MaxCmds \in Nat

VARIABLES
  hasRepoDir, \* td.repoDir # "" (the RepoDir option may set it empty)
  tdPc,       \* where the test goroutine is with this daemon
  proc,       \* the daemon process
  tries,      \* the loop index of WaitForAPI
  imported,   \* key files imported by Start
  cmds,       \* commands the test has run against the daemon
  logBuf,     \* log lines waiting in the stderr pipe
  repo,       \* the repo directory on disk
  signal,     \* the signal a shutdown call sent: "none", "TERM" or "INT"
  shPc        \* the shutdown call made on the daemon

vars == <<hasRepoDir, tdPc, proc, tries, imported, cmds, logBuf, repo, signal,
          shPc>>

(* failed: NewDaemon failed and the test has no handle; aborted: a later *)
(* failure ended the test goroutine, whose deferred calls still run.       *)
TdStates == {"new", "configured", "waitAPI", "importing", "running", "failed",
             "aborted"}
ProcStates == {"none", "booting", "up", "stuck", "exited"}
ShStates == {"none", "readTerm", "readInt", "returned", "panicked"}

Init ==
  /\ hasRepoDir \in BOOLEAN
  /\ tdPc = "new"
  /\ proc = "none"
  /\ tries = 0
  /\ imported = 0
  /\ cmds = 0
  /\ logBuf = 0
  /\ repo = "absent"
  /\ signal = "none"
  /\ shPc = "none"

(* The daemon can serve a request: it is up and has room for its log line. *)
Serving == proc = "up" /\ logBuf < PipeCap

-----------------------------------------------------------------------------
(* The daemon process (outside this repository).                           *)

(* The daemon finishes booting and logs that it is up. *)
DaemonBoot ==
  /\ proc = "booting"
  /\ IF logBuf < PipeCap
       THEN proc' = "up" /\ logBuf' = logBuf + 1
       ELSE proc' = "stuck" /\ UNCHANGED logBuf
  /\ UNCHANGED <<hasRepoDir, tdPc, tries, imported, cmds, repo, signal, shPc>>

(* A log write blocked on the full pipe completes once a reader drained it. *)
DaemonUnblock ==
  /\ proc = "stuck"
  /\ logBuf < PipeCap
  /\ proc' = "up"
  /\ logBuf' = logBuf + 1
  /\ UNCHANGED <<hasRepoDir, tdPc, tries, imported, cmds, repo, signal, shPc>>

(* The daemon dies on its own. *)
DaemonCrash ==
  /\ proc \in {"booting", "up"}
  /\ proc' = "exited"
  /\ UNCHANGED <<hasRepoDir, tdPc, tries, imported, cmds, logBuf, repo, signal, shPc>>

(* The daemon exits on the signal a shutdown call sent. *)
DaemonTerminate ==
  /\ signal # "none"
  /\ proc \in {"booting", "up", "stuck"}
  /\ proc' = "exited"
  /\ UNCHANGED <<hasRepoDir, tdPc, tries, imported, cmds, logBuf, repo, signal, shPc>>

-----------------------------------------------------------------------------
(* The harness.                                                            *)

(* NewDaemon: GetFilecoinBinary, two GetFreePort, ioutil.TempDir, the     *)
(* options, `init` when td.init (the default), and the three pipes; each   *)
(* failure is t.Fatal.                                                     *)
NewDaemon ==
  /\ tdPc = "new"
  /\ \/ /\ tdPc' = "configured"
        /\ repo' = "present"
     \/ /\ tdPc' = "failed"
        /\ repo' \in {"absent", "present"}
  /\ UNCHANGED <<hasRepoDir, proc, tries, imported, cmds, logBuf, signal, shPc>>

(* Start: require.NoError(td.process.Start()). *)
StartProcess ==
  /\ tdPc = "configured"
  /\ \/ /\ proc' = "booting"
        /\ tdPc' = "waitAPI"
     \/ /\ tdPc' = "aborted"
        /\ UNCHANGED proc
  /\ UNCHANGED <<hasRepoDir, tries, imported, cmds, logBuf, repo, signal, shPc>>

(* Mutant: the loop runs while i <= 100, one probe too many. *)
ProbeAPIOffByOne ==
  /\ tdPc = "waitAPI"
  /\ tries <= MaxTries
  /\ IF Serving
       THEN tdPc' = "importing" /\ UNCHANGED tries
       ELSE /\ tries' = tries + 1
            /\ tdPc' = IF tries + 1 > MaxTries THEN "aborted" ELSE "waitAPI"
  /\ UNCHANGED <<hasRepoDir, proc, imported, cmds, logBuf, repo, signal, shPc>>

(* Mutant: WaitForAPI retries without a bound. *)
ProbeAPIForever ==
  /\ tdPc = "waitAPI"
  /\ Serving
  /\ tdPc' = "importing"
  /\ UNCHANGED <<hasRepoDir, proc, tries, imported, cmds, logBuf, repo, signal, shPc>>

(* One iteration of WaitForAPI: tryAPICheck gets a decoded object with an  *)
(* ID field only from a serving daemon; a failed check sleeps 100ms and    *)
(* retries; after MaxTries failures WaitForAPI returns an error, which     *)
(* Start's require turns into a failed test.                               *)
ProbeAPI ==
  /\ tdPc = "waitAPI"
  /\ tries < MaxTries
  /\ IF Serving
       THEN tdPc' = "importing" /\ UNCHANGED tries
       ELSE /\ tries' = tries + 1
            /\ tdPc' = IF tries + 1 = MaxTries THEN "aborted" ELSE "waitAPI"
  /\ UNCHANGED <<hasRepoDir, proc, imported, cmds, logBuf, repo, signal, shPc>>

(* A RunSuccess against the daemon: the daemon serves it and logs a line,  *)
(* or the command fails (a dead daemon, or one blocked on its log pipe     *)
(* until the command's timeout) and the test goroutine ends.               *)
RunCommand(done, doneNext, pcOk) ==
  \/ /\ Serving
     /\ logBuf' = logBuf + 1
     /\ doneNext
     /\ tdPc' = pcOk
     /\ UNCHANGED proc
  \/ /\ proc = "up"
     /\ logBuf = PipeCap
     /\ proc' = "stuck"
     /\ tdPc' = "aborted"
     /\ UNCHANGED <<logBuf, done>>
  \/ /\ proc \notin {"up"}
     /\ tdPc' = "aborted"
     /\ UNCHANGED <<proc, logBuf, done>>

(* Start, on first start: td.RunSuccess("wallet", "import", file) for each *)
(* key file, then return td.                                               *)
ImportKey ==
  /\ tdPc = "importing"
  /\ imported < NumKeys
  /\ RunCommand(imported, imported' = imported + 1, "importing")
  /\ UNCHANGED <<hasRepoDir, tries, cmds, repo, signal, shPc>>

(* Start leaves the import loop (no key file left, or none on a restart)  *)
(* and returns td.                                                         *)
StartDone ==
  /\ tdPc = "importing"
  /\ imported = NumKeys
  /\ tdPc' = "running"
  /\ UNCHANGED <<hasRepoDir, proc, tries, imported, cmds, logBuf, repo, signal, shPc>>

(* The test runs a command through RunSuccess. *)
TestCommand ==
  /\ tdPc = "running"
  /\ cmds < MaxCmds
  /\ RunCommand(cmds, cmds' = cmds + 1, "running")
  /\ UNCHANGED <<hasRepoDir, tries, imported, repo, signal, shPc>>

(* Shutdown: SIGTERM to td.process.Process (a nil Process when Start never *)
(* launched it: a nil dereference), the panic on an empty repoDir, then    *)
(* os.RemoveAll(td.repoDir) without waiting for the process to exit.       *)
Shutdown ==
  /\ tdPc \in {"running", "aborted"}
  /\ shPc = "none"
  /\ IF proc = "none"
       THEN shPc' = "panicked" /\ UNCHANGED <<repo, signal>>
       ELSE /\ signal' = "TERM"
            /\ IF hasRepoDir
                 THEN shPc' = "returned" /\ repo' = "removed"
                 ELSE shPc' = "panicked" /\ UNCHANGED repo
  /\ UNCHANGED <<hasRepoDir, tdPc, proc, tries, imported, cmds, logBuf>>

(* The signal ShutdownSuccess (readTerm) or ShutdownEasy (readInt) sends. *)
SignalOf(kind) == IF kind = "readTerm" THEN "TERM" ELSE "INT"

(* Mutant: ReadStderr is called before the signal is sent. *)
ShutdownReadFirst(kind) ==
  /\ tdPc \in {"running", "aborted"}
  /\ shPc = "none"
  /\ IF proc = "none"
       THEN shPc' = "panicked"
       ELSE shPc' = kind
  /\ UNCHANGED <<hasRepoDir, tdPc, proc, tries, imported, cmds, logBuf, repo, signal>>

(* ShutdownSuccess and ShutdownEasy: SIGTERM, resp. SIGINT, then           *)
(* ReadStderr; the repo directory is left in place.                        *)
ShutdownSignal(kind) ==
  /\ tdPc \in {"running", "aborted"}
  /\ shPc = "none"
  /\ IF proc = "none"
       THEN shPc' = "panicked" /\ UNCHANGED signal
       ELSE shPc' = kind /\ signal' = SignalOf(kind)
  /\ UNCHANGED <<hasRepoDir, tdPc, proc, tries, imported, cmds, logBuf, repo>>

(* ReadStderr: ioutil.ReadAll(td.Stderr) reads the pipe to EOF, which      *)
(* comes when the daemon has exited; then the assertions on its content.   *)
ReadStderrChunk ==
  /\ shPc \in {"readTerm", "readInt"}
  /\ logBuf > 0
  /\ logBuf' = logBuf - 1
  /\ UNCHANGED <<hasRepoDir, tdPc, proc, tries, imported, cmds, repo, signal, shPc>>

ReadStderrEOF ==
  /\ shPc \in {"readTerm", "readInt"}
  /\ logBuf = 0
  /\ proc = "exited"
  /\ shPc' = "returned"
  /\ UNCHANGED <<hasRepoDir, tdPc, proc, tries, imported, cmds, logBuf, repo, signal>>

Next ==
  \/ DaemonBoot \/ DaemonUnblock \/ DaemonCrash \/ DaemonTerminate
  \/ NewDaemon \/ StartProcess \/ ProbeAPI \/ ImportKey \/ StartDone
  \/ TestCommand \/ Shutdown
  \/ ShutdownSignal("readTerm") \/ ShutdownSignal("readInt")
  \/ ReadStderrChunk \/ ReadStderrEOF

(* The test goroutine is scheduled, the daemon boots, and a signalled      *)
(* daemon exits.  The test need not run commands or shut the daemon down.  *)
Fairness ==
  /\ WF_vars(NewDaemon) /\ WF_vars(StartProcess) /\ WF_vars(ProbeAPI)
  /\ WF_vars(ImportKey) /\ WF_vars(StartDone)
  /\ WF_vars(ReadStderrChunk) /\ WF_vars(ReadStderrEOF)
  /\ WF_vars(DaemonBoot) /\ WF_vars(DaemonUnblock) /\ WF_vars(DaemonTerminate)

Spec == Init /\ [][Next]_vars /\ Fairness

-----------------------------------------------------------------------------
(* Properties.                                                             *)

TypeOK ==
  /\ hasRepoDir \in BOOLEAN
  /\ tdPc \in TdStates
  /\ proc \in ProcStates
  /\ tries \in 0 .. MaxTries
  /\ imported \in 0 .. NumKeys
  /\ cmds \in 0 .. MaxCmds
  /\ logBuf \in 0 .. PipeCap
  /\ repo \in {"absent", "present", "removed"}
  /\ signal \in {"none", "TERM", "INT"}
  /\ shPc \in ShStates

(* Start returns or fails the test: WaitForAPI gives up after MaxTries     *)
(* probes, even when the daemon died or blocks on its log pipe.            *)
StartReturns ==
  <>(tdPc \notin {"new", "configured", "waitAPI", "importing"})

(* ShutdownSuccess and ShutdownEasy return: the signal makes the daemon    *)
(* exit, so ReadStderr reaches EOF.                                        *)
ShutdownReturns ==
  \A k \in {"readTerm", "readInt"} : (shPc = k) ~> (shPc = "returned")

(* The daemon never blocks on its own log output: spec section 5 has the   *)
(* supervisor read the daemon's stdout and stderr in the background.       *)
NoLogStall == proc # "stuck"

(* Spec 4.3: a shutdown terminates the daemon and then deletes its repo   *)
(* directory.  Every shutdown call that returns has deleted the repo, and  *)
(* the repo is deleted only once the daemon has exited: Shutdown's         *)
(* os.RemoveAll must not pull it from under a daemon still running on it,  *)
(* and ShutdownSuccess/ShutdownEasy must not leave it behind.              *)
RepoDeletedAfterTermination ==
  /\ shPc = "returned" => repo = "removed"
  /\ repo = "removed" => proc = "exited"

=============================================================================
