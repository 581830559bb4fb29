---------------------------- MODULE CommandExec ----------------------------
(***************************************************************************)
(* The command executor: TestDaemon.RunWithStdin                           *)
(* (src/testhelpers/commands.go 142-204) and the checks AssertSuccess and  *)
(* AssertFail made on its Output (212-244).                                *)
(*                                                                         *)
(* The harness starts the CLI under exec.CommandContext with a             *)
(* context.WithTimeout(cmdTimeout), reads the child's stderr pipe to EOF   *)
(* (ioutil.ReadAll), then its stdout pipe to EOF, then calls cmd.Wait and  *)
(* classifies the error.  The child is a CLI invocation: it writes a       *)
(* fixed sequence of chunks to its two pipes (each pipe holds at most      *)
(* PipeCap chunks, a write to a full pipe blocks), then exits with a       *)
(* status, or never exits (a command that waits forever).  When the       *)
(* context expires while the child runs, the child is killed, which        *)
(* closes the write ends of both pipes.  Bytes are abstracted to chunks:  *)
(* "out" on stdout, "log" or "marker" (a line with CRITICAL, ERROR,        *)
(* WARNING or Error:) on stderr.                                           *)
(***************************************************************************)
EXTENDS Naturals, Sequences, FiniteSets

CONSTANTS
  PipeCap,    \* chunks an OS pipe buffers before a write blocks
  MaxScript   \* bound on the number of chunks a child writes

ASSUME PipeCapAssumption == PipeCap \in Nat \ {0}
ASSUME MaxScriptAssumption == MaxScript \in Nat

Chunk == {"out", "log", "marker"}
ErrChunk == {"log", "marker"}
(* The output patterns of the child: every sequence of chunks up to the   *)
(* bound.                                                                  *)
Scripts == UNION {[1 .. n -> Chunk] : n \in 0 .. MaxScript}

VARIABLES
  script,   \* what the child writes, in order
  status,   \* the exit status it ends with (0, or 1 for any failure)
  hangs,    \* the child never exits on its own
  pos,      \* index of the child's next write
  child,    \* "unstarted", "running", "exited" or "killed"
  outBuf,   \* chunks in the stdout pipe
  errBuf,   \* chunks in the stderr pipe
  outCap,   \* stdoutBytes: chunks the harness has read from stdout
  errCap,   \* stderrBytes: chunks the harness has read from stderr
  phase,    \* where RunWithStdin is
  ctxDone,  \* the context's deadline has passed
  code,     \* o.Code
  error,    \* o.Error: "none", "deadline" (the wrapped ExitError)
  writtenOut, \* history: chunks the child has written to stdout so far
  writtenErr  \* history: the chunks it has written to stderr, in order

childVars == <<script, status, hangs, pos, writtenOut, writtenErr>>
vars == <<script, status, hangs, pos, child, outBuf, errBuf, outCap, errCap,
          phase, ctxDone, code, error, writtenOut, writtenErr>>

Phases == {"start", "readErr", "readOut", "wait", "done", "aborted"}

Init ==
  /\ script \in Scripts
  /\ status \in {0, 1}
  /\ hangs \in BOOLEAN
  /\ pos = 1
  /\ child = "unstarted"
  /\ outBuf = 0
  /\ errBuf = << >>
  /\ outCap = 0
  /\ errCap = << >>
  /\ phase = "start"
  /\ ctxDone = FALSE
  /\ code = 0
  /\ error = "none"
  /\ writtenOut = 0
  /\ writtenErr = << >>

-----------------------------------------------------------------------------
(* The child process (the go-filecoin CLI, outside this repository).       *)

(* The child writes its next chunk; a write to a full pipe blocks. *)
ChildWrite ==
  /\ child = "running"
  /\ pos <= Len(script)
  /\ IF script[pos] = "out"
       THEN /\ outBuf < PipeCap
            /\ outBuf' = outBuf + 1
            /\ writtenOut' = writtenOut + 1
            /\ UNCHANGED <<errBuf, writtenErr>>
       ELSE /\ Len(errBuf) < PipeCap
            /\ errBuf' = Append(errBuf, script[pos])
            /\ writtenErr' = Append(writtenErr, script[pos])
            /\ UNCHANGED <<outBuf, writtenOut>>
  /\ pos' = pos + 1
  /\ UNCHANGED <<script, status, hangs, child, outCap, errCap, phase,
                 ctxDone, code, error>>

(* The child has written everything and exits; its pipes close. *)
ChildExit ==
  /\ child = "running"
  /\ pos > Len(script)
  /\ ~hangs
  /\ child' = "exited"
  /\ UNCHANGED <<childVars, outBuf, errBuf, outCap, errCap, phase, ctxDone,
                 code, error>>

-----------------------------------------------------------------------------
(* RunWithStdin.                                                           *)

(* Mutant: exec.Command without the context; the deadline kills nothing. *)
ExpireNoKill ==
  /\ ~ctxDone
  /\ phase \notin {"done", "aborted"}
  /\ ctxDone' = TRUE
  /\ UNCHANGED <<childVars, child, outBuf, errBuf, outCap, errCap, phase, code, error>>

(* The deadline of context.WithTimeout passes before the deferred cancel;  *)
(* exec.CommandContext kills a running child.                              *)
Expire ==
  /\ ~ctxDone
  /\ phase \notin {"done", "aborted"}
  /\ ctxDone' = TRUE
  /\ child' = IF child = "running" THEN "killed" ELSE child
  /\ UNCHANGED <<childVars, outBuf, errBuf, outCap, errCap, phase, code, error>>

(* GetFilecoinBinary, StderrPipe, StdoutPipe and cmd.Start, each under     *)
(* require.NoError: a failure (or an expired context) ends the test        *)
(* goroutine.                                                              *)
Start ==
  /\ phase = "start"
  /\ \/ /\ ~ctxDone
        /\ child' = "running"
        /\ phase' = "readErr"
     \/ /\ phase' = "aborted"
        /\ UNCHANGED child
  /\ UNCHANGED <<childVars, outBuf, errBuf, outCap, errCap, ctxDone, code,
                 error>>

(* One read of ioutil.ReadAll(stderr). *)
ReadErr ==
  /\ phase = "readErr"
  /\ errBuf # << >>
  /\ errCap' = Append(errCap, Head(errBuf))
  /\ errBuf' = Tail(errBuf)
  /\ UNCHANGED <<childVars, child, outBuf, outCap, phase, ctxDone, code, error>>

(* ReadAll(stderr) returns at EOF: the pipe is empty and its write end is  *)
(* closed because the child is gone.                                       *)
ErrEOF ==
  /\ phase = "readErr"
  /\ errBuf = << >>
  /\ child \in {"exited", "killed"}
  /\ phase' = "readOut"
  /\ UNCHANGED <<childVars, child, outBuf, errBuf, outCap, errCap, ctxDone,
                 code, error>>

(* Mutant: an empty read is counted as a chunk. *)
ReadOutEmpty ==
  /\ phase = "readOut"
  /\ outCap' = outCap + 1
  /\ outBuf' = outBuf - 1
  /\ UNCHANGED <<childVars, child, errBuf, errCap, phase, ctxDone, code, error>>

(* One read of ioutil.ReadAll(stdout). *)
ReadOut ==
  /\ phase = "readOut"
  /\ outBuf > 0
  /\ outCap' = outCap + 1
  /\ outBuf' = outBuf - 1
  /\ UNCHANGED <<childVars, child, errBuf, errCap, phase, ctxDone, code, error>>

(* Mutant: the harness takes the pipe's current content as all of stdout. *)
OutEOFEarly ==
  /\ phase = "readOut"
  /\ phase' = "wait"
  /\ UNCHANGED <<childVars, child, outBuf, errBuf, outCap, errCap, ctxDone,
                 code, error>>

(* ReadAll(stdout) returns at EOF. *)
OutEOF ==
  /\ phase = "readOut"
  /\ outBuf = 0
  /\ child \in {"exited", "killed"}
  /\ phase' = "wait"
  /\ UNCHANGED <<childVars, child, outBuf, errBuf, outCap, errCap, ctxDone,
                 code, error>>

(* Mutant: o.Code = 1 is only set when the context did not expire. *)
WaitCodeOnlyOnExit ==
  /\ phase = "wait"
  /\ child \in {"exited", "killed"}
  /\ phase' = "done"
  /\ IF child = "exited" /\ status = 0
       THEN UNCHANGED <<code, error>>
       ELSE /\ code' = IF ctxDone THEN 0 ELSE 1
            /\ error' = IF ctxDone THEN "deadline" ELSE "none"
  /\ UNCHANGED <<childVars, child, outBuf, errBuf, outCap, errCap, ctxDone>>

(* Mutant: ctx.Err() is checked before the switch, for every outcome. *)
WaitCtxFirst ==
  /\ phase = "wait"
  /\ child \in {"exited", "killed"}
  /\ phase' = "done"
  /\ code' = IF child = "exited" /\ status = 0 THEN 0 ELSE 1
  /\ error' = IF ctxDone THEN "deadline" ELSE "none"
  /\ UNCHANGED <<childVars, child, outBuf, errBuf, outCap, errCap, ctxDone>>

(* err = cmd.Wait() and the switch on it: a zero exit is nil; a non-zero  *)
(* exit or a kill is an *exec.ExitError, which sets o.Code = 1 and, when   *)
(* ctx.Err() is DeadlineExceeded at that point, the wrapped error.         *)
Wait ==
  /\ phase = "wait"
  /\ child \in {"exited", "killed"}
  /\ phase' = "done"
  /\ IF child = "exited" /\ status = 0
       THEN UNCHANGED <<code, error>>
       ELSE /\ code' = 1
            /\ error' = IF ctxDone THEN "deadline" ELSE "none"
  /\ UNCHANGED <<childVars, child, outBuf, errBuf, outCap, errCap, ctxDone>>

Next ==
  \/ ChildWrite \/ ChildExit
  \/ Expire \/ Start \/ ReadErr \/ ErrEOF \/ ReadOut \/ OutEOF \/ Wait

(* The child and the harness goroutine are scheduled, and the context's    *)
(* timer fires once its duration has elapsed.                              *)
Fairness ==
  /\ WF_vars(ChildWrite) /\ WF_vars(ChildExit)
  /\ WF_vars(Expire)
  /\ WF_vars(Start) /\ WF_vars(ReadErr) /\ WF_vars(ErrEOF)
  /\ WF_vars(ReadOut) /\ WF_vars(OutEOF) /\ WF_vars(Wait)

Spec == Init /\ [][Next]_vars /\ Fairness

-----------------------------------------------------------------------------
(* The checks on an Output.                                                *)

(* AssertSuccess: no error, code 0, no severity marker on stderr. *)
AssertSuccess ==
  /\ error = "none"
  /\ code = 0
  /\ \A i \in 1 .. Len(errCap) : errCap[i] # "marker"

(* AssertFail: no error, code 1, empty stdout (the stderr substring is     *)
(* not modelled).                                                          *)
AssertFail ==
  /\ error = "none"
  /\ code = 1
  /\ outCap = 0

-----------------------------------------------------------------------------
(* Properties.                                                             *)

TypeOK ==
  /\ script \in Scripts
  /\ status \in {0, 1}
  /\ hangs \in BOOLEAN
  /\ pos \in 1 .. Len(script) + 1
  /\ child \in {"unstarted", "running", "exited", "killed"}
  /\ outBuf \in 0 .. PipeCap
  /\ errBuf \in Seq(ErrChunk)
  /\ outCap \in Nat
  /\ errCap \in Seq(ErrChunk)
  /\ phase \in Phases
  /\ ctxDone \in BOOLEAN
  /\ code \in {0, 1}
  /\ error \in {"none", "deadline"}
  /\ writtenOut \in Nat
  /\ writtenErr \in Seq(ErrChunk)

(* When RunWithStdin returns, the Output holds every chunk the child wrote *)
(* on each stream, in order, including after a kill by the deadline        *)
(* (spec section 8: nothing captured before termination is lost).         *)
OutputPreserved ==
  phase = "done" => outCap = writtenOut /\ errCap = writtenErr

(* The result reflects how the child ended: code 0 exactly when it exited  *)
(* 0 by itself, and a child killed by the deadline yields code 1 with the  *)
(* deadline error (spec section 4.1).                                      *)
ResultClassification ==
  phase = "done" =>
    /\ (code = 0) <=> (child = "exited" /\ status = 0)
    /\ child = "killed" => code = 1 /\ error = "deadline"

(* RunWithStdin always returns or aborts the test, whatever the child      *)
(* does, because the context's deadline kills a child that does not end.   *)
CommandReturns == <>(phase \in {"done", "aborted"})

(* The harness never waits on the child while the child waits on the       *)
(* harness: it is not reading stderr to EOF while the child is blocked     *)
(* writing to a full stdout pipe.  Otherwise only the deadline ends the    *)
(* command (spec 4.1: stdout and stderr are captured fully).               *)
NoMutualWait ==
  ~ /\ phase = "readErr"
    /\ child = "running"
    /\ pos <= Len(script)
    /\ script[pos] = "out"
    /\ outBuf = PipeCap

(* A command that exits 0 by itself without a severity marker on stderr   *)
(* passes AssertSuccess (RunSuccess), even when the deadline passes after   *)
(* it exited.                                                              *)
CleanExitPassesAssertSuccess ==
  /\ phase = "done"
  /\ child = "exited" /\ status = 0
  /\ \A i \in 1 .. Len(writtenErr) : writtenErr[i] # "marker"
  => AssertSuccess

(* A command that fails by itself (non-zero exit, nothing on stdout)       *)
(* passes AssertFail (RunFail): spec 4.1 reserves the deadline error for a *)
(* deadline that elapses before the process exits.                         *)
FailedExitPassesAssertFail ==
  /\ phase = "done"
  /\ child = "exited" /\ status = 1
  /\ writtenOut = 0
  => AssertFail

-----------------------------------------------------------------------------
(* Refinement: RunWithStdin implements the executor contract CommandRun.   *)
(* The child's writes are the history variables, its fate is read off     *)
(* the process and its exit status, and the output is the Output once     *)
(* RunWithStdin returned.                                                  *)

Fate ==
  CASE child = "exited" /\ status = 0 -> "ok"
    [] child = "exited" /\ status # 0 -> "failed"
    [] child = "killed"               -> "killed"
    [] OTHER                          -> "running"

Call ==
  CASE phase = "done"    -> "returned"
    [] phase = "aborted" -> "aborted"
    [] OTHER             -> "pending"

(* The Output as the caller sees it: nothing until RunWithStdin returns. *)
ReturnedOutput ==
  IF phase = "done"
    THEN [code |-> code, error |-> error, out |-> outCap, err |-> errCap]
    ELSE [code |-> 0, error |-> "none", out |-> 0, err |-> << >>]

CR == INSTANCE CommandRun
        WITH outWritten <- writtenOut, errWritten <- writtenErr,
             fate <- Fate, call <- Call, output <- ReturnedOutput

(* RunWithStdin returns exactly what the contract allows: everything the   *)
(* child wrote, code 0 only for a clean exit, the deadline error for a     *)
(* killed child; and every call returns or fails the test.                 *)
ImplementsCommandRun == CR!Spec

=============================================================================
