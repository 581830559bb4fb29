-------------------------- MODULE CommandExecProofs --------------------------
(***************************************************************************)
(* Proofs about RunWithStdin (CommandExec), for every pipe capacity and    *)
(* every bound on the child's output.                                      *)
(*                                                                         *)
(* ResultClassification is not inductive: it says nothing before the       *)
(* harness returns, so a state where Wait would return with a stale code   *)
(* satisfies it.  RInv adds that the code and error keep their zero        *)
(* values until Wait, that only the deadline kills the child (so a kill    *)
(* implies the context expired), and that Wait runs only once the child is *)
(* gone, after which the child cannot change.                              *)
(***************************************************************************)
EXTENDS CommandExec, SequenceTheorems, TLAPS

RInv ==
  /\ status \in {0, 1}
  /\ code \in {0, 1}
  /\ phase \in Phases
  /\ child \in {"unstarted", "running", "exited", "killed"}
  /\ phase # "done" => code = 0 /\ error = "none"
  /\ child = "killed" => ctxDone = TRUE
  /\ phase \in {"wait", "done"} => child \in {"exited", "killed"}
  /\ phase = "done" /\ child = "exited" /\ status = 0 => error = "none"
  /\ ResultClassification

LEMMA InitRInv == Init => RInv
BY DEF Init, RInv, Phases, ResultClassification

LEMMA NextRInv == RInv /\ [Next]_vars => RInv'
<1> SUFFICES ASSUME RInv, [Next]_vars PROVE RInv'
  OBVIOUS
<1> USE DEF RInv, Phases, ResultClassification
<1>1. CASE ChildWrite
  BY <1>1 DEF ChildWrite
<1>2. CASE ChildExit
  BY <1>2 DEF ChildExit, childVars
<1>3. CASE Expire
  BY <1>3 DEF Expire, childVars
<1>4. CASE Start
  BY <1>4 DEF Start, childVars
<1>5. CASE ReadErr
  BY <1>5 DEF ReadErr, childVars
<1>6. CASE ErrEOF
  BY <1>6 DEF ErrEOF, childVars
<1>7. CASE ReadOut
  BY <1>7 DEF ReadOut, childVars
<1>8. CASE OutEOF
  BY <1>8 DEF OutEOF, childVars
<1>9. CASE Wait
  <2>1. CASE child = "exited" /\ status = 0
    BY <1>9, <2>1 DEF Wait, childVars
  <2>2. CASE ~(child = "exited" /\ status = 0)
    BY <1>9, <2>2 DEF Wait, childVars
  <2>3. QED
    BY <2>1, <2>2
<1>10. CASE UNCHANGED vars
  BY <1>10 DEF vars
<1>11. QED
  BY <1>1, <1>2, <1>3, <1>4, <1>5, <1>6, <1>7, <1>8, <1>9, <1>10 DEF Next

(* When RunWithStdin returns, its code is 0 exactly when the child exited  *)
(* 0 by itself, and a child the deadline killed yields code 1 with the     *)
(* deadline error, for any pipe size and any output of the child.          *)
THEOREM ResultClassified == Spec => []ResultClassification
<1>1. Spec => []RInv
  BY InitRInv, NextRInv, PTL DEF Spec
<1>2. QED
  BY <1>1, PTL DEF RInv
-----------------------------------------------------------------------------
(* The output the harness captures.                                        *)
(*                                                                         *)
(* OutputPreserved is not inductive either: it speaks only of "done".      *)
(* OInv states the conservation behind it, in every state: what the       *)
(* harness has read from a pipe, followed by what is still in the pipe, is *)
(* what the child has written to it.  Stderr is drained before stdout is   *)
(* read, and stdout before Wait; each EOF needs the child gone, and a gone *)
(* child writes nothing more, so both pipes stay empty from then on.       *)

(* Every output pattern of the child is a sequence of chunks. *)
LEMMA ScriptsAreSeqs == Scripts \subseteq Seq(Chunk)
<1> SUFFICES ASSUME NEW s \in Scripts PROVE s \in Seq(Chunk)
  OBVIOUS
<1>1. PICK n \in 0 .. MaxScript : s \in [1 .. n -> Chunk]
  BY DEF Scripts
<1>2. n \in Nat
  BY MaxScriptAssumption
<1>3. QED
  BY <1>1, <1>2, SeqDef

(* A write appended to the pipe extends what was read plus what is        *)
(* buffered by that write.                                                 *)
LEMMA ConcatAppend ==
  ASSUME NEW S, NEW s \in Seq(S), NEW t \in Seq(S), NEW e \in S
  PROVE  s \o Append(t, e) = Append(s \o t, e)
<1>1. s \o t \in Seq(S)
  BY ConcatProperties
<1>2. Append(t, e) = t \o <<e>> /\ Append(s \o t, e) = (s \o t) \o <<e>>
  BY <1>1, AppendIsConcat
<1>3. <<e>> \in Seq(S)
  BY AppendProperties, EmptySeq, AppendIsConcat, ConcatEmptySeq
<1>4. QED
  BY <1>2, <1>3, ConcatAssociative

(* A read moves the head of the pipe to the end of what was read, and     *)
(* leaves read-then-buffered unchanged.                                    *)
LEMMA ConcatMoveHead ==
  ASSUME NEW S, NEW s \in Seq(S), NEW t \in Seq(S), t # << >>
  PROVE  Append(s, Head(t)) \o Tail(t) = s \o t
<1>1. Head(t) \in S /\ Tail(t) \in Seq(S) /\ Len(Tail(t)) = Len(t) - 1
      /\ \A i \in 1 .. Len(Tail(t)) : Tail(t)[i] = t[i + 1]
  BY HeadTailProperties
<1>2. Append(s, Head(t)) \in Seq(S) /\ Len(Append(s, Head(t))) = Len(s) + 1
      /\ \A i \in 1 .. Len(s) : Append(s, Head(t))[i] = s[i]
      /\ Append(s, Head(t))[Len(s) + 1] = Head(t)
  BY <1>1, AppendProperties
<1>3. Len(t) \in Nat \ {0}
  BY EmptySeq
<1>4. Head(t) = t[1]
  OBVIOUS
<1>5. QED
  BY <1>1, <1>2, <1>3, <1>4, ConcatProperties, SeqEqual

OInv ==
  /\ TypeOK
  /\ outCap + outBuf = writtenOut
  /\ errCap \o errBuf = writtenErr
  /\ phase \in {"readOut", "wait", "done"} =>
        errBuf = << >> /\ child \in {"exited", "killed"}
  /\ phase \in {"wait", "done"} => outBuf = 0

LEMMA InitOInv == Init => OInv
<1> SUFFICES ASSUME Init PROVE OInv
  OBVIOUS
<1>1. script \in Seq(Chunk)
  BY ScriptsAreSeqs DEF Init
<1>2. Len(script) \in Nat
  BY <1>1, LenProperties
<1>3. << >> \in Seq(ErrChunk) /\ << >> \o << >> = << >>
  BY EmptySeq, ConcatEmptySeq
<1>4. TypeOK
  <2>1. pos \in 1 .. Len(script) + 1
    BY <1>2 DEF Init
  <2>2. outBuf \in 0 .. PipeCap /\ outCap \in Nat /\ writtenOut \in Nat
    BY PipeCapAssumption DEF Init
  <2>3. errBuf \in Seq(ErrChunk) /\ errCap \in Seq(ErrChunk)
        /\ writtenErr \in Seq(ErrChunk)
    BY <1>3 DEF Init
  <2>4. QED
    BY <2>1, <2>2, <2>3 DEF Init, TypeOK, Phases
<1>5. QED
  BY <1>3, <1>4 DEF Init, OInv

LEMMA NextOInv == OInv /\ [Next]_vars => OInv'
<1> SUFFICES ASSUME OInv, [Next]_vars PROVE OInv'
  OBVIOUS
<1>0. /\ script \in Seq(Chunk)
      /\ errBuf \in Seq(ErrChunk) /\ errCap \in Seq(ErrChunk)
      /\ writtenErr \in Seq(ErrChunk)
  BY ScriptsAreSeqs DEF OInv, TypeOK
<1> USE PipeCapAssumption DEF OInv, TypeOK, Phases
<1>1. CASE ChildWrite
  <2>1. CASE script[pos] = "out"
    BY <1>1, <2>1 DEF ChildWrite
  <2>2. CASE script[pos] # "out"
    <3>1. script[pos] \in ErrChunk
      BY <1>0, <1>1, <2>2, ElementOfSeq DEF ChildWrite, ErrChunk, Chunk
    <3>2. errCap \o Append(errBuf, script[pos])
            = Append(errCap \o errBuf, script[pos])
      <4>1. \A a, b \in Seq(ErrChunk), e \in ErrChunk :
              a \o Append(b, e) = Append(a \o b, e)
        BY ConcatAppend
      <4>2. QED
        BY <1>0, <3>1, <4>1
    <3>3. Append(errBuf, script[pos]) \in Seq(ErrChunk)
          /\ Append(writtenErr, script[pos]) \in Seq(ErrChunk)
          /\ Len(Append(errBuf, script[pos])) = Len(errBuf) + 1
      BY <1>0, <3>1, AppendProperties
    <3>4. pos' \in 1 .. Len(script') + 1
      BY <1>0, <1>1, LenProperties DEF ChildWrite
    <3>5. TypeOK'
      BY <1>1, <2>2, <3>3, <3>4 DEF ChildWrite
    <3>6. errCap' \o errBuf' = writtenErr'
      BY <1>1, <2>2, <3>2 DEF ChildWrite
    <3>7. phase \notin {"readOut", "wait", "done"}
      BY <1>1 DEF ChildWrite
    <3>8. QED
      BY <1>1, <2>2, <3>5, <3>6, <3>7 DEF ChildWrite
  <2>3. QED
    BY <2>1, <2>2
<1>2. CASE ChildExit
  BY <1>2 DEF ChildExit, childVars
<1>3. CASE Expire
  BY <1>3 DEF Expire, childVars
<1>4. CASE Start
  BY <1>4 DEF Start, childVars
<1>5. CASE ReadErr
  <2>1. Append(errCap, Head(errBuf)) \o Tail(errBuf) = errCap \o errBuf
    BY <1>0, <1>5, ConcatMoveHead DEF ReadErr
  <2>2. Append(errCap, Head(errBuf)) \in Seq(ErrChunk)
        /\ Tail(errBuf) \in Seq(ErrChunk)
    BY <1>0, <1>5, HeadTailProperties, AppendProperties DEF ReadErr
  <2>3. QED
    BY <1>5, <2>1, <2>2 DEF ReadErr, childVars
<1>6. CASE ErrEOF
  BY <1>6 DEF ErrEOF, childVars
<1>7. CASE ReadOut
  BY <1>7 DEF ReadOut, childVars
<1>8. CASE OutEOF
  BY <1>8 DEF OutEOF, childVars
<1>9. CASE Wait
  BY <1>9 DEF Wait, childVars
<1>10. CASE UNCHANGED vars
  BY <1>10 DEF vars
<1>11. QED
  BY <1>1, <1>2, <1>3, <1>4, <1>5, <1>6, <1>7, <1>8, <1>9, <1>10 DEF Next

LEMMA OInvariant == Spec => []OInv
BY InitOInv, NextOInv, PTL DEF Spec

(* Type correctness of RunWithStdin: the child's position stays within its *)
(* output, each pipe within its capacity, and the captured streams are     *)
(* sequences of chunks, for every pipe capacity and output bound.          *)
THEOREM CommandExecTypeCorrect == Spec => []TypeOK
BY OInvariant, PTL DEF OInv

(* When RunWithStdin returns, its Output holds every chunk the child wrote *)
(* on each stream, in order, including after a kill by the deadline (spec  *)
(* section 8: nothing captured before termination is lost).               *)
THEOREM OutputPreservedHolds == Spec => []OutputPreserved
<1>1. OInv => OutputPreserved
  <2> SUFFICES ASSUME OInv, phase = "done"
               PROVE  outCap = writtenOut /\ errCap = writtenErr
    BY DEF OutputPreserved
  <2>1. errCap \in Seq(ErrChunk)
    BY DEF OInv, TypeOK
  <2>2. QED
    BY <2>1, ConcatEmptySeq DEF OInv, TypeOK
<1>2. QED
  BY <1>1, OInvariant, PTL

(* A command that exits 0 by itself with no severity marker on its stderr  *)
(* passes AssertSuccess: RunSuccess never rejects a clean run, whatever    *)
(* the deadline did after the exit.                                        *)
THEOREM CleanExitPasses == Spec => []CleanExitPassesAssertSuccess
<1>1. Spec => []RInv
  BY InitRInv, NextRInv, PTL DEF Spec
<1>2. RInv /\ OutputPreserved => CleanExitPassesAssertSuccess
  BY DEF RInv, ResultClassification, OutputPreserved,
         CleanExitPassesAssertSuccess, AssertSuccess
<1>3. QED
  BY <1>1, <1>2, OutputPreservedHolds, PTL

-----------------------------------------------------------------------------
(* The refinement of CommandRun.                                           *)

(* The child runs only while RunWithStdin drains stderr, and nothing is    *)
(* written before cmd.Start.                                               *)
SInv ==
  /\ phase = "start" => child = "unstarted"
  /\ child = "unstarted" =>
       phase \in {"start", "aborted"} /\ writtenOut = 0 /\ writtenErr = << >>
  /\ child = "running" => phase = "readErr"

LEMMA SInvariant == Spec => []SInv
<1>1. Init => SInv
  BY DEF Init, SInv
<1>2. SInv /\ [Next]_vars => SInv'
  <2> SUFFICES ASSUME SInv, [Next]_vars PROVE SInv'
    OBVIOUS
  <2> USE DEF SInv
  <2>1. CASE ChildWrite \/ ChildExit
    BY <2>1 DEF ChildWrite, ChildExit, childVars
  <2>2. CASE Expire \/ Start
    BY <2>2 DEF Expire, Start, childVars
  <2>3. CASE ReadErr \/ ErrEOF \/ ReadOut \/ OutEOF \/ Wait
    BY <2>3 DEF ReadErr, ErrEOF, ReadOut, OutEOF, Wait, childVars
  <2>4. CASE UNCHANGED vars
    BY <2>4 DEF vars
  <2>5. QED
    BY <2>1, <2>2, <2>3, <2>4 DEF Next
<1>3. QED
  BY <1>1, <1>2, PTL DEF Spec

LEMMA InitRefinesRun == Init => CR!Init
BY DEF Init, CR!Init, CR!NoOutput, Fate, Call, ReturnedOutput

(* Every step of RunWithStdin and of its child is a step of CommandRun or  *)
(* leaves the mapped state unchanged.                                      *)
LEMMA NextRefinesRun ==
  OInv /\ RInv /\ SInv /\ [Next]_vars => [CR!Next]_CR!avars
<1> SUFFICES ASSUME OInv, RInv, SInv, [Next]_vars PROVE [CR!Next]_CR!avars
  OBVIOUS
<1>0. TypeOK
  BY DEF OInv
<1>1. CASE ChildWrite
  <2>1. child = "running" /\ phase = "readErr" /\ pos \in 1 .. Len(script)
    BY <1>0, <1>1 DEF ChildWrite, SInv, TypeOK
  <2>2. script[pos] \in Chunk
    BY <1>0, <2>1, ScriptsAreSeqs DEF TypeOK
  <2>3. Fate = "running" /\ Fate' = "running" /\ Call = "pending" /\ Call' = "pending"
        /\ ReturnedOutput' = ReturnedOutput
    BY <1>1, <2>1 DEF ChildWrite, Fate, Call, ReturnedOutput
  <2>4. QED
    BY <1>1, <2>2, <2>3 DEF ChildWrite, CR!Next, CR!Write, Chunk
<1>2. CASE ChildExit
  <2>1. phase = "readErr"
    BY <1>2 DEF ChildExit, SInv
  <2>2. QED
    BY <1>2, <2>1 DEF ChildExit, childVars, CR!Next, CR!End, Fate, Call,
       ReturnedOutput, RInv
<1>3. CASE Expire
  <2>1. CASE child = "running"
    BY <1>3, <2>1 DEF Expire, childVars, SInv, CR!Next, CR!End, Fate, Call,
       ReturnedOutput
  <2>2. CASE child # "running"
    BY <1>3, <2>2 DEF Expire, childVars, CR!avars, Fate, Call, ReturnedOutput
  <2>3. QED
    BY <2>1, <2>2
<1>4. CASE Start
  <2>1. child = "unstarted" /\ writtenOut = 0 /\ writtenErr = << >>
    BY <1>4 DEF Start, SInv
  <2>2. CASE phase' = "aborted"
    BY <1>4, <2>1, <2>2 DEF Start, childVars, CR!Next, CR!Abort, Fate, Call,
       ReturnedOutput
  <2>3. CASE phase' # "aborted"
    BY <1>4, <2>1, <2>3 DEF Start, childVars, CR!avars, Fate, Call,
       ReturnedOutput
  <2>4. QED
    BY <2>2, <2>3
<1>5. CASE ReadErr \/ ErrEOF \/ ReadOut \/ OutEOF
  BY <1>5 DEF ReadErr, ErrEOF, ReadOut, OutEOF, childVars, CR!avars, Fate,
     Call, ReturnedOutput
<1>6. CASE Wait
  <2>1. /\ child \in {"exited", "killed"} /\ phase = "wait" /\ phase' = "done"
        /\ code = 0 /\ error = "none"
        /\ (child = "killed" => ctxDone)
    BY <1>6 DEF Wait, RInv
  <2>2. outCap = writtenOut /\ errCap = writtenErr
    BY <1>0, <2>1, ConcatEmptySeq DEF OInv, TypeOK
  <2>3. /\ code' = IF Fate = "ok" THEN 0 ELSE 1
        /\ error' \in CR!ErrorsOf(Fate)
    <3>1. CASE child = "exited" /\ status = 0
      <4>1. Fate = "ok"
        BY <3>1 DEF Fate
      <4>2. code' = 0 /\ error' = "none"
        BY <1>6, <2>1, <3>1 DEF Wait
      <4>3. QED
        BY <4>1, <4>2 DEF CR!ErrorsOf
    <3>2. CASE child = "exited" /\ status # 0
      <4>1. Fate = "failed"
        BY <3>2 DEF Fate
      <4>2. code' = 1 /\ error' \in {"none", "deadline"}
        BY <1>6, <2>1, <3>2 DEF Wait
      <4>3. QED
        BY <4>1, <4>2 DEF CR!ErrorsOf
    <3>3. CASE child = "killed"
      <4>1. Fate = "killed"
        BY <3>3 DEF Fate
      <4>2. code' = 1 /\ error' = "deadline"
        BY <1>6, <2>1, <3>3 DEF Wait
      <4>3. QED
        BY <4>1, <4>2 DEF CR!ErrorsOf
    <3>4. QED
      BY <2>1, <3>1, <3>2, <3>3
  <2>4. QED
    BY <1>6, <2>1, <2>2, <2>3 DEF Wait, childVars, CR!Next, CR!Return, Fate,
       Call, ReturnedOutput
<1>7. CASE UNCHANGED vars
  BY <1>7 DEF vars, CR!avars, Fate, Call, ReturnedOutput
<1>8. QED
  BY <1>1, <1>2, <1>3, <1>4, <1>5, <1>6, <1>7 DEF Next

(* RunWithStdin implements the safety part of the executor contract: its  *)
(* Output carries every chunk the child wrote, code 0 exactly for a clean  *)
(* exit and the deadline error for a killed child, and the test fails     *)
(* only before the child ran; for every pipe capacity and child output.    *)
THEOREM RefinesCommandRun == Spec => CR!SafetySpec
<1>1. Spec => []RInv
  BY InitRInv, NextRInv, PTL DEF Spec
<1>2. QED
  BY <1>1, OInvariant, SInvariant, InitRefinesRun, NextRefinesRun, PTL
     DEF Spec, CR!SafetySpec
=============================================================================
