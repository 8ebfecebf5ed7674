--------------------------- MODULE ForkedRunProofs ---------------------------
(***************************************************************************)
(* What holds of a sweep for every number of cases, whatever they write,   *)
(* and every size of the pipe, the buffer and the tally.                   *)
(***************************************************************************)
EXTENDS ForkedRun, SequenceTheorems, ProofLemmas

(* The steps that leave the loop's own counts alone.                       *)
Between ==
  \/ Exec \/ RunAsIs \/ Fork \/ CloseWriteEnd \/ Read \/ ReadEof \/ Replay
  \/ SetsAlarm \/ Writes \/ Ends \/ AlarmFires

LEMMA InitTypeOK == Init => TypeOK
<1> SUFFICES ASSUME Init PROVE TypeOK
  OBVIOUS
<1>1. pc = "start" /\ case = 1 /\ bad = 0 /\ worst = 0 /\ unfit = FALSE
  BY DEF Init, None
<1>2. case \in 1..Cases + 1 /\ bad \in 0..case - 1 /\ worst \in 0..case - 1
  BY <1>1, ForkedAssumption
<1> QED
  BY <1>1, <1>2 DEF TypeOK, None

(* Between two visits of the loop's end nothing that TypeOK speaks of moves, *)
(* save where the parent stands.                                            *)
LEMMA BetweenKeepsCounts ==
  ASSUME TypeOK, Between
  PROVE  /\ UNCHANGED sweepVars
         /\ TypeOK'
         /\ pc \notin {"done", "aborted"} => pc' \notin {"done", "aborted"}
         /\ pc \in {"done", "aborted"} => pc' = pc
<1>1. UNCHANGED sweepVars
  BY DEF Between, Exec, RunAsIs, Fork, CloseWriteEnd, Read, ReadEof, Replay, SetsAlarm,
         Writes, Ends, AlarmFires, ioVars
<1>2. CASE Exec
  BY <1>1, <1>2 DEF Exec, TypeOK, sweepVars
<1>3. CASE RunAsIs
  BY <1>1, <1>3 DEF RunAsIs, TypeOK, sweepVars
<1>4. CASE Fork
  BY <1>1, <1>4 DEF Fork, TypeOK, sweepVars
<1>5. CASE CloseWriteEnd
  BY <1>1, <1>5 DEF CloseWriteEnd, TypeOK, sweepVars
<1>6. CASE ReadEof
  BY <1>1, <1>6 DEF ReadEof, TypeOK, sweepVars
<1>7. CASE Replay
  BY <1>1, <1>7 DEF Replay, TypeOK, sweepVars
<1>8. CASE Read \/ SetsAlarm \/ Writes \/ Ends \/ AlarmFires
  BY <1>1, <1>8 DEF Read, SetsAlarm, Writes, Ends, AlarmFires, TypeOK, sweepVars
<1> QED
  BY <1>1, <1>2, <1>3, <1>4, <1>5, <1>6, <1>7, <1>8 DEF Between

LEMMA StepTypeOK == TypeOK /\ [Next]_vars => TypeOK'
<1> SUFFICES ASSUME TypeOK, [Next]_vars
             PROVE  TypeOK'
  OBVIOUS
<1>1. CASE Between
  BY <1>1, BetweenKeepsCounts
<1>2. CASE CallFails
  BY <1>2 DEF CallFails, TypeOK, sweepVars
<1>3. CASE SkipUnfit
  BY <1>3, ForkedAssumption DEF SkipUnfit, TypeOK
<1>4. CASE WaitClean
  BY <1>4, ForkedAssumption DEF WaitClean, TypeOK
<1>5. CASE WaitFailed
  BY <1>5, ForkedAssumption DEF WaitFailed, TypeOK, None
<1>6. CASE Report
  BY <1>6, ForkedAssumption DEF Report, TypeOK, sweepVars
<1>7. CASE Replayed
  BY <1>7 DEF Replayed, TypeOK, sweepVars
<1>8. CASE Finished \/ UNCHANGED vars
  BY <1>8 DEF Finished, vars, sweepVars, TypeOK
<1> QED
  BY <1>1, <1>2, <1>3, <1>4, <1>5, <1>6, <1>7, <1>8 DEF Next, Parent, Child, Between

(* There is a case to replay exactly when one has failed, and nothing is   *)
(* replayed or answered before the loop is through: sweep_repro never runs *)
(* without a case, and no failure is without one.                          *)
THEOREM TypeCorrect == Spec => []TypeOK
BY InitTypeOK, StepTypeOK, PTL DEF Spec
-----------------------------------------------------------------------------
(***************************************************************************)
(* A forked sweep is a sweep.                                              *)
(***************************************************************************)

(* Between two visits of the loop's end the summary does not move either.  *)
LEMMA BetweenIsSilent ==
  ASSUME TypeOK, Between
  PROVE  UNCHANGED Abstract!sweep
<1>1. UNCHANGED <<case, bad, worst, unfit>>
  BY BetweenKeepsCounts DEF sweepVars
<1>2. Answer' = Answer
  BY <1>1, BetweenKeepsCounts DEF Answer, ExitStatus
<1> QED
  BY <1>1, <1>2 DEF Abstract!sweep, Abstract!outcome

LEMMA InitIsStart == Init => Abstract!Start
BY DEF Init, Abstract!Start, Answer, None

LEMMA StepIsSweepStep ==
  ASSUME TypeOK, [Next]_vars
  PROVE  [Abstract!Step]_(Abstract!sweep)
<1> USE DEF Abstract!sweep, Abstract!outcome
<1>1. CASE Between
  BY <1>1, BetweenIsSilent
<1>2. CASE CallFails
  <2>1. Answer = "none" /\ Answer' = "gave up"
    BY <1>2 DEF CallFails, Answer
  <2> QED
    BY <1>2, <2>1 DEF CallFails, sweepVars, Abstract!Step, Abstract!GivesUp
<1>3. CASE SkipUnfit
  <2>1. Answer = "none" /\ Answer' = "none"
    BY <1>3 DEF SkipUnfit, Answer
  <2>2. Abstract!CaseSkipped
    BY <1>3, <2>1, ForkedAssumption DEF SkipUnfit, TypeOK, Abstract!CaseSkipped, Abstract!Settle
  <2> QED
    BY <2>2 DEF Abstract!Step
<1>4. CASE WaitClean
  <2>1. Answer = "none" /\ Answer' = "none"
    BY <1>4 DEF WaitClean, Answer
  <2>2. Abstract!CasePasses
    BY <1>4, <2>1, ForkedAssumption DEF WaitClean, TypeOK, Abstract!CasePasses, Abstract!Settle
  <2> QED
    BY <2>2 DEF Abstract!Step
<1>5. CASE WaitFailed
  <2>1. Answer = "none" /\ Answer' = "none"
    BY <1>5 DEF WaitFailed, Answer
  <2>2. worst' = IF bad = 0 THEN (case - 1) + 1 ELSE worst
    BY <1>5, ForkedAssumption DEF WaitFailed, TypeOK
  <2>3. Abstract!CaseFails
    BY <1>5, <2>1, <2>2, ForkedAssumption
       DEF WaitFailed, TypeOK, Abstract!CaseFails, Abstract!Settle
  <2> QED
    BY <2>3 DEF Abstract!Step
<1>6. CASE Report
  <2>1. UNCHANGED <<case, bad, worst, unfit>> /\ case = Cases + 1
    BY <1>6, ForkedAssumption DEF Report, sweepVars, TypeOK
  <2>2. CASE worst # None
    <3>1. Answer = "none" /\ Answer' = "none"
      BY <1>6, <2>2 DEF Report, Answer
    <3> QED
      BY <2>1, <3>1
  <2>3. CASE worst = None
    <3>1. Answer = "none" /\ Answer' = IF unfit THEN "dirty" ELSE "clean"
      BY <1>6, <2>1, <2>3 DEF Report, Answer, ExitStatus
    <3>2. bad = 0 /\ case - 1 = Cases
      BY <2>1, <2>3, ForkedAssumption DEF TypeOK
    <3> QED
      BY <2>1, <3>1, <3>2 DEF Abstract!Step, Abstract!Answers, TypeOK
  <2> QED
    BY <2>2, <2>3
<1>7. CASE Replayed
  <2>1. UNCHANGED <<case, bad, worst, unfit>> /\ case - 1 = Cases
    BY <1>7, ForkedAssumption DEF Replayed, sweepVars, TypeOK
  <2>2. Answer = "none" /\ Answer' = IF bad = 0 /\ ~unfit THEN "clean" ELSE "dirty"
    BY <1>7, <2>1 DEF Replayed, Answer, ExitStatus, TypeOK
  <2> QED
    BY <2>1, <2>2 DEF Abstract!Step, Abstract!Answers
<1>8. CASE Finished \/ UNCHANGED vars
  <2>1. UNCHANGED <<pc, case, bad, worst, unfit>>
    BY <1>8 DEF Finished, vars, sweepVars
  <2>2. Answer' = Answer
    BY <2>1 DEF Answer, ExitStatus
  <2> QED
    BY <2>1, <2>2
<1> QED
  BY <1>1, <1>2, <1>3, <1>4, <1>5, <1>6, <1>7, <1>8 DEF Next, Parent, Child, Between

(* Every behaviour of the forked sweep settles each case once and in order, *)
(* remembers the first that failed, and answers "clean" only over all of    *)
(* them: the safety part of ImplementsSweep.  That it ends needs fairness.  *)
THEOREM ForkedIsSweep == Spec => Abstract!Steps
<1>1. TypeOK /\ [Next]_vars => [Abstract!Step]_(Abstract!sweep)
  BY StepIsSweepStep
<1> QED
  BY InitIsStart, TypeCorrect, <1>1, PTL DEF Spec, Abstract!Steps

-----------------------------------------------------------------------------
(***************************************************************************)
(* The tally is faithful.  First what the parent holds of a child's output. *)
(***************************************************************************)
Children == [left : Seq(Chunks), fate : Fates, armed : BOOLEAN, status : Statuses]
Through == Len(wrote) - Len(pipe)
Held == IF Through < TextCap THEN Through ELSE TextCap

\* What was written is what was read followed by what is still in the pipe; of the first
\* part the parent keeps all it has room for; and it waits for a child that is gone.
OutputInv ==
  /\ child \in Children
  /\ wrote \in Seq(Chunks) /\ pipe \in Seq(Chunks) /\ text \in Seq(Chunks)
  /\ Through \in Nat
  /\ \A i \in 1..Len(pipe) : pipe[i] = wrote[Through + i]
  /\ Len(text) = Held
  /\ \A i \in 1..Len(text) : text[i] = wrote[i]
  /\ pc = "wait" => ~Alive /\ pipe = <<>>

LEMMA OutputStarts == Init => OutputInv
<1> SUFFICES ASSUME Init PROVE OutputInv
  OBVIOUS
<1>1. child \in Children /\ ~Alive
  BY DEF Init, Idle, Children, Fates, Statuses, Alive
<1>2. wrote = <<>> /\ pipe = <<>> /\ text = <<>> /\ pc = "start"
  BY DEF Init
<1>3. Through = 0 /\ Held = 0
  BY <1>2, ForkedAssumption DEF Through, Held
<1> QED
  BY <1>1, <1>2, <1>3 DEF OutputInv

\* What keeps the output as it is keeps the invariant, unless it starts to wait.
LEMMA OutputRests ==
  ASSUME OutputInv, UNCHANGED ioVars, child' \in Children,
         pc' = "wait" => ~Alive' /\ pipe' = <<>>
  PROVE  OutputInv'
<1>1. UNCHANGED <<wrote, pipe, text>>
  BY DEF ioVars
<1>2. Through' = Through /\ Held' = Held
  BY <1>1 DEF Through, Held
<1> QED
  BY <1>1, <1>2 DEF OutputInv

LEMMA ForkOutput == OutputInv /\ Fork => OutputInv'
<1> SUFFICES ASSUME OutputInv, Fork PROVE OutputInv'
  OBVIOUS
<1>1. child' \in Children
  BY ForkedAssumption DEF Fork, Jobs, Children, Statuses
<1>2. wrote' = <<>> /\ pipe' = <<>> /\ text' = <<>> /\ pc' = "close"
  BY DEF Fork
<1>3. Through' = 0 /\ Held' = 0
  BY <1>2, ForkedAssumption DEF Through, Held
<1> QED
  BY <1>1, <1>2, <1>3 DEF OutputInv

\* A chunk goes from the front of the pipe to the end of the text, or is dropped when
\* there is no room: in either case there is one chunk more behind the parent.
LEMMA ReadOutput == OutputInv /\ Read => OutputInv'
<1> SUFFICES ASSUME OutputInv, Read PROVE OutputInv'
  OBVIOUS
<1>1. /\ pipe \in Seq(Chunks) /\ pipe # <<>> /\ pipe' = Tail(pipe)
      /\ text \in Seq(Chunks) /\ text' = Kept(text, Head(pipe))
      /\ wrote \in Seq(Chunks) /\ UNCHANGED <<wrote, child, pc>> /\ pc = "drain"
      /\ child \in Children
  BY DEF Read, OutputInv
<1>2. /\ Len(pipe') = Len(pipe) - 1 /\ pipe' \in Seq(Chunks) /\ Head(pipe) = pipe[1]
      /\ \A i \in 1..Len(pipe') : pipe'[i] = pipe[i + 1]
      /\ Head(pipe) \in Chunks /\ Len(pipe) \in Nat \ {0}
  BY <1>1
<1>3. Through \in Nat /\ Through' = Through + 1
  BY <1>1, <1>2 DEF Through, OutputInv
<1>4. \A i \in 1..Len(pipe) : pipe[i] = wrote[Through + i]
  BY DEF OutputInv
<1>5. \A i \in 1..Len(pipe') : pipe'[i] = wrote'[Through' + i]
  <2> TAKE i \in 1..Len(pipe')
  <2>1. pipe'[i] = pipe[i + 1] /\ i + 1 \in 1..Len(pipe)
    BY <1>2
  <2>2. pipe[i + 1] = wrote[Through + (i + 1)]
    BY <1>4, <2>1
  <2>3. Through + (i + 1) = Through' + i
    BY <1>3
  <2> QED
    BY <1>1, <2>1, <2>2, <2>3
<1>6. Len(text) = Held /\ (\A i \in 1..Len(text) : text[i] = wrote[i])
  BY DEF OutputInv
<1>7. Head(pipe) = wrote[Through + 1]
  BY <1>2, <1>4
<1>8. /\ child' \in Children /\ wrote' \in Seq(Chunks) /\ pipe' \in Seq(Chunks)
      /\ Through' \in Nat /\ pc' # "wait"
  BY <1>1, <1>2, <1>3
<1>9. CASE Len(text) < TextCap
  <2>1. text' = Append(text, Head(pipe)) /\ Len(text) = Through
    BY <1>1, <1>3, <1>6, <1>9, ForkedAssumption DEF Kept, Held
  <2>2. /\ text' \in Seq(Chunks) /\ Len(text') = Through + 1 /\ text'[Through + 1] = Head(pipe)
        /\ \A i \in 1..Through : text'[i] = text[i]
    <3>1. text \in Seq(Chunks) /\ Head(pipe) \in Chunks
      BY <1>1, <1>2
    <3> HIDE DEF OutputInv
    <3> QED
      BY <3>1, <2>1, <1>3, AppendProperties
  <2>3. Held' = Through + 1
    BY <1>3, <1>9, <2>1, ForkedAssumption DEF Held
  <2>4. \A i \in 1..Len(text') : text'[i] = wrote'[i]
    BY <1>1, <1>3, <1>6, <1>7, <2>1, <2>2
  <2>5. Len(text') = Held'
    BY <2>2, <2>3
  <2> QED
    BY <1>5, <1>8, <2>2, <2>4, <2>5, Zenon DEF OutputInv
<1>10. CASE ~(Len(text) < TextCap)
  <2>1. text' = text
    BY <1>1, <1>10 DEF Kept
  <2>2. Held' = Held
    BY <1>3, <1>6, <1>10, ForkedAssumption DEF Held
  <2>3. /\ text' \in Seq(Chunks) /\ Len(text') = Held'
        /\ \A i \in 1..Len(text') : text'[i] = wrote'[i]
    BY <1>1, <1>6, <2>1, <2>2, Zenon
  <2> QED
    BY <1>5, <1>8, <2>3, Zenon DEF OutputInv
<1> QED
  BY <1>9, <1>10

LEMMA WritesOutput == OutputInv /\ Writes => OutputInv'
<1> SUFFICES ASSUME OutputInv, Writes PROVE OutputInv'
  OBVIOUS
<1> DEFINE chunk == Head(child.left)
<1>1. /\ child \in Children /\ child.left # <<>> /\ Alive
      /\ child' = [child EXCEPT !.left = Tail(@)]
      /\ pipe' = Append(pipe, chunk) /\ wrote' = Append(wrote, chunk)
      /\ UNCHANGED <<text, pc>>
      /\ pipe \in Seq(Chunks) /\ wrote \in Seq(Chunks) /\ text \in Seq(Chunks)
  BY DEF Writes, OutputInv
<1>2. child.left \in Seq(Chunks) /\ chunk \in Chunks /\ Tail(child.left) \in Seq(Chunks)
  BY <1>1 DEF Children
<1>3. child' \in Children
  BY <1>1, <1>2 DEF Children
<1> HIDE DEF chunk
<1>4. /\ pipe' \in Seq(Chunks) /\ wrote' \in Seq(Chunks)
      /\ Len(pipe') = Len(pipe) + 1 /\ Len(wrote') = Len(wrote) + 1
      /\ pipe'[Len(pipe) + 1] = chunk /\ wrote'[Len(wrote) + 1] = chunk
      /\ \A i \in 1..Len(pipe) : pipe'[i] = pipe[i]
      /\ \A i \in 1..Len(wrote) : wrote'[i] = wrote[i]
      /\ Len(pipe) \in Nat /\ Len(wrote) \in Nat
  BY <1>1, <1>2
<1>5. Through \in Nat /\ Through' = Through /\ Held' = Held /\ Through + Len(pipe) = Len(wrote)
  BY <1>4 DEF Through, Held, OutputInv
<1>6. \A i \in 1..Len(pipe') : pipe'[i] = wrote'[Through + i]
  <2>1. \A i \in 1..Len(pipe) : pipe[i] = wrote[Through + i]
    BY DEF OutputInv
  <2>2. \A i \in 1..Len(pipe) : Through + i \in 1..Len(wrote)
    BY <1>4, <1>5
  <2>3. \A i \in 1..Len(pipe) : pipe'[i] = wrote'[Through + i]
    BY <1>4, <2>1, <2>2
  <2>4. pipe'[Len(pipe) + 1] = wrote'[Through + (Len(pipe) + 1)]
    BY <1>4, <1>5
  <2> QED
    BY <1>4, <2>3, <2>4
<1>7. \A i \in 1..Len(text') : text'[i] = wrote'[i]
  <2>1. Len(text) = Held /\ (\A i \in 1..Len(text) : text[i] = wrote[i])
    BY DEF OutputInv
  <2>2. Held <= Len(wrote)
    BY <1>4, <1>5, ForkedAssumption DEF Held
  <2> QED
    BY <1>1, <1>4, <2>1, <2>2
<1>8. Len(text') = Held' /\ pc' # "wait"
  BY <1>1, <1>5 DEF OutputInv
<1> QED
  BY <1>1, <1>3, <1>4, <1>5, <1>6, <1>7, <1>8 DEF OutputInv

LEMMA OutputStep == OutputInv /\ [Next]_vars => OutputInv'
<1> SUFFICES ASSUME OutputInv, [Next]_vars PROVE OutputInv'
  OBVIOUS
<1>1. CASE Fork
  BY <1>1, ForkOutput
<1>2. CASE Read
  BY <1>2, ReadOutput
<1>3. CASE Writes
  BY <1>3, WritesOutput
<1>4. CASE CloseWriteEnd
  <2>1. UNCHANGED <<wrote, pipe, text, child>> /\ pc' = "drain"
    BY <1>4 DEF CloseWriteEnd
  <2>2. Through' = Through /\ Held' = Held
    BY <2>1 DEF Through, Held
  <2> QED
    BY <2>1, <2>2 DEF OutputInv
<1>5. CASE SetsAlarm \/ Ends \/ AlarmFires
  <2>1. UNCHANGED ioVars /\ UNCHANGED pc /\ child \in Children /\ Alive
    BY <1>5 DEF SetsAlarm, Ends, AlarmFires, OutputInv
  <2>2. child' \in Children
    BY <1>5, <2>1 DEF SetsAlarm, Ends, AlarmFires, Children, Fates, Statuses
  <2>3. pc' # "wait"
    BY <2>1 DEF OutputInv
  <2> QED
    BY <2>1, <2>2, <2>3, OutputRests
<1>6. CASE ReadEof
  <2>1. /\ UNCHANGED ioVars /\ UNCHANGED child /\ ~Alive /\ pipe = <<>>
        /\ child \in Children
    BY <1>6 DEF ReadEof, OutputInv
  <2>2. ~Alive' /\ pipe' = <<>>
    BY <2>1 DEF Alive, ioVars
  <2> QED
    BY <2>1, <2>2, OutputRests
<1>7. CASE Replay
  <2>1. UNCHANGED ioVars /\ pc' = "replaying" /\ child' \in Children
    BY <1>7 DEF Replay, Children, Statuses
  <2> QED
    BY <2>1, OutputRests
<1>8. CASE Exec \/ RunAsIs \/ CallFails \/ SkipUnfit \/ WaitClean \/ WaitFailed \/ Report \/ Replayed
  <2>1. UNCHANGED ioVars /\ UNCHANGED child /\ pc' # "wait"
    BY <1>8 DEF Exec, RunAsIs, CallFails, SkipUnfit, WaitClean, WaitFailed, Report, Replayed
  <2> QED
    BY <2>1, OutputRests DEF OutputInv
<1>9. CASE Finished \/ UNCHANGED vars
  <2>1. UNCHANGED ioVars /\ UNCHANGED child /\ UNCHANGED pc
    BY <1>9 DEF Finished, vars
  <2> QED
    BY <2>1, OutputRests DEF OutputInv, ioVars, Alive
<1> QED
  BY <1>1, <1>2, <1>3, <1>4, <1>5, <1>6, <1>7, <1>8, <1>9 DEF Next, Parent, Child

\* By the time the parent waits it holds all the child ever wrote, as far as it keeps it.
LEMMA AllRead ==
  ASSUME OutputInv, pc = "wait"
  PROVE  text = SubSeq(wrote, 1, Min({Len(wrote), TextCap}))
<1>1. wrote \in Seq(Chunks) /\ text \in Seq(Chunks) /\ pipe = <<>>
  BY DEF OutputInv
<1>2. Len(wrote) \in Nat /\ TextCap \in Nat /\ Through = Len(wrote)
  BY <1>1, ForkedAssumption DEF Through
<1>3. Min({Len(wrote), TextCap}) = Held
  BY <1>2 DEF Min, Held
<1>4. Held \in 0..Len(wrote) /\ Len(text) = Held
  BY <1>2 DEF Held, OutputInv
<1> DEFINE front == SubSeq(wrote, 1, Held)
<1>5. front \in Seq(Chunks) /\ Len(front) = Held /\ \A i \in 1..Held : front[i] = wrote[i]
  BY <1>1, <1>2, <1>4
<1>6. \A i \in 1..Held : text[i] = front[i]
  BY <1>4, <1>5 DEF OutputInv
<1> HIDE DEF front
<1>7. text = front
  BY <1>1, <1>4, <1>5, <1>6
<1> QED
  BY <1>3, <1>7 DEF front

-----------------------------------------------------------------------------
(***************************************************************************)
(* Adding up.                                                              *)
(***************************************************************************)
Whys == {"asan", "ubsan", "hung", "signal", "exit", Other}
Slots == [why : Whys, n : Nat]
Failures == [case : Nat, why : Whys]
Own(t) == { i \in DOMAIN t : i < TallyKinds }
Named(t) == { t[i].why : i \in Own(t) }

\* How many of the entries of s have a kind in W.
CountIn(s, W) == Cardinality({ k \in DOMAIN s : s[k].why \in W })

\* The tally t over the failures s, b of them: as long as the last slot is free every
\* failure is under its own name, and then the last slot holds the rest.
Ledger(t, s, b) ==
  /\ t \in Seq(Slots) /\ s \in Seq(Failures) /\ b \in Nat /\ Len(s) = b
  /\ \A i \in Own(t) : t[i].n = CountIn(s, {t[i].why}) /\ t[i].n > 0
  /\ \A i, j \in Own(t) : t[i].why = t[j].why => i = j
  /\ Len(t) < TallyKinds => \A k \in DOMAIN s : s[k].why \in Named(t)
  /\ Len(t) = TallyKinds => t[TallyKinds].n = CountIn(s, Whys \ Named(t))
  /\ Len(t) <= TallyKinds /\ Sum(t) = b

TallyInv ==
  /\ Ledger(tally, failed, bad)
  /\ worst = IF failed = <<>> THEN None ELSE failed[1].case

\* f holds what the first i slots of t add up to, for each i <= n.
UpTo(f, t, n) == f = [i \in 0..n |-> IF i = 0 THEN 0 ELSE f[i - 1] + t[i].n]

LEMMA TotalsExist ==
  ASSUME NEW t \in Seq(Slots), NEW n \in Nat
  PROVE  \E f \in [0..n -> Nat] : n <= Len(t) => UpTo(f, t, n)
<1> DEFINE T == { m \in Nat : \E f \in [0..m -> Nat] : m <= Len(t) => UpTo(f, t, m) }
<1>1. 0 \in T
  <2> DEFINE f == [i \in 0..0 |-> 0]
  <2>1. f \in [0..0 -> Nat] /\ f[0] = 0
    OBVIOUS
  <2>2. UpTo(f, t, 0)
    BY DEF UpTo
  <2> QED
    BY <2>1, <2>2
<1>2. ASSUME NEW m \in Nat, m \in T PROVE m + 1 \in T
  <2>1. PICK f \in [0..m -> Nat] : m <= Len(t) => UpTo(f, t, m)
    BY <1>2
  <2>2. CASE m + 1 <= Len(t)
    <3>1. t[m + 1].n \in Nat /\ m <= Len(t)
      <4>1. m + 1 \in 1..Len(t) /\ m <= Len(t)
        BY <2>2
      <4>2. t[m + 1] \in Slots
        BY <4>1, ElementOfSeq
      <4> QED
        BY <4>1, <4>2 DEF Slots
    <3> DEFINE g == [i \in 0..m + 1 |-> IF i = m + 1 THEN f[m] + t[m + 1].n ELSE f[i]]
    <3>2. g \in [0..m + 1 -> Nat]
      BY <3>1
    <3>3. g[m + 1] = f[m] + t[m + 1].n /\ \A i \in 0..m : g[i] = f[i]
      OBVIOUS
    <3>4. \A i \in 0..m : f[i] = IF i = 0 THEN 0 ELSE f[i - 1] + t[i].n
      BY <2>1, <3>1 DEF UpTo
    <3>5. ASSUME NEW i \in 0..m + 1 PROVE g[i] = IF i = 0 THEN 0 ELSE g[i - 1] + t[i].n
      <4>1. CASE i = m + 1
        BY <3>3, <4>1
      <4>2. CASE i \in 0..m
        <5>1. i # 0 => i - 1 \in 0..m
          BY <4>2
        <5> QED
          BY <3>3, <3>4, <4>2, <5>1
      <4> QED
        BY <4>1, <4>2
    <3> HIDE DEF g
    <3>6. UpTo(g, t, m + 1)
      BY <3>2, <3>5 DEF UpTo
    <3> QED
      BY <3>2, <3>6
  <2>3. CASE ~(m + 1 <= Len(t))
    <3>1. [i \in 0..m + 1 |-> 0] \in [0..m + 1 -> Nat]
      OBVIOUS
    <3> QED
      BY <2>3, <3>1
  <2> QED
    BY <2>2, <2>3
<1> HIDE DEF T
<1>3. Nat \subseteq T
  BY <1>1, <1>2, SetInduction
<1> QED
  BY <1>3 DEF T

Totals(f, t) == f[0] = 0 /\ \A i \in 1..Len(t) : f[i] = f[i - 1] + t[i].n

LEMMA SumIsTotal ==
  ASSUME NEW t \in Seq(Slots)
  PROVE  \E f : Totals(f, t) /\ Sum(t) = f[Len(t)]
<1> DEFINE n == Len(t)
           total == CHOOSE f : UpTo(f, t, n)
<1>1. n \in Nat
  OBVIOUS
<1>2. \E f : UpTo(f, t, n)
  <2>1. PICK f \in [0..n -> Nat] : n <= Len(t) => UpTo(f, t, n)
    BY <1>1, TotalsExist, Zenon
  <2>2. n <= Len(t)
    BY <1>1
  <2> QED
    BY <2>1, <2>2
<1>3. UpTo(total, t, n)
  BY <1>2
<1>4. Sum(t) = total[n]
  BY Zenon DEF Sum, UpTo
<1> HIDE DEF total
<1>5. \A i \in 0..n : total[i] = IF i = 0 THEN 0 ELSE total[i - 1] + t[i].n
  BY <1>3 DEF UpTo
<1>6. Totals(total, t)
  BY <1>1, <1>5 DEF Totals
<1> QED
  BY <1>4, <1>6

\* Slot by slot u counts what t counts, and one more in slot j.
OneMoreIn(j, t, u) ==
  /\ Len(t) <= Len(u)
  /\ \A i \in 1..Len(t) : u[i].n = t[i].n + (IF i = j THEN 1 ELSE 0)

Bump(j, n) == IF j <= n THEN 1 ELSE 0

LEMMA Carry ==
  ASSUME NEW a \in Nat, NEW b, NEW x \in Nat, NEW j \in Nat, NEW m \in Nat,
         b = a + (IF j <= m THEN 1 ELSE 0)
  PROVE  /\ a + x \in Nat
         /\ b + (x + (IF m + 1 = j THEN 1 ELSE 0)) = (a + x) + (IF j <= m + 1 THEN 1 ELSE 0)
  OBVIOUS

TotalsOf(t, f, u, g, j) ==
  /\ t \in Seq(Slots) /\ Totals(f, t)
  /\ u \in Seq(Slots) /\ Totals(g, u)
  /\ j \in Nat /\ j # 0 /\ OneMoreIn(j, t, u)

LEMMA TotalsAgree ==
  ASSUME NEW t, NEW f, NEW u, NEW g, NEW j, TotalsOf(t, f, u, g, j)
  PROVE  f[Len(t)] \in Nat /\ g[Len(t)] = f[Len(t)] + Bump(j, Len(t))
<1> USE DEF Bump
<1> DEFINE n == Len(t)
<1>0. /\ t \in Seq(Slots) /\ Totals(f, t) /\ u \in Seq(Slots) /\ Totals(g, u)
      /\ j \in Nat /\ j # 0 /\ OneMoreIn(j, t, u)
      /\ n \in Nat /\ n <= Len(u) /\ Len(u) \in Nat
  BY DEF TotalsOf, OneMoreIn
<1> DEFINE T == { m \in Nat : m <= n => f[m] \in Nat /\ g[m] = f[m] + (IF j <= m THEN 1 ELSE 0) }
<1>1. 0 \in T
  BY <1>0 DEF Totals
<1>2. ASSUME NEW m \in Nat, m \in T PROVE m + 1 \in T
  <2>1. CASE ~(m + 1 <= n)
    BY <2>1
  <2>2. CASE m + 1 <= n
    <3>1. m + 1 \in 1..Len(t) /\ m + 1 \in 1..Len(u) /\ m + 1 \in 1..n
      BY <1>0, <2>2
    <3>2. t[m + 1].n \in Nat
      <4>1. t[m + 1] \in Slots
        BY <1>0, <3>1, ElementOfSeq
      <4> QED
        BY <4>1 DEF Slots
    <3>3. f[m + 1] = f[m] + t[m + 1].n /\ g[m + 1] = g[m] + u[m + 1].n
      <4>1. f[m + 1] = f[(m + 1) - 1] + t[m + 1].n /\ g[m + 1] = g[(m + 1) - 1] + u[m + 1].n
        BY <1>0, <3>1 DEF Totals
      <4> QED
        BY <4>1
    <3>4. u[m + 1].n = t[m + 1].n + (IF m + 1 = j THEN 1 ELSE 0)
      BY <1>0, <3>1 DEF OneMoreIn
    <3>5. f[m] \in Nat /\ g[m] = f[m] + (IF j <= m THEN 1 ELSE 0)
      BY <1>2, <2>2
    <3>6. f[m + 1] \in Nat /\ g[m + 1] = f[m + 1] + (IF j <= m + 1 THEN 1 ELSE 0)
      <4>1. /\ f[m] + t[m + 1].n \in Nat
            /\ g[m] + (t[m + 1].n + (IF m + 1 = j THEN 1 ELSE 0))
                  = (f[m] + t[m + 1].n) + (IF j <= m + 1 THEN 1 ELSE 0)
        <5>1. j \in Nat
          BY <1>0
        <5> QED
          BY <3>2, <3>5, <5>1, Carry
      <4> QED
        BY <3>3, <3>4, <4>1, Zenon
    <3> QED
      BY <3>6
  <2> QED
    BY <2>1, <2>2
<1> HIDE DEF T
<1>3. n \in T
  BY <1>0, <1>1, <1>2, SetInduction
<1> QED
  BY <1>0, <1>3 DEF T

\* One more in a slot that is there, or a new slot with one: the sum is one more.
LEMMA OneMore ==
  ASSUME NEW t \in Seq(Slots), NEW j \in 1..Len(t)
  PROVE  LET u == [t EXCEPT ![j].n = @ + 1]
         IN  /\ u \in Seq(Slots) /\ Len(u) = Len(t)
             /\ \A i \in 1..Len(t) : u[i].why = t[i].why
             /\ \A i \in 1..Len(t) : u[i].n = t[i].n + (IF i = j THEN 1 ELSE 0)
             /\ Sum(u) = Sum(t) + 1
<1> DEFINE u == [t EXCEPT ![j].n = @ + 1]
<1>1. t[j] \in Slots /\ Len(t) \in Nat
  BY ElementOfSeq
<1>2. [t[j] EXCEPT !.n = @ + 1] \in Slots
  BY <1>1 DEF Slots
<1>3. u = [t EXCEPT ![j] = [t[j] EXCEPT !.n = @ + 1]]
  OBVIOUS
<1>4. u \in Seq(Slots) /\ Len(u) = Len(t) /\ DOMAIN u = 1..Len(t)
  BY <1>2, <1>3, ExceptSeq
<1>5. ASSUME NEW i \in 1..Len(t)
      PROVE  u[i].why = t[i].why /\ u[i].n = t[i].n + (IF i = j THEN 1 ELSE 0)
  <2>1. t[i] \in Slots
    BY ElementOfSeq
  <2> QED
    BY <2>1, <1>1, <1>3 DEF Slots
<1> HIDE DEF u
<1>6. PICK f : Totals(f, t) /\ Sum(t) = f[Len(t)]
  BY SumIsTotal
<1>7. PICK g : Totals(g, u) /\ Sum(u) = g[Len(u)]
  BY <1>4, SumIsTotal
<1>8. g[Len(t)] = f[Len(t)] + 1
  <2>1. j \in Nat /\ j # 0 /\ j <= Len(t)
    BY <1>1
  <2>2. OneMoreIn(j, t, u)
    BY <1>1, <1>4, <1>5 DEF OneMoreIn
  <2>3. f[Len(t)] \in Nat /\ g[Len(t)] = f[Len(t)] + Bump(j, Len(t))
    <3>1. TotalsOf(t, f, u, g, j)
      BY <1>4, <1>6, <1>7, <2>1, <2>2 DEF TotalsOf
    <3> QED
      BY <3>1, TotalsAgree, Zenon
  <2> QED
    BY <2>1, <2>3 DEF Bump
<1>9. Sum(u) = Sum(t) + 1
  BY <1>4, <1>6, <1>7, <1>8
<1> QED
  BY <1>4, <1>5, <1>9 DEF u

LEMMA NewSlot ==
  ASSUME NEW t \in Seq(Slots), NEW why \in Whys
  PROVE  LET u == Append(t, [why |-> why, n |-> 1])
         IN  /\ u \in Seq(Slots) /\ Len(u) = Len(t) + 1
             /\ u[Len(t) + 1] = [why |-> why, n |-> 1]
             /\ \A i \in 1..Len(t) : u[i] = t[i]
             /\ Sum(u) = Sum(t) + 1
<1> DEFINE slot == [why |-> why, n |-> 1]
           u == Append(t, slot)
<1>1. slot \in Slots /\ slot.n = 1 /\ Len(t) \in Nat
  BY DEF Slots
<1> HIDE DEF slot
<1>2. /\ u \in Seq(Slots) /\ Len(u) = Len(t) + 1 /\ u[Len(t) + 1] = slot
      /\ \A i \in 1..Len(t) : u[i] = t[i]
  BY <1>1, AppendProperties
<1> HIDE DEF u
<1>3. PICK f : Totals(f, t) /\ Sum(t) = f[Len(t)]
  BY SumIsTotal
<1>4. PICK g : Totals(g, u) /\ Sum(u) = g[Len(u)]
  BY <1>2, SumIsTotal
<1>5. f[Len(t)] \in Nat /\ g[Len(t)] = f[Len(t)]
  <2>1. Len(t) + 1 \in Nat /\ Len(t) + 1 # 0
    BY <1>1
  <2>2. OneMoreIn(Len(t) + 1, t, u)
    <3>1. ASSUME NEW i \in 1..Len(t)
          PROVE  u[i].n = t[i].n + (IF i = Len(t) + 1 THEN 1 ELSE 0)
      <4>1. t[i] \in Slots
        BY ElementOfSeq
      <4>2. u[i] = t[i] /\ t[i].n \in Nat
        BY <1>2, <4>1 DEF Slots
      <4> QED
        BY <1>1, <4>2
    <3> QED
      BY <1>1, <1>2, <3>1 DEF OneMoreIn
  <2>3. f[Len(t)] \in Nat /\ g[Len(t)] = f[Len(t)] + Bump(Len(t) + 1, Len(t))
    <3>1. TotalsOf(t, f, u, g, Len(t) + 1)
      BY <1>2, <1>3, <1>4, <2>1, <2>2 DEF TotalsOf
    <3> QED
      BY <3>1, TotalsAgree, Zenon
  <2> QED
    BY <1>1, <2>3 DEF Bump
<1>6. g[Len(t) + 1] = g[Len(t)] + 1
  <2>1. g[Len(t) + 1] = g[(Len(t) + 1) - 1] + u[Len(t) + 1].n
    BY <1>1, <1>2, <1>4 DEF Totals
  <2> QED
    BY <1>1, <1>2, <2>1
<1>7. Sum(u) = Sum(t) + 1
  BY <1>2, <1>3, <1>4, <1>5, <1>6
<1> QED
  BY <1>2, <1>7 DEF u, slot

LEMMA OneMoreFailure ==
  ASSUME NEW s \in Seq(Failures), NEW e \in Failures, NEW W
  PROVE  /\ CountIn(s, W) \in Nat
         /\ CountIn(Append(s, e), W) = IF e.why \in W THEN CountIn(s, W) + 1 ELSE CountIn(s, W)
<1> DEFINE u == Append(s, e)
           S == { k \in DOMAIN s : s[k].why \in W }
           U == { k \in DOMAIN u : u[k].why \in W }
<1>1. /\ u \in Seq(Failures) /\ Len(u) = Len(s) + 1 /\ u[Len(s) + 1] = e
      /\ \A i \in 1..Len(s) : u[i] = s[i]
  BY AppendProperties
<1>2. DOMAIN s = 1..Len(s) /\ DOMAIN u = 1..Len(s) + 1 /\ Len(s) \in Nat
  BY <1>1
<1> HIDE DEF u
<1>3. IsFiniteSet(S)
  <2>1. IsFiniteSet(1..Len(s)) /\ S \subseteq 1..Len(s)
    BY <1>2, FS_Interval
  <2> QED
    BY <2>1, FS_Subset
<1>4. Cardinality(S) \in Nat
  BY <1>3, FS_CardinalityType
<1>5. U = IF e.why \in W THEN S \cup {Len(s) + 1} ELSE S
  BY <1>1, <1>2
<1>6. Len(s) + 1 \notin S
  BY <1>2
<1>7. Cardinality(S \cup {Len(s) + 1}) = Cardinality(S) + 1
  BY <1>3, <1>6, FS_AddElement
<1>8. Cardinality(U) = IF e.why \in W THEN Cardinality(S) + 1 ELSE Cardinality(S)
  BY <1>5, <1>7, Zenon
<1>9. CountIn(u, W) = Cardinality(U) /\ CountIn(s, W) = Cardinality(S)
  BY Zenon DEF CountIn
<1> QED
  BY <1>4, <1>8, <1>9, Zenon DEF u

LEMMA NoneCounted ==
  ASSUME NEW s \in Seq(Failures), NEW W, \A k \in DOMAIN s : s[k].why \notin W
  PROVE  CountIn(s, W) = 0
<1>1. { k \in DOMAIN s : s[k].why \in W } = {}
  OBVIOUS
<1> QED
  BY <1>1, FS_EmptySet, Zenon DEF CountIn

\* A kind with a slot of its own has only that one.
LEMMA OneSlot ==
  ASSUME NEW t, NEW s, NEW b, Ledger(t, s, b), NEW why
  PROVE  /\ SlotOfKind(t, why) = { i \in Own(t) : t[i].why = why }
         /\ \A j \in SlotOfKind(t, why) : Min(SlotOfKind(t, why)) = j
<1>1. t \in Seq(Slots) /\ Len(t) \in Nat /\ DOMAIN t = 1..Len(t) /\ TallyKinds \in Nat \ {0}
  BY ForkedAssumption DEF Ledger
<1>2. Min({Len(t), TallyKinds - 1}) = IF Len(t) < TallyKinds THEN Len(t) ELSE TallyKinds - 1
  BY <1>1 DEF Min
<1>3. 1..Min({Len(t), TallyKinds - 1}) = Own(t)
  BY <1>1, <1>2 DEF Own
<1>4. SlotOfKind(t, why) = { i \in Own(t) : t[i].why = why }
  BY <1>3 DEF SlotOfKind
<1>5. ASSUME NEW j \in SlotOfKind(t, why)
      PROVE  Min(SlotOfKind(t, why)) = j
  <2>1. \A i \in SlotOfKind(t, why) : i = j
    BY <1>4 DEF Ledger
  <2>2. SlotOfKind(t, why) = {j} /\ j \in Nat
    BY <1>1, <1>4, <2>1 DEF Own
  <2>3. Min({j}) = j
    BY <2>2 DEF Min
  <2> QED
    BY <2>2, <2>3
<1> QED
  BY <1>4, <1>5

\* One failure more, of a kind that has a slot.
LEMMA KnownKind ==
  ASSUME NEW t, NEW s, NEW b, Ledger(t, s, b), NEW e \in Failures,
         NEW j \in Own(t), t[j].why = e.why
  PROVE  Ledger([t EXCEPT ![j].n = @ + 1], Append(s, e), b + 1)
<1> DEFINE u == [t EXCEPT ![j].n = @ + 1]
           v == Append(s, e)
<1>1. t \in Seq(Slots) /\ s \in Seq(Failures) /\ Len(t) \in Nat /\ j \in 1..Len(t)
      /\ b \in Nat /\ Len(s) = b /\ Len(t) <= TallyKinds /\ Sum(t) = b
  BY DEF Ledger, Own
<1>2. /\ u \in Seq(Slots) /\ Len(u) = Len(t)
      /\ \A i \in 1..Len(t) : u[i].why = t[i].why
      /\ \A i \in 1..Len(t) : u[i].n = t[i].n + (IF i = j THEN 1 ELSE 0)
      /\ Sum(u) = Sum(t) + 1
  BY <1>1, OneMore, Zenon
<1>3. /\ v \in Seq(Failures) /\ Len(v) = b + 1 /\ v[b + 1] = e
      /\ \A k \in 1..b : v[k] = s[k]
  BY <1>1, AppendProperties
<1>4. \A W : /\ CountIn(s, W) \in Nat
             /\ CountIn(v, W) = IF e.why \in W THEN CountIn(s, W) + 1 ELSE CountIn(s, W)
  BY <1>1, OneMoreFailure
<1> HIDE DEF u, v
<1>5. Own(u) = Own(t) /\ Own(t) \subseteq 1..Len(t)
  BY <1>1, <1>2 DEF Own
<1>6. Named(u) = Named(t) /\ e.why \in Named(t)
  BY <1>2, <1>5 DEF Named
<1>7. ASSUME NEW i \in Own(u)
      PROVE  u[i].n = CountIn(v, {u[i].why}) /\ u[i].n > 0
  <2>1. /\ i \in Own(t) /\ u[i].why = t[i].why
        /\ u[i].n = t[i].n + (IF i = j THEN 1 ELSE 0)
    BY <1>2, <1>5
  <2>2. t[i].n = CountIn(s, {t[i].why}) /\ t[i].n > 0 /\ (t[i].why = t[j].why => i = j)
    BY <2>1 DEF Ledger
  <2>3. CountIn(s, {t[i].why}) \in Nat
    BY <1>4
  <2>4. e.why \in {t[i].why} <=> i = j
    BY <2>2
  <2>5. CountIn(v, {t[i].why}) = CountIn(s, {t[i].why}) + (IF i = j THEN 1 ELSE 0)
    BY <1>4, <2>3, <2>4
  <2>6. u[i].n = CountIn(v, {t[i].why})
    BY <2>1, <2>2, <2>5, Zenon
  <2>7. u[i].n > 0
    BY <2>1, <2>2, <2>3
  <2> QED
    BY <2>1, <2>6, <2>7
<1>8. \A i, k \in Own(u) : u[i].why = u[k].why => i = k
  BY <1>2, <1>5 DEF Ledger
<1>9. Len(u) < TallyKinds => \A k \in DOMAIN v : v[k].why \in Named(u)
  <2> SUFFICES ASSUME Len(u) < TallyKinds, NEW k \in 1..b + 1
               PROVE  v[k].why \in Named(t)
    BY <1>3, <1>6
  <2>1. \A m \in 1..b : s[m].why \in Named(t)
    BY <1>1, <1>2 DEF Ledger
  <2>2. k = b + 1 \/ k \in 1..b
    BY <1>1
  <2> QED
    BY <1>3, <1>6, <2>1, <2>2
<1>10. Len(u) = TallyKinds => u[TallyKinds].n = CountIn(v, Whys \ Named(u))
  <2> SUFFICES ASSUME Len(u) = TallyKinds
               PROVE  u[TallyKinds].n = CountIn(v, Whys \ Named(u))
    OBVIOUS
  <2>1. TallyKinds \in 1..Len(t) /\ TallyKinds # j
    BY <1>1, <1>2, ForkedAssumption DEF Own
  <2>2. t[TallyKinds].n \in Nat
    <3>1. t[TallyKinds] \in Slots
      BY <1>1, <2>1, ElementOfSeq
    <3> QED
      BY <3>1 DEF Slots
  <2>3. u[TallyKinds].n = t[TallyKinds].n
    BY <1>2, <2>1, <2>2
  <2>4. t[TallyKinds].n = CountIn(s, Whys \ Named(t))
    BY <1>2 DEF Ledger
  <2>5. CountIn(v, Whys \ Named(t)) = CountIn(s, Whys \ Named(t))
    <3>1. e.why \notin Whys \ Named(t)
      BY <1>6
    <3> QED
      BY <1>4, <3>1
  <2> QED
    BY <1>6, <2>3, <2>4, <2>5
<1>11. b + 1 \in Nat /\ Len(u) <= TallyKinds /\ Sum(u) = b + 1
  BY <1>1, <1>2
<1>12. Ledger(u, v, b + 1)
  BY <1>2, <1>3, <1>7, <1>8, <1>9, <1>10, <1>11 DEF Ledger
<1> QED
  BY <1>12 DEF u, v

\* The first failure of a kind, with a slot of its own to spare.
LEMMA FirstOfItsKind ==
  ASSUME NEW t, NEW s, NEW b, Ledger(t, s, b), NEW e \in Failures,
         Len(t) < TallyKinds - 1, e.why \notin Named(t)
  PROVE  Ledger(Append(t, [why |-> e.why, n |-> 1]), Append(s, e), b + 1)
<1> DEFINE u == Append(t, [why |-> e.why, n |-> 1])
           v == Append(s, e)
           last == Len(t) + 1
<1>1. t \in Seq(Slots) /\ s \in Seq(Failures) /\ Len(t) \in Nat
      /\ b \in Nat /\ Len(s) = b /\ Sum(t) = b /\ e.why \in Whys
  BY DEF Ledger, Failures
<1>2. /\ u \in Seq(Slots) /\ Len(u) = last /\ u[last] = [why |-> e.why, n |-> 1]
      /\ \A i \in 1..Len(t) : u[i] = t[i]
      /\ Sum(u) = Sum(t) + 1
  BY <1>1, NewSlot, Zenon
<1>3. /\ v \in Seq(Failures) /\ Len(v) = b + 1 /\ v[b + 1] = e
      /\ \A k \in 1..b : v[k] = s[k]
  BY <1>1, AppendProperties
<1>4. \A W : /\ CountIn(s, W) \in Nat
             /\ CountIn(v, W) = IF e.why \in W THEN CountIn(s, W) + 1 ELSE CountIn(s, W)
  BY <1>1, OneMoreFailure
<1> HIDE DEF u, v
<1>5. /\ Own(t) = 1..Len(t) /\ Own(u) = 1..last
      /\ last \in Nat /\ last = Len(t) + 1 /\ last < TallyKinds
  BY <1>1, <1>2, ForkedAssumption DEF Own
<1>6. u[last].why = e.why /\ u[last].n = 1
  BY <1>2
<1> HIDE DEF last
<1>7. \A i \in 1..last : i = last \/ (i \in Own(t) /\ u[i] = t[i])
  BY <1>1, <1>2, <1>5
<1>8. Named(u) = Named(t) \cup {e.why}
  <2>1. last \in Own(u) /\ \A i \in Own(t) : i \in Own(u) /\ u[i] = t[i]
    BY <1>1, <1>2, <1>5
  <2>2. \A i \in Own(u) : u[i].why \in Named(t) \cup {e.why}
    BY <1>5, <1>6, <1>7 DEF Named
  <2>3. Named(t) \subseteq Named(u) /\ e.why \in Named(u)
    BY <1>6, <2>1 DEF Named
  <2> QED
    BY <2>2, <2>3 DEF Named
<1>9. \A k \in 1..b : s[k].why \in Named(t)
  BY <1>1, <1>5, ForkedAssumption DEF Ledger
<1>10. CountIn(s, {e.why}) = 0
  <2>1. \A k \in DOMAIN s : s[k].why \notin {e.why}
    BY <1>1, <1>9
  <2> QED
    BY <1>1, <2>1, NoneCounted
<1>11. ASSUME NEW i \in Own(u)
       PROVE  u[i].n = CountIn(v, {u[i].why}) /\ u[i].n > 0
  <2>1. CASE i = last
    <3>1. e.why \in {e.why}
      OBVIOUS
    <3>2. CountIn(v, {e.why}) = 1
      BY <1>4, <1>10, <3>1
    <3>3. u[i].why = e.why /\ u[i].n = 1
      BY <1>6, <2>1, Zenon
    <3>4. CountIn(v, {u[i].why}) = 1
      BY <3>2, <3>3, Zenon
    <3> QED
      BY <3>3, <3>4
  <2>2. CASE i \in Own(t) /\ u[i] = t[i]
    <3>1. t[i].n = CountIn(s, {t[i].why}) /\ t[i].n > 0
      BY <2>2 DEF Ledger
    <3>2. e.why \notin {t[i].why}
      BY <2>2 DEF Named
    <3>3. CountIn(v, {t[i].why}) = CountIn(s, {t[i].why})
      BY <1>4, <3>2
    <3> QED
      BY <2>2, <3>1, <3>3
  <2> QED
    BY <1>5, <1>7, <2>1, <2>2
<1>12. ASSUME NEW i \in Own(u), NEW k \in Own(u), u[i].why = u[k].why
       PROVE  i = k
  <2>1. \A m \in Own(t) : t[m].why # e.why
    BY DEF Named
  <2>2. \A m, o \in Own(t) : t[m].why = t[o].why => m = o
    BY DEF Ledger
  <2> QED
    BY <1>5, <1>6, <1>7, <1>12, <2>1, <2>2
<1>13. \A k \in DOMAIN v : v[k].why \in Named(u)
  BY <1>1, <1>3, <1>8, <1>9
<1>14. b + 1 \in Nat /\ Len(u) < TallyKinds /\ Len(u) <= TallyKinds /\ Len(u) # TallyKinds
       /\ Sum(u) = b + 1
  BY <1>1, <1>2, <1>5, ForkedAssumption
<1>15. Ledger(u, v, b + 1)
  BY <1>2, <1>3, <1>11, <1>12, <1>13, <1>14 DEF Ledger
<1> QED
  BY <1>15 DEF u, v

\* The first failure past the named slots: it opens the last one, which counts it alone.
LEMMA FirstOther ==
  ASSUME NEW t, NEW s, NEW b, Ledger(t, s, b), NEW e \in Failures,
         Len(t) = TallyKinds - 1, e.why \notin Named(t)
  PROVE  Ledger(Append(t, [why |-> Other, n |-> 1]), Append(s, e), b + 1)
<1> DEFINE u == Append(t, [why |-> Other, n |-> 1])
           v == Append(s, e)
<1>1. t \in Seq(Slots) /\ s \in Seq(Failures) /\ Len(t) \in Nat
      /\ b \in Nat /\ Len(s) = b /\ Sum(t) = b /\ e.why \in Whys /\ Other \in Whys
      /\ TallyKinds \in Nat /\ Len(t) + 1 = TallyKinds
  BY ForkedAssumption DEF Ledger, Failures, Whys
<1>2. /\ u \in Seq(Slots) /\ Len(u) = Len(t) + 1
      /\ u[Len(t) + 1] = [why |-> Other, n |-> 1]
      /\ \A i \in 1..Len(t) : u[i] = t[i]
      /\ Sum(u) = Sum(t) + 1
  BY <1>1, NewSlot, Zenon
<1>3. /\ v \in Seq(Failures) /\ Len(v) = b + 1
  BY <1>1, AppendProperties
<1>4. \A W : /\ CountIn(s, W) \in Nat
             /\ CountIn(v, W) = IF e.why \in W THEN CountIn(s, W) + 1 ELSE CountIn(s, W)
  BY <1>1, OneMoreFailure
<1> HIDE DEF u, v
<1>5. Own(t) = 1..Len(t) /\ Own(u) = Own(t) /\ \A i \in Own(t) : u[i] = t[i]
  BY <1>1, <1>2 DEF Own
<1>6. Named(u) = Named(t)
  BY <1>5 DEF Named
<1>7. ASSUME NEW i \in Own(u)
      PROVE  u[i].n = CountIn(v, {u[i].why}) /\ u[i].n > 0
  <2>1. i \in Own(t) /\ u[i] = t[i]
    BY <1>5
  <2>2. t[i].n = CountIn(s, {t[i].why}) /\ t[i].n > 0
    BY <2>1 DEF Ledger
  <2>3. e.why \notin {t[i].why}
    BY <2>1 DEF Named
  <2>4. CountIn(v, {t[i].why}) = CountIn(s, {t[i].why})
    BY <1>4, <2>3
  <2> QED
    BY <2>1, <2>2, <2>4
<1>8. \A i, k \in Own(u) : u[i].why = u[k].why => i = k
  BY <1>5 DEF Ledger
<1>9. u[TallyKinds].n = CountIn(v, Whys \ Named(u))
  <2>1. \A k \in DOMAIN s : s[k].why \notin Whys \ Named(t)
    BY <1>1 DEF Ledger
  <2>2. CountIn(s, Whys \ Named(t)) = 0
    BY <1>1, <2>1, NoneCounted
  <2>3. e.why \in Whys \ Named(t)
    BY <1>1
  <2>4. CountIn(v, Whys \ Named(t)) = 1
    BY <1>4, <2>2, <2>3
  <2>5. u[TallyKinds].n = 1
    BY <1>1, <1>2
  <2> QED
    BY <1>6, <2>4, <2>5
<1>10. b + 1 \in Nat /\ Len(u) = TallyKinds /\ ~(Len(u) < TallyKinds) /\ Len(u) <= TallyKinds
       /\ Sum(u) = b + 1
  BY <1>1, <1>2
<1>11. Ledger(u, v, b + 1)
  BY <1>2, <1>3, <1>7, <1>8, <1>9, <1>10 DEF Ledger
<1> QED
  BY <1>11 DEF u, v

LEMMA OneOtherMore ==
  ASSUME NEW t, NEW s, NEW b, Ledger(t, s, b), NEW e \in Failures,
         Len(t) = TallyKinds, e.why \notin Named(t)
  PROVE  Ledger([t EXCEPT ![TallyKinds].n = @ + 1], Append(s, e), b + 1)
<1> DEFINE u == [t EXCEPT ![TallyKinds].n = @ + 1]
           v == Append(s, e)
<1>1. t \in Seq(Slots) /\ s \in Seq(Failures) /\ Len(t) \in Nat /\ TallyKinds \in 1..Len(t)
      /\ b \in Nat /\ Len(s) = b /\ Sum(t) = b /\ e.why \in Whys
  BY ForkedAssumption DEF Ledger, Failures
<1>2. /\ u \in Seq(Slots) /\ Len(u) = Len(t)
      /\ \A i \in 1..Len(t) : u[i].why = t[i].why
      /\ \A i \in 1..Len(t) : u[i].n = t[i].n + (IF i = TallyKinds THEN 1 ELSE 0)
      /\ Sum(u) = Sum(t) + 1
  BY <1>1, OneMore, Zenon
<1>3. /\ v \in Seq(Failures) /\ Len(v) = b + 1
  BY <1>1, AppendProperties
<1>4. \A W : /\ CountIn(s, W) \in Nat
             /\ CountIn(v, W) = IF e.why \in W THEN CountIn(s, W) + 1 ELSE CountIn(s, W)
  BY <1>1, OneMoreFailure
<1> HIDE DEF u, v
<1>5. /\ Own(u) = Own(t) /\ Own(t) \subseteq 1..Len(t)
      /\ \A i \in Own(t) : i # TallyKinds
  BY <1>1, <1>2, ForkedAssumption DEF Own
<1>6. Named(u) = Named(t)
  BY <1>2, <1>5 DEF Named
<1>7. ASSUME NEW i \in Own(u)
      PROVE  u[i].n = CountIn(v, {u[i].why}) /\ u[i].n > 0
  <2>1. t[i].n = CountIn(s, {t[i].why}) /\ t[i].n > 0
    BY <1>5 DEF Ledger
  <2>2. t[i].n \in Nat
    BY <1>4, <2>1
  <2>3. i \in Own(t) /\ u[i].why = t[i].why /\ u[i].n = t[i].n
    BY <1>2, <1>5, <2>2
  <2>4. e.why \notin {t[i].why}
    BY <2>3 DEF Named
  <2>5. CountIn(v, {t[i].why}) = CountIn(s, {t[i].why})
    BY <1>4, <2>4
  <2> QED
    BY <2>1, <2>3, <2>5
<1>8. \A i, k \in Own(u) : u[i].why = u[k].why => i = k
  BY <1>2, <1>5 DEF Ledger
<1>9. u[TallyKinds].n = CountIn(v, Whys \ Named(u))
  <2>1. t[TallyKinds].n = CountIn(s, Whys \ Named(t))
    BY DEF Ledger
  <2>2. e.why \in Whys \ Named(t)
    BY <1>1
  <2>3. CountIn(v, Whys \ Named(t)) = CountIn(s, Whys \ Named(t)) + 1
    BY <1>4, <2>2
  <2>4. u[TallyKinds].n = t[TallyKinds].n + 1
    BY <1>1, <1>2
  <2> QED
    BY <1>6, <2>1, <2>3, <2>4
<1>10. b + 1 \in Nat /\ Len(u) = TallyKinds /\ ~(Len(u) < TallyKinds) /\ Len(u) <= TallyKinds
       /\ Sum(u) = b + 1
  BY <1>1, <1>2, ForkedAssumption
<1>11. Ledger(u, v, b + 1)
  BY <1>2, <1>3, <1>7, <1>8, <1>9, <1>10 DEF Ledger
<1> QED
  BY <1>11 DEF u, v

\* tally_add keeps the ledger, in whichever of its four ways it goes.
LEMMA TallyAddKeepsLedger ==
  ASSUME NEW t, NEW s, NEW b, Ledger(t, s, b), NEW e \in Failures
  PROVE  Ledger(TallyAdd(t, e.why), Append(s, e), b + 1)
<1>1. SlotOfKind(t, e.why) = { i \in Own(t) : t[i].why = e.why }
  BY OneSlot, Zenon
<1>2. CASE SlotOfKind(t, e.why) # {}
  <2>1. PICK j \in SlotOfKind(t, e.why) : TRUE
    BY <1>2
  <2>2. Min(SlotOfKind(t, e.why)) = j
    BY OneSlot, <2>1, Zenon
  <2>3. TallyAdd(t, e.why) = [t EXCEPT ![j].n = @ + 1]
    BY <1>2, <2>2, Zenon DEF TallyAdd
  <2>4. j \in Own(t) /\ t[j].why = e.why
    BY <1>1, <2>1
  <2> QED
    BY <2>3, <2>4, KnownKind
<1>3. CASE SlotOfKind(t, e.why) = {}
  <2>1. e.why \notin Named(t)
    BY <1>1, <1>3 DEF Named
  <2>2. CASE Len(t) < TallyKinds - 1
    <3>1. TallyAdd(t, e.why) = Append(t, [why |-> e.why, n |-> 1])
      BY <1>3, <2>2, Zenon DEF TallyAdd
    <3> QED
      BY <2>1, <2>2, <3>1, FirstOfItsKind
  <2>3. CASE Len(t) = TallyKinds - 1
    <3>1. ~(Len(t) < TallyKinds - 1)
      BY <2>3, ForkedAssumption
    <3>2. TallyAdd(t, e.why) = Append(t, [why |-> Other, n |-> 1])
      BY <1>3, <2>3, <3>1, Zenon DEF TallyAdd
    <3> QED
      BY <2>1, <2>3, <3>2, FirstOther
  <2>4. CASE Len(t) = TallyKinds
    <3>1. ~(Len(t) < TallyKinds - 1) /\ Len(t) # TallyKinds - 1
      BY <2>4, ForkedAssumption
    <3>2. TallyAdd(t, e.why) = [t EXCEPT ![TallyKinds].n = @ + 1]
      BY <1>3, <3>1, Zenon DEF TallyAdd
    <3>3. Ledger([t EXCEPT ![TallyKinds].n = @ + 1], Append(s, e), b + 1)
      BY <2>1, <2>4, OneOtherMore
    <3> QED
      BY <3>2, <3>3, Zenon
  <2>5. Len(t) < TallyKinds - 1 \/ Len(t) = TallyKinds - 1 \/ Len(t) = TallyKinds
    <3>1. t \in Seq(Slots) /\ Len(t) <= TallyKinds
      BY DEF Ledger
    <3>2. Len(t) \in Nat /\ TallyKinds \in Nat
      BY <3>1, ForkedAssumption
    <3> QED
      BY <3>1, <3>2
  <2> QED
    BY <2>2, <2>3, <2>4, <2>5
<1> QED
  BY <1>2, <1>3

LEMMA TallyStarts == Init => TallyInv
<1> SUFFICES ASSUME Init PROVE TallyInv
  OBVIOUS
<1>1. tally = <<>> /\ failed = <<>> /\ bad = 0 /\ worst = None
  BY DEF Init
<1>2. <<>> \in Seq(Slots) /\ <<>> \in Seq(Failures) /\ Len(<<>>) = 0 /\ Own(<<>>) = {}
  BY DEF Own
<1>3. Sum(<<>>) = 0
  <2>1. PICK f : Totals(f, <<>>) /\ Sum(<<>>) = f[Len(<<>>)]
    BY <1>2, SumIsTotal
  <2> QED
    BY <1>2, <2>1 DEF Totals
<1>4. 0 < TallyKinds /\ 0 <= TallyKinds /\ 0 # TallyKinds
  BY ForkedAssumption
<1>5. \A k \in DOMAIN <<>> : <<>>[k].why \in Named(<<>>)
  OBVIOUS
<1>6. Ledger(<<>>, <<>>, 0)
  BY <1>2, <1>3, <1>4, <1>5 DEF Ledger
<1> QED
  BY <1>1, <1>6 DEF TallyInv

\* Only a case that failed changes the tally, and it is classified by all the child wrote.
LEMMA TallyStep == TypeOK /\ OutputInv /\ TallyInv /\ [Next]_vars => TallyInv'
<1> SUFFICES ASSUME TypeOK, OutputInv, TallyInv, [Next]_vars PROVE TallyInv'
  OBVIOUS
<1>1. CASE WaitFailed
  <2> DEFINE why == Classify(text, child.status)
             e == [case |-> case, why |-> why]
  <2>1. /\ pc = "wait" /\ child.status \in {"exit", "abort", "alarm"}
        /\ tally' = TallyAdd(tally, why) /\ bad' = bad + 1
        /\ worst' = IF worst = None THEN case ELSE worst
    BY <1>1 DEF WaitFailed
  <2>2. failed' = Append(failed, e)
    <3>1. text = SubSeq(wrote, 1, Min({Len(wrote), TextCap}))
      BY <2>1, AllRead
    <3> QED
      BY <1>1, <3>1, Zenon DEF WaitFailed
  <2>3. why \in Whys
    <3>1. ByStatus(child.status) \in Whys
      BY <2>1 DEF ByStatus, Whys
    <3> QED
      BY <3>1 DEF Classify, Whys
  <2> HIDE DEF why
  <2>4. e \in Failures /\ e.why = why /\ e.case = case
    BY <2>3, ForkedAssumption DEF Failures, TypeOK
  <2> HIDE DEF e
  <2>5. Ledger(tally, failed, bad) /\ failed \in Seq(Failures) /\ Len(failed) = bad
    BY DEF TallyInv, Ledger
  <2>6. Ledger(TallyAdd(tally, e.why), Append(failed, e), bad + 1)
    BY <2>4, <2>5, TallyAddKeepsLedger
  <2>7. Ledger(tally', failed', bad')
    BY <2>1, <2>2, <2>4, <2>6
  <2>8. worst' = IF failed' = <<>> THEN None ELSE failed'[1].case
    <3>1. failed' # <<>> /\ failed'[1] = IF failed = <<>> THEN e ELSE failed[1]
      BY <2>2, <2>4, <2>5, AppendProperties
    <3>2. worst = None <=> failed = <<>>
      BY <2>5 DEF TypeOK
    <3>3. worst = IF failed = <<>> THEN None ELSE failed[1].case
      BY DEF TallyInv
    <3> QED
      BY <2>1, <2>4, <3>1, <3>2, <3>3
  <2> QED
    BY <2>7, <2>8 DEF TallyInv
<1>2. CASE UNCHANGED <<tally, failed, bad, worst>>
  BY <1>2, Zenon DEF TallyInv
<1>3. CASE SkipUnfit \/ WaitClean
  BY <1>2, <1>3 DEF SkipUnfit, WaitClean
<1>4. CASE Between
  BY <1>2, <1>4, BetweenKeepsCounts DEF sweepVars
<1>5. CASE CallFails \/ Report \/ Replayed \/ Finished \/ UNCHANGED vars
  BY <1>2, <1>5 DEF CallFails, Report, Replayed, Finished, vars, sweepVars
<1> QED
  BY <1>1, <1>3, <1>4, <1>5 DEF Next, Parent, Child, Between

\* For every number of cases, whatever the children write and however they end, and every
\* size of the pipe, the parent's buffer and the tally: each kind with a slot of its own
\* counts the cases that failed that way, the last slot the others, and the sum is the
\* total (tally_add, run_forked, classify_failure).
THEOREM TallyIsFaithful == Spec => []TallyFaithful
<1>1. TallyInv => TallyFaithful
  <2> SUFFICES ASSUME TallyInv PROVE TallyFaithful
    OBVIOUS
  <2>1. Own(tally) = { i \in DOMAIN tally : i < TallyKinds }
    BY DEF Own
  <2>2. \A why : FailedAs(why) = CountIn(failed, {why})
    <3> TAKE why
    <3>1. { k \in DOMAIN failed : failed[k].why = why }
            = { k \in DOMAIN failed : failed[k].why \in {why} }
      OBVIOUS
    <3> QED
      BY <3>1, Zenon DEF FailedAs, CountIn
  <2>3. { k \in DOMAIN failed : \A i \in Own(tally) : tally[i].why # failed[k].why }
          = { k \in DOMAIN failed : failed[k].why \in Whys \ Named(tally) }
    <3>1. \A k \in DOMAIN failed : failed[k].why \in Whys
      <4>1. failed \in Seq(Failures)
        BY DEF TallyInv, Ledger
      <4>2. ASSUME NEW k \in DOMAIN failed PROVE failed[k] \in Failures
        BY <4>1, ElementOfSeq
      <4> QED
        BY <4>2 DEF Failures
    <3> QED
      BY <3>1 DEF Named
  <2>4. Len(tally) = TallyKinds =>
          tally[TallyKinds].n = Cardinality({ k \in DOMAIN failed :
                                    \A i \in Own(tally) : tally[i].why # failed[k].why })
    <3>1. Len(tally) = TallyKinds => tally[TallyKinds].n = CountIn(failed, Whys \ Named(tally))
      BY DEF TallyInv, Ledger
    <3> QED
      BY <2>3, <3>1, Zenon DEF CountIn
  <2>5. \A i \in Own(tally) : tally[i].n = FailedAs(tally[i].why) /\ tally[i].n > 0
    BY <2>2, Zenon DEF TallyInv, Ledger
  <2>6. \A i, j \in Own(tally) : tally[i].why = tally[j].why => i = j
    BY DEF TallyInv, Ledger
  <2>7. Len(tally) <= TallyKinds /\ Sum(tally) = bad
        /\ worst = IF failed = <<>> THEN None ELSE failed[1].case
    BY DEF TallyInv, Ledger
  <2> QED
    BY <2>1, <2>4, <2>5, <2>6, <2>7, Zenon DEF TallyFaithful
<1>2. OutputInv /\ [Next]_vars => OutputInv'
  BY OutputStep
<1> QED
  BY <1>1, InitTypeOK, StepTypeOK, OutputStarts, OutputStep, TallyStarts, TallyStep, PTL DEF Spec
==============================================================================
