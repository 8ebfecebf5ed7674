------------------------------ MODULE ForkedRun ------------------------------
(***************************************************************************)
(* A sweep (truncate.c, shortreport.c) and the helpers it runs on          *)
(* (support.h): every case in a forked child with a pipe for its stderr,   *)
(* the failures named and tallied, the first one replayed.                 *)
(***************************************************************************)
EXTENDS Naturals, Sequences, SequencesExt, FiniteSets, FiniteSetsExt

CONSTANTS
    Cases,      \* number of cases the tables hold
    Outputs,    \* what a child may write: sequences over Chunks
    PipeCap,    \* chunks a pipe holds before a write blocks
    TextCap,    \* chunks the parent keeps; the rest is read and dropped
    TallyKinds  \* slots of the tally, the last for "other kinds"

\* A piece of output: one that carries a sanitizer's error line, or any other.
Chunks == {"asan", "ubsan", "noise"}
Fates == {"clean", "exit", "abort", "hang"}
Statuses == {"running", "clean", "exit", "abort", "alarm"}
Other == "other kinds"

ASSUME ForkedAssumption ==
    /\ Cases \in Nat \ {0} /\ PipeCap \in Nat \ {0} /\ TextCap \in Nat \ {0}
    /\ TallyKinds \in Nat \ {0} /\ Outputs \subseteq Seq(Chunks)

VARIABLES
    pc,       \* where the sweep's main stands
    env,      \* [marked: HARNESS_SWEEP is set, named: the caller chose symbolize=]
    case,     \* the case being run
    child,    \* [left: output still to write, fate, armed: alarm set, status]
    holdsEnd, \* the parent still has fds[1], the pipe's write end
    pipe,     \* chunks in the pipe
    text,     \* chunks kept by the parent
    tally,    \* the kinds in the order first seen, [why, n] each
    bad,      \* total_bad
    worst,    \* the case to reproduce, or None
    unfit,    \* bad_cases > 0
    wrote,    \* history: all the present child has written
    failed    \* history: the cases that failed and how, in order

None == 0
sweepVars == <<case, tally, bad, worst, unfit, failed>>
ioVars == <<holdsEnd, pipe, text, wrote>>
vars == <<pc, env, child, sweepVars, ioVars>>

Alive == child.status = "running"
Idle == [left |-> <<>>, fate |-> "clean", armed |-> FALSE, status |-> "clean"]

\* A sanitizer's report always ends the child with a failure (-fno-sanitize-recover=all).
Jobs == { j \in [left : Outputs, fate : Fates, armed : {FALSE}, status : {"running"}] :
            j.fate = "clean" => ToSet(j.left) \subseteq {"noise"} }

Init ==
    /\ pc = "start" /\ env \in [marked : BOOLEAN, named : BOOLEAN]
    /\ case = 1 /\ child = Idle /\ holdsEnd = FALSE
    /\ pipe = <<>> /\ text = <<>> /\ tally = <<>> /\ bad = 0 /\ worst = None
    /\ unfit = FALSE /\ wrote = <<>> /\ failed = <<>>

(***************************************************************************)
(* sweep_unsymbolized: the program starts itself again, once.              *)
(***************************************************************************)
Exec ==
    /\ pc = "start" /\ ~env.marked /\ ~env.named
    /\ \/ env' = [marked |-> TRUE, named |-> TRUE] /\ UNCHANGED pc
       \/ env' = [marked |-> FALSE, named |-> TRUE] /\ pc' = "fork"   \* both execs failed
    /\ UNCHANGED <<child, sweepVars, ioVars>>

RunAsIs ==
    /\ pc = "start" /\ (env.marked \/ env.named)
    /\ pc' = "fork"
    /\ UNCHANGED <<env, child, sweepVars, ioVars>>

(***************************************************************************)
(* run_forked, the parent's side                                           *)
(***************************************************************************)
Fork ==
    /\ pc = "fork" /\ case <= Cases
    /\ child' \in Jobs
    /\ holdsEnd' = TRUE /\ pipe' = <<>> /\ text' = <<>> /\ wrote' = <<>>
    /\ pc' = "close"
    /\ UNCHANGED <<env, sweepVars>>

CloseWriteEnd ==
    /\ pc = "close"
    /\ holdsEnd' = FALSE /\ pc' = "drain"
    /\ UNCHANGED <<env, child, sweepVars, pipe, text, wrote>>

Kept(t, chunk) == IF Len(t) < TextCap THEN Append(t, chunk) ELSE t

Read ==
    /\ pc = "drain" /\ pipe # <<>>
    /\ text' = Kept(text, Head(pipe)) /\ pipe' = Tail(pipe)
    /\ UNCHANGED <<pc, env, child, sweepVars, holdsEnd, wrote>>

\* End of file only when nobody can write any more and nothing is left to read.
EofWhenChildGone ==
    /\ pc = "drain" /\ ~Alive /\ ~holdsEnd
    /\ pc' = "wait"
    /\ UNCHANGED <<env, child, sweepVars, ioVars>>

ReadEof ==
    /\ pc = "drain" /\ pipe = <<>> /\ ~Alive /\ ~holdsEnd
    /\ pc' = "wait"
    /\ UNCHANGED <<env, child, sweepVars, ioVars>>

\* classify_failure: what the child printed outranks how it ended.
ByStatus(status) ==
    CASE status = "alarm" -> "hung" [] status = "abort" -> "signal" [] OTHER -> "exit"

Classify(t, status) ==
    CASE "asan" \in ToSet(t) -> "asan"
      [] "ubsan" \in ToSet(t) /\ "asan" \notin ToSet(t) -> "ubsan"
      [] OTHER -> ByStatus(status)

\* tally_add: the first slot of that kind or a free one; past the table, the last slot.
SlotOfKind(t, why) == { i \in 1..Min({Len(t), TallyKinds - 1}) : t[i].why = why }

TallyDropsOverflow(t, why) ==
    IF SlotOfKind(t, why) # {}
    THEN [t EXCEPT ![Min(SlotOfKind(t, why))].n = @ + 1]
    ELSE IF Len(t) < TallyKinds - 1 THEN Append(t, [why |-> why, n |-> 1]) ELSE t

TallyAdd(t, why) ==
    IF SlotOfKind(t, why) # {}
    THEN [t EXCEPT ![Min(SlotOfKind(t, why))].n = @ + 1]
    ELSE IF Len(t) < TallyKinds - 1 THEN Append(t, [why |-> why, n |-> 1])
    ELSE IF Len(t) = TallyKinds - 1 THEN Append(t, [why |-> Other, n |-> 1])
    ELSE [t EXCEPT ![TallyKinds].n = @ + 1]

\* shortreport alone: a case whose length its device could not have sent is not replayed.
SkipUnfit ==
    /\ pc = "fork" /\ case <= Cases
    /\ unfit' = TRUE /\ case' = case + 1
    /\ UNCHANGED <<pc, env, child, tally, bad, worst, failed, ioVars>>

\* waitpid, and the sweep's own loop around run_forked
WaitClean ==
    /\ pc = "wait" /\ child.status = "clean"
    /\ case' = case + 1 /\ pc' = "fork"
    /\ UNCHANGED <<env, child, tally, bad, worst, unfit, failed, ioVars>>

WaitFailedFromZero ==
    /\ pc = "wait" /\ child.status \in {"exit", "abort", "alarm"}
    /\ tally' = TallyAdd(tally, Classify(text, child.status))
    /\ bad' = bad + 1
    /\ worst' = IF worst = None THEN case - 1 ELSE worst
    /\ case' = case + 1 /\ pc' = "fork"
    /\ UNCHANGED <<env, child, unfit, failed, ioVars>>

WaitFailed ==
    /\ pc = "wait" /\ child.status \in {"exit", "abort", "alarm"}
    /\ tally' = TallyAdd(tally, Classify(text, child.status))
    /\ bad' = bad + 1
    /\ worst' = IF worst = None THEN case ELSE worst
    /\ failed' = Append(failed, [case |-> case,
            why |-> Classify(SubSeq(wrote, 1, Min({Len(wrote), TextCap})), child.status)])
    /\ case' = case + 1 /\ pc' = "fork"
    /\ UNCHANGED <<env, child, unfit, ioVars>>

(***************************************************************************)
(* The child's side                                                        *)
(***************************************************************************)
SetsAlarm ==
    /\ Alive /\ ~child.armed
    /\ child' = [child EXCEPT !.armed = TRUE]
    /\ UNCHANGED <<pc, env, sweepVars, ioVars>>

Writes ==
    /\ Alive /\ child.armed /\ child.left # <<>> /\ Len(pipe) < PipeCap
    /\ pipe' = Append(pipe, Head(child.left)) /\ wrote' = Append(wrote, Head(child.left))
    /\ child' = [child EXCEPT !.left = Tail(@)]
    /\ UNCHANGED <<pc, env, sweepVars, holdsEnd, text>>

\* _exit(0), a sanitizer's or the program's own exit, or abort()
Ends ==
    /\ Alive /\ child.armed /\ child.left = <<>> /\ child.fate # "hang"
    /\ child' = [child EXCEPT !.status = child.fate]
    /\ UNCHANGED <<pc, env, sweepVars, ioVars>>

AlarmNeverSet == Alive /\ FALSE /\ UNCHANGED vars

\* After SWEEP_CHILD_TIMEOUT_S, whatever the child is doing.
AlarmFires ==
    /\ Alive /\ child.armed
    /\ child' = [child EXCEPT !.status = "alarm"]
    /\ UNCHANGED <<pc, env, sweepVars, ioVars>>

(***************************************************************************)
(* The summary and the replay of the first failure                         *)
(***************************************************************************)
Report ==
    /\ pc = "fork" /\ case > Cases
    /\ pc' = IF worst # None THEN "replay" ELSE "done"
    /\ UNCHANGED <<env, child, sweepVars, ioVars>>

\* sweep_repro: no pipe, its output goes straight to the terminal; its alarm is set
\* before the exec and survives it.
Replay ==
    /\ pc = "replay"
    /\ \E f \in Fates : child' = [left |-> <<>>, fate |-> f, armed |-> FALSE, status |-> "running"]
    /\ pc' = "replaying"
    /\ UNCHANGED <<env, sweepVars, ioVars>>

Replayed ==
    /\ pc = "replaying" /\ ~Alive
    /\ pc' = "done"
    /\ UNCHANGED <<env, child, sweepVars, ioVars>>

\* pipe(), fork() or waitpid() says no: exit(3), which tools/ratchet.py refuses.
CallFails ==
    /\ (pc = "fork" /\ case <= Cases) \/ pc \in {"wait", "replay", "replaying"}
    /\ pc' = "aborted"
    /\ UNCHANGED <<env, child, sweepVars, ioVars>>

ExitStatus == IF unfit \/ worst # None THEN 1 ELSE 0

Parent ==
    \/ Exec \/ RunAsIs \/ Fork \/ CloseWriteEnd \/ Read \/ ReadEof
    \/ SkipUnfit \/ WaitClean \/ WaitFailed \/ Report \/ Replay \/ Replayed

Child == SetsAlarm \/ Writes \/ Ends \/ AlarmFires

Finished == pc \in {"done", "aborted"} /\ UNCHANGED vars

Next == Parent \/ CallFails \/ Child \/ Finished

\* The processes run; the timer goes off.  Nothing makes the case under test ever end, nor
\* a system call fail.
Fairness == WF_vars(Parent) /\ WF_vars(SetsAlarm) /\ WF_vars(AlarmFires)

Spec == Init /\ [][Next]_vars /\ Fairness

(***************************************************************************)
(* Properties                                                              *)
(***************************************************************************)
Sum(t) == LET upTo[i \in 0..Len(t)] == IF i = 0 THEN 0 ELSE upTo[i - 1] + t[i].n
          IN  upTo[Len(t)]
FailedAs(why) == Cardinality({ k \in DOMAIN failed : failed[k].why = why })

\* The case being run, the count of failures and the case to replay belong together: there
\* is one to replay exactly when something failed, it is behind the loop, and the loop
\* is through before anything is replayed or answered.
TypeOK ==
    /\ pc \in {"start", "fork", "close", "drain", "wait", "replay", "replaying", "done", "aborted"}
    /\ case \in 1..Cases + 1 /\ unfit \in BOOLEAN
    /\ bad \in 0..case - 1 /\ worst \in 0..case - 1
    /\ worst = None <=> bad = 0
    /\ pc \in {"close", "drain", "wait"} => case <= Cases
    /\ pc \in {"replay", "replaying", "done"} => case = Cases + 1
    /\ pc = "start" => case = 1 /\ bad = 0 /\ ~unfit

\* Every kind with a slot of its own counts exactly the cases that failed that way, judged by
\* all a child wrote before it died (as far as the parent keeps it), and the last slot
\* exactly the rest, which fits the table: nothing a child wrote is lost when it dies or is
\* stopped with output still in the pipe, no failure is counted twice, under two names or
\* not at all, and the kinds add up to the total (tools/ratchet.py refuses a sweep whose
\* kinds do not).  The case replayed is the first that failed, cases skipped before it or not.
TallyFaithful ==
    LET own == { i \in DOMAIN tally : i < TallyKinds }
    IN  /\ \A i \in own : tally[i].n = FailedAs(tally[i].why) /\ tally[i].n > 0
        /\ \A i, j \in own : tally[i].why = tally[j].why => i = j
        /\ Len(tally) = TallyKinds =>
              tally[TallyKinds].n = Cardinality({ k \in DOMAIN failed :
                                        \A i \in own : tally[i].why # failed[k].why })
        /\ Len(tally) <= TallyKinds /\ Sum(tally) = bad
        /\ worst = IF failed = <<>> THEN None ELSE failed[1].case

Answer ==
    CASE pc = "done" -> (IF ExitStatus = 0 THEN "clean" ELSE "dirty")
      [] pc = "aborted" -> "gave up"
      [] OTHER -> "none"

Abstract == INSTANCE Sweep WITH
    settled <- case - 1, failures <- bad, first <- worst, skipped <- unfit, answer <- Answer

\* The forked sweep is a sweep (Sweep): each case is settled once and in order, however its
\* child and the pipe behave, the replay changes nothing of the answer, and exit 0 is given
\* only over all cases with none failed and none skipped.  It also ends: a child that hangs,
\* fills the pipe, or dies with the pipe full keeps neither the parent nor itself waiting
\* for ever, and the program does not start itself again without end.
ImplementsSweep == Abstract!Promise
==============================================================================
