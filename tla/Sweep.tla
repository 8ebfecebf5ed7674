-------------------------------- MODULE Sweep --------------------------------
(***************************************************************************)
(* What a sweep promises whoever reads its summary, without processes,     *)
(* pipes or alarms: the cases are settled one by one and in order, each    *)
(* once; the failures are counted and the first is remembered; the answer  *)
(* is given over all of them, or the sweep gives up and answers nothing.   *)
(***************************************************************************)
EXTENDS Naturals

CONSTANT Cases      \* number of cases the tables hold

VARIABLES
    settled,    \* cases behind it
    failures,   \* how many of them failed
    first,      \* the first that did, 0 if none has
    skipped,    \* some case could not be tried
    answer      \* "none" yet, "clean", "dirty", or "gave up"

outcome == <<settled, failures, first, skipped>>
sweep == <<outcome, answer>>

Start == settled = 0 /\ failures = 0 /\ first = 0 /\ skipped = FALSE /\ answer = "none"

Settle ==
    /\ answer = "none" /\ settled < Cases
    /\ settled' = settled + 1
    /\ UNCHANGED answer

CasePasses == Settle /\ UNCHANGED <<failures, first, skipped>>

CaseFails ==
    /\ Settle
    /\ failures' = failures + 1
    /\ first' = IF failures = 0 THEN settled + 1 ELSE first
    /\ UNCHANGED skipped

CaseSkipped == Settle /\ skipped' = TRUE /\ UNCHANGED <<failures, first>>

Answers ==
    /\ answer = "none" /\ settled = Cases
    /\ answer' = IF failures = 0 /\ ~skipped THEN "clean" ELSE "dirty"
    /\ UNCHANGED outcome

GivesUp == answer = "none" /\ answer' = "gave up" /\ UNCHANGED outcome

Step == CasePasses \/ CaseFails \/ CaseSkipped \/ Answers \/ GivesUp

Steps == Start /\ [][Step]_sweep

\* Whatever the cases do, an answer comes or the sweep says it has none.
Ends == <>(answer # "none")

Promise == Steps /\ Ends
==============================================================================
