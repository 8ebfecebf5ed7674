---------------------------- MODULE FuzzGenerator ----------------------------
(***************************************************************************)
(* src/fuzz.c: generate() fills a buffer of `cap` bytes item by item, every *)
(* choice the generator makes left open; the loop of main() counts the      *)
(* descriptors that made the instrumented parser leave usages[].           *)
(***************************************************************************)
EXTENDS Integers

CONSTANTS
    Cap,        \* sizeof(desc), 8192
    MaxItems,   \* items a descriptor may have: 33
    MaxRun,     \* the longest run of usages: 200
    Count       \* N, the descriptors of the run

ASSUME GeneratorAssumption ==
    /\ Cap \in Nat /\ Cap >= 24
    /\ MaxItems \in Nat /\ MaxRun \in Nat /\ Count \in Nat \ {0}   \* parse_arg refuses N = 0

VARIABLES
    pc,         \* "items": between items; "run": in a run of usages; "closed"; "done"
    n,          \* bytes written
    items,      \* items still to write
    run,        \* usages of the run still to write
    parsed,     \* descriptors parsed
    outBefore,  \* out_of_bounds when the present descriptor's parse began
    out,        \* out_of_bounds, capped at Count + 1
    badOnes,    \* bad_descriptors
    touched     \* touches > 0

genVars == <<pc, n, items, run>>
countVars == <<parsed, outBefore, out, badOnes, touched>>
vars == <<genVars, countVars>>

PUT1 == 2
PUT2 == 3
MaxOut == Count + 1

ItemCounts == 4..MaxItems

\* Usage page in one byte or two, Usage (Mouse), Collection
Preamble == { PUT1 + 2 * PUT1, PUT2 + 2 * PUT1 }

Init ==
    /\ pc = "items" /\ n \in Preamble /\ items \in ItemCounts /\ run = 0
    /\ parsed = 0 /\ outBefore = 0 /\ out = 0 /\ badOnes = 0 /\ touched = FALSE

Room == n < Cap - 16

\* Case 0: a run of usages, cut off near the end of the buffer by a bound of its own.
StartRun ==
    /\ pc = "items" /\ items > 0 /\ Room
    /\ run' \in 1..MaxRun
    /\ pc' = "run" /\ items' = items - 1
    /\ UNCHANGED <<n, countVars>>

PutUsageUnbounded ==
    /\ pc = "run" /\ run > 0
    /\ n' = n + PUT1 /\ run' = run - 1
    /\ UNCHANGED <<pc, items, countVars>>

PutUsage ==
    /\ pc = "run" /\ run > 0 /\ n < Cap - 8
    /\ n' = n + PUT1 /\ run' = run - 1
    /\ UNCHANGED <<pc, items, countVars>>

EndRun ==
    /\ pc = "run" /\ (run = 0 \/ n >= Cap - 8)
    /\ pc' = "items" /\ run' = 0
    /\ UNCHANGED <<n, items, countVars>>

\* Every other case: one item of one or two data bytes, a usage minimum with its maximum,
\* or a collection with or without its end.
PutItem ==
    /\ pc = "items" /\ items > 0 /\ Room
    /\ \E bytes \in {PUT1, PUT2, PUT1 + PUT1, PUT1 + 1} : n' = n + bytes
    /\ items' = items - 1
    /\ UNCHANGED <<pc, run, countVars>>

\* The closing Input and End Collection
Close ==
    /\ pc = "items" /\ (items = 0 \/ ~Room)
    /\ n' = n + PUT1 + 1
    /\ pc' = "closed" /\ outBefore' = out
    /\ UNCHANGED <<items, run, parsed, out, badOnes, touched>>

\* dbg_touch(): an access by the parser, inside usages[] or outside it.
Touch ==
    /\ pc = "closed" /\ parsed < Count
    /\ touched' = TRUE
    /\ \E outside \in BOOLEAN :
          /\ outside => out < MaxOut
          /\ out' = IF outside THEN out + 1 ELSE out
    /\ UNCHANGED <<genVars, parsed, outBefore, badOnes>>

\* this_descriptor_went_out, and the next descriptor
CountEveryAccess ==
    /\ pc = "closed" /\ parsed < Count
    /\ parsed' = parsed + 1
    /\ badOnes' = badOnes + (out - outBefore)
    /\ pc' = IF parsed' = Count THEN "done" ELSE "items"
    /\ n' \in Preamble /\ items' \in ItemCounts
    /\ UNCHANGED <<run, outBefore, out, touched>>

Parsed ==
    /\ pc = "closed" /\ parsed < Count
    /\ parsed' = parsed + 1
    /\ badOnes' = IF out > outBefore THEN badOnes + 1 ELSE badOnes
    /\ pc' = IF parsed' = Count THEN "done" ELSE "items"
    /\ n' \in Preamble /\ items' \in ItemCounts
    /\ UNCHANGED <<run, outBefore, out, touched>>

Next == StartRun \/ PutUsage \/ EndRun \/ PutItem \/ Close \/ Touch \/ Parsed

Spec == Init /\ [][Next]_vars

\* main()'s answer: an array nobody touched is no pass.
ExitStatus == IF ~touched \/ out > 0 THEN 1 ELSE 0

(***************************************************************************)
(* Properties                                                              *)
(***************************************************************************)
\* generate() stays inside desc[]: a run that stops by its own bound still leaves room for
\* what the loop's bound lets follow, and for the closing bytes.
InsideBuffer == n <= Cap

\* The counts ratchet.py reads fit together: no more descriptors went out of bounds than
\* were parsed, none without an access that did, none more than the accesses there were.
CountsFit ==
    /\ badOnes <= parsed /\ badOnes <= out
    /\ (out > 0) = (badOnes > 0 \/ (pc = "closed" /\ out > outBefore))
==============================================================================
