------------------------------- MODULE Ratchet -------------------------------
(***************************************************************************)
(* tools/ratchet.py: the baseline file, the runs that check a tree against *)
(* it and the runs that record it anew.  One of the two sweeps stands for   *)
(* both (their keys never meet), and one of fuzz's two totals for both.     *)
(***************************************************************************)
EXTENDS Naturals, FiniteSets, Functions

CONSTANTS
    Entries,   \* corpus entries a sweep may have
    Kinds,     \* kinds of failure the sanitizers can report
    Params,    \* the (N, SEED) pairs fuzz may be run with
    MaxTried,  \* bound: lengths tried per entry
    MaxFailed, \* bound: failures per entry
    MaxOob,    \* bound: fuzz's out-of-bounds total
    None       \* no such entry, no such file

Fuzz == "out-of-bounds accesses"

ASSUME RatchetAssumption ==
    /\ IsFiniteSet(Entries) /\ IsFiniteSet(Kinds) /\ Entries \cap Kinds = {}
    /\ Fuzz \notin Entries \cup Kinds
    /\ MaxTried \in Nat \ {0} /\ MaxFailed \in Nat /\ MaxOob \in Nat

Pending == [ended |-> "pending", passes |-> FALSE, advises |-> FALSE]

VARIABLES
    tree,      \* what the sweeps would find today: the corpus and the parser under test
    file,      \* the baseline file, or None
    recorded,  \* history: the whole table the last `record` meant to leave in the file
    verdict    \* how the last check ended; pending again once anything changed

vars == <<tree, file, recorded, verdict>>

(***************************************************************************)
(* What the probes print.                                                  *)
(***************************************************************************)
Failures(d) == SumFunction(d.fails)

\* An entry is swept at every length, at least one; a length fails in at most one way.
Devices ==
    { d \in [tried : 1..MaxTried, fails : [Kinds -> 0..MaxFailed]] :
        Failures(d) <= d.tried /\ Failures(d) <= MaxFailed }

Present(t) == { e \in Entries : t.sweep[e] # None }
KindTotal(t, k) == SumFunction([e \in Present(t) |-> t.sweep[e].fails[k]])
Tried(t) == SumFunction([e \in Present(t) |-> t.sweep[e].tried])

Row(key, tried, failed) == [key |-> key, tried |-> tried, failed |-> failed]
RowTried(S) == SumFunction([r \in S |-> r.tried])
RowFailed(S) == SumFunction([r \in S |-> r.failed])

EntryRows(t) == { Row(e, t.sweep[e].tried, Failures(t.sweep[e])) : e \in Present(t) }
KindRows(t) == { Row(k, Tried(t), KindTotal(t, k)) : k \in { j \in Kinds : KindTotal(t, j) > 0 } }
FuzzRow(t, p) == Row(Fuzz, 1, t.oob[p])   \* the denominator is N, the same in every accepted run

Measurement(t, p) == {FuzzRow(t, p)} \cup EntryRows(t) \cup KindRows(t)

\* read_sweep refuses a table whose lines, as far as they were recognised, do not
\* add up to the summary.
AddsUpTried(t, rows, kinds) == RowTried(rows) = Tried(t) /\ RowFailed(rows) = RowFailed(EntryRows(t))

AddsUp(t, rows, kinds) ==
    /\ RowTried(rows) = Tried(t)
    /\ RowFailed(rows) = RowFailed(EntryRows(t))
    /\ RowFailed(kinds) = RowFailed(EntryRows(t))

\* measure: any lines may go unrecognised (a changed format); a sweep that crashed,
\* timed out or printed no summary yields nothing.
Measured(t, p) ==
    { {FuzzRow(t, p)} \cup rk[1] \cup rk[2] :
        rk \in { x \in (SUBSET EntryRows(t)) \X (SUBSET KindRows(t)) : AddsUp(t, x[1], x[2]) } }

(***************************************************************************)
(* The baseline file: its (N, SEED) line and its rows.                     *)
(***************************************************************************)
\* read_table and require_same_fuzz
KeysUnique(rows) == \A r, s \in rows : r.key = s.key => r = s
AcceptedAnyParams(f, p) == f # None /\ KeysUnique(f.rows)
Accepted(f, p) == f # None /\ KeysUnique(f.rows) /\ f.params = p

Keys(rows) == { r.key : r \in rows }
At(rows, key) == CHOOSE r \in rows : r.key = key

\* write_table cut short (a full disk): fuzz's rows come first, then the entries, then
\* the kinds, so a later group is there only if the earlier ones are whole.
Partial(rows) ==
    LET entries == { r \in rows : r.key \in Entries }
        kinds == { r \in rows : r.key \in Kinds }
    IN { {} } \cup { rows \ (kinds \cup x) : x \in SUBSET entries } \cup { rows \ x : x \in SUBSET kinds }

(***************************************************************************)
(* compare(base, now)                                                      *)
(***************************************************************************)
Count(rows, k) == IF k \in Keys(rows) THEN At(rows, k).failed ELSE 0

\* The keys compared on both counts: entries and fuzz's totals.
Listed(rows) == Keys(rows) \ Kinds
Common(base, now) == Listed(base) \cap Listed(now)
SameTried(base, now) == { e \in Common(base, now) : At(now, e).tried = At(base, e).tried }

Shape(base, now) ==
    (Listed(base) \cup Listed(now)) \ SameTried(base, now)

WorseKnownKinds(base, now) ==
    { k \in (Kinds \cap Keys(base)) \cup SameTried(base, now) : Count(now, k) > Count(base, k) }
WorseOrEqual(base, now) ==
    { k \in Kinds \cup SameTried(base, now) : Count(now, k) >= Count(base, k) }
Worse(base, now) ==
    { k \in Kinds \cup SameTried(base, now) : Count(now, k) > Count(base, k) }

Improved(base, now) ==
    { k \in Kinds \cup SameTried(base, now) : Count(now, k) < Count(base, k) }

Passes(base, now) == Worse(base, now) = {} /\ Shape(base, now) = {}

\* Does the printed RESULT name `make baseline` as the thing to do?
AdvisesAnyShape(base, now) == Shape(base, now) # {} \/ Improved(base, now) # {}
Advises(base, now) ==
    Worse(base, now) = {} /\ (Shape(base, now) # {} \/ Improved(base, now) # {})

(***************************************************************************)
(* The lifecycle                                                           *)
(***************************************************************************)
Init ==
    /\ tree \in { [sweep |-> s, oob |-> [p \in Params |-> 0]] : s \in [Entries -> {None}] }
    /\ file = None /\ recorded = None /\ verdict = Pending

\* A commit to the firmware, the corpus or the case tables: one entry comes, goes or moves.
EditEntry(e) ==
    /\ \E d \in Devices \cup {None} : tree' = [tree EXCEPT !.sweep[e] = d]
    /\ verdict' = Pending
    /\ UNCHANGED <<file, recorded>>

EditParser(p) ==
    /\ \E n \in 0..MaxOob : tree' = [tree EXCEPT !.oob[p] = n]
    /\ verdict' = Pending
    /\ UNCHANGED <<file, recorded>>

Record(p) ==
    \E rows \in Measured(tree, p) :
        /\ recorded' = [params |-> p, rows |-> rows]
        /\ file' = recorded'
        /\ verdict' = Pending
        /\ UNCHANGED tree

RecordCutShort(p) ==
    \E rows \in Measured(tree, p) :
        /\ recorded' = [params |-> p, rows |-> rows]
        /\ \E part \in Partial(rows) : file' = [params |-> p, rows |-> part]
        /\ verdict' = Pending
        /\ UNCHANGED tree

\* Two branches' baselines merged by hand: a row listed twice with other counts.
MergeByHand ==
    /\ file # None /\ KeysUnique(file.rows)
    /\ \E r \in file.rows, n \in 0..MaxTried :
          /\ n # r.failed
          /\ file' = [file EXCEPT !.rows = @ \cup {[r EXCEPT !.failed = n]}]
    /\ verdict' = Pending
    /\ UNCHANGED <<tree, recorded>>

CheckRefused(p) ==
    /\ ~Accepted(file, p)
    /\ verdict' = [Pending EXCEPT !.ended = "refused"]
    /\ UNCHANGED <<tree, file, recorded>>

Check(p) ==
    /\ Accepted(file, p)
    /\ \E now \in Measured(tree, p) :
          verdict' = [ended |-> "compared",
                       passes |-> Passes(file.rows, now),
                       advises |-> Advises(file.rows, now)]
    /\ UNCHANGED <<tree, file, recorded>>

Next ==
    \/ \E e \in Entries : EditEntry(e)
    \/ MergeByHand
    \/ \E p \in Params :
          EditParser(p) \/ Record(p) \/ RecordCutShort(p) \/ CheckRefused(p) \/ Check(p)

Spec == Init /\ [][Next]_vars

Compared == verdict.ended = "compared"
Truth == Measurement(tree, recorded.params)

(***************************************************************************)
(* Properties                                                              *)
(***************************************************************************)
\* A check that exits 0 means that the tree itself, not only the table read from it, lists
\* entries and lengths that were recorded and fails in no entry, in no way and in no fuzz
\* total more than was recorded: whatever lines went unread, whether or not the recording
\* was cut short, merged by hand, or made with another N or SEED.  No entry has left the
\* run either, unless the cut had already taken it from the file.
PassMeansTreeHeld ==
    (Compared /\ verdict.passes) =>
        /\ Listed(Truth) \subseteq Listed(recorded.rows)
        /\ file = recorded => Listed(Truth) = Listed(recorded.rows)
        /\ \A e \in Listed(Truth) : At(Truth, e).tried = At(recorded.rows, e).tried
        /\ \A k \in Keys(Truth) : Count(Truth, k) <= Count(recorded.rows, k)

\* Recording settles the check: what was meant to be recorded adds up both ways, by entry and
\* by kind, whatever lines of the sweep went unread, and the tree it was read from passes, with
\* nothing to advise.
RecordedTreeMatches ==
    /\ recorded # None =>
          RowFailed({ r \in recorded.rows : r.key \in Entries })
            = RowFailed({ r \in recorded.rows : r.key \in Kinds })
    /\ Compared /\ file = recorded /\ Truth = recorded.rows => verdict.passes /\ ~verdict.advises

\* `make baseline` is never advised beside more failures in all, or beside a fuzz total
\* that rose: recording on advice cannot raise a sweep's total.
AdviceKeepsTotals ==
    (Compared /\ verdict.advises) =>
        /\ RowFailed(EntryRows(tree)) <= RowFailed({ r \in recorded.rows : r.key \in Entries })
        /\ Fuzz \in Keys(file.rows) => Count(Truth, Fuzz) <= Count(recorded.rows, Fuzz)

\* README.md:79-80 and the comment on the advice in compare(): it is never given beside a
\* count that rose.
NoAdviceBesideRise ==
    (Compared /\ verdict.advises) =>
        \A e \in Common(file.rows, Truth) : Count(Truth, e) <= Count(file.rows, e)
==============================================================================
