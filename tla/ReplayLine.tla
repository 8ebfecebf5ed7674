------------------------------ MODULE ReplayLine -----------------------------
(***************************************************************************)
(* shortreport.c around its forked runs (ForkedRun): the entries of both   *)
(* case tables, the lengths tried, and the line printed for the first      *)
(* failure, typed again on this tree or on one that compiles in other rows. *)
(***************************************************************************)
EXTENDS Naturals, Sequences, SequencesExt, FiniteSets, FiniteSetsExt, Functions

CONSTANTS
    RowNames,   \* names of descriptors
    CaseLens,   \* the lengths a row's cases may have: a set of sequences
    Floors,     \* the shortest report of each path: MOUSE_MIN_LEN and KBD_MIN_LEN
    ReportCap,  \* bytes a case's report[] holds
    MaxEntries  \* rows in the two tables

ASSUME ReplayAssumption ==
    /\ CaseLens \subseteq Seq(Nat) /\ ReportCap \in Nat /\ MaxEntries \in Nat
    /\ Floors \in [{"mouse", "kbd"} -> Nat]

TableRows == [path : {"mouse", "kbd"}, name : RowNames, boot : BOOLEAN, gated : BOOLEAN, lens : CaseLens]

\* The mouse table before the keyboards', as build_entries reads them.
Tables == { t \in SeqOf(TableRows, MaxEntries) :
              \A i, j \in DOMAIN t : i < j /\ t[j].path = "mouse" => t[i].path = "mouse" }

VARIABLES
    tables,     \* the case tables
    gateOn,     \* whether this tree compiles in the gated rows
    sweeping,   \* where main stands
    spot,       \* [e, c, k]: entry, case and lengths tried of it
    failedHere, \* first_case >= 0
    line,       \* the line for the first failure, or NoLine
    badCases, lengths,
    reached     \* what a typed line selects: a refusal, or the row, case and length decoded

replayVars == <<tables, gateOn, sweeping, spot, failedHere, line, badCases, lengths, reached>>

NoLine == [id |-> <<>>, case |-> 0, n |-> 0, row |-> 0]
NotTyped == [status |-> 0, row |-> 0, case |-> 0, n |-> 0]

(***************************************************************************)
(* build_entries and find_entry                                            *)
(***************************************************************************)
Id(entry) == <<entry.path, entry.name>> \o (IF entry.boot THEN <<"boot">> ELSE <<>>)

\* The rows a tree compiles in, by their place in the tables.
Entries(on) == FlattenSeq([i \in DOMAIN tables |-> IF tables[i].gated => on THEN <<i>> ELSE <<>>])

NeverCollide(entries) == FALSE

Collide(entries) ==
    \E i, j \in DOMAIN entries : i < j /\ Id(tables[entries[i]]) = Id(tables[entries[j]])

FindEntry(entries, spec) ==
    LET exact == { i \in DOMAIN entries : Id(tables[entries[i]]) = spec }
        bare  == { i \in DOMAIN entries : <<tables[entries[i]].name>> = spec }
    IN  IF exact # {} THEN entries[Min(exact)]
        ELSE IF Cardinality(bare) = 1 THEN entries[Min(bare)] ELSE 0

CaseFits(entry, c) == entry.lens[c + 1] >= Floors[entry.path] /\ entry.lens[c + 1] <= ReportCap

(***************************************************************************)
(* One case from the command line.                                         *)
(***************************************************************************)
Refusal(code) == [NotTyped EXCEPT !.status = code]

Select(entries, spec, c, n) ==
    LET r == FindEntry(entries, spec)
    IN  IF r = 0 THEN Refusal(2)
        ELSE IF c >= Len(tables[r].lens) THEN Refusal(2)
        ELSE IF ~CaseFits(tables[r], c) THEN Refusal(1)
        ELSE IF n < Floors[tables[r].path] \/ n > tables[r].lens[c + 1] THEN Refusal(2)
        ELSE [status |-> 0, row |-> r, case |-> c, n |-> n]

Specs == { Id(tables[i]) : i \in DOMAIN tables } \cup { <<tables[i].name>> : i \in DOMAIN tables }

\* argc == 4, whatever is typed
TypesOwn ==
    /\ sweeping = "start" /\ ~Collide(Entries(gateOn))
    /\ \E spec \in Specs, c \in 0..2, n \in 0..ReportCap + 1 :
          reached' = Select(Entries(gateOn), spec, c, n)
    /\ sweeping' = "decoded"
    /\ UNCHANGED <<tables, gateOn, spot, failedHere, line, badCases, lengths>>

(***************************************************************************)
(* The sweep                                                               *)
(***************************************************************************)
RInit ==
    /\ tables = <<>> /\ gateOn = FALSE
    /\ sweeping = "source" /\ spot = [e |-> 1, c |-> 0, k |-> 0] /\ failedHere = FALSE
    /\ line = NoLine /\ badCases = 0 /\ lengths = 0 /\ reached = NotTyped

\* Any tables, on any tree
Compiled ==
    /\ sweeping = "source" /\ sweeping' = "start"
    /\ tables' \in Tables /\ gateOn' \in BOOLEAN
    /\ UNCHANGED <<spot, failedHere, line, badCases, lengths, reached>>

RefusesTables ==
    /\ sweeping = "start" /\ Collide(Entries(gateOn))
    /\ sweeping' = "refused"
    /\ UNCHANGED <<tables, gateOn, spot, failedHere, line, badCases, lengths, reached>>

Begins ==
    /\ sweeping = "start" /\ ~Collide(Entries(gateOn))
    /\ sweeping' = "sweep"
    /\ UNCHANGED <<tables, gateOn, spot, failedHere, line, badCases, lengths, reached>>

MoreEntries == sweeping = "sweep" /\ spot.e <= Len(Entries(gateOn))
ThisEntry == tables[Entries(gateOn)[spot.e]]
InCases == MoreEntries /\ spot.c < Len(ThisEntry.lens)
ThisLength == Floors[ThisEntry.path] + spot.k

SkipsCase ==
    /\ InCases /\ ~CaseFits(ThisEntry, spot.c)
    /\ badCases' = badCases + 1
    /\ spot' = [spot EXCEPT !.c = @ + 1]
    /\ UNCHANGED <<tables, gateOn, sweeping, failedHere, line, lengths, reached>>

Replays(fails) ==
    /\ InCases /\ CaseFits(ThisEntry, spot.c)
    /\ lengths' = lengths + 1
    /\ failedHere' = (failedHere \/ fails)
    /\ line' = IF fails /\ ~failedHere /\ line = NoLine
                 THEN [id |-> Id(ThisEntry), case |-> spot.c, n |-> ThisLength,
                       row |-> Entries(gateOn)[spot.e]]
                 ELSE line
    /\ spot' = IF ThisLength < ThisEntry.lens[spot.c + 1] THEN [spot EXCEPT !.k = @ + 1]
                                                 ELSE [spot EXCEPT !.c = @ + 1, !.k = 0]
    /\ UNCHANGED <<tables, gateOn, sweeping, badCases, reached>>

NextEntry ==
    /\ MoreEntries /\ spot.c = Len(ThisEntry.lens)
    /\ spot' = [e |-> spot.e + 1, c |-> 0, k |-> 0] /\ failedHere' = FALSE
    /\ UNCHANGED <<tables, gateOn, sweeping, line, badCases, lengths, reached>>

Summary ==
    /\ sweeping = "sweep" /\ spot.e > Len(Entries(gateOn))
    /\ sweeping' = IF line = NoLine THEN "done" ELSE "printed"
    /\ UNCHANGED <<tables, gateOn, spot, failedHere, line, badCases, lengths, reached>>

SweepStatus == IF line = NoLine /\ badCases = 0 THEN 0 ELSE 1

\* The printed line, typed on this tree (sweep_repro does) or carried to another.
Retyped ==
    /\ sweeping = "printed"
    /\ \E on \in BOOLEAN :
          /\ ~Collide(Entries(on))
          /\ reached' = Select(Entries(on), line.id, line.case, line.n)
          /\ sweeping' = IF on = gateOn THEN "again" ELSE "elsewhere"
    /\ UNCHANGED <<tables, gateOn, spot, failedHere, line, badCases, lengths>>

RNext ==
    \/ Compiled \/ RefusesTables \/ Begins \/ SkipsCase \/ Replays(TRUE) \/ Replays(FALSE)
    \/ NextEntry \/ Summary \/ Retyped \/ TypesOwn

ReplaySpec == RInit /\ [][RNext]_replayVars

(***************************************************************************)
(* Properties                                                              *)
(***************************************************************************)
CasesOf(row) == {row} \X (0 .. Len(tables[row].lens) - 1)
FitCases(on) == { p \in UNION { CasesOf(Entries(on)[e]) : e \in DOMAIN Entries(on) } :
                    CaseFits(tables[p[1]], p[2]) }
LengthsOf(p) == tables[p[1]].lens[p[2] + 1] - Floors[tables[p[1]].path] + 1

\* The line printed for a failure brings back that failure: typed on the tree that was
\* swept it decodes the same row, case and length, and on a tree that keeps other rows out
\* the same row's or, where that row is kept out, nothing.  Nothing typed decodes a case past
\* its report[], below its floor or past its length.  And the total printed counts every
\* length of every case a device could send once, with exit 0 over nothing less.
ReplaysWhatItNames ==
    /\ sweeping = "again" => reached = [status |-> 0, row |-> line.row, case |-> line.case, n |-> line.n]
    /\ sweeping = "elsewhere" =>
          \/ reached.row = line.row
          \/ tables[line.row].gated /\ reached = Refusal(2)
    /\ reached.row # 0 =>
          /\ CaseFits(tables[reached.row], reached.case)
          /\ reached.n \in Floors[tables[reached.row].path]..tables[reached.row].lens[reached.case + 1]
    /\ sweeping \in {"done", "printed"} =>
          /\ lengths = SumFunction([p \in FitCases(gateOn) |-> LengthsOf(p)])
          /\ SweepStatus = 0 => \A e \in DOMAIN Entries(gateOn) :
                             \A c \in DOMAIN tables[Entries(gateOn)[e]].lens :
                                CaseFits(tables[Entries(gateOn)[e]], c - 1)
==============================================================================
