----------------------------- MODULE PastedDump -----------------------------
(***************************************************************************)
(* tools/add_descriptor.py: a pasted dump is read line by line, the lines   *)
(* that are nothing but hex are gathered into runs, and an entry for the    *)
(* corpus is printed, with warnings, or refused.                            *)
(*                                                                         *)
(* A line is what the regular expressions tell of it once C comments are   *)
(* gone: how many of its fields read as bytes, how many do not, whether     *)
(* there is other text on it, and whether NOISE matches.  A byte is its     *)
(* line's number and its own.                                              *)
(***************************************************************************)
EXTENDS Integers, SequencesExt

CONSTANTS
    MIN_BLOCK,  \* 4
    MaxBytes,   \* bound: bytes a line holds
    MaxLines    \* bound: lines pasted

ASSUME DumpAssumption == MIN_BLOCK \in Nat /\ MaxBytes \in Nat /\ MaxLines \in Nat

VARIABLES
    phase,      \* "name", "lines", "read", and the four ends: "usage", "refused", "empty",
                \* "duplicate", "printed"
    dump,       \* the lines so far
    run,        \* bytes of the run being gathered
    out,        \* bytes of the runs kept
    notes,      \* any warning?
    errors      \* any line to refuse?

pvars == <<phase, dump, run, out, notes, errors>>

\* found and unread fields; a noise line's fields do not matter, nor do a prose line's unread ones.
Lines ==
    { l \in [found : 0..MaxBytes, unread : 0..1, text : BOOLEAN, noise : {FALSE}] : l.text => l.unread = 0 }
    \cup { [found |-> 0, unread |-> 0, text |-> TRUE, noise |-> TRUE] }

PInit ==
    /\ phase = "name" /\ dump = <<>> /\ run = <<>> /\ out = <<>>
    /\ notes = FALSE /\ errors = FALSE

\* main: the name has to be a C identifier.
ReadName ==
    /\ phase = "name" /\ phase' \in {"lines", "usage"}
    /\ UNCHANGED <<dump, run, out, notes, errors>>

ByteIds(n, count) == [k \in 1..count |-> <<n, k>>]

\* A line that is not descriptor data breaks the run.
IsData(line) == ~line.noise /\ line.found > 0 /\ ~line.text

\* parse_hex, once a run is over: kept whole, or dropped with a note
Kept == IF Len(run) >= MIN_BLOCK THEN out \o run ELSE out
Dropped == run # <<>> /\ Len(run) < MIN_BLOCK

ReadDataShort(line) ==
    /\ run' = run \o ByteIds(Len(dump) + 1, line.found)
    /\ UNCHANGED <<out, notes, errors>>

ReadData(line) ==
    /\ run' = run \o ByteIds(Len(dump) + 1, line.found)
    /\ errors' = (errors \/ line.unread > 0)
    /\ UNCHANGED <<out, notes>>

ReadOther(line) ==
    /\ out' = Kept /\ run' = <<>>
    /\ notes' = (notes \/ Dropped \/ (~line.noise /\ line.found >= MIN_BLOCK))
    /\ UNCHANGED errors

ReadLine(line) ==
    /\ phase = "lines" /\ Len(dump) < MaxLines
    /\ dump' = Append(dump, line)
    /\ IF IsData(line) THEN ReadData(line) ELSE ReadOther(line)
    /\ UNCHANGED phase

EndOfText ==
    /\ phase = "lines" /\ phase' = "read"
    /\ out' = Kept /\ run' = <<>> /\ notes' = (notes \/ Dropped)
    /\ UNCHANGED <<dump, errors>>

\* main: what sanity() says of the bytes, and whether the corpus has them, is open.
Refuse == phase = "read" /\ errors /\ phase' = "refused" /\ UNCHANGED <<dump, run, out, notes, errors>>
ReadNothing == phase = "read" /\ ~errors /\ out = <<>> /\ phase' = "empty" /\ UNCHANGED <<dump, run, out, notes, errors>>
Entry ==
    /\ phase = "read" /\ ~errors /\ out # <<>>
    /\ \E warns \in BOOLEAN : notes' = (notes \/ warns)
    /\ phase' \in {"duplicate", "printed"}
    /\ UNCHANGED <<dump, run, out, errors>>

PNext == ReadName \/ (\E line \in Lines : ReadLine(line)) \/ EndOfText \/ Refuse \/ ReadNothing \/ Entry

PSpec == PInit /\ [][PNext]_pvars

(***************************************************************************)
(* Properties                                                              *)
(***************************************************************************)
AllFields == FlattenSeq([n \in 1..Len(dump) |->
                IF IsData(dump[n]) THEN ByteIds(n, dump[n].found + dump[n].unread) ELSE <<>>])

\* An entry printed without a warning is the dump: every field of every line that is
\* nothing but hex with a byte in it, in order and once, and nothing of any other line.  A
\* byte that did not read, or a run too short to keep, cannot go missing from it in silence,
\* however the other lines cut the dump up.
EntryIsTheDump == phase = "printed" /\ ~notes => out = AllFields

\* "Data lines with a field no byte can be read from.  Each has to be refused, not read
\* short" (tools/add_descriptor.py:251).  It does not hold: a line of such fields only has
\* no byte in it, and is taken for prose before its fields are counted, data on both sides
\* of it or not.
UnreadIsRefused ==
    phase = "printed" => \A n \in 2..Len(dump) - 1 :
        IsData(dump[n - 1]) /\ IsData(dump[n + 1]) /\ ~dump[n].text => dump[n].unread = 0
=============================================================================
