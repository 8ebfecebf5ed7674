---------------------------- MODULE ControlSuite -----------------------------
(***************************************************************************)
(* src/cctest.c and the recorders it drives (src/recorders.c): consumer and *)
(* system control reports go through receivers lifted from the firmware     *)
(* under test, and what they hand to the send path is compared, row by row, *)
(* with the answers of two branches.                                       *)
(*                                                                         *)
(* The firmware is arbitrary: for each report it may send anything, any     *)
(* way, any number of times, and remember what it likes in between.        *)
(***************************************************************************)
EXTENDS Integers, Sequences, FiniteSets

CONSTANTS
    Payloads,   \* what a send may carry, as far as payload_len() bytes tell
    Nothing,    \* in place of a payload: nothing sent
    MaxRows,    \* bound: devices and rows in the tables
    MaxCalls    \* bound: sends from one report

ASSUME ControlAssumption ==
    /\ Nothing \notin Payloads
    /\ MaxRows \in Nat /\ MaxCalls \in Nat \ {0, 1}

Branches == {"main", "fixed"}
Paths == {"consumer", "system"}

\* cc_case_t: what each branch sends, and whether len is one a report can have.
Rows == [main : Payloads \cup {Nothing}, fixed : Payloads \cup {Nothing}, fits : BOOLEAN]

\* sent_t.  A packet type or length is named by the path it belongs to.
Silence == [via |-> "nothing", calls |-> 0, payload |-> Nothing, packet |-> "none", len |-> "none"]

VARIABLES
    pc,             \* "device", "row", "sending", "judge", "exit"
    path,           \* the device's receiver: cc_path_e
    row,            \* the row being run
    local,          \* CURRENT_BOARD_IS_ACTIVE_OUTPUT
    harness_sent,   \* the recorder
    sent_local,     \* run_once's copy of the first run
    failures, routing, seen,    \* failed rows, unbound devices (any?), separating rows by branch
    left,           \* table entries still to come, at most
    calls,          \* history: what the firmware has sent since the report was pushed
    obeyed,         \* history: the branches whose every answer it has given exactly
    sound           \* history: every report could reach the firmware

tallies == <<failures, routing, seen>>
history == <<obeyed, sound>>
cvars == <<pc, path, row, local, harness_sent, sent_local, tallies, left, calls, history>>

NoRow == [main |-> Nothing, fixed |-> Nothing, fits |-> TRUE]

CInit ==
    /\ pc = "device" /\ path = "consumer" /\ row = NoRow /\ local = TRUE
    /\ harness_sent = Silence /\ sent_local = Silence
    /\ failures = FALSE /\ routing = FALSE /\ seen = {} /\ left = MaxRows
    /\ calls = <<>> /\ obeyed = Branches /\ sound = TRUE

(***************************************************************************)
(* The recorders                                                           *)
(***************************************************************************)
\* What the three senders may be handed.
LocalSend(p, payload) == [via |-> p, payload |-> payload, packet |-> "none", len |-> p]
Queued(type, len, payload) == [via |-> "queued", payload |-> payload, packet |-> type, len |-> len]
Sends ==
    { LocalSend(p, x) : p \in Paths, x \in Payloads }
    \cup { Queued(t, n, x) : t \in Paths, n \in Paths, x \in Payloads }

\* record: the last send, and how many there were.
Record(before, s) ==
    [via |-> s.via, calls |-> before.calls + 1, payload |-> s.payload, packet |-> s.packet, len |-> s.len]

(***************************************************************************)
(* Judging a row                                                           *)
(***************************************************************************)
Matches(got, want) ==
    IF want = Nothing THEN got.via = "nothing" ELSE got.via # "nothing" /\ got.payload = want

SentRightWay(got, isLocal) ==
    \/ got.via = "nothing"
    \/ isLocal /\ got.via = path
    \/ ~isLocal /\ got.via = "queued" /\ got.packet = path /\ got.len = path

SameBoth(a, b) ==
    IF a.via = "nothing" THEN b.via = "nothing" ELSE b.via # "nothing" /\ a.payload = b.payload

Agrees(branch, got) == Matches(got, row[branch])

RowOk(first, second) ==
    /\ \E b \in Branches : Agrees(b, first)
    /\ SameBoth(first, second)
    /\ SentRightWay(first, TRUE) /\ SentRightWay(second, FALSE)
    /\ first.calls <= 1 /\ second.calls <= 1

\* The branch a row tells from the other: R_MAIN and R_FIXED, as against R_AGREED.
Separates(got) == IF \E b \in Branches : ~Agrees(b, got) THEN { b \in Branches : Agrees(b, got) } ELSE {}

(***************************************************************************)
(* The suite and the firmware                                              *)
(***************************************************************************)
NextDevice ==
    /\ pc \in {"device", "row"} /\ left > 0
    /\ path' \in Paths
    /\ \E bound \in BOOLEAN : routing' = (routing \/ ~bound) /\ sound' = (sound /\ bound)
    /\ pc' = "row" /\ left' = left - 1
    /\ UNCHANGED <<row, local, harness_sent, sent_local, failures, seen, calls, obeyed>>

\* run_once, up to the call of the receiver
RunOnceOnTop(isLocal) == local' = isLocal /\ harness_sent' = harness_sent /\ calls' = <<>>
RunOnce(isLocal) == local' = isLocal /\ harness_sent' = Silence /\ calls' = <<>>

RunRow ==
    /\ pc = "row" /\ left > 0
    /\ row' \in { r \in Rows : r.fits }
    /\ RunOnce(TRUE)
    /\ pc' = "sending" /\ left' = left - 1
    /\ UNCHANGED <<path, sent_local, tallies, history>>

RowUnfit ==
    /\ pc = "row" /\ left > 0
    /\ \E r \in Rows : ~r.fits
    /\ failures' = TRUE /\ sound' = FALSE /\ left' = left - 1
    /\ UNCHANGED <<pc, path, row, local, harness_sent, sent_local, routing, seen, calls, obeyed>>

\* The receiver sends.
Send(s) ==
    /\ pc = "sending" /\ Len(calls) < MaxCalls
    /\ harness_sent' = Record(harness_sent, s) /\ calls' = Append(calls, s)
    /\ UNCHANGED <<pc, path, row, local, sent_local, tallies, left, history>>

Wanted(branch, isLocal) ==
    LET x == row[branch]
    IN  IF x = Nothing THEN <<>>
        ELSE << IF isLocal THEN LocalSend(path, x) ELSE Queued(path, path, x) >>

Obeys == obeyed' = { b \in obeyed : calls = Wanted(b, local) }

\* It returns: the same report again on the other board, and then the judgement.
ReturnsLocal ==
    /\ pc = "sending" /\ local
    /\ sent_local' = harness_sent /\ Obeys
    /\ RunOnce(FALSE)
    /\ UNCHANGED <<pc, path, row, tallies, left, sound>>

ReturnsRemote ==
    /\ pc = "sending" /\ ~local
    /\ Obeys /\ pc' = "judge"
    /\ UNCHANGED <<path, row, local, harness_sent, sent_local, tallies, left, calls, sound>>

Judge ==
    /\ pc = "judge"
    /\ failures' = (failures \/ ~RowOk(sent_local, harness_sent))
    /\ seen' = IF RowOk(sent_local, harness_sent) THEN seen \cup Separates(sent_local) ELSE seen
    /\ pc' = "row" /\ row' = NoRow /\ sent_local' = Silence /\ calls' = <<>>   \* out of scope
    /\ UNCHANGED <<path, local, harness_sent, routing, left, history>>

Exit ==
    /\ pc \in {"device", "row"} /\ pc' = "exit"
    /\ UNCHANGED <<path, row, local, harness_sent, sent_local, tallies, left, calls, history>>

CNext ==
    \/ NextDevice \/ RunRow \/ RowUnfit
    \/ (\E s \in Sends : Send(s)) \/ ReturnsLocal \/ ReturnsRemote \/ Judge \/ Exit

CSpec == CInit /\ [][CNext]_cvars

\* main: both branches seen is a split, neither proves nothing.
ExitStatus == IF failures \/ routing \/ Cardinality(seen) # 1 THEN 1 ELSE 0

(***************************************************************************)
(* Properties                                                              *)
(***************************************************************************)
\* The suite passes exactly when the firmware has behaved throughout as one of the two
\* branches and not as the other: on every row, on both boards, the payload that branch
\* wants, once, by the right path with the right packet type and length, and nothing where
\* it wants nothing.  The verdict then names that branch.  No send of one report counts for
\* the next, and rows on which the branches agree decide nothing.
VerdictIsEarned ==
    pc = "exit" => \A b \in Branches :
        (ExitStatus = 0 /\ seen = {b}) <=> (sound /\ obeyed = {b})
==============================================================================
