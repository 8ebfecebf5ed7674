-------------------------- MODULE StandaloneProofs ---------------------------
(***************************************************************************)
(* For every table, every firmware under test and every number of rows: a  *)
(* suite's verdict is earned on each row by that row's own answers; for    *)
(* every dump: the entry printed of it without a warning has lost nothing; *)
(* for all tables: the line printed replays the failure it names; for any  *)
(* sequence of events: the bench shows what they make of it; for every     *)
(* corpus entry: the rig presents it, changed in what was asked for only,  *)
(* and answers GET_REPORT with what it declares.                           *)
(***************************************************************************)
EXTENDS ControlSuite, DispatchSuite, KbdSuite, PastedDump, ReplayLine, PointerBench,
        RigDescriptor, SequenceTheorems, ProofLemmas

(***************************************************************************)
(* src/cctest.c: the recorder keeps enough of a run to tell whether it was  *)
(* exactly the answer a branch gives.                                      *)
(***************************************************************************)

\* What the recorder holds after the one answer branch wants, and after any run at all.
Expected(branch, isLocal) ==
    IF row[branch] = Nothing THEN Silence
    ELSE Record(Silence, IF isLocal THEN LocalSend(path, row[branch])
                                    ELSE Queued(path, path, row[branch]))

Noted(s, n) ==
    [via |-> s.via, calls |-> n, payload |-> s.payload, packet |-> s.packet, len |-> s.len]
Recordings == {Silence} \cup {Noted(s, n) : s \in Sends, n \in Nat \ {0}}

RecordsCalls ==
    /\ calls \in Seq(Sends)
    /\ harness_sent = IF calls = <<>> THEN Silence ELSE Noted(calls[Len(calls)], Len(calls))

\* The branches no answer has told from the firmware, on the rows behind and on this one.
Unrefuted ==
    { b \in Branches :
        /\ seen \subseteq {b}
        /\ pc = "judge" \/ (pc = "sending" /\ ~local) => sent_local = Expected(b, TRUE)
        /\ pc = "judge" => harness_sent = Expected(b, FALSE) }

ControlInv ==
    /\ pc \in {"device", "row", "sending", "judge", "exit"} /\ path \in Paths
    /\ local \in BOOLEAN /\ failures \in BOOLEAN /\ routing \in BOOLEAN /\ sound \in BOOLEAN
    /\ seen \subseteq Branches
    /\ pc = "sending" => RecordsCalls
    /\ pc = "sending" /\ ~local => sent_local \in Recordings
    /\ pc = "judge" => sent_local \in Recordings /\ harness_sent \in Recordings
    /\ routing => ~sound
    /\ ~sound => failures \/ routing
    /\ failures => ~sound \/ obeyed = {}
    /\ ~failures => obeyed = Unrefuted

LEMMA SendFields ==
    ASSUME NEW s \in Sends
    PROVE  /\ \/ \E p \in Paths, x \in Payloads :
                    s = [via |-> p, payload |-> x, packet |-> "none", len |-> p]
              \/ \E t \in Paths, n \in Paths, x \in Payloads :
                    s = [via |-> "queued", payload |-> x, packet |-> t, len |-> n]
           /\ s = [via |-> s.via, payload |-> s.payload, packet |-> s.packet, len |-> s.len]
           /\ s.via # "nothing" /\ s.payload # Nothing
<1>1. \/ \E p \in Paths, x \in Payloads : s = LocalSend(p, x)
      \/ \E t \in Paths, n \in Paths, x \in Payloads : s = Queued(t, n, x)
  BY DEF Sends
<1>2. CASE \E p \in Paths, x \in Payloads : s = LocalSend(p, x)
  BY <1>2, ControlAssumption DEF LocalSend, Paths
<1>3. CASE \E t \in Paths, n \in Paths, x \in Payloads : s = Queued(t, n, x)
  BY <1>3, ControlAssumption DEF Queued
<1> QED
  BY <1>1, <1>2, <1>3

\* Two calls never look like one, nor one like another.
LEMMA RecordTells ==
    ASSUME RecordsCalls, path \in Paths, NEW b \in Branches, NEW isLocal \in BOOLEAN
    PROVE  calls = Wanted(b, isLocal) <=> harness_sent = Expected(b, isLocal)
<1> DEFINE x == row[b]
           w == IF isLocal THEN LocalSend(path, x) ELSE Queued(path, path, x)
<1>1. CASE x = Nothing
  <2>1. Wanted(b, isLocal) = <<>> /\ Expected(b, isLocal) = Silence
    BY <1>1 DEF Wanted, Expected
  <2>2. calls # <<>> => harness_sent.calls = Len(calls) /\ Len(calls) # 0
    BY DEF RecordsCalls, Noted
  <2>3. Silence.calls = 0
    BY DEF Silence
  <2> QED
    BY <2>1, <2>2, <2>3 DEF RecordsCalls
<1>2. CASE x # Nothing
  <2>1. Wanted(b, isLocal) = <<w>> /\ Expected(b, isLocal) = Record(Silence, w)
    BY <1>2 DEF Wanted, Expected
  <2>2. w = [via |-> w.via, payload |-> w.payload, packet |-> w.packet, len |-> w.len]
    BY DEF LocalSend, Queued
  <2> HIDE DEF w
  <2>3. Record(Silence, w) = Noted(w, 1)
    BY DEF Record, Noted, Silence
  <2>4. CASE calls = <<>>
    <3>1. harness_sent.calls = 0 /\ Noted(w, 1).calls = 1
      BY <2>4 DEF RecordsCalls, Silence, Noted
    <3> QED
      BY <2>1, <2>3, <2>4, <3>1
  <2>5. CASE calls # <<>>
    <3> DEFINE n == Len(calls)
               s == calls[n]
    <3>1. n \in Nat /\ n # 0 /\ s \in Sends /\ harness_sent = Noted(s, n)
      BY <2>5 DEF RecordsCalls
    <3>2. s = [via |-> s.via, payload |-> s.payload, packet |-> s.packet, len |-> s.len]
      BY <3>1, SendFields
    <3>3. calls = <<w>> <=> n = 1 /\ s = w
      BY <3>1 DEF RecordsCalls
    <3> HIDE DEF n, s
    <3>4. Noted(s, n) = Noted(w, 1)
            <=> n = 1 /\ s.via = w.via /\ s.payload = w.payload
                  /\ s.packet = w.packet /\ s.len = w.len
      BY DEF Noted
    <3>5. Noted(s, n) = Noted(w, 1) <=> n = 1 /\ s = w
      BY <3>4, <3>2, <2>2
    <3> QED
      BY <2>1, <2>3, <3>1, <3>3, <3>5
  <2> QED
    BY <2>4, <2>5
<1> QED
  BY <1>1, <1>2

\* On a good row a branch agrees with the first answer exactly when both runs were its own;
\* and a row on which they were a branch's own is good.
LEMMA GoodRow ==
    ASSUME path \in Paths, NEW first \in Recordings, NEW second \in Recordings,
           NEW b \in Branches
    PROVE  LET own == first = Expected(b, TRUE) /\ second = Expected(b, FALSE)
           IN  /\ own => RowOk(first, second)
               /\ RowOk(first, second) => (own <=> Agrees(b, first))
<1> DEFINE x == row[b]
<1>0. path # "nothing" /\ path # "queued" /\ path \in {"consumer", "system"}
  BY DEF Paths
<1>1. \A r \in Recordings :
        \/ r = Silence
        \/ /\ r.via # "nothing" /\ r.payload # Nothing /\ r.calls \in Nat \ {0}
           /\ r = [via |-> r.via, calls |-> r.calls, payload |-> r.payload,
                   packet |-> r.packet, len |-> r.len]
           /\ r.via = "queued" \/ (r.packet = "none" /\ r.len = r.via)
  <2> TAKE r \in Recordings
  <2>1. CASE r = Silence
    BY <2>1
  <2>2. CASE r # Silence
    <3>1. PICK s \in Sends, n \in Nat \ {0} : r = Noted(s, n)
      BY <2>2 DEF Recordings
    <3>2. /\ r.via = s.via /\ r.calls = n /\ r.payload = s.payload
          /\ r.packet = s.packet /\ r.len = s.len
      BY <3>1 DEF Noted
    <3>3. s.via = "queued" \/ (s.packet = "none" /\ s.len = s.via)
      BY SendFields
    <3> QED
      BY <3>1, <3>2, <3>3, SendFields DEF Noted
  <2> QED
    BY <2>1, <2>2
<1>2. Silence.via = "nothing" /\ Silence.calls = 0
  BY DEF Silence
<1>3. CASE x = Nothing
  <2>1. Expected(b, TRUE) = Silence /\ Expected(b, FALSE) = Silence
    BY <1>3 DEF Expected
  <2>2. Agrees(b, first) <=> first.via = "nothing"
    BY <1>3 DEF Agrees, Matches
  <2>3. \A r \in Recordings : r.via = "nothing" <=> r = Silence
    BY <1>1, <1>2
  <2>4. first = Silence /\ second = Silence => RowOk(first, second)
    BY <1>2, <2>2 DEF RowOk, SameBoth, SentRightWay
  <2>5. RowOk(first, second) /\ first = Silence => second = Silence
    BY <1>2, <2>3 DEF RowOk, SameBoth
  <2> QED
    BY <2>1, <2>2, <2>3, <2>4, <2>5
<1>4. CASE x # Nothing
  <2>1. Expected(b, TRUE) =
            [via |-> path, calls |-> 1, payload |-> x, packet |-> "none", len |-> path]
    BY <1>4 DEF Expected, Record, LocalSend, Silence
  <2>6. Expected(b, FALSE) =
            [via |-> "queued", calls |-> 1, payload |-> x, packet |-> path, len |-> path]
    BY <1>4 DEF Expected, Record, Queued, Silence
  <2> DEFINE e1 == Expected(b, TRUE)
             e2 == Expected(b, FALSE)
  <2> HIDE DEF x, e1, e2
  <2>0. /\ e1.via = path /\ e1.calls = 1 /\ e1.payload = x
        /\ e2.via = "queued" /\ e2.calls = 1 /\ e2.payload = x
        /\ e2.packet = path /\ e2.len = path
    <3>1. e1 = [via |-> path, calls |-> 1, payload |-> x, packet |-> "none", len |-> path]
      BY <2>1 DEF e1
    <3>2. e2 = [via |-> "queued", calls |-> 1, payload |-> x, packet |-> path, len |-> path]
      BY <2>6 DEF e2
    <3>3. /\ e1.via = path /\ e1.calls = 1 /\ e1.payload = x
      BY <3>1
    <3>4. /\ e2.via = "queued" /\ e2.calls = 1 /\ e2.payload = x
          /\ e2.packet = path /\ e2.len = path
      BY <3>2
    <3> QED
      BY <3>3, <3>4
  <2>2. Agrees(b, first) <=> first.via # "nothing" /\ first.payload = x
    BY <1>4 DEF Agrees, Matches, x
  <2>3. first = Expected(b, TRUE) /\ second = Expected(b, FALSE) => RowOk(first, second)
    <3> SUFFICES ASSUME first = Expected(b, TRUE), second = Expected(b, FALSE)
                 PROVE  RowOk(first, second)
      OBVIOUS
    <3>0. first = e1 /\ second = e2
      BY DEF e1, e2
    <3>1. /\ first.via = path /\ first.calls = 1 /\ first.payload = x
          /\ second.via = "queued" /\ second.calls = 1 /\ second.payload = x
          /\ second.packet = path /\ second.len = path
      BY <2>0, <3>0
    <3>2. Agrees(b, first)
      BY <3>1, <2>2, <1>0
    <3>3. SameBoth(first, second)
      BY <3>1, <1>0 DEF SameBoth
    <3>4. SentRightWay(first, TRUE) /\ SentRightWay(second, FALSE)
      BY <3>1 DEF SentRightWay
    <3>5. first.calls <= 1 /\ second.calls <= 1
      <4>1. \A n : n = 1 => n <= 1
        OBVIOUS
      <4> QED
        BY <3>1, <4>1, Zenon
    <3> QED
      BY <3>2, <3>3, <3>4, <3>5, Zenon DEF RowOk
  <2>4. ASSUME RowOk(first, second), Agrees(b, first)
        PROVE  first = Expected(b, TRUE) /\ second = Expected(b, FALSE)
    <3>1. first.via # "nothing" /\ first.payload = x
      BY <2>2, <2>4
    <3>2. first.via = path /\ first.calls <= 1
      BY <2>4, <3>1 DEF RowOk, SentRightWay
    <3>3. second.via # "nothing" /\ second.payload = x
      BY <2>4, <3>1 DEF RowOk, SameBoth
    <3>4. second.via = "queued" /\ second.packet = path /\ second.len = path
          /\ second.calls <= 1
      BY <2>4, <3>3 DEF RowOk, SentRightWay
    <3>5. first # Silence /\ second # Silence
      BY <3>1, <3>3, <1>2
    <3>6. first.calls = 1 /\ first.packet = "none" /\ first.len = path /\ second.calls = 1
      BY <1>0, <1>1, <3>2, <3>4, <3>5
    <3> QED
      BY <1>1, <2>1, <2>6, <3>1, <3>2, <3>3, <3>4, <3>5, <3>6
  <2>5. first = Expected(b, TRUE) => Agrees(b, first)
    BY <1>0, <2>0, <2>2 DEF e1
  <2> QED
    BY <2>3, <2>4, <2>5
<1> QED
  BY <1>3, <1>4

LEMMA ControlStarts == CInit => ControlInv
<1> SUFFICES ASSUME CInit PROVE ControlInv
  OBVIOUS
<1>1. /\ pc = "device" /\ path = "consumer" /\ seen = {} /\ obeyed = Branches
      /\ local = TRUE /\ failures = FALSE /\ routing = FALSE /\ sound = TRUE
  BY DEF CInit
<1>2. local \in BOOLEAN /\ failures \in BOOLEAN /\ routing \in BOOLEAN /\ sound \in BOOLEAN
  BY <1>1, Zenon
<1>3. Unrefuted = Branches
  BY <1>1 DEF Unrefuted
<1> QED
  BY <1>1, <1>2, <1>3 DEF ControlInv, Paths

\* Between rows a branch is refuted by the rows that separate the two, and by those alone.
LEMMA BetweenRows ==
    ASSUME ControlInv, pc \in {"device", "row"}
    PROVE  /\ ~failures => obeyed = {b \in Branches : seen \subseteq {b}}
           /\ pc' \in {"device", "row", "exit"} /\ seen' = seen =>
                Unrefuted' = {b \in Branches : seen \subseteq {b}}
  BY DEF ControlInv, Unrefuted

LEMMA BetweenStep ==
    ASSUME ControlInv, NextDevice \/ RowUnfit \/ Exit
    PROVE  ControlInv'
<1>1. /\ pc \in {"device", "row"} /\ pc' \in {"device", "row", "exit"}
      /\ path' \in Paths /\ UNCHANGED <<local, seen, obeyed>>
  BY DEF NextDevice, RowUnfit, Exit, tallies, history, ControlInv
<1>2. /\ failures' \in BOOLEAN /\ routing' \in BOOLEAN /\ sound' \in BOOLEAN
      /\ routing' => ~sound'
      /\ ~sound' => failures' \/ routing'
      /\ failures' => ~sound' \/ obeyed' = {}
      /\ ~failures' => ~failures
  <2>1. CASE NextDevice
    <3>1. PICK bound \in BOOLEAN : routing' = (routing \/ ~bound) /\ sound' = (sound /\ bound)
      BY <2>1 DEF NextDevice
    <3>2. failures' = failures /\ obeyed' = obeyed
      BY <2>1 DEF NextDevice
    <3> QED
      BY <3>1, <3>2, Zenon DEF ControlInv
  <2>2. CASE RowUnfit
    <3>1. failures' = TRUE /\ sound' = FALSE /\ routing' = routing
      BY <2>2 DEF RowUnfit
    <3> QED
      BY <3>1, Zenon DEF ControlInv
  <2>3. CASE Exit
    <3>1. UNCHANGED <<failures, routing, sound, obeyed>>
      BY <2>3 DEF Exit, tallies, history
    <3> QED
      BY <3>1 DEF ControlInv
  <2> QED
    BY <2>1, <2>2, <2>3
<1>3. ~failures' => obeyed' = Unrefuted'
  BY <1>1, <1>2, BetweenRows
<1> QED
  BY <1>1, <1>2, <1>3 DEF ControlInv

LEMMA RunRowStep ==
    ASSUME ControlInv, RunRow
    PROVE  ControlInv'
<1>1. /\ pc = "row" /\ pc' = "sending" /\ local' = TRUE
      /\ harness_sent' = Silence /\ calls' = <<>>
      /\ UNCHANGED <<path, failures, routing, seen, obeyed, sound>>
  BY DEF RunRow, RunOnce, tallies, history
<1>2. RecordsCalls'
  BY <1>1 DEF RecordsCalls
<1>3. local' \in BOOLEAN
  BY <1>1, Zenon
<1>4. Unrefuted' = {b \in Branches : seen \subseteq {b}}
  BY <1>1 DEF Unrefuted
<1>5. ~failures => obeyed = {b \in Branches : seen \subseteq {b}}
  BY <1>1, BetweenRows
<1> QED
  BY <1>1, <1>2, <1>3, <1>4, <1>5 DEF ControlInv

LEMMA SendStep ==
    ASSUME ControlInv, NEW s \in Sends, Send(s)
    PROVE  ControlInv'
<1>1. /\ pc = "sending" /\ harness_sent' = Record(harness_sent, s) /\ calls' = Append(calls, s)
      /\ UNCHANGED <<pc, path, row, local, sent_local, failures, routing, seen, obeyed, sound>>
  BY DEF Send, tallies, history
<1>2. RecordsCalls /\ calls \in Seq(Sends) /\ Len(calls) \in Nat
  BY <1>1 DEF ControlInv, RecordsCalls
<1>3. /\ calls' \in Seq(Sends) /\ calls' # <<>> /\ Len(calls') = Len(calls) + 1
      /\ calls'[Len(calls')] = s
  BY <1>1, <1>2
<1>4. harness_sent.calls = Len(calls)
  BY <1>2 DEF RecordsCalls, Silence, Noted
<1>5. RecordsCalls'
  BY <1>1, <1>3, <1>4 DEF RecordsCalls, Record, Noted
<1>6. Unrefuted' = Unrefuted
  BY <1>1 DEF Unrefuted, Expected
<1> QED
  BY <1>1, <1>5, <1>6 DEF ControlInv

LEMMA RecordIsRecording == RecordsCalls => harness_sent \in Recordings
<1> SUFFICES ASSUME RecordsCalls, calls # <<>> PROVE harness_sent \in Recordings
  BY DEF RecordsCalls, Recordings
<1>1. calls[Len(calls)] \in Sends /\ Len(calls) \in Nat \ {0}
  BY DEF RecordsCalls
<1> QED
  BY <1>1 DEF RecordsCalls, Recordings

LEMMA ReturnsLocalStep ==
    ASSUME ControlInv, ReturnsLocal
    PROVE  ControlInv'
<1>1. /\ pc = "sending" /\ local = TRUE /\ local' = FALSE
      /\ sent_local' = harness_sent /\ harness_sent' = Silence /\ calls' = <<>>
      /\ obeyed' = { b \in obeyed : calls = Wanted(b, TRUE) }
      /\ UNCHANGED <<pc, path, row, failures, routing, seen, sound>>
  <2>1. local = TRUE
    BY Zenon DEF ReturnsLocal, ControlInv
  <2> QED
    BY <2>1, Zenon DEF ReturnsLocal, RunOnce, Obeys, tallies
<1>2. RecordsCalls /\ path \in Paths
  BY <1>1 DEF ControlInv
<1>3. RecordsCalls'
  BY <1>1 DEF RecordsCalls
<1>4. sent_local' \in Recordings
  BY <1>1, <1>2, RecordIsRecording
<1>5. local' \in BOOLEAN /\ (failures => ~sound \/ obeyed' = {})
  BY <1>1 DEF ControlInv
<1>6. ~failures => obeyed' = Unrefuted'
  <2>1. ~failures => obeyed = {b \in Branches : seen \subseteq {b}}
    BY <1>1 DEF ControlInv, Unrefuted
  <2>2. \A b \in Branches : calls = Wanted(b, TRUE) <=> harness_sent = Expected(b, TRUE)
    BY <1>2, RecordTells
  <2>3. Unrefuted' = {b \in Branches : seen \subseteq {b} /\ harness_sent = Expected(b, TRUE)}
    BY <1>1 DEF Unrefuted, Expected
  <2> QED
    BY <1>1, <2>1, <2>2, <2>3
<1> QED
  BY <1>1, <1>3, <1>4, <1>5, <1>6 DEF ControlInv

LEMMA ReturnsRemoteStep ==
    ASSUME ControlInv, ReturnsRemote
    PROVE  ControlInv'
<1>1. /\ pc = "sending" /\ local = FALSE /\ pc' = "judge"
      /\ obeyed' = { b \in obeyed : calls = Wanted(b, FALSE) }
      /\ UNCHANGED <<path, row, local, harness_sent, sent_local, failures, routing, seen, sound>>
  <2>1. local = FALSE
    BY Zenon DEF ReturnsRemote, ControlInv
  <2> QED
    BY <2>1, Zenon DEF ReturnsRemote, Obeys, tallies
<1>2. RecordsCalls /\ path \in Paths /\ sent_local \in Recordings
  BY <1>1 DEF ControlInv
<1>3. harness_sent \in Recordings
  BY <1>2, RecordIsRecording
<1>4. failures => ~sound \/ obeyed' = {}
  BY <1>1 DEF ControlInv
<1>5. ~failures => obeyed' = Unrefuted'
  <2>1. ~failures => obeyed = {b \in Branches : seen \subseteq {b} /\ sent_local = Expected(b, TRUE)}
    BY <1>1 DEF ControlInv, Unrefuted
  <2>2. \A b \in Branches : calls = Wanted(b, FALSE) <=> harness_sent = Expected(b, FALSE)
    BY <1>2, RecordTells
  <2>3. Unrefuted' = {b \in Branches : /\ seen \subseteq {b}
                                       /\ sent_local = Expected(b, TRUE)
                                       /\ harness_sent = Expected(b, FALSE)}
    BY <1>1 DEF Unrefuted, Expected
  <2> QED
    BY <1>1, <2>1, <2>2, <2>3
<1> QED
  BY <1>1, <1>2, <1>3, <1>4, <1>5 DEF ControlInv

\* A good row refutes the branch that disagrees with it, if one does; on a bad one neither
\* branch could have given the two answers.
LEMMA JudgeStep ==
    ASSUME ControlInv, Judge
    PROVE  ControlInv'
<1> DEFINE ok == RowOk(sent_local, harness_sent)
           own(b) == sent_local = Expected(b, TRUE) /\ harness_sent = Expected(b, FALSE)
<1>1. /\ pc = "judge" /\ pc' = "row"
      /\ failures' = (failures \/ ~ok)
      /\ seen' = IF ok THEN seen \cup Separates(sent_local) ELSE seen
      /\ UNCHANGED <<path, local, routing, obeyed, sound>>
  BY DEF Judge, history
<1>2. /\ path \in Paths /\ sent_local \in Recordings /\ harness_sent \in Recordings
      /\ seen \subseteq Branches
  BY <1>1 DEF ControlInv
<1>3. \A b \in Branches : (own(b) => ok) /\ (ok => (own(b) <=> Agrees(b, sent_local)))
  BY <1>2, GoodRow
<1>4. ok => \E b \in Branches : Agrees(b, sent_local)
  BY DEF RowOk
<1>5. ~failures => obeyed = {b \in Branches : seen \subseteq {b} /\ own(b)}
  BY <1>1 DEF ControlInv, Unrefuted
<1> HIDE DEF ok, own
<1>6. Separates(sent_local) \subseteq Branches
  BY DEF Separates
<1>7. Unrefuted' = {b \in Branches : seen' \subseteq {b}}
  BY <1>1 DEF Unrefuted
<1>8. ASSUME ok, NEW b \in Branches
      PROVE  Separates(sent_local) \subseteq {b} <=> Agrees(b, sent_local)
  BY <1>4, <1>8 DEF Separates, Branches
<1>9. ~failures' => obeyed' = Unrefuted'
  <2> SUFFICES ASSUME ~failures, ok PROVE obeyed = Unrefuted'
    BY <1>1
  <2>1. Unrefuted' = {b \in Branches : seen \subseteq {b} /\ Separates(sent_local) \subseteq {b}}
    BY <1>1, <1>7
  <2> QED
    BY <1>3, <1>5, <1>8, <2>1
<1>10. failures' => ~sound \/ obeyed = {}
  <2>1. ~failures /\ ~ok => obeyed = {}
    BY <1>3, <1>5
  <2> QED
    BY <1>1, <2>1 DEF ControlInv
<1>11. failures' \in BOOLEAN /\ (failures => failures')
  BY <1>1, Zenon
<1>12. seen' \subseteq Branches
  BY <1>1, <1>2, <1>6
<1> QED
  BY <1>1, <1>9, <1>10, <1>11, <1>12 DEF ControlInv

LEMMA ControlRests == ControlInv /\ UNCHANGED cvars => ControlInv'
<1> SUFFICES ASSUME ControlInv, UNCHANGED cvars PROVE ControlInv'
  OBVIOUS
<1>1. UNCHANGED <<pc, path, row, local, harness_sent, sent_local, failures, routing, seen,
                  calls, obeyed, sound>>
  BY DEF cvars, tallies, history
<1>2. RecordsCalls' = RecordsCalls /\ Unrefuted' = Unrefuted
  BY <1>1 DEF RecordsCalls, Unrefuted, Expected
<1> QED
  BY <1>1, <1>2 DEF ControlInv

LEMMA ControlStep == ControlInv /\ [CNext]_cvars => ControlInv'
  BY BetweenStep, RunRowStep, SendStep, ReturnsLocalStep, ReturnsRemoteStep, JudgeStep,
     ControlRests DEF CNext

LEMMA OneBranch == ControlInv /\ pc = "exit" => VerdictIsEarned
<1> SUFFICES ASSUME ControlInv, pc = "exit", NEW b \in Branches
             PROVE  (ExitStatus = 0 /\ seen = {b}) <=> (sound /\ obeyed = {b})
  BY DEF VerdictIsEarned
<1>1. Cardinality({b}) = 1
  BY FS_Singleton
<1>2. ExitStatus = 0 /\ seen = {b} <=> ~failures /\ ~routing /\ seen = {b}
  BY <1>1 DEF ExitStatus
<1>3. ~failures => obeyed = {c \in Branches : seen \subseteq {c}}
  BY DEF ControlInv, Unrefuted
<1>4. {c \in Branches : seen \subseteq {c}} = {b} <=> seen = {b}
  <2>1. PICK other \in Branches : other # b /\ Branches = {b, other}
    BY DEF Branches
  <2>2. seen \subseteq {b, other} /\ other \in Branches
    BY <2>1 DEF ControlInv
  <2>3. seen = {b} => {c \in Branches : seen \subseteq {c}} = {b}
    OBVIOUS
  <2>4. {c \in Branches : seen \subseteq {c}} = {b} => seen \subseteq {b} /\ seen # {}
    BY <2>1, <2>2
  <2> QED
    BY <2>3, <2>4
<1>5. (sound <=> ~failures /\ ~routing) \/ obeyed = {}
  BY DEF ControlInv
<1> QED
  BY <1>2, <1>3, <1>4, <1>5 DEF ControlInv

\* Whatever the tables hold and the firmware sends: the suite passes for one branch exactly
\* when every report could reach the firmware and it gave that branch's answers, all of them
\* and on both boards, and not the other's.
THEOREM VerdictEarned == CSpec => []VerdictIsEarned
<1>1. ControlInv => VerdictIsEarned
  BY OneBranch DEF VerdictIsEarned
<1> QED
  BY <1>1, ControlStarts, ControlStep, PTL DEF CSpec

-----------------------------------------------------------------------------
(***************************************************************************)
(* src/dispatchtest.c: what a row adds to the counts it adds once, and only *)
(* from what the callback answers on a parsed interface.                   *)
(***************************************************************************)
Wrong == callback[<<"own", "parsed">>] # case.want
Luck ==
    /\ case.boot /\ case.want # NULL /\ callback[<<"own", "parsed">>] = case.want
    /\ callback[<<"changed", "parsed">>] # case.want

\* The row being run has been counted by the model's ledger, and not yet by the suite.
DispatchInv ==
    /\ misses \in Nat /\ accidents \in Nat /\ misrouted \in Nat /\ lucky \in Nat
    /\ step \in {"row", "route", "judge", "returned"}
    /\ step \in {"row", "returned"} => misses = misrouted /\ accidents = lucky
    /\ step \in {"route", "judge"} =>
          /\ misrouted = misses + (IF Wrong THEN 1 ELSE 0)
          /\ lucky = accidents + (IF Luck THEN 1 ELSE 0)
    /\ step = "judge" => got = callback[<<"own", "parsed">>]

LEMMA DispatchStarts == DInit => DispatchInv
  BY DEF DInit, DispatchInv

LEMMA NextCaseStep == DispatchInv /\ NextCase => DispatchInv'
<1> SUFFICES ASSUME DispatchInv, NextCase PROVE DispatchInv'
  OBVIOUS
<1>1. PICK boot \in BOOLEAN, want \in Answers, f \in Callbacks :
          /\ case' = [boot |-> boot, want |-> want] /\ callback' = f
          /\ misrouted' = misrouted + (IF f[<<"own", "parsed">>] # want THEN 1 ELSE 0)
          /\ lucky' = lucky + (IF boot /\ want # NULL /\ f[<<"own", "parsed">>] = want
                                    /\ f[<<"changed", "parsed">>] # want THEN 1 ELSE 0)
  BY DEF NextCase
<1>2. step = "row" /\ step' = "route" /\ UNCHANGED <<misses, accidents>>
  BY DEF NextCase
<1>3. case'.boot = boot /\ case'.want = want
  BY <1>1
<1>4. Wrong' <=> f[<<"own", "parsed">>] # want
  BY <1>1, <1>3 DEF Wrong
<1>5. Luck' <=> /\ boot /\ want # NULL /\ f[<<"own", "parsed">>] = want
                /\ f[<<"changed", "parsed">>] # want
  BY <1>1, <1>3 DEF Luck
<1>6. misses = misrouted /\ accidents = lucky /\ misses \in Nat /\ accidents \in Nat
  BY <1>2 DEF DispatchInv
<1>7. misrouted' = misses + (IF Wrong' THEN 1 ELSE 0)
  BY <1>1, <1>4, <1>6
<1>8. lucky' = accidents + (IF Luck' THEN 1 ELSE 0)
  BY <1>1, <1>5, <1>6
<1> HIDE DEF Wrong, Luck
<1> QED
  BY <1>2, <1>6, <1>7, <1>8 DEF DispatchInv

\* hid_route's answer is the callback's for this report on a parsed interface.
LEMMA RouteStep == DispatchInv /\ Route => DispatchInv'
<1> SUFFICES ASSUME DispatchInv, Route PROVE DispatchInv'
  OBVIOUS
<1>1. /\ step = "route" /\ step' = "judge"
      /\ got' = Reached(NULL, callback[<<"own", "parsed">>])
      /\ UNCHANGED <<case, misses, accidents, callback, misrouted, lucky>>
  BY DEF Route, HidRoute
<1>2. got' = callback[<<"own", "parsed">>]
  BY <1>1 DEF Reached
<1>3. Wrong' = Wrong /\ Luck' = Luck
  BY <1>1 DEF Wrong, Luck
<1> QED
  BY <1>1, <1>2, <1>3 DEF DispatchInv

LEMMA JudgedStep == DispatchInv /\ (Misrouted \/ NotProbed \/ Probe) => DispatchInv'
<1> SUFFICES ASSUME DispatchInv, Misrouted \/ NotProbed \/ Probe PROVE DispatchInv'
  OBVIOUS
<1>1. step = "judge" /\ step' = "row" /\ UNCHANGED <<misrouted, lucky>>
  BY DEF Misrouted, NotProbed, Probe
<1>2. /\ got = callback[<<"own", "parsed">>]
      /\ misrouted = misses + (IF Wrong THEN 1 ELSE 0)
      /\ lucky = accidents + (IF Luck THEN 1 ELSE 0)
      /\ misses \in Nat /\ accidents \in Nat
  BY <1>1 DEF DispatchInv
<1>3. misses' = misrouted /\ accidents' = lucky
  <2>1. CASE Misrouted
    <3>1. Wrong /\ ~Luck
      BY <1>2, <2>1 DEF Misrouted, Wrong, Luck
    <3>2. misses' = misses + 1 /\ accidents' = accidents
      BY <2>1 DEF Misrouted
    <3> QED
      BY <1>2, <3>1, <3>2
  <2>2. CASE NotProbed
    <3>1. ~Wrong /\ ~Luck
      BY <1>2, <2>2 DEF NotProbed, Wrong, Luck
    <3>2. misses' = misses /\ accidents' = accidents
      BY <2>2 DEF NotProbed
    <3> QED
      BY <1>2, <3>1, <3>2
  <2>3. CASE Probe
    <3>1. ~Wrong /\ (Luck <=> callback[<<"changed", "parsed">>] # got)
      BY <1>2, <2>3 DEF Probe, Wrong, Luck
    <3>2. /\ harness_reached' = callback[<<"changed", "parsed">>]
          /\ accidents' = IF harness_reached' # got THEN accidents + 1 ELSE accidents
          /\ UNCHANGED misses
      BY <2>3 DEF Probe, HidRoute, Reached
    <3> QED
      BY <1>2, <3>1, <3>2
  <2> QED
    BY <2>1, <2>2, <2>3
<1> QED
  BY <1>1, <1>3 DEF DispatchInv

LEMMA DispatchStep == DispatchInv /\ [DNext]_dvars => DispatchInv'
<1> SUFFICES ASSUME DispatchInv, [DNext]_dvars PROVE DispatchInv'
  OBVIOUS
<1>1. CASE Return
  BY <1>1 DEF Return, DispatchInv
<1>2. CASE UNCHANGED dvars
  BY <1>2 DEF dvars, DispatchInv, Wrong, Luck
<1>3. CASE NextCase \/ Route
  BY <1>3, NextCaseStep, RouteStep
<1>4. CASE Misrouted \/ NotProbed \/ Probe
  BY <1>4, JudgedStep, Zenon
<1> QED
  BY <1>1, <1>2, <1>3, <1>4 DEF DNext

\* For every callback and any number of rows: each row is judged by that row's report on a
\* freshly parsed interface, and the suite passes exactly when no row is misrouted.
THEOREM RowsJudgedAlone == DSpec => []RoutesJudgedAlone
<1>1. DispatchInv => RoutesJudgedAlone
  BY DEF DispatchInv, RoutesJudgedAlone, DispatchStatus
<1> QED
  BY <1>1, DispatchStarts, DispatchStep, PTL DEF DSpec

-----------------------------------------------------------------------------
(***************************************************************************)
(* src/kbdtest.c: as long as nothing has failed, nothing has gone wrong.    *)
(***************************************************************************)
KbdInv == /\ tree \in Trees
          /\ ~kfailures => ~undecoded /\ ~unearned /\ ~shared

\* A row that passes and is tagged has a column of its own for the fix.
LEMMA TagIsEarned ==
    ASSUME NEW r \in KbdRows, NEW t \in Trees, ~Repeats(r), Tagged(r, t)
    PROVE  Want(r, Credit(r, t) - 1) # Want(r, t)
<1>1. t \in 0..3
  BY DEF Trees
<1>2. CASE t >= 3 /\ r.has_wide
  <2>1. Credit(r, t) = 3 /\ Want(r, t) = r.keys_wide
    BY <1>1, <1>2 DEF Credit, Want
  <2>2. Want(r, 2) = IF r.has_multi THEN r.keys_multi ELSE r.keys_fixed
    <3>1. Credit(r, 2) = IF r.has_multi THEN 2 ELSE 1
      BY DEF Credit
    <3> QED
      BY <3>1 DEF Want
  <2> QED
    BY <1>2, <2>1, <2>2 DEF Repeats
<1>3. CASE ~(t >= 3 /\ r.has_wide) /\ t >= 2 /\ r.has_multi
  <2>1. Credit(r, t) = 2 /\ Want(r, t) = r.keys_multi
    BY <1>1, <1>3 DEF Credit, Want
  <2>2. Credit(r, 1) = 1 /\ Want(r, 1) = r.keys_fixed
    BY DEF Credit, Want
  <2> QED
    BY <1>3, <2>1, <2>2 DEF Repeats
<1>4. CASE ~(t >= 3 /\ r.has_wide) /\ ~(t >= 2 /\ r.has_multi) /\ t >= 1
  <2>1. Credit(r, t) = 1 /\ Want(r, t) = r.keys_fixed
    BY <1>1, <1>4 DEF Credit, Want
  <2>2. Credit(r, 0) = 0 /\ Want(r, 0) = r.keys
    BY DEF Credit, Want
  <2> QED
    BY <2>1, <2>2 DEF Tagged
<1>5. CASE t = 0
  BY <1>5 DEF Credit, Tagged
<1> QED
  BY <1>1, <1>2, <1>3, <1>4, <1>5

LEMMA KbdRowStep == KbdInv /\ RunKbdRow => KbdInv'
<1> SUFFICES ASSUME KbdInv, RunKbdRow PROVE KbdInv'
  OBVIOUS
<1>1. PICK r \in KbdRows, answer \in Keys :
          /\ kfailures' = (kfailures \/ ~Passes(r, answer))
          /\ undecoded' = (undecoded \/ ~r.fits \/ answer # Want(r, tree))
          /\ unearned' = (unearned \/ (Passes(r, answer) /\ Tagged(r, tree)
                                         /\ Want(r, Credit(r, tree) - 1) = Want(r, tree)))
  BY DEF RunKbdRow
<1>2. tree' = tree /\ shared' = shared
  BY DEF RunKbdRow
<1>3. Passes(r, answer) => r.fits /\ ~Repeats(r) /\ answer = Want(r, tree)
  BY DEF Passes
<1>4. Passes(r, answer) /\ Tagged(r, tree) => Want(r, Credit(r, tree) - 1) # Want(r, tree)
  BY <1>3, TagIsEarned DEF KbdInv
<1> HIDE DEF Passes
<1> QED
  BY <1>1, <1>2, <1>3, <1>4, Zenon DEF KbdInv

LEMMA KbdSlotStep == KbdInv /\ CheckSlots => KbdInv'
<1> SUFFICES ASSUME KbdInv, CheckSlots PROVE KbdInv'
  OBVIOUS
<1>1. PICK num \in 0..MaxKeyboards + 1, bound \in SUBSET Rids,
           claims \in [Slots -> Rids], get_keyboard \in [Rids -> Slots] :
          /\ kfailures' = (kfailures \/ Misresolved(bound, claims, get_keyboard) # {}
                                     \/ ClaimedTwice(num, claims))
          /\ shared' = \/ shared
                       \/ \E r1, r2 \in bound : r1 # r2 /\ get_keyboard[r1] = get_keyboard[r2]
                       \/ \E a, b \in InUse(num) : a # b /\ claims[a] = claims[b]
  BY Zenon DEF CheckSlots
<1>2. UNCHANGED <<tree, undecoded, unearned>>
  BY DEF CheckSlots
<1> DEFINE together == \E r1, r2 \in bound : r1 # r2 /\ get_keyboard[r1] = get_keyboard[r2]
           twice == \E a, b \in InUse(num) : a # b /\ claims[a] = claims[b]
\* Two IDs that resolve to one keyboard cannot both be the ID it claims.
<1>3. Misresolved(bound, claims, get_keyboard) = {} => ~together
  BY DEF Misresolved
<1>4. ~ClaimedTwice(num, claims) => ~twice
  BY DEF ClaimedTwice, InUse, Slots
<1> HIDE DEF together, twice
<1>5. ~kfailures' => ~kfailures /\ ~together /\ ~twice
  BY <1>1, <1>3, <1>4, Zenon
<1>6. ~shared /\ ~together /\ ~twice => ~shared'
  BY <1>1, Zenon DEF together, twice
<1> QED
  BY <1>2, <1>5, <1>6 DEF KbdInv

LEMMA KbdStep == KbdInv /\ [KNext]_kvars => KbdInv'
<1> SUFFICES ASSUME KbdInv, [KNext]_kvars PROVE KbdInv'
  OBVIOUS
<1>1. CASE Build
  BY <1>1 DEF Build, KbdInv
<1>2. CASE ToSlots \/ KExit
  BY <1>2 DEF ToSlots, KExit, KbdInv
<1>3. CASE UNCHANGED kvars
  BY <1>3 DEF kvars, KbdInv
<1> QED
  BY <1>1, <1>2, <1>3, KbdRowStep, KbdSlotStep DEF KNext

\* Whatever the rows and the keyboards, and however many: a pass means every row was
\* decoded as its tree should, every fix it credits was needed, and no keyboard is shared.
THEOREM KbdPassEarned == KSpec => []KbdPassIsEarned
<1>1. KInit => KbdInv
  <2> SUFFICES ASSUME KInit PROVE KbdInv
    OBVIOUS
  <2>1. tree = 0 /\ undecoded = FALSE /\ unearned = FALSE /\ shared = FALSE
    BY DEF KInit
  <2> QED
    BY <2>1 DEF KbdInv, Trees
<1>2. KbdInv => KbdPassIsEarned
  BY DEF KbdInv, KbdPassIsEarned
<1> QED
  BY <1>1, <1>2, KbdStep, PTL DEF KSpec

-----------------------------------------------------------------------------
(***************************************************************************)
(* tools/add_descriptor.py: what a pasted dump loses.                      *)
(***************************************************************************)
\* F joins the first pieces of s, up to each of them.
Joins(F, s) == F = [i \in 1..Len(s) |-> IF i = 1 THEN s[i] ELSE F[i - 1] \o s[i]]

LEMMA FlattenIs ==
  \A s : FlattenSeq(s) = IF Len(s) = 0 THEN s ELSE (CHOOSE F : Joins(F, s))[Len(s)]
BY DEF FlattenSeq, Joins

LEMMA JoinsExist ==
  ASSUME NEW B, NEW s \in Seq(Seq(B))
  PROVE  \E F \in [1..Len(s) -> Seq(B)] : Joins(F, s)
<1> DEFINE Holds(F, n) == \A i \in 1..Len(s) : i <= n =>
                             F[i] = IF i = 1 THEN s[i] ELSE F[i - 1] \o s[i]
           N == { n \in Nat : \E F \in [1..Len(s) -> Seq(B)] : Holds(F, n) }
<1>1. Len(s) \in Nat /\ \A i \in 1..Len(s) : s[i] \in Seq(B)
  BY LenProperties, ElementOfSeq
<1>2. 0 \in N
  <2>1. [i \in 1..Len(s) |-> s[i]] \in [1..Len(s) -> Seq(B)] /\ Holds([i \in 1..Len(s) |-> s[i]], 0)
    BY <1>1
  <2> QED
    BY <2>1
<1>3. ASSUME NEW n \in Nat, n \in N PROVE n + 1 \in N
  <2>1. PICK F \in [1..Len(s) -> Seq(B)] : Holds(F, n)
    BY <1>3
  <2> DEFINE G == [i \in 1..Len(s) |-> IF i # n + 1 THEN F[i] ELSE IF i = 1 THEN s[i] ELSE F[i - 1] \o s[i]]
  <2>2. \A i \in 2..Len(s) : F[i - 1] \o s[i] \in Seq(B)
    <3> TAKE i \in 2..Len(s)
    <3>0. i \in 1..Len(s) /\ i - 1 \in 1..Len(s)
      BY <1>1
    <3>1. F[i - 1] \in Seq(B) /\ s[i] \in Seq(B)
      BY <1>1, <2>1, <3>0
    <3> QED
      BY <3>1, ConcatProperties
  <2>3. G \in [1..Len(s) -> Seq(B)]
    BY <1>1, <2>1, <2>2
  <2>4. Holds(G, n + 1)
    <3> SUFFICES ASSUME NEW i \in 1..Len(s), i <= n + 1
                 PROVE  G[i] = IF i = 1 THEN s[i] ELSE G[i - 1] \o s[i]
      OBVIOUS
    <3>1. i # 1 => i - 1 \in 1..Len(s) /\ i - 1 # n + 1
      BY <1>1
    <3>2. i # 1 => G[i - 1] = F[i - 1]
      BY <3>1
    <3>3. CASE i = n + 1
      <4>1. G[i] = IF i = 1 THEN s[i] ELSE F[i - 1] \o s[i]
        BY <3>3
      <4> HIDE DEF G
      <4> QED
        BY <3>2, <4>1
    <3>4. CASE i # n + 1
      <4>1. G[i] = F[i] /\ i <= n
        BY <3>4, <1>1
      <4>2. F[i] = IF i = 1 THEN s[i] ELSE F[i - 1] \o s[i]
        BY <2>1, <4>1
      <4> HIDE DEF G
      <4> QED
        BY <3>2, <4>1, <4>2
    <3> QED
      BY <3>3, <3>4
  <2> HIDE DEF G, Holds
  <2>5. \E H \in [1..Len(s) -> Seq(B)] : Holds(H, n + 1)
    BY <2>3, <2>4
  <2> QED
    BY <2>5
<1>4. Len(s) \in N
  <2> HIDE DEF N
  <2>1. Nat \subseteq N
    BY <1>2, <1>3, SetInduction
  <2> QED
    BY <1>1, <2>1
<1>5. PICK F \in [1..Len(s) -> Seq(B)] : Holds(F, Len(s))
  BY <1>4
<1>6. \A i \in 1..Len(s) : i <= Len(s)
  BY <1>1
<1>7. \A i \in 1..Len(s) : F[i] = IF i = 1 THEN s[i] ELSE F[i - 1] \o s[i]
  BY <1>5, <1>6, Zenon
<1>8. F = [i \in 1..Len(s) |-> F[i]]
  OBVIOUS
<1>9. Joins(F, s)
  BY <1>7, <1>8, Zenon DEF Joins
<1> QED
  BY <1>9

\* The pieces in front are joined alike, whatever follows them.
StartsWith(t, s) == Len(s) <= Len(t) /\ \A i \in 1..Len(s) : t[i] = s[i]

Alike(F, G, s) == \A i \in 1..Len(s) : F[i] = G[i]

LEMMA JoinsAgree ==
  ASSUME NEW B, NEW s \in Seq(Seq(B)), NEW t \in Seq(Seq(B)), NEW F, NEW G,
         Joins(F, s), Joins(G, t), StartsWith(t, s)
  PROVE  Alike(F, G, s)
<1> DEFINE N == { n \in Nat : n \in 1..Len(s) => F[n] = G[n] }
<1>1. Len(s) \in Nat /\ Len(t) \in Nat /\ Len(s) <= Len(t)
  BY LenProperties DEF StartsWith
<1>2. \A i \in 1..Len(s) : /\ F[i] = IF i = 1 THEN s[i] ELSE F[i - 1] \o s[i]
                           /\ G[i] = IF i = 1 THEN s[i] ELSE G[i - 1] \o s[i]
  <2> TAKE i \in 1..Len(s)
  <2>1. F[i] = IF i = 1 THEN s[i] ELSE F[i - 1] \o s[i]
    BY DEF Joins
  <2>2. i \in 1..Len(t) /\ t[i] = s[i]
    BY <1>1 DEF StartsWith
  <2>3. G[i] = IF i = 1 THEN t[i] ELSE G[i - 1] \o t[i]
    BY <2>2 DEF Joins
  <2> QED
    BY <2>1, <2>2, <2>3
<1>3. 0 \in N
  OBVIOUS
<1>4. ASSUME NEW n \in Nat, n \in N PROVE n + 1 \in N
  <2> SUFFICES ASSUME n + 1 \in 1..Len(s) PROVE F[n + 1] = G[n + 1]
    OBVIOUS
  <2>1. CASE n = 0
    BY <1>2, <2>1
  <2>2. CASE n # 0
    <3>1. F[n] = G[n] /\ (n + 1) - 1 = n /\ n + 1 # 1
      BY <1>1, <1>4, <2>2
    <3>2. F[n + 1] = F[(n + 1) - 1] \o s[n + 1] /\ G[n + 1] = G[(n + 1) - 1] \o s[n + 1]
      BY <1>2, <3>1
    <3> QED
      BY <3>1, <3>2, Zenon
  <2> QED
    BY <2>1, <2>2
<1>5. Nat \subseteq N
  <2> HIDE DEF N
  <2> QED
    BY <1>3, <1>4, SetInduction
<1> QED
  BY <1>1, <1>5 DEF Alike

LEMMA FlattenJoins ==
  ASSUME NEW B, NEW s \in Seq(Seq(B)), s # <<>>
  PROVE  \E F \in [1..Len(s) -> Seq(B)] : Joins(F, s) /\ FlattenSeq(s) = F[Len(s)]
<1>1. Len(s) \in Nat \ {0}
  BY EmptySeq
<1> DEFINE C == CHOOSE F : Joins(F, s)
<1>2. PICK F \in [1..Len(s) -> Seq(B)] : Joins(F, s)
  BY JoinsExist
<1>3. Joins(C, s)
  BY <1>2
<1>4. FlattenSeq(s) = C[Len(s)]
  BY <1>1, FlattenIs
<1> HIDE DEF C
<1>5. \A i \in 1..Len(s) : C[i] = F[i]
  <2>1. StartsWith(s, s)
    BY <1>1 DEF StartsWith
  <2>2. Alike(C, F, s)
    BY <1>2, <1>3, <2>1, JoinsAgree
  <2> QED
    BY <2>2 DEF Alike
<1>6. C[Len(s)] = F[Len(s)]
  BY <1>1, <1>5
<1> QED
  BY <1>2, <1>4, <1>6

LEMMA FlattenAppend ==
  ASSUME NEW B, NEW s \in Seq(Seq(B)), NEW x \in Seq(B)
  PROVE  FlattenSeq(Append(s, x)) = FlattenSeq(s) \o x
<1> DEFINE t == Append(s, x)
<1>1. /\ t \in Seq(Seq(B)) /\ t # <<>> /\ Len(t) = Len(s) + 1
      /\ \A i \in 1..Len(s) : t[i] = s[i]
      /\ t[Len(s) + 1] = x
  BY AppendProperties
<1> HIDE DEF t
<1>2. Len(s) \in Nat
  BY LenProperties
<1>3. PICK G \in [1..Len(t) -> Seq(B)] : Joins(G, t) /\ FlattenSeq(t) = G[Len(t)]
  BY <1>1, FlattenJoins
<1>4. G[Len(t)] = IF Len(t) = 1 THEN t[Len(t)] ELSE G[Len(t) - 1] \o t[Len(t)]
  <2>1. Len(t) \in 1..Len(t)
    BY <1>1, <1>2
  <2> QED
    BY <1>3, <2>1 DEF Joins
<1>5. CASE s = <<>>
  <2>1. Len(s) = 0 /\ FlattenSeq(s) = s
    BY <1>5, FlattenIs
  <2>2. FlattenSeq(t) = x
    BY <1>1, <1>3, <1>4, <2>1
  <2>3. <<>> \o x = x
    BY ConcatEmptySeq
  <2> QED
    BY <1>5, <2>1, <2>2, <2>3, Zenon DEF t
<1>6. CASE s # <<>>
  <2>1. PICK F \in [1..Len(s) -> Seq(B)] : Joins(F, s) /\ FlattenSeq(s) = F[Len(s)]
    BY <1>6, FlattenJoins
  <2>2. Len(s) \in 1..Len(s) /\ Len(s) <= Len(t)
    BY <1>1, <1>2, <1>6, EmptySeq
  <2>3. F[Len(s)] = G[Len(s)]
    <3>1. \A i \in 1..Len(s) : F[i] = G[i]
      <4>1. t \in Seq(Seq(B)) /\ Joins(F, s) /\ Joins(G, t) /\ StartsWith(t, s)
        BY <1>1, <1>3, <2>1, <2>2 DEF StartsWith
      <4>2. Alike(F, G, s)
        BY <4>1, JoinsAgree
      <4> QED
        BY <4>2 DEF Alike
    <3> QED
      BY <2>2, <3>1, Zenon
  <2>4. Len(t) # 1 /\ Len(t) - 1 = Len(s) /\ t[Len(t)] = x
    BY <1>1, <1>2, <2>2
  <2>5. FlattenSeq(t) = G[Len(s)] \o x
    BY <1>3, <1>4, <2>4
  <2> QED
    BY <2>1, <2>3, <2>5, Zenon DEF t
<1> QED
  BY <1>5, <1>6

\* What a line with data on it should leave in the entry, and the dump with it.
Fields(pasted, n) == IF IsData(pasted) THEN ByteIds(n, pasted.found + pasted.unread) ELSE <<>>
FieldsOf(d) == [n \in 1..Len(d) |-> Fields(d[n], n)]
Places == Nat \X Nat

LEMMA LineFields ==
  ASSUME NEW pasted \in Lines
  PROVE  pasted.found \in Nat /\ pasted.unread \in {0, 1}
<1>1. CASE pasted \in [found : 0..MaxBytes, unread : 0..1, text : BOOLEAN, noise : {FALSE}]
  BY <1>1, DumpAssumption
<1>2. CASE pasted = [found |-> 0, unread |-> 0, text |-> TRUE, noise |-> TRUE]
  BY <1>2
<1> QED
  BY <1>1, <1>2 DEF Lines

LEMMA ByteIdsSeq ==
  ASSUME NEW n \in Nat, NEW count \in Nat
  PROVE  ByteIds(n, count) \in Seq(Places)
<1>1. \A k \in 1..count : <<n, k>> \in Places
  BY DEF Places
<1> QED
  BY <1>1 DEF ByteIds

LEMMA FieldsSeq ==
  ASSUME NEW pasted \in Lines, NEW n \in Nat
  PROVE  Fields(pasted, n) \in Seq(Places)
<1>1. pasted.found + pasted.unread \in Nat
  BY LineFields
<1> QED
  BY <1>1, ByteIdsSeq, EmptySeq DEF Fields

\* A line more adds what it should leave, and takes nothing back.
LEMMA FieldsGrow ==
  ASSUME NEW d \in Seq(Lines), NEW pasted \in Lines
  PROVE  /\ FieldsOf(d) \in Seq(Seq(Places))
         /\ FlattenSeq(FieldsOf(Append(d, pasted))) = FlattenSeq(FieldsOf(d)) \o Fields(pasted, Len(d) + 1)
<1> DEFINE e == Append(d, pasted)
           w == Fields(pasted, Len(d) + 1)
<1>1. Len(d) \in Nat
  BY LenProperties
<1>2. /\ Len(e) = Len(d) + 1 /\ e[Len(d) + 1] = pasted
      /\ \A i \in 1..Len(d) : e[i] = d[i]
  BY AppendProperties
<1> HIDE DEF e
<1>3. \A n \in 1..Len(d) : Fields(d[n], n) \in Seq(Places)
  <2> TAKE n \in 1..Len(d)
  <2>1. d[n] \in Lines /\ n \in Nat
    BY <1>1, ElementOfSeq
  <2> QED
    BY <2>1, FieldsSeq
<1>4. FieldsOf(d) \in Seq(Seq(Places)) /\ Len(FieldsOf(d)) = Len(d)
  BY <1>1, <1>3 DEF FieldsOf
<1>5. w \in Seq(Places)
  BY <1>1, FieldsSeq
<1>6. FieldsOf(e) = Append(FieldsOf(d), w)
  <2>1. /\ Append(FieldsOf(d), w) \in Seq(Seq(Places))
        /\ Len(Append(FieldsOf(d), w)) = Len(d) + 1
        /\ \A i \in 1..Len(d) : Append(FieldsOf(d), w)[i] = FieldsOf(d)[i]
        /\ Append(FieldsOf(d), w)[Len(d) + 1] = w
    BY <1>4, <1>5, AppendProperties
  <2>2. \A i \in 1..Len(d) + 1 : FieldsOf(e)[i] = IF i = Len(d) + 1 THEN w ELSE FieldsOf(d)[i]
    BY <1>1, <1>2 DEF FieldsOf
  <2>3. Len(FieldsOf(e)) = Len(d) + 1
    BY <1>1, <1>2 DEF FieldsOf
  <2>4. FieldsOf(e) \in Seq(Seq(Places))
    <3>1. \A i \in 1..Len(d) + 1 : FieldsOf(e)[i] \in Seq(Places)
      <4>1. \A i \in 1..Len(d) : FieldsOf(d)[i] \in Seq(Places)
        BY <1>3 DEF FieldsOf
      <4> HIDE DEF w
      <4> QED
        BY <1>1, <1>5, <2>2, <4>1
    <3>2. FieldsOf(e) = [i \in 1..Len(d) + 1 |-> FieldsOf(e)[i]]
      BY <1>1, <1>2 DEF FieldsOf
    <3> QED
      BY <1>1, <3>1, <3>2
  <2>5. \A i \in 1..Len(FieldsOf(e)) : FieldsOf(e)[i] = Append(FieldsOf(d), w)[i]
    BY <1>1, <2>1, <2>2, <2>3
  <2> QED
    BY <2>1, <2>3, <2>4, <2>5, SeqEqual
<1>7. FlattenSeq(Append(FieldsOf(d), w)) = FlattenSeq(FieldsOf(d)) \o w
  BY <1>4, <1>5, FlattenAppend
<1> QED
  BY <1>4, <1>6, <1>7, Zenon DEF e

DumpInv ==
    /\ dump \in Seq(Lines) /\ out \in Seq(Places) /\ run \in Seq(Places)
    /\ notes \in BOOLEAN /\ errors \in BOOLEAN
    /\ phase # "lines" => run = <<>>
    /\ phase = "printed" => ~errors
    /\ ~errors /\ ~notes => out \o run = FlattenSeq(FieldsOf(dump))

LEMMA InitDump == PInit => DumpInv
<1> SUFFICES ASSUME PInit PROVE DumpInv
  OBVIOUS
<1>1. /\ phase = "name" /\ dump = <<>> /\ run = <<>> /\ out = <<>>
      /\ notes = FALSE /\ errors = FALSE
  BY DEF PInit
<1>2. FieldsOf(<<>>) = <<>>
  BY DEF FieldsOf
<1>3. FlattenSeq(<<>>) = <<>>
  BY FlattenIs
<1>4. <<>> \in Seq(Places) /\ <<>> \in Seq(Lines) /\ <<>> \o <<>> = <<>>
  BY ConcatEmptySeq, EmptySeq
<1>5. out \o run = FlattenSeq(FieldsOf(dump))
  BY <1>1, <1>2, <1>3, <1>4, Zenon
<1> QED
  BY <1>1, <1>4, <1>5 DEF DumpInv

\* Once a run is over: kept, or empty, or a note.
LEMMA RunOver ==
  ASSUME DumpInv
  PROVE  /\ Kept \in Seq(Places)
         /\ Dropped \in BOOLEAN
         /\ ~Dropped => Kept \o <<>> = out \o run
<1>1. out \in Seq(Places) /\ run \in Seq(Places) /\ Len(run) \in Nat /\ MIN_BLOCK \in Nat
  BY LenProperties, DumpAssumption DEF DumpInv
<1>2. out \o run \in Seq(Places)
  BY <1>1, ConcatProperties
<1>3. Kept \in Seq(Places)
  BY <1>1, <1>2 DEF Kept
<1>4. Dropped \in BOOLEAN
  BY DEF Dropped
<1>5. Kept \o <<>> = Kept
  BY <1>3, ConcatEmptySeq
<1>6. ASSUME ~Dropped PROVE Kept = out \o run
  <2>1. CASE run = <<>>
    <3>1. out \o <<>> = out
      BY <1>1, ConcatEmptySeq
    <3> QED
      BY <2>1, <3>1 DEF Kept
  <2>2. CASE run # <<>>
    <3>1. Len(run) >= MIN_BLOCK
      BY <1>1, <1>6, <2>2 DEF Dropped
    <3> QED
      BY <3>1 DEF Kept
  <2> QED
    BY <2>1, <2>2
<1> QED
  BY <1>3, <1>4, <1>5, <1>6, Zenon

LEMMA LineStep ==
  ASSUME DumpInv, NEW pasted \in Lines, ReadLine(pasted)
  PROVE  DumpInv'
<1> DEFINE n == Len(dump) + 1
           all == FlattenSeq(FieldsOf(dump))
<1>1. /\ phase = "lines" /\ phase' = phase /\ dump' = Append(dump, pasted)
      /\ IsData(pasted) => ReadData(pasted)
      /\ ~IsData(pasted) => ReadOther(pasted)
  BY DEF ReadLine
<1>2. /\ dump \in Seq(Lines) /\ out \in Seq(Places) /\ run \in Seq(Places)
      /\ notes \in BOOLEAN /\ errors \in BOOLEAN
      /\ ~errors /\ ~notes => out \o run = all
  BY DEF DumpInv
<1>3. dump' \in Seq(Lines) /\ Len(dump) \in Nat
  BY <1>1, <1>2, AppendProperties, LenProperties
<1>4. FlattenSeq(FieldsOf(dump')) = all \o Fields(pasted, n)
  BY <1>1, <1>2, FieldsGrow, Zenon
<1>5. pasted.found \in Nat /\ pasted.unread \in {0, 1}
  BY LineFields
<1>6. CASE IsData(pasted)
  <2> DEFINE ids == ByteIds(n, pasted.found)
  <2>1. /\ run' = run \o ids /\ errors' = (errors \/ pasted.unread > 0)
        /\ out' = out /\ notes' = notes
    BY <1>1, <1>6 DEF ReadData
  <2>2. ids \in Seq(Places)
    <3>1. n \in Nat
      BY <1>3
    <3> HIDE DEF n
    <3> QED
      BY <1>5, <3>1, ByteIdsSeq
  <2>3. run' \in Seq(Places) /\ out' \o run' = (out \o run) \o ids
    <3> HIDE DEF ids
    <3>1. run \o ids \in Seq(Places)
      BY <1>2, <2>2, ConcatProperties
    <3>2. (out \o run) \o ids = out \o (run \o ids)
      BY <1>2, <2>2, ConcatAssociative
    <3>3. run' = run \o ids /\ out' = out
      BY <2>1
    <3> QED
      BY <3>1, <3>2, <3>3, Zenon
  <2>4. ASSUME ~errors', ~notes' PROVE out' \o run' = all \o Fields(pasted, n)
    <3>0. ~errors /\ ~notes /\ ~(pasted.unread > 0)
      BY <2>1, <2>4, Zenon
    <3>1. ~errors /\ ~notes /\ pasted.unread = 0
      BY <1>5, <3>0
    <3>2. pasted.found + pasted.unread = pasted.found
      BY <1>5, <3>1
    <3>3. Fields(pasted, n) = ids
      BY <1>6, <3>2, Zenon DEF Fields
    <3> HIDE DEF ids, all
    <3> QED
      BY <1>2, <2>3, <3>1, <3>3
  <2>5. errors' \in BOOLEAN
    BY <2>1
  <2> HIDE DEF all, ids
  <2> QED
    BY <1>1, <1>2, <1>3, <1>4, <2>1, <2>3, <2>4, <2>5 DEF DumpInv
<1>7. CASE ~IsData(pasted)
  <2>1. /\ out' = Kept /\ run' = <<>> /\ errors' = errors
        /\ notes' = (notes \/ Dropped \/ (~pasted.noise /\ pasted.found >= MIN_BLOCK))
    BY <1>1, <1>7 DEF ReadOther
  <2>2. /\ out' \in Seq(Places) /\ run' \in Seq(Places)
        /\ ~Dropped => out' \o run' = out \o run
    BY <2>1, RunOver, EmptySeq, Zenon
  <2>3. Fields(pasted, n) = <<>>
    BY <1>7 DEF Fields
  <2>4. ASSUME ~errors', ~notes' PROVE out' \o run' = all \o Fields(pasted, n)
    <3>1. ~errors /\ ~notes /\ ~Dropped
      BY <2>1, <2>4
    <3>2. out' \o run' = all /\ all \in Seq(Places)
      <4>1. out \o run \in Seq(Places)
        BY <1>2, ConcatProperties
      <4> QED
        BY <1>2, <2>2, <3>1, <4>1
    <3> HIDE DEF all
    <3>3. all \o <<>> = all
      BY <3>2, ConcatEmptySeq
    <3> QED
      BY <2>3, <3>2, <3>3, Zenon
  <2>5. notes' \in BOOLEAN
    BY <2>1
  <2> HIDE DEF all
  <2> QED
    BY <1>1, <1>2, <1>3, <1>4, <2>1, <2>2, <2>4, <2>5 DEF DumpInv
<1> QED
  BY <1>6, <1>7

LEMMA DumpStep == DumpInv /\ [PNext]_pvars => DumpInv'
<1> SUFFICES ASSUME DumpInv, [PNext]_pvars PROVE DumpInv'
  OBVIOUS
<1>1. CASE ReadName
  BY <1>1 DEF ReadName, DumpInv
<1>2. CASE EndOfText
  <2>1. /\ phase = "lines" /\ phase' = "read" /\ out' = Kept /\ run' = <<>>
        /\ notes' = (notes \/ Dropped) /\ dump' = dump /\ errors' = errors
    BY <1>2 DEF EndOfText
  <2>2. /\ out' \in Seq(Places) /\ run' \in Seq(Places) /\ notes' \in BOOLEAN
        /\ ~Dropped => out' \o run' = out \o run
    BY <2>1, RunOver, EmptySeq
  <2>3. ~errors' /\ ~notes' => ~errors /\ ~notes /\ ~Dropped
    BY <2>1
  <2> QED
    BY <2>1, <2>2, <2>3 DEF DumpInv
<1>3. CASE Refuse
  BY <1>3 DEF Refuse, DumpInv
<1>4. CASE ReadNothing
  BY <1>4 DEF ReadNothing, DumpInv
<1>5. CASE Entry
  <2>1. PICK warns \in BOOLEAN : notes' = (notes \/ warns)
    BY <1>5 DEF Entry
  <2>2. /\ phase = "read" /\ ~errors /\ phase' \in {"duplicate", "printed"}
        /\ dump' = dump /\ run' = run /\ out' = out /\ errors' = errors
    BY <1>5 DEF Entry
  <2>3. notes' \in BOOLEAN /\ (~notes' => ~notes)
    BY <2>1
  <2> QED
    BY <2>2, <2>3 DEF DumpInv
<1>6. CASE UNCHANGED pvars
  BY <1>6 DEF pvars, DumpInv
<1> QED
  BY <1>1, <1>2, <1>3, <1>4, <1>5, <1>6, LineStep DEF PNext

LEMMA AllFieldsAre == AllFields = FlattenSeq(FieldsOf(dump))
  BY DEF AllFields, FieldsOf, Fields

LEMMA EntryHolds ==
  ASSUME DumpInv
  PROVE  EntryIsTheDump
<1> SUFFICES ASSUME phase = "printed", ~notes PROVE out = AllFields
  BY DEF EntryIsTheDump
<1>1. ~errors /\ run = <<>> /\ out \in Seq(Places) /\ out \o run = FlattenSeq(FieldsOf(dump))
  BY DEF DumpInv
<1>2. out \o <<>> = out
  BY <1>1, ConcatEmptySeq
<1> QED
  BY <1>1, <1>2, AllFieldsAre, Zenon

\* An entry tools/add_descriptor.py prints without a warning is the dump, field for field, for
\* dumps of any length and lines of any width, whatever MIN_BLOCK is.
THEOREM NothingLostInPasting == PSpec => []EntryIsTheDump
  BY InitDump, DumpStep, EntryHolds, PTL DEF PSpec

(***************************************************************************)
(* shortreport.c: the line for the first failure, typed again.             *)
(***************************************************************************)
\* The places up to n that are in K, in order.
Piece(K, i) == IF i \in K THEN <<i>> ELSE <<>>
Pieces(K, n) == [i \in 1..n |-> Piece(K, i)]
Lists(s, S) ==
    /\ s \in Seq(S)
    /\ \A i, j \in 1..Len(s) : s[i] = s[j] => i = j
    /\ \A x \in S : \E i \in 1..Len(s) : s[i] = x

LEMMA ListsMore ==
  ASSUME NEW S, NEW s, Lists(s, S), NEW x, x \notin S
  PROVE  Lists(s \o <<x>>, S \cup {x})
<1> DEFINE T == S \cup {x}
           w == s \o <<x>>
           n == Len(s)
<1>1. s \in Seq(T) /\ <<x>> \in Seq(T) /\ Len(<<x>>) = 1 /\ <<x>>[1] = x
  <2>1. s \in Seq(S) /\ S \subseteq T
    BY DEF Lists
  <2>2. n \in Nat /\ s \in [1..n -> S]
    BY <2>1, LenProperties
  <2>3. s \in [1..n -> T]
    BY <2>1, <2>2
  <2> HIDE DEF T
  <2>4. s \in Seq(T)
    BY <2>2, <2>3, SeqDef
  <2>5. x \in T
    BY DEF T
  <2> QED
    BY <2>4, <2>5
<1>2. n \in Nat /\ \A i \in 1..n : s[i] \in S
  BY LenProperties, ElementOfSeq DEF Lists
<1> HIDE DEF T
<1>3. /\ w \in Seq(T) /\ Len(w) = n + 1
      /\ \A i \in 1 .. n + 1 : w[i] = IF i <= n THEN s[i] ELSE <<x>>[i - n]
  BY <1>1, ConcatProperties
<1>4. (\A i \in 1..n : w[i] = s[i]) /\ w[n + 1] = x
  BY <1>1, <1>2, <1>3
<1> HIDE DEF w
<1>5. \A i \in 1 .. n + 1 : i \in 1..n \/ i = n + 1
  BY <1>2
<1>6. ASSUME NEW i \in 1 .. n + 1, NEW j \in 1 .. n + 1, w[i] = w[j] PROVE i = j
  <2>1. \A k, l \in 1..n : s[k] = s[l] => k = l
    BY DEF Lists
  <2> HIDE DEF n
  <2> QED
    BY <1>2, <1>4, <1>5, <1>6, <2>1
<1>7. ASSUME NEW y \in T PROVE \E i \in 1 .. n + 1 : w[i] = y
  <2>1. CASE y = x
    <3>1. n + 1 \in 1 .. n + 1
      BY <1>2
    <3> QED
      BY <1>4, <2>1, <3>1
  <2>2. CASE y \in S
    <3>1. PICK i \in 1..n : s[i] = y
      BY <2>2 DEF Lists
    <3>2. i \in 1 .. n + 1
      BY <1>2
    <3> QED
      BY <1>4, <3>1, <3>2
  <2> QED
    BY <2>1, <2>2 DEF T
<1>8. Lists(w, T)
  <2> HIDE DEF n
  <2> QED
    BY <1>3, <1>6, <1>7 DEF Lists
<1> QED
  BY <1>8 DEF w, T

LEMMA FlattenLists ==
  ASSUME NEW K, NEW n \in Nat
  PROVE  Lists(FlattenSeq(Pieces(K, n)), K \cap (1..n))
<1> DEFINE F(m) == FlattenSeq(Pieces(K, m))
           N == { m \in Nat : Lists(F(m), K \cap (1..m)) }
<1>1. 0 \in N
  <2>1. Pieces(K, 0) = <<>>
    BY DEF Pieces
  <2>2. F(0) = <<>>
    BY <2>1, FlattenIs, EmptySeq
  <2>3. K \cap (1..0) = {}
    OBVIOUS
  <2>4. Lists(<<>>, {})
    BY EmptySeq DEF Lists
  <2> HIDE DEF F
  <2> QED
    BY <2>2, <2>3, <2>4
<1>2. ASSUME NEW m \in Nat, m \in N PROVE m + 1 \in N
  <2> DEFINE s == Pieces(K, m)
             x == Piece(K, m + 1)
  <2>1. \A i \in Nat : Piece(K, i) \in Seq(Nat)
    BY DEF Piece
  <2>2. s \in Seq(Seq(Nat)) /\ Len(s) = m /\ \A i \in 1..m : s[i] = Piece(K, i)
    <3>1. s \in [1..m -> Seq(Nat)]
      BY <2>1 DEF Pieces
    <3> QED
      BY <3>1, SeqDef, LenProperties DEF Pieces
  <2>3. x \in Seq(Nat)
    BY <2>1
  <2>4. Pieces(K, m + 1) = Append(s, x)
    <3> DEFINE w == Append(s, x)
    <3>1. w \in Seq(Seq(Nat)) /\ Len(w) = m + 1 /\ (\A i \in 1..m : w[i] = s[i]) /\ w[m + 1] = x
      BY <2>2, <2>3, AppendProperties
    <3>2. w = [i \in 1 .. m + 1 |-> w[i]]
      BY <3>1, LenProperties
    <3> HIDE DEF w, s, x
    <3>3. \A i \in 1 .. m + 1 : w[i] = Piece(K, i)
      <4>1. \A i \in 1 .. m + 1 : i \in 1..m \/ i = m + 1
        OBVIOUS
      <4>2. w[m + 1] = Piece(K, m + 1)
        BY <3>1 DEF x
      <4> QED
        BY <2>2, <3>1, <4>1, <4>2
    <3> QED
      BY <3>2, <3>3, Zenon DEF Pieces, w
  <2>5. F(m + 1) = F(m) \o x
    BY <2>2, <2>3, <2>4, FlattenAppend
  <2>6. Lists(F(m), K \cap (1..m)) /\ F(m) \in Seq(K \cap (1..m))
    BY <1>2 DEF Lists
  <2> HIDE DEF F
  <2>7. CASE m + 1 \in K
    <3>1. x = <<m + 1>> /\ m + 1 \notin K \cap (1..m) /\ K \cap (1 .. m + 1) = (K \cap (1..m)) \cup {m + 1}
      BY <2>7 DEF Piece
    <3> HIDE DEF x
    <3>2. Lists(F(m) \o <<m + 1>>, (K \cap (1..m)) \cup {m + 1})
      BY <2>6, <3>1, ListsMore, Zenon
    <3>3. Lists(F(m + 1), K \cap (1 .. m + 1))
      BY <2>5, <3>1, <3>2, Zenon
    <3> QED
      BY <3>3
  <2>8. CASE m + 1 \notin K
    <3>1. x = <<>> /\ K \cap (1 .. m + 1) = K \cap (1..m)
      BY <2>8 DEF Piece
    <3>2. F(m) \o <<>> = F(m)
      BY <2>6, ConcatEmptySeq
    <3> HIDE DEF x
    <3>3. Lists(F(m + 1), K \cap (1 .. m + 1))
      BY <2>5, <2>6, <3>1, <3>2, Zenon
    <3> QED
      BY <3>3
  <2> QED
    BY <2>7, <2>8
<1>3. Nat \subseteq N
  <2> HIDE DEF N
  <2> QED
    BY <1>1, <1>2, SetInduction
<1> QED
  BY <1>3

-----------------------------------------------------------------------------
(***************************************************************************)
(* What the tables say.                                                    *)
(***************************************************************************)
RowsTyped == tables \in Seq(TableRows)
KeptRows(on) == { i \in 1..Len(tables) : tables[i].gated => on }
CaseGood(entry, c) == c \in Nat /\ c < Len(tables[entry].lens) /\ CaseFits(tables[entry], c)

LEMMA RowFields ==
  ASSUME RowsTyped, NEW entry \in 1..Len(tables)
  PROVE  /\ tables[entry] \in TableRows /\ tables[entry].lens \in Seq(Nat) /\ Len(tables[entry].lens) \in Nat
         /\ Floors[tables[entry].path] \in Nat
         /\ \A c \in Nat : c < Len(tables[entry].lens) => tables[entry].lens[c + 1] \in Nat
<1>1. tables[entry] \in TableRows
  BY ElementOfSeq DEF RowsTyped
<1>2. tables[entry].lens \in Seq(Nat) /\ Floors[tables[entry].path] \in Nat
  BY <1>1, ReplayAssumption DEF TableRows
<1>3. Len(tables[entry].lens) \in Nat
  BY <1>2, LenProperties
<1> DEFINE lens == tables[entry].lens
<1>4. lens \in Seq(Nat) /\ Len(lens) \in Nat
  BY <1>2, <1>3
<1> HIDE DEF lens
<1>5. \A c \in Nat : c < Len(lens) => lens[c + 1] \in Nat
  <2> TAKE c \in Nat
  <2> HAVE c < Len(lens)
  <2>1. c + 1 \in 1..Len(lens)
    BY <1>4
  <2> QED
    BY <1>4, <2>1, ElementOfSeq
<1> QED
  BY <1>1, <1>2, <1>3, <1>5 DEF lens

LEMMA EntriesAre ==
  ASSUME RowsTyped, NEW on
  PROVE  Lists(Entries(on), KeptRows(on))
<1> DEFINE K == KeptRows(on)
           n == Len(tables)
<1>1. n \in Nat /\ DOMAIN tables = 1..n
  BY LenProperties DEF RowsTyped
<1>2. \A i \in 1..n : i \in K <=> (tables[i].gated => on)
  BY DEF KeptRows
<1>3. K \cap (1..n) = K
  BY DEF KeptRows
<1> HIDE DEF K, n
<1>4. \A i \in 1..n : (IF tables[i].gated => on THEN <<i>> ELSE <<>>) = Piece(K, i)
  BY <1>2 DEF Piece
<1>5. [i \in DOMAIN tables |-> IF tables[i].gated => on THEN <<i>> ELSE <<>>] = Pieces(K, n)
  BY <1>1, <1>4 DEF Pieces
<1>6. Lists(FlattenSeq(Pieces(K, n)), K)
  BY <1>1, <1>3, FlattenLists
<1> QED
  BY <1>5, <1>6 DEF Entries, K

LEMMA EntriesTell ==
  ASSUME RowsTyped, NEW on
  PROVE  /\ Len(Entries(on)) \in Nat /\ DOMAIN Entries(on) = 1..Len(Entries(on))
         /\ \A i \in 1..Len(Entries(on)) : Entries(on)[i] \in KeptRows(on) /\ Entries(on)[i] \in 1..Len(tables)
         /\ \A i, j \in 1..Len(Entries(on)) : Entries(on)[i] = Entries(on)[j] => i = j
         /\ \A r \in KeptRows(on) : \E i \in 1..Len(Entries(on)) : Entries(on)[i] = r
<1> DEFINE E == Entries(on)
<1>1. Lists(E, KeptRows(on))
  BY EntriesAre
<1> HIDE DEF E
<1>2. E \in Seq(KeptRows(on)) /\ KeptRows(on) \subseteq 1..Len(tables)
  BY <1>1 DEF Lists, KeptRows
<1>3. Len(E) \in Nat /\ DOMAIN E = 1..Len(E) /\ \A i \in 1..Len(E) : E[i] \in KeptRows(on)
  BY <1>2, LenProperties, ElementOfSeq
<1>4. \A i \in 1..Len(E) : E[i] \in KeptRows(on) /\ E[i] \in 1..Len(tables)
  BY <1>2, <1>3
<1>5. \A i, j \in 1..Len(E) : E[i] = E[j] => i = j
  BY <1>1 DEF Lists
<1>6. \A r \in KeptRows(on) : \E i \in 1..Len(E) : E[i] = r
  BY <1>1 DEF Lists
<1> QED
  BY <1>3, <1>4, <1>5, <1>6 DEF E

LEMMA FitMeans ==
  ASSUME RowsTyped, NEW on, NEW p
  PROVE  p \in FitCases(on) <=> \E i \in 1..Len(Entries(on)) : \E d \in Nat :
                                   p = <<Entries(on)[i], d>> /\ CaseGood(Entries(on)[i], d)
<1> DEFINE E == Entries(on)
<1>1. /\ DOMAIN E = 1..Len(E)
      /\ \A i \in 1..Len(E) : E[i] \in 1..Len(tables)
  BY EntriesTell
<1> HIDE DEF E
<1>2. \A i \in 1..Len(E) : Len(tables[E[i]].lens) \in Nat
  BY <1>1, RowFields
<1>3. p \in FitCases(on) <=> \E i \in 1..Len(E) : p \in CasesOf(E[i]) /\ CaseFits(tables[p[1]], p[2])
  BY <1>1 DEF FitCases, E
<1>4. \A i \in 1..Len(E) : \A d : d \in 0 .. Len(tables[E[i]].lens) - 1 <=> d \in Nat /\ d < Len(tables[E[i]].lens)
  <2> TAKE i \in 1..Len(E)
  <2> DEFINE l == Len(tables[E[i]].lens)
  <2>1. l \in Nat
    BY <1>2
  <2> HIDE DEF l
  <2>2. \A d : d \in 0 .. l - 1 <=> d \in Nat /\ d < l
    BY <2>1
  <2> QED
    BY <2>2 DEF l
<1>5. \A i \in 1..Len(E) : p \in CasesOf(E[i]) <=>
          \E d : d \in 0 .. Len(tables[E[i]].lens) - 1 /\ p = <<E[i], d>>
  BY DEF CasesOf
<1>6. \A i \in 1..Len(E) : (p \in CasesOf(E[i]) /\ CaseFits(tables[p[1]], p[2])) <=>
          \E d \in Nat : p = <<E[i], d>> /\ CaseGood(E[i], d)
  <2> TAKE i \in 1..Len(E)
  <2>1. p \in CasesOf(E[i]) <=> \E d \in Nat : d < Len(tables[E[i]].lens) /\ p = <<E[i], d>>
    BY <1>4, <1>5
  <2>2. \A d : p = <<E[i], d>> => p[1] = E[i] /\ p[2] = d
    OBVIOUS
  <2> QED
    BY <2>1, <2>2 DEF CaseGood
<1> QED
  BY <1>3, <1>6 DEF E

LEMMA SmallestIs == ASSUME NEW S, S \subseteq Nat, S # {} PROVE Min(S) \in S /\ \A y \in S : Min(S) <= y
<1> DEFINE R == OpToRel(<, Nat)
<1>1. IsWellFoundedOn(R, Nat)
  BY NatLessThanWellFounded
<1>2. \A x, y \in Nat : <<x, y>> \notin R => y <= x
  BY DEF OpToRel
<1> HIDE DEF R
<1>3. PICK m \in S : \A y \in S : <<y, m>> \notin R
  BY <1>1, WFMin
<1>4. \A y \in S : m <= y
  BY <1>2, <1>3
<1> QED
  BY <1>4 DEF Min

LEMMA OnlyOne == \A n \in Nat : Min({n}) = n
<1> TAKE n \in Nat
<1>1. n \in {n} /\ \A y \in {n} : n <= y
  OBVIOUS
<1> QED
  BY <1>1 DEF Min

\* A row's own name has its path in front, so it is never a bare one.
LEMMA IdIsNoName == ASSUME NEW entry, NEW x PROVE Id(entry) # <<x>>
<1> DEFINE B == {entry.path, entry.name, "boot"}
           s == <<entry.path, entry.name>>
           t == IF entry.boot THEN <<"boot">> ELSE <<>>
<1>1. s \in Seq(B) /\ Len(s) = 2
  OBVIOUS
<1>2. t \in Seq(B) /\ Len(t) \in Nat
  <2>1. <<>> \in Seq(B) /\ <<"boot">> \in Seq(B)
    BY EmptySeq
  <2> HIDE DEF B
  <2>2. t \in Seq(B)
    BY <2>1
  <2> HIDE DEF t
  <2> QED
    BY <2>2, LenProperties
<1> HIDE DEF s, t, B
<1>3. Len(s \o t) = Len(s) + Len(t)
  BY <1>1, <1>2, ConcatProperties
<1>4. Len(s \o t) # 1
  BY <1>1, <1>2, <1>3
<1>5. Len(<<x>>) = 1
  OBVIOUS
<1> QED
  BY <1>4, <1>5 DEF Id, s, t

-----------------------------------------------------------------------------
(***************************************************************************)
(* What a typed line finds.                                                *)
(***************************************************************************)
LEMMA FindOwn ==
  ASSUME RowsTyped, NEW on, ~Collide(Entries(on)), NEW entry \in KeptRows(on)
  PROVE  FindEntry(Entries(on), Id(tables[entry])) = entry
<1> DEFINE E == Entries(on)
           exact == { i \in DOMAIN E : Id(tables[E[i]]) = Id(tables[entry]) }
<1>1. Len(E) \in Nat /\ DOMAIN E = 1..Len(E)
  BY EntriesTell
<1>2. PICK k \in 1..Len(E) : E[k] = entry
  BY EntriesTell
<1>3. \A i, j \in 1..Len(E) : i < j => Id(tables[E[i]]) # Id(tables[E[j]])
  BY <1>1 DEF Collide
<1> HIDE DEF E
<1>4. \A i \in 1..Len(E) : i # k => Id(tables[E[i]]) # Id(tables[entry])
  <2> TAKE i \in 1..Len(E)
  <2> HAVE i # k
  <2>1. i < k \/ k < i
    BY <1>1
  <2> QED
    BY <1>2, <1>3, <2>1
<1>5. exact = {k}
  BY <1>1, <1>2, <1>4
<1>6. k \in Nat
  BY <1>1
<1>7. exact # {} /\ Min(exact) = k
  BY <1>5, <1>6, OnlyOne
<1> HIDE DEF exact
<1>8. FindEntry(E, Id(tables[entry])) = E[Min(exact)]
  BY <1>7 DEF FindEntry, exact
<1> QED
  BY <1>2, <1>7, <1>8 DEF E

LEMMA FindNone ==
  ASSUME RowsTyped, NEW on, NEW entry, \A r \in KeptRows(on) : Id(tables[r]) # Id(tables[entry])
  PROVE  FindEntry(Entries(on), Id(tables[entry])) = 0
<1> DEFINE E == Entries(on)
           spec == Id(tables[entry])
           exact == { i \in DOMAIN E : Id(tables[E[i]]) = spec }
           bare == { i \in DOMAIN E : <<tables[E[i]].name>> = spec }
<1>1. DOMAIN E = 1..Len(E) /\ \A i \in 1..Len(E) : E[i] \in KeptRows(on)
  BY EntriesTell
<1> HIDE DEF E
<1>2. exact = {}
  BY <1>1
<1>3. bare = {}
  <2>1. \A i : <<tables[E[i]].name>> # spec
    BY IdIsNoName
  <2> HIDE DEF spec
  <2> QED
    BY <2>1
<1>4. Cardinality({}) # 1
  BY FS_EmptySet
<1>5. FindEntry(E, spec) = IF exact # {} THEN E[Min(exact)] ELSE IF Cardinality(bare) = 1 THEN E[Min(bare)] ELSE 0
  BY Zenon DEF FindEntry
<1> HIDE DEF exact, bare, spec
<1>6. FindEntry(E, spec) = 0
  BY <1>2, <1>3, <1>4, <1>5
<1> QED
  BY <1>6 DEF E, spec

LEMMA FindIsARow ==
  ASSUME RowsTyped, NEW on, NEW spec
  PROVE  FindEntry(Entries(on), spec) \in {0} \cup 1..Len(tables)
<1> DEFINE E == Entries(on)
           exact == { i \in DOMAIN E : Id(tables[E[i]]) = spec }
           bare == { i \in DOMAIN E : <<tables[E[i]].name>> = spec }
<1>1. Len(E) \in Nat /\ DOMAIN E = 1..Len(E) /\ \A i \in 1..Len(E) : E[i] \in 1..Len(tables)
  BY EntriesTell
<1> HIDE DEF E
<1>2. exact \subseteq 1..Len(E) /\ bare \subseteq 1..Len(E) /\ 1..Len(E) \subseteq Nat
  BY <1>1
<1>3. FindEntry(E, spec) = IF exact # {} THEN E[Min(exact)] ELSE IF Cardinality(bare) = 1 THEN E[Min(bare)] ELSE 0
  BY Zenon DEF FindEntry
<1> HIDE DEF exact, bare
<1>4. exact # {} => Min(exact) \in exact
  BY <1>2, SmallestIs
<1>5. Cardinality(bare) = 1 => Min(bare) \in bare
  <2> HAVE Cardinality(bare) = 1
  <2>1. bare # {}
    BY FS_EmptySet
  <2> QED
    BY <1>2, <2>1, SmallestIs
<1>6. FindEntry(E, spec) \in {0} \cup 1..Len(tables)
  <2>1. CASE exact # {}
    BY <1>1, <1>2, <1>3, <1>4, <2>1
  <2>2. CASE exact = {} /\ Cardinality(bare) = 1
    BY <1>1, <1>2, <1>3, <1>5, <2>2
  <2>3. CASE exact = {} /\ Cardinality(bare) # 1
    BY <1>3, <2>3
  <2> QED
    BY <2>1, <2>2, <2>3
<1> QED
  BY <1>6 DEF E

LengthGood(entry, c, n) == n \in Floors[tables[entry].path]..tables[entry].lens[c + 1]
Decodes(r) == r.row # 0 => CaseGood(r.row, r.case) /\ LengthGood(r.row, r.case, r.n)

LEMMA NoDecode == \A code : Refusal(code).row = 0 /\ Refusal(code) = [status |-> code, row |-> 0, case |-> 0, n |-> 0]
  BY DEF Refusal, NotTyped

LEMMA SelectGood ==
  ASSUME RowsTyped, NEW on, NEW spec, NEW c \in Nat, NEW n \in Nat
  PROVE  Decodes(Select(Entries(on), spec, c, n))
<1> DEFINE r == FindEntry(Entries(on), spec)
           chosen == Select(Entries(on), spec, c, n)
<1>1. r \in {0} \cup 1..Len(tables)
  BY FindIsARow
<1>2. chosen = IF r = 0 THEN Refusal(2)
            ELSE IF c >= Len(tables[r].lens) THEN Refusal(2)
            ELSE IF ~CaseFits(tables[r], c) THEN Refusal(1)
            ELSE IF n < Floors[tables[r].path] \/ n > tables[r].lens[c + 1] THEN Refusal(2)
            ELSE [status |-> 0, row |-> r, case |-> c, n |-> n]
  BY Zenon DEF Select
<1> HIDE DEF r, chosen
<1>3. Decodes(Refusal(1)) /\ Decodes(Refusal(2))
  BY NoDecode DEF Decodes
<1>4. CASE r = 0 \/ c >= Len(tables[r].lens) \/ ~CaseFits(tables[r], c)
           \/ n < Floors[tables[r].path] \/ n > tables[r].lens[c + 1]
  <2>1. chosen = Refusal(1) \/ chosen = Refusal(2)
    BY <1>2, <1>4
  <2>2. Decodes(chosen)
    BY <1>3, <2>1
  <2> QED
    BY <2>2 DEF chosen
<1>5. CASE ~(r = 0 \/ c >= Len(tables[r].lens) \/ ~CaseFits(tables[r], c)
             \/ n < Floors[tables[r].path] \/ n > tables[r].lens[c + 1])
  <2>1. chosen = [status |-> 0, row |-> r, case |-> c, n |-> n]
    BY <1>2, <1>5
  <2>2. r \in 1..Len(tables)
    BY <1>1, <1>5
  <2>3. /\ Len(tables[r].lens) \in Nat /\ Floors[tables[r].path] \in Nat
        /\ c < Len(tables[r].lens) => tables[r].lens[c + 1] \in Nat
    BY <2>2, RowFields
  <2>4. c < Len(tables[r].lens) /\ CaseFits(tables[r], c)
    BY <1>5, <2>3
  <2>5. CaseGood(r, c)
    BY <2>4 DEF CaseGood
  <2>6. LengthGood(r, c, n)
    BY <1>5, <2>3, <2>4 DEF LengthGood
  <2>7. Decodes(chosen)
    BY <2>1, <2>5, <2>6 DEF Decodes
  <2> QED
    BY <2>7 DEF chosen
<1> QED
  BY <1>4, <1>5

LEMMA SelectOwn ==
  ASSUME RowsTyped, NEW on, NEW spec, NEW c, NEW n, NEW entry \in 1..Len(tables),
         FindEntry(Entries(on), spec) = entry, CaseGood(entry, c), LengthGood(entry, c, n)
  PROVE  Select(Entries(on), spec, c, n) = [status |-> 0, row |-> entry, case |-> c, n |-> n]
<1>1. /\ Len(tables[entry].lens) \in Nat /\ Floors[tables[entry].path] \in Nat
      /\ \A d \in Nat : d < Len(tables[entry].lens) => tables[entry].lens[d + 1] \in Nat
  BY RowFields
<1>2. c \in Nat /\ c < Len(tables[entry].lens) /\ CaseFits(tables[entry], c)
  BY DEF CaseGood
<1>3. ~(c >= Len(tables[entry].lens))
  BY <1>1, <1>2
<1>4. tables[entry].lens[c + 1] \in Nat
  BY <1>1, <1>2
<1>5. ~(n < Floors[tables[entry].path] \/ n > tables[entry].lens[c + 1])
  BY <1>1, <1>4 DEF LengthGood
<1>6. entry # 0
  OBVIOUS
<1> DEFINE chosen == Select(Entries(on), spec, c, n)
<1>7. chosen = IF entry = 0 THEN Refusal(2)
            ELSE IF c >= Len(tables[entry].lens) THEN Refusal(2)
            ELSE IF ~CaseFits(tables[entry], c) THEN Refusal(1)
            ELSE IF n < Floors[tables[entry].path] \/ n > tables[entry].lens[c + 1] THEN Refusal(2)
            ELSE [status |-> 0, row |-> entry, case |-> c, n |-> n]
  BY Zenon DEF Select
<1> HIDE DEF chosen
<1>8. chosen = [status |-> 0, row |-> entry, case |-> c, n |-> n]
  BY <1>2, <1>3, <1>5, <1>6, <1>7
<1> QED
  BY <1>8 DEF chosen

LEMMA SelectNone ==
  ASSUME NEW entries, NEW spec, NEW c, NEW n, FindEntry(entries, spec) = 0
  PROVE  Select(entries, spec, c, n) = Refusal(2)
  BY DEF Select

-----------------------------------------------------------------------------
(***************************************************************************)
(* The cases behind the sweep.                                             *)
(***************************************************************************)
Before(i, d, e, c) == i < e \/ (i = e /\ d < c)
Passed(e, c) == { p \in FitCases(gateOn) :
                    \E i \in 1..Len(Entries(gateOn)) : Entries(gateOn)[i] = p[1] /\ Before(i, p[2], e, c) }
Lengths == [p \in FitCases(gateOn) |-> LengthsOf(p)]

LEMMA PassedMeans ==
  ASSUME RowsTyped, NEW e, NEW c, NEW p
  PROVE  p \in Passed(e, c) <=> \E i \in 1..Len(Entries(gateOn)) : \E d \in Nat :
                  p = <<Entries(gateOn)[i], d>> /\ CaseGood(Entries(gateOn)[i], d) /\ Before(i, d, e, c)
<1> DEFINE E == Entries(gateOn)
<1>1. p \in FitCases(gateOn) <=> \E i \in 1..Len(E) : \E d \in Nat : p = <<E[i], d>> /\ CaseGood(E[i], d)
  BY FitMeans
<1>2. \A i, j \in 1..Len(E) : E[i] = E[j] => i = j
  BY EntriesTell
<1>3. p \in Passed(e, c) <=> p \in FitCases(gateOn) /\ \E i \in 1..Len(E) : E[i] = p[1] /\ Before(i, p[2], e, c)
  BY DEF Passed
<1> HIDE DEF E
<1>4. \A i : \A d : p = <<E[i], d>> => p[1] = E[i] /\ p[2] = d
  OBVIOUS
<1>5. p \in Passed(e, c) => \E i \in 1..Len(E) : \E d \in Nat : p = <<E[i], d>> /\ CaseGood(E[i], d) /\ Before(i, d, e, c)
  <2> HAVE p \in Passed(e, c)
  <2>1. PICK i \in 1..Len(E), d \in Nat : p = <<E[i], d>> /\ CaseGood(E[i], d)
    BY <1>1, <1>3
  <2>2. PICK j \in 1..Len(E) : E[j] = p[1] /\ Before(j, p[2], e, c)
    BY <1>3
  <2>3. i = j /\ p[2] = d
    BY <1>2, <1>4, <2>1, <2>2
  <2> QED
    BY <2>1, <2>2, <2>3
<1>6. ASSUME NEW i \in 1..Len(E), NEW d \in Nat, p = <<E[i], d>>, CaseGood(E[i], d), Before(i, d, e, c)
      PROVE  p \in Passed(e, c)
  <2>1. p[1] = E[i] /\ p[2] = d
    BY <1>4, <1>6
  <2> QED
    BY <1>1, <1>3, <1>6, <2>1
<1> QED
  BY <1>5, <1>6 DEF E

LEMMA PassedFit == \A e, c : Passed(e, c) \subseteq FitCases(gateOn)
  BY DEF Passed

LEMMA NonePassed == RowsTyped => Passed(1, 0) = {}
<1> SUFFICES ASSUME RowsTyped, NEW p \in Passed(1, 0) PROVE FALSE
  OBVIOUS
<1>1. PICK i \in 1..Len(Entries(gateOn)), d \in Nat : Before(i, d, 1, 0)
  BY PassedMeans
<1> QED
  BY <1>1 DEF Before

\* Where the case passed is one no device could send, nothing is added.
LEMMA PassesUnfit ==
  ASSUME RowsTyped, NEW e \in Nat, NEW c \in Nat, ~CaseGood(Entries(gateOn)[e], c)
  PROVE  Passed(e, c + 1) = Passed(e, c)
<1>1. \A i, d \in Nat : Before(i, d, e, c + 1) <=> Before(i, d, e, c) \/ (i = e /\ d = c)
  BY DEF Before
<1>2. Len(Entries(gateOn)) \in Nat
  BY EntriesTell
<1>3. ASSUME NEW p PROVE p \in Passed(e, c + 1) <=> p \in Passed(e, c)
  <2> DEFINE At(i, d) == p = <<Entries(gateOn)[i], d>> /\ CaseGood(Entries(gateOn)[i], d)
  <2>1. p \in Passed(e, c + 1) <=> \E i \in 1..Len(Entries(gateOn)) : \E d \in Nat : At(i, d) /\ Before(i, d, e, c + 1)
    BY PassedMeans, Zenon
  <2>2. p \in Passed(e, c) <=> \E i \in 1..Len(Entries(gateOn)) : \E d \in Nat : At(i, d) /\ Before(i, d, e, c)
    BY PassedMeans, Zenon
  <2>3. ~At(e, c)
    OBVIOUS
  <2>4. \A i \in 1..Len(Entries(gateOn)) : i \in Nat
    BY <1>2
  <2> HIDE DEF At
  <2>5. \A i \in 1..Len(Entries(gateOn)) : \A d \in Nat :
            At(i, d) /\ Before(i, d, e, c + 1) <=> At(i, d) /\ Before(i, d, e, c)
    BY <1>1, <2>3, <2>4
  <2> QED
    BY <2>1, <2>2, <2>5
<1> QED
  BY <1>3

LEMMA PassesFit ==
  ASSUME RowsTyped, NEW e \in 1..Len(Entries(gateOn)), NEW c \in Nat, CaseGood(Entries(gateOn)[e], c)
  PROVE  /\ Passed(e, c + 1) = Passed(e, c) \cup {<<Entries(gateOn)[e], c>>}
         /\ <<Entries(gateOn)[e], c>> \notin Passed(e, c)
<1> DEFINE E == Entries(gateOn)
           new == <<E[e], c>>
<1>1. Len(E) \in Nat /\ \A i, j \in 1..Len(E) : E[i] = E[j] => i = j
  BY EntriesTell
<1>2. \A p : p \in Passed(e, c + 1) <=> \E i \in 1..Len(E) : \E d \in Nat :
                  p = <<E[i], d>> /\ CaseGood(E[i], d) /\ Before(i, d, e, c + 1)
  BY PassedMeans, Zenon
<1>3. \A p : p \in Passed(e, c) <=> \E i \in 1..Len(E) : \E d \in Nat :
                  p = <<E[i], d>> /\ CaseGood(E[i], d) /\ Before(i, d, e, c)
  BY PassedMeans, Zenon
<1>4. CaseGood(E[e], c) /\ e \in 1..Len(E)
  OBVIOUS
<1> HIDE DEF E
<1>5. e \in Nat /\ \A i \in 1..Len(E) : i \in Nat
  BY <1>1, <1>4
<1>6. \A i \in 1..Len(E) : \A d \in Nat : Before(i, d, e, c + 1) <=> Before(i, d, e, c) \/ (i = e /\ d = c)
  BY <1>5 DEF Before
<1>7. ~Before(e, c, e, c)
  BY <1>5 DEF Before
<1>8. new \notin Passed(e, c)
  <2> SUFFICES ASSUME new \in Passed(e, c) PROVE FALSE
    OBVIOUS
  <2>1. PICK i \in 1..Len(E), d \in Nat : new = <<E[i], d>> /\ Before(i, d, e, c)
    BY <1>3
  <2>2. E[i] = E[e] /\ d = c
    BY <2>1
  <2>3. i = e
    BY <1>1, <1>4, <2>2
  <2> QED
    BY <1>7, <2>1, <2>2, <2>3
<1>9. \A p : p \in Passed(e, c + 1) <=> p \in Passed(e, c) \/ p = new
  <2> TAKE p
  <2>1. p = new => p \in Passed(e, c + 1)
    BY <1>2, <1>4, <1>6
  <2>2. p \in Passed(e, c) => p \in Passed(e, c + 1)
    BY <1>2, <1>3, <1>6
  <2>3. p \in Passed(e, c + 1) => p \in Passed(e, c) \/ p = new
    <3> HAVE p \in Passed(e, c + 1)
    <3>1. PICK i \in 1..Len(E), d \in Nat : p = <<E[i], d>> /\ CaseGood(E[i], d) /\ Before(i, d, e, c + 1)
      BY <1>2
    <3>2. CASE Before(i, d, e, c)
      BY <1>3, <3>1, <3>2
    <3>3. CASE i = e /\ d = c
      BY <3>1, <3>3
    <3> QED
      BY <1>6, <3>1, <3>2, <3>3
  <2> HIDE DEF new
  <2> QED
    BY <2>1, <2>2, <2>3
<1>10. Passed(e, c + 1) = Passed(e, c) \cup {new}
  <2> HIDE DEF new
  <2> QED
    BY <1>9
<1> QED
  BY <1>8, <1>10 DEF new, E

LEMMA PassesEntry ==
  ASSUME RowsTyped, NEW e \in 1..Len(Entries(gateOn))
  PROVE  Passed(e + 1, 0) = Passed(e, Len(tables[Entries(gateOn)[e]].lens))
<1> DEFINE E == Entries(gateOn)
           l == Len(tables[E[e]].lens)
<1>1. Len(E) \in Nat
  BY EntriesTell
<1>2. \A p : p \in Passed(e + 1, 0) <=> \E i \in 1..Len(E) : \E d \in Nat :
                  p = <<E[i], d>> /\ CaseGood(E[i], d) /\ Before(i, d, e + 1, 0)
  BY PassedMeans, Zenon
<1>3. \A p : p \in Passed(e, l) <=> \E i \in 1..Len(E) : \E d \in Nat :
                  p = <<E[i], d>> /\ CaseGood(E[i], d) /\ Before(i, d, e, l)
  BY PassedMeans, Zenon
<1>4. l \in Nat /\ e \in 1..Len(E)
  BY EntriesTell, RowFields
<1>5. \A d \in Nat : CaseGood(E[e], d) => d < l
  BY DEF CaseGood
<1> HIDE DEF E, l
<1>6. \A i \in 1..Len(E) : \A d \in Nat : CaseGood(E[i], d) => (Before(i, d, e + 1, 0) <=> Before(i, d, e, l))
  BY <1>1, <1>4, <1>5 DEF Before
<1>7. \A p : p \in Passed(e + 1, 0) <=> p \in Passed(e, l)
  BY <1>2, <1>3, <1>6
<1>8. Passed(e + 1, 0) = Passed(e, l)
  BY <1>7
<1> QED
  BY <1>8 DEF l, E

LEMMA AllPassed ==
  ASSUME RowsTyped, NEW e \in Nat, e > Len(Entries(gateOn)), NEW c
  PROVE  Passed(e, c) = FitCases(gateOn)
<1> DEFINE E == Entries(gateOn)
<1>1. Len(E) \in Nat
  BY EntriesTell
<1>2. \A p : p \in Passed(e, c) <=> \E i \in 1..Len(E) : \E d \in Nat :
                  p = <<E[i], d>> /\ CaseGood(E[i], d) /\ Before(i, d, e, c)
  BY PassedMeans, Zenon
<1>3. \A p : p \in FitCases(gateOn) <=> \E i \in 1..Len(E) : \E d \in Nat : p = <<E[i], d>> /\ CaseGood(E[i], d)
  BY FitMeans, Zenon
<1> HIDE DEF E
<1>4. \A i \in 1..Len(E) : \A d : Before(i, d, e, c)
  <2>1. e > Len(E)
    BY DEF E
  <2> QED
    BY <1>1, <2>1 DEF Before
<1> QED
  BY <1>2, <1>3, <1>4

LEMMA LengthsNumbered ==
  ASSUME RowsTyped, NEW S, IsFiniteSet(S), S \subseteq FitCases(gateOn)
  PROVE  Numbered(Lengths, S)
<1>1. ASSUME NEW p \in S PROVE Lengths[p] \in Int
  <2>1. PICK i \in 1..Len(Entries(gateOn)), d \in Nat : p = <<Entries(gateOn)[i], d>> /\ CaseGood(Entries(gateOn)[i], d)
    BY FitMeans
  <2> DEFINE entry == Entries(gateOn)[i]
  <2>2. p[1] = entry /\ p[2] = d /\ entry \in 1..Len(tables)
    BY <2>1, EntriesTell
  <2>3. d < Len(tables[entry].lens)
    BY <2>1 DEF CaseGood
  <2> HIDE DEF entry
  <2>4. tables[entry].lens[d + 1] \in Nat /\ Floors[tables[entry].path] \in Nat
    BY <2>2, <2>3, RowFields
  <2>5. LengthsOf(p) \in Int
    BY <2>2, <2>4 DEF LengthsOf
  <2> QED
    BY <2>5 DEF Lengths
<1> QED
  BY <1>1 DEF Numbered

-----------------------------------------------------------------------------
(***************************************************************************)
(* The sweep and the line.                                                 *)
(***************************************************************************)
Beginning == [e |-> 1, c |-> 0, k |-> 0]
CleanTo(e, c) ==
    \A i \in 1..Len(Entries(gateOn)) : \A d \in Nat :
        Before(i, d, e, c) /\ d < Len(tables[Entries(gateOn)[i]].lens) => CaseFits(tables[Entries(gateOn)[i]], d)

\* s is a place the walk stands at, with n lengths behind it and bad the cases skipped.
WalkedTo(s, n, bad) ==
    /\ s \in [e : Nat \ {0}, c : Nat, k : Nat] /\ n \in Nat /\ bad \in Nat
    /\ s.e <= Len(Entries(gateOn)) + 1
    /\ s.k # 0 => /\ s.e <= Len(Entries(gateOn))
                  /\ CaseGood(Entries(gateOn)[s.e], s.c)
                  /\ LengthGood(Entries(gateOn)[s.e], s.c, Floors[tables[Entries(gateOn)[s.e]].path] + s.k)
    /\ IsFiniteSet(Passed(s.e, s.c))
    /\ n = Summed(Lengths, Passed(s.e, s.c)) + s.k
    /\ bad = 0 => CleanTo(s.e, s.c)

\* l names a case of a row this tree has, and a length of it.
Names(l) ==
    /\ l.row \in KeptRows(gateOn) /\ l.id = Id(tables[l.row])
    /\ CaseGood(l.row, l.case) /\ LengthGood(l.row, l.case, l.n)
LineTold(l) == l = NoLine \/ Names(l)

Again(r, l) == r = [status |-> 0, row |-> l.row, case |-> l.case, n |-> l.n]
Elsewhere(r, l) == r.row = l.row \/ (tables[l.row].gated /\ r = Refusal(2))

ReplayInv ==
    /\ RowsTyped /\ gateOn \in BOOLEAN
    /\ sweeping \in {"source", "start"} => spot = Beginning /\ lengths = 0 /\ badCases = 0 /\ line = NoLine
    /\ sweeping = "source" => reached = NotTyped
    /\ sweeping \in {"sweep", "done", "printed"} => ~Collide(Entries(gateOn))
    /\ sweeping \in {"done", "printed"} => spot.e > Len(Entries(gateOn))
    /\ sweeping = "printed" => line # NoLine
    /\ WalkedTo(spot, lengths, badCases)
    /\ LineTold(line)
    /\ Decodes(reached)
    /\ sweeping = "again" => Again(reached, line)
    /\ sweeping = "elsewhere" => Elsewhere(reached, line)

LEMMA SameTree ==
  ASSUME UNCHANGED <<tables, gateOn>>
  PROVE  /\ RowsTyped' <=> RowsTyped
         /\ Len(Entries(gateOn))' = Len(Entries(gateOn))
         /\ Collide(Entries(gateOn))' <=> Collide(Entries(gateOn))
         /\ \A s, n, bad : WalkedTo(s, n, bad)' <=> WalkedTo(s, n, bad)
         /\ \A l : LineTold(l)' <=> LineTold(l)
         /\ \A r : Decodes(r)' <=> Decodes(r)
         /\ \A r, l : Again(r, l)' <=> Again(r, l)
         /\ \A r, l : Elsewhere(r, l)' <=> Elsewhere(r, l)
<1>1. Entries(gateOn)' = Entries(gateOn)
  BY DEF Entries
<1>2. \A r, c : CaseGood(r, c)' <=> CaseGood(r, c)
  BY DEF CaseGood, CaseFits
<1>3. \A r, c, n : LengthGood(r, c, n)' <=> LengthGood(r, c, n)
  BY DEF LengthGood
<1>4. FitCases(gateOn)' = FitCases(gateOn)
  BY <1>1 DEF FitCases, CasesOf, CaseFits
<1>5. \A e, c : Passed(e, c)' = Passed(e, c)
  BY <1>1, <1>4 DEF Passed
<1>6. Lengths' = Lengths
  <2>1. \A p : LengthsOf(p)' = LengthsOf(p)
    BY DEF LengthsOf
  <2> QED
    BY <1>4, <2>1 DEF Lengths
<1>7. \A e, c : CleanTo(e, c)' <=> CleanTo(e, c)
  BY <1>1 DEF CleanTo, CaseFits
<1>8. \A s, n, bad : WalkedTo(s, n, bad)' <=> WalkedTo(s, n, bad)
  BY <1>1, <1>2, <1>3, <1>5, <1>6, <1>7 DEF WalkedTo
<1>9. \A l : LineTold(l)' <=> LineTold(l)
  BY <1>2, <1>3 DEF LineTold, Names, KeptRows
<1>10. \A r : Decodes(r)' <=> Decodes(r)
  BY <1>2, <1>3 DEF Decodes
<1>11. Collide(Entries(gateOn))' <=> Collide(Entries(gateOn))
  BY <1>1 DEF Collide
<1>12. /\ \A r, l : Again(r, l)' <=> Again(r, l)
       /\ \A r, l : Elsewhere(r, l)' <=> Elsewhere(r, l)
  BY DEF Again, Elsewhere
<1> QED
  BY <1>1, <1>8, <1>9, <1>10, <1>11, <1>12 DEF RowsTyped

LEMMA WalkBegins == RowsTyped => WalkedTo(Beginning, 0, 0)
<1> SUFFICES ASSUME RowsTyped PROVE WalkedTo(Beginning, 0, 0)
  OBVIOUS
<1>1. Passed(1, 0) = {} /\ IsFiniteSet({}) /\ Summed(Lengths, {}) = 0
  BY NonePassed, SumOfNone, FS_EmptySet
<1>2. Len(Entries(gateOn)) \in Nat
  BY EntriesTell
<1>3. CleanTo(1, 0)
  BY <1>2 DEF CleanTo, Before
<1>4. Beginning \in [e : Nat \ {0}, c : Nat, k : Nat] /\ Beginning.e = 1 /\ Beginning.c = 0 /\ Beginning.k = 0
  BY DEF Beginning
<1>5. 1 <= Len(Entries(gateOn)) + 1 /\ 0 \in Nat /\ 0 + 0 = 0
  BY <1>2
<1>6. /\ IsFiniteSet(Passed(Beginning.e, Beginning.c)) /\ CleanTo(Beginning.e, Beginning.c)
      /\ Summed(Lengths, Passed(Beginning.e, Beginning.c)) = 0
  BY <1>1, <1>3, <1>4, Zenon
<1> QED
  BY <1>4, <1>5, <1>6 DEF WalkedTo

LEMMA WalkSkips ==
  ASSUME RowsTyped, NEW s, NEW n, NEW bad, WalkedTo(s, n, bad), s.e <= Len(Entries(gateOn)),
         ~CaseFits(tables[Entries(gateOn)[s.e]], s.c)
  PROVE  WalkedTo([s EXCEPT !.c = @ + 1], n, bad + 1)
<1> DEFINE t == [s EXCEPT !.c = @ + 1]
<1>1. s \in [e : Nat \ {0}, c : Nat, k : Nat] /\ n \in Nat /\ bad \in Nat
  BY DEF WalkedTo
<1>2. t \in [e : Nat \ {0}, c : Nat, k : Nat] /\ t.e = s.e /\ t.c = s.c + 1 /\ t.k = s.k
  BY <1>1
<1>3. s.e \in Nat /\ s.c \in Nat
  BY <1>1
<1> HIDE DEF t
<1>4. ~CaseGood(Entries(gateOn)[s.e], s.c)
  BY DEF CaseGood
<1>5. s.k = 0
  BY <1>4 DEF WalkedTo
<1>6. Passed(t.e, t.c) = Passed(s.e, s.c)
  BY <1>2, <1>3, <1>4, PassesUnfit
<1>7. bad + 1 \in Nat /\ bad + 1 # 0
  BY <1>1
<1>8. /\ IsFiniteSet(Passed(s.e, s.c)) /\ n = Summed(Lengths, Passed(s.e, s.c)) + s.k
      /\ s.e <= Len(Entries(gateOn)) + 1
  BY DEF WalkedTo
<1>9. WalkedTo(t, n, bad + 1)
  BY <1>1, <1>2, <1>5, <1>6, <1>7, <1>8 DEF WalkedTo
<1> QED
  BY <1>9 DEF t

\* The length tried here is one of the case's, whether the first of them or a later one.
LEMMA LengthHere ==
  ASSUME RowsTyped, NEW s, NEW n, NEW bad, WalkedTo(s, n, bad), s.e <= Len(Entries(gateOn)),
         CaseGood(Entries(gateOn)[s.e], s.c)
  PROVE  LengthGood(Entries(gateOn)[s.e], s.c, Floors[tables[Entries(gateOn)[s.e]].path] + s.k)
<1> DEFINE entry == Entries(gateOn)[s.e]
           f == Floors[tables[entry].path]
           l == tables[entry].lens[s.c + 1]
<1>1. s \in [e : Nat \ {0}, c : Nat, k : Nat]
  BY DEF WalkedTo
<1>2. s.e \in 1..Len(Entries(gateOn)) /\ s.c \in Nat
  BY <1>1, EntriesTell
<1>3. entry \in 1..Len(tables)
  BY <1>2, EntriesTell
<1>4. f \in Nat /\ l \in Nat
  BY <1>2, <1>3, RowFields DEF CaseGood
<1>5. f <= l
  BY DEF CaseGood, CaseFits
<1>6. s.k = 0 => f + s.k \in f..l
  <2> HIDE DEF f, l, entry
  <2> QED
    BY <1>4, <1>5
<1>7. s.k # 0 => LengthGood(entry, s.c, f + s.k)
  BY DEF WalkedTo
<1>8. s.k = 0 => LengthGood(entry, s.c, f + s.k)
  BY <1>6 DEF LengthGood
<1> QED
  BY <1>7, <1>8

\* A length more of a case that has one.
LEMMA WalkTries ==
  ASSUME RowsTyped, NEW s, NEW n, NEW bad, WalkedTo(s, n, bad), s.e <= Len(Entries(gateOn)),
         CaseGood(Entries(gateOn)[s.e], s.c),
         Floors[tables[Entries(gateOn)[s.e]].path] + s.k < tables[Entries(gateOn)[s.e]].lens[s.c + 1]
  PROVE  WalkedTo([s EXCEPT !.k = @ + 1], n + 1, bad)
<1> DEFINE t == [s EXCEPT !.k = @ + 1]
           entry == Entries(gateOn)[s.e]
           f == Floors[tables[entry].path]
           l == tables[entry].lens[s.c + 1]
<1>1. s \in [e : Nat \ {0}, c : Nat, k : Nat] /\ n \in Nat /\ bad \in Nat
  BY DEF WalkedTo
<1>2. t \in [e : Nat \ {0}, c : Nat, k : Nat] /\ t.e = s.e /\ t.c = s.c /\ t.k = s.k + 1
  BY <1>1
<1>3. s.e \in 1..Len(Entries(gateOn)) /\ s.c \in Nat /\ s.k \in Nat
  BY <1>1, EntriesTell
<1>4. entry \in 1..Len(tables)
  BY <1>3, EntriesTell
<1>5. f \in Nat /\ l \in Nat
  BY <1>3, <1>4, RowFields DEF CaseGood
<1>6. f + s.k < l
  OBVIOUS
<1>7. LengthGood(entry, s.c, f + t.k)
  <2>1. f + t.k \in f..l
    <3> HIDE DEF f, l, t
    <3> QED
      BY <1>2, <1>3, <1>5, <1>6
  <2> QED
    BY <2>1 DEF LengthGood
<1>8. CaseGood(entry, s.c)
  OBVIOUS
<1>9. /\ IsFiniteSet(Passed(s.e, s.c)) /\ n = Summed(Lengths, Passed(s.e, s.c)) + s.k
      /\ s.e <= Len(Entries(gateOn)) + 1
      /\ bad = 0 => CleanTo(s.e, s.c)
  BY DEF WalkedTo
<1>10. Summed(Lengths, Passed(s.e, s.c)) \in Int
  <2>1. Passed(s.e, s.c) \subseteq FitCases(gateOn)
    BY PassedFit
  <2>2. Numbered(Lengths, Passed(s.e, s.c))
    BY <1>9, <2>1, LengthsNumbered
  <2> QED
    BY <2>2, SumInt
<1> DEFINE sum == Summed(Lengths, Passed(s.e, s.c))
<1>11. n + 1 = sum + t.k
  <2>1. sum \in Int /\ n = sum + s.k
    BY <1>9, <1>10
  <2> HIDE DEF sum, t
  <2> QED
    BY <1>2, <1>3, <2>1
<1>12. n + 1 \in Nat
  BY <1>1
<1> HIDE DEF t
<1>13. WalkedTo(t, n + 1, bad)
  BY <1>1, <1>2, <1>7, <1>8, <1>9, <1>11, <1>12 DEF WalkedTo
<1> QED
  BY <1>13 DEF t

\* The last length of a case, and the case is behind the sweep.
LEMMA WalkEndsCase ==
  ASSUME RowsTyped, NEW s, NEW n, NEW bad, WalkedTo(s, n, bad), s.e <= Len(Entries(gateOn)),
         CaseGood(Entries(gateOn)[s.e], s.c),
         ~(Floors[tables[Entries(gateOn)[s.e]].path] + s.k < tables[Entries(gateOn)[s.e]].lens[s.c + 1])
  PROVE  WalkedTo([s EXCEPT !.c = @ + 1, !.k = 0], n + 1, bad)
<1> DEFINE t == [s EXCEPT !.c = @ + 1, !.k = 0]
           entry == Entries(gateOn)[s.e]
           f == Floors[tables[entry].path]
           l == tables[entry].lens[s.c + 1]
           new == <<entry, s.c>>
           P == Passed(s.e, s.c)
<1>1. s \in [e : Nat \ {0}, c : Nat, k : Nat] /\ n \in Nat /\ bad \in Nat
  BY DEF WalkedTo
<1>2. t \in [e : Nat \ {0}, c : Nat, k : Nat] /\ t.e = s.e /\ t.c = s.c + 1 /\ t.k = 0
  <2> DEFINE u == [s EXCEPT !.c = @ + 1]
  <2>1. u \in [e : Nat \ {0}, c : Nat, k : Nat] /\ u.e = s.e /\ u.c = s.c + 1
    BY <1>1
  <2>2. t = [u EXCEPT !.k = 0]
    OBVIOUS
  <2> HIDE DEF u, t
  <2> QED
    BY <2>1, <2>2
<1>3. s.e \in 1..Len(Entries(gateOn)) /\ s.c \in Nat /\ s.k \in Nat /\ Len(Entries(gateOn)) \in Nat
  BY <1>1, EntriesTell
<1>4. entry \in 1..Len(tables)
  BY <1>3, EntriesTell
<1>5. f \in Nat /\ l \in Nat
  BY <1>3, <1>4, RowFields DEF CaseGood
<1>6. f + s.k = l
  <2>1. f + s.k \in f..l
    BY LengthHere DEF LengthGood
  <2>2. ~(f + s.k < l)
    OBVIOUS
  <2> HIDE DEF f, l
  <2> QED
    BY <1>3, <1>5, <2>1, <2>2
<1>7. Passed(s.e, s.c + 1) = P \cup {new} /\ new \notin P
  BY <1>3, PassesFit
<1>8. IsFiniteSet(P) /\ n = Summed(Lengths, P) + s.k /\ s.e <= Len(Entries(gateOn)) + 1
  BY DEF WalkedTo
<1>9. new \in FitCases(gateOn) /\ P \cup {new} \subseteq FitCases(gateOn)
  <2>1. new \in FitCases(gateOn)
    <3>1. \E i \in 1..Len(Entries(gateOn)) : \E d \in Nat :
             new = <<Entries(gateOn)[i], d>> /\ CaseGood(Entries(gateOn)[i], d)
      <4> USE <1>3
      <4> WITNESS s.e \in 1..Len(Entries(gateOn))
      <4> WITNESS s.c \in Nat
      <4> QED
        OBVIOUS
    <3> HIDE DEF new
    <3> QED
      BY <3>1, FitMeans, Zenon
  <2>2. P \subseteq FitCases(gateOn)
    BY PassedFit, Zenon
  <2> QED
    BY <2>1, <2>2
<1>10. Lengths[new] = s.k + 1
  <2>1. Lengths[new] = LengthsOf(new) /\ new[1] = entry /\ new[2] = s.c
    BY <1>9 DEF Lengths
  <2>2. LengthsOf(new) = l - f + 1
    BY <2>1 DEF LengthsOf
  <2>3. l - f + 1 = s.k + 1
    <3> HIDE DEF l, f
    <3> QED
      BY <1>3, <1>5, <1>6
  <2> QED
    BY <2>1, <2>2, <2>3
<1> HIDE DEF P, new
<1>11. IsFiniteSet(P \cup {new})
  BY <1>7, <1>8, FS_AddElement
<1>12. Numbered(Lengths, P \cup {new})
  BY <1>9, <1>11, LengthsNumbered, Zenon
<1>13. Summed(Lengths, P \cup {new}) = Lengths[new] + Summed(Lengths, P) /\ Summed(Lengths, P) \in Int
  BY <1>7, <1>12, SumAddsNumber, Zenon
<1>14. n + 1 = Summed(Lengths, P \cup {new}) + 0 /\ n + 1 \in Nat
  <2> DEFINE sum == Summed(Lengths, P)
             all == Summed(Lengths, P \cup {new})
  <2>1. sum \in Int /\ all = (s.k + 1) + sum /\ n = sum + s.k
    BY <1>8, <1>10, <1>13
  <2> HIDE DEF sum, all
  <2>2. n + 1 = all + 0 /\ n + 1 \in Nat
    <3> DEFINE k == s.k
    <3>1. k \in Nat /\ n \in Nat /\ sum \in Int /\ all = (k + 1) + sum /\ n = sum + k
      BY <1>1, <1>3, <2>1
    <3> HIDE DEF k
    <3> QED
      BY <3>1
  <2> QED
    BY <2>2 DEF all
<1>15. bad = 0 => CleanTo(s.e, s.c + 1)
  <2> HAVE bad = 0
  <2>1. CleanTo(s.e, s.c)
    BY DEF WalkedTo
  <2>2. CaseFits(tables[Entries(gateOn)[s.e]], s.c)
    BY DEF CaseGood
  <2>3. \A i, d \in Nat : Before(i, d, s.e, s.c + 1) => Before(i, d, s.e, s.c) \/ (i = s.e /\ d = s.c)
    BY <1>3 DEF Before
  <2>4. \A i \in 1..Len(Entries(gateOn)) : i \in Nat
    BY <1>3
  <2> QED
    BY <2>1, <2>2, <2>3, <2>4 DEF CleanTo
<1> HIDE DEF t
<1>16. WalkedTo(t, n + 1, bad)
  BY <1>1, <1>2, <1>7, <1>8, <1>11, <1>14, <1>15 DEF WalkedTo
<1> QED
  BY <1>16 DEF t

LEMMA WalkEndsEntry ==
  ASSUME RowsTyped, NEW s, NEW n, NEW bad, WalkedTo(s, n, bad), s.e <= Len(Entries(gateOn)),
         s.c = Len(tables[Entries(gateOn)[s.e]].lens)
  PROVE  WalkedTo([e |-> s.e + 1, c |-> 0, k |-> 0], n, bad)
<1> DEFINE t == [e |-> s.e + 1, c |-> 0, k |-> 0]
           entry == Entries(gateOn)[s.e]
<1>1. s \in [e : Nat \ {0}, c : Nat, k : Nat] /\ n \in Nat /\ bad \in Nat
  BY DEF WalkedTo
<1>2. t \in [e : Nat \ {0}, c : Nat, k : Nat] /\ t.e = s.e + 1 /\ t.c = 0 /\ t.k = 0
  <2>1. s.e + 1 \in Nat \ {0}
    BY <1>1
  <2> QED
    BY <2>1
<1>3. s.e \in 1..Len(Entries(gateOn)) /\ s.k \in Nat /\ Len(Entries(gateOn)) \in Nat /\ s.c \in Nat
  BY <1>1, EntriesTell
<1>4. s.k = 0
  <2>1. ~(s.c < s.c)
    BY <1>3
  <2>2. ~CaseGood(entry, s.c)
    BY <2>1 DEF CaseGood
  <2> QED
    BY <2>2 DEF WalkedTo
<1>5. Passed(s.e + 1, 0) = Passed(s.e, s.c)
  BY <1>3, PassesEntry
<1>6. s.e + 1 <= Len(Entries(gateOn)) + 1
  BY <1>3
<1>7. bad = 0 => CleanTo(s.e + 1, 0)
  <2> HAVE bad = 0
  <2>1. CleanTo(s.e, s.c)
    BY DEF WalkedTo
  <2>2. \A i \in 1..Len(Entries(gateOn)) : \A d \in Nat :
            Before(i, d, s.e + 1, 0) /\ d < Len(tables[Entries(gateOn)[i]].lens) => Before(i, d, s.e, s.c)
    <3> DEFINE l == s.c
    <3>1. \A i, d \in Nat : Before(i, d, s.e + 1, 0) => i < s.e \/ i = s.e
      BY <1>3 DEF Before
    <3>2. \A i \in 1..Len(Entries(gateOn)) : i \in Nat
      BY <1>3
    <3> QED
      BY <3>1, <3>2 DEF Before
  <2> QED
    BY <2>1, <2>2 DEF CleanTo
<1> HIDE DEF t
<1>8. IsFiniteSet(Passed(s.e, s.c)) /\ n = Summed(Lengths, Passed(s.e, s.c)) + s.k
  BY DEF WalkedTo
<1>9. WalkedTo(t, n, bad)
  BY <1>1, <1>2, <1>4, <1>5, <1>6, <1>7, <1>8 DEF WalkedTo
<1> QED
  BY <1>9 DEF t

\* A step on the same tree keeps the invariant where what it leaves is told of that tree.
StageTold(next, place, l, chosen) ==
    /\ next \notin {"source", "start"}
    /\ next \in {"sweep", "done", "printed"} => ~Collide(Entries(gateOn))
    /\ next \in {"done", "printed"} => place.e > Len(Entries(gateOn))
    /\ next = "printed" => l # NoLine
    /\ next = "again" => Again(chosen, l)
    /\ next = "elsewhere" => Elsewhere(chosen, l)

LEMMA CarriesOn ==
  ASSUME RowsTyped, gateOn \in BOOLEAN, UNCHANGED <<tables, gateOn>>, WalkedTo(spot', lengths', badCases'),
         LineTold(line'), Decodes(reached'), StageTold(sweeping', spot', line', reached')
  PROVE  ReplayInv'
<1>1. RowsTyped' /\ gateOn' \in BOOLEAN
  BY SameTree
<1>2. WalkedTo(spot, lengths, badCases)'
  BY SameTree
<1>3. LineTold(line)' /\ Decodes(reached)'
  BY SameTree
<1>4. /\ sweeping' \notin {"source", "start"}
      /\ sweeping' = "again" => Again(reached', line')
      /\ sweeping' = "elsewhere" => Elsewhere(reached', line')
      /\ sweeping' = "printed" => line' # NoLine
  BY DEF StageTold
<1>5. /\ sweeping' \in {"sweep", "done", "printed"} => ~Collide(Entries(gateOn))'
      /\ sweeping' \in {"done", "printed"} => spot'.e > Len(Entries(gateOn))'
  BY SameTree DEF StageTold
<1>6. /\ sweeping' = "again" => Again(reached, line)'
      /\ sweeping' = "elsewhere" => Elsewhere(reached, line)'
  BY <1>4, SameTree
<1> QED
  BY <1>1, <1>2, <1>3, <1>4, <1>5, <1>6 DEF ReplayInv

LEMMA SweepSteps == ReplayInv /\ (SkipsCase \/ NextEntry) => ReplayInv'
<1> SUFFICES ASSUME ReplayInv, SkipsCase \/ NextEntry PROVE ReplayInv'
  OBVIOUS
<1>1. RowsTyped /\ gateOn \in BOOLEAN /\ WalkedTo(spot, lengths, badCases) /\ LineTold(line) /\ Decodes(reached)
  BY DEF ReplayInv
<1>2. /\ UNCHANGED <<tables, gateOn, sweeping, line, lengths, reached>>
      /\ sweeping = "sweep" /\ spot.e <= Len(Entries(gateOn))
  BY DEF SkipsCase, NextEntry, InCases, MoreEntries
<1>3. ~Collide(Entries(gateOn))
  BY <1>2 DEF ReplayInv
<1>4. WalkedTo(spot', lengths', badCases')
  <2>1. CASE SkipsCase
    <3>1. ~CaseFits(tables[Entries(gateOn)[spot.e]], spot.c) /\ badCases' = badCases + 1 /\ spot' = [spot EXCEPT !.c = @ + 1]
      BY <2>1 DEF SkipsCase, ThisEntry
    <3>2. WalkedTo([spot EXCEPT !.c = @ + 1], lengths, badCases + 1)
      BY <1>1, <1>2, <3>1, WalkSkips
    <3> QED
      BY <1>2, <3>1, <3>2
  <2>2. CASE NextEntry
    <3>1. spot.c = Len(tables[Entries(gateOn)[spot.e]].lens) /\ spot' = [e |-> spot.e + 1, c |-> 0, k |-> 0] /\ badCases' = badCases
      BY <2>2 DEF NextEntry, ThisEntry
    <3>2. WalkedTo([e |-> spot.e + 1, c |-> 0, k |-> 0], lengths, badCases)
      BY <1>1, <1>2, <3>1, WalkEndsEntry
    <3> QED
      BY <1>2, <3>1, <3>2
  <2> QED
    BY <2>1, <2>2
<1>5. StageTold(sweeping', spot', line', reached')
  BY <1>2, <1>3 DEF StageTold
<1> QED
  BY <1>1, <1>2, <1>4, <1>5, CarriesOn

LEMMA ReplaysStep == \A fails \in BOOLEAN : ReplayInv /\ Replays(fails) => ReplayInv'
<1> SUFFICES ASSUME NEW fails \in BOOLEAN, ReplayInv, Replays(fails) PROVE ReplayInv'
  OBVIOUS
<1> DEFINE entry == Entries(gateOn)[spot.e]
           n == Floors[tables[entry].path] + spot.k
           last == tables[entry].lens[spot.c + 1]
<1>1. RowsTyped /\ gateOn \in BOOLEAN /\ WalkedTo(spot, lengths, badCases) /\ LineTold(line) /\ Decodes(reached)
  BY DEF ReplayInv
<1>2. /\ UNCHANGED <<tables, gateOn, sweeping, badCases, reached>> /\ lengths' = lengths + 1
      /\ sweeping = "sweep" /\ spot.e <= Len(Entries(gateOn))
      /\ spot.c < Len(tables[entry].lens) /\ CaseFits(tables[entry], spot.c)
  BY DEF Replays, InCases, MoreEntries, ThisEntry
<1>3. ~Collide(Entries(gateOn))
  BY <1>2 DEF ReplayInv
<1>4. /\ line' = IF fails /\ ~failedHere /\ line = NoLine
                 THEN [id |-> Id(tables[entry]), case |-> spot.c, n |-> n, row |-> entry] ELSE line
      /\ spot' = IF n < last THEN [spot EXCEPT !.k = @ + 1] ELSE [spot EXCEPT !.c = @ + 1, !.k = 0]
  BY DEF Replays, ThisEntry, ThisLength
<1>5. spot \in [e : Nat \ {0}, c : Nat, k : Nat]
  BY <1>1 DEF WalkedTo
<1>6. CaseGood(entry, spot.c)
  BY <1>2, <1>5 DEF CaseGood
<1>7. WalkedTo(spot', lengths', badCases')
  <2>1. CASE n < last
    <3>1. WalkedTo([spot EXCEPT !.k = @ + 1], lengths + 1, badCases)
      BY <1>1, <1>2, <1>6, <2>1, WalkTries
    <3>2. spot' = [spot EXCEPT !.k = @ + 1]
      BY <1>4, <2>1, Zenon
    <3>3. lengths' = lengths + 1 /\ badCases' = badCases
      BY <1>2
    <3> QED
      BY <3>1, <3>2, <3>3, Zenon
  <2>2. CASE ~(n < last)
    <3>1. WalkedTo([spot EXCEPT !.c = @ + 1, !.k = 0], lengths + 1, badCases)
      BY <1>1, <1>2, <1>6, <2>2, WalkEndsCase
    <3>2. spot' = [spot EXCEPT !.c = @ + 1, !.k = 0]
      BY <1>4, <2>2, Zenon
    <3>3. lengths' = lengths + 1 /\ badCases' = badCases
      BY <1>2
    <3> QED
      BY <3>1, <3>2, <3>3, Zenon
  <2> QED
    BY <2>1, <2>2
<1>8. LineTold(line')
  <2> DEFINE new == [id |-> Id(tables[entry]), case |-> spot.c, n |-> n, row |-> entry]
  <2>1. LengthGood(entry, spot.c, n)
    BY <1>1, <1>2, <1>6, LengthHere
  <2>2. entry \in KeptRows(gateOn)
    BY <1>1, <1>2, <1>5, EntriesTell
  <2> HIDE DEF entry, n
  <2>3. Names(new)
    BY <1>6, <2>1, <2>2 DEF Names
  <2> HIDE DEF new
  <2>4. line' = line \/ line' = new
    BY <1>4 DEF new
  <2> QED
    BY <1>1, <2>3, <2>4 DEF LineTold
<1>9. StageTold(sweeping', spot', line', reached')
  BY <1>2, <1>3 DEF StageTold
<1> QED
  BY <1>1, <1>2, <1>7, <1>8, <1>9, CarriesOn

LEMMA SummaryStep == ReplayInv /\ Summary => ReplayInv'
<1> SUFFICES ASSUME ReplayInv, Summary PROVE ReplayInv'
  OBVIOUS
<1>1. RowsTyped /\ gateOn \in BOOLEAN /\ WalkedTo(spot, lengths, badCases) /\ LineTold(line) /\ Decodes(reached)
  BY DEF ReplayInv
<1>2. /\ UNCHANGED <<tables, gateOn, spot, line, badCases, lengths, reached>>
      /\ sweeping = "sweep" /\ spot.e > Len(Entries(gateOn))
      /\ sweeping' = IF line = NoLine THEN "done" ELSE "printed"
  BY DEF Summary
<1>3. ~Collide(Entries(gateOn))
  BY <1>2 DEF ReplayInv
<1>4. StageTold(sweeping', spot', line', reached')
  BY <1>2, <1>3 DEF StageTold
<1> QED
  BY <1>1, <1>2, <1>4, CarriesOn

LEMMA StartSteps == ReplayInv /\ (RefusesTables \/ Begins) => ReplayInv'
<1> SUFFICES ASSUME ReplayInv, RefusesTables \/ Begins PROVE ReplayInv'
  OBVIOUS
<1>1. RowsTyped /\ gateOn \in BOOLEAN /\ WalkedTo(spot, lengths, badCases) /\ LineTold(line) /\ Decodes(reached)
  BY DEF ReplayInv
<1>2. UNCHANGED <<tables, gateOn, spot, line, badCases, lengths, reached>>
  BY DEF RefusesTables, Begins
<1>3. sweeping' = "refused" \/ (sweeping' = "sweep" /\ ~Collide(Entries(gateOn)))
  BY DEF RefusesTables, Begins
<1>4. StageTold(sweeping', spot', line', reached')
  BY <1>3 DEF StageTold
<1> QED
  BY <1>1, <1>2, <1>4, CarriesOn

LEMMA TypesOwnStep == ReplayInv /\ TypesOwn => ReplayInv'
<1> SUFFICES ASSUME ReplayInv, TypesOwn PROVE ReplayInv'
  OBVIOUS
<1>1. RowsTyped /\ gateOn \in BOOLEAN /\ WalkedTo(spot, lengths, badCases) /\ LineTold(line)
  BY DEF ReplayInv
<1>2. UNCHANGED <<tables, gateOn, spot, line, badCases, lengths>> /\ sweeping' = "decoded"
  BY DEF TypesOwn
<1>3. PICK spec \in Specs, c \in 0..2, n \in 0 .. ReportCap + 1 : reached' = Select(Entries(gateOn), spec, c, n)
  BY DEF TypesOwn
<1>4. c \in Nat /\ n \in Nat
  BY ReplayAssumption
<1>5. Decodes(reached')
  <2>1. Decodes(Select(Entries(gateOn), spec, c, n))
    BY <1>1, <1>4, SelectGood
  <2> QED
    BY <1>3, <2>1
<1>6. StageTold(sweeping', spot', line', reached')
  BY <1>2 DEF StageTold
<1> QED
  BY <1>1, <1>2, <1>5, <1>6, CarriesOn

\* Where the row the line names is kept out, no other row of that tree has its name, since the
\* tree that was swept has both.
LEMMA NoNamesake ==
  ASSUME RowsTyped, gateOn \in BOOLEAN, NEW on \in BOOLEAN, NEW entry \in KeptRows(gateOn), entry \notin KeptRows(on),
         ~Collide(Entries(gateOn))
  PROVE  tables[entry].gated /\ \A r \in KeptRows(on) : Id(tables[r]) # Id(tables[entry])
<1> DEFINE E == Entries(gateOn)
<1>1. tables[entry].gated /\ on = FALSE /\ gateOn = TRUE
  BY DEF KeptRows
<1>2. \A r \in KeptRows(on) : r \in KeptRows(gateOn) /\ r # entry
  BY <1>1 DEF KeptRows
<1>3. Len(E) \in Nat /\ DOMAIN E = 1..Len(E) /\ \A r \in KeptRows(gateOn) : \E i \in 1..Len(E) : E[i] = r
  BY EntriesTell
<1>4. \A i, j \in 1..Len(E) : i < j => Id(tables[E[i]]) # Id(tables[E[j]])
  BY <1>3 DEF Collide
<1> HIDE DEF E
<1>5. \A r \in KeptRows(on) : Id(tables[r]) # Id(tables[entry])
  <2> TAKE r \in KeptRows(on)
  <2>1. PICK i \in 1..Len(E) : E[i] = r
    BY <1>2, <1>3
  <2>2. PICK j \in 1..Len(E) : E[j] = entry
    BY <1>3
  <2>3. i # j
    BY <1>2, <2>1, <2>2
  <2>4. i < j \/ j < i
    BY <1>3, <2>3
  <2> QED
    BY <1>4, <2>1, <2>2, <2>4
<1> QED
  BY <1>1, <1>5

LEMMA RetypedStep == ReplayInv /\ Retyped => ReplayInv'
<1> SUFFICES ASSUME ReplayInv, Retyped PROVE ReplayInv'
  OBVIOUS
<1>1. RowsTyped /\ gateOn \in BOOLEAN /\ WalkedTo(spot, lengths, badCases) /\ LineTold(line)
  BY DEF ReplayInv
<1>2. UNCHANGED <<tables, gateOn, spot, line, badCases, lengths>> /\ sweeping = "printed"
  BY DEF Retyped
<1>3. PICK on \in BOOLEAN : /\ ~Collide(Entries(on))
                            /\ reached' = Select(Entries(on), line.id, line.case, line.n)
                            /\ sweeping' = IF on = gateOn THEN "again" ELSE "elsewhere"
  BY DEF Retyped
<1>4. ~Collide(Entries(gateOn)) /\ Names(line)
  BY <1>1, <1>2 DEF ReplayInv, LineTold
<1>5. line.row \in KeptRows(gateOn) /\ line.row \in 1..Len(tables) /\ line.id = Id(tables[line.row])
  BY <1>4 DEF Names, KeptRows
<1>6. CaseGood(line.row, line.case) /\ LengthGood(line.row, line.case, line.n)
  BY <1>4 DEF Names
<1>7. CASE line.row \in KeptRows(on)
  <2>1. FindEntry(Entries(on), Id(tables[line.row])) = line.row
    BY <1>1, <1>3, <1>7, FindOwn
  <2>2. Select(Entries(on), line.id, line.case, line.n)
          = [status |-> 0, row |-> line.row, case |-> line.case, n |-> line.n]
    BY <1>1, <1>5, <1>6, <2>1, SelectOwn
  <2>3. Again(reached', line')
    BY <1>2, <1>3, <2>2 DEF Again
  <2>4. Decodes(reached') /\ Elsewhere(reached', line')
    BY <1>2, <1>6, <2>3 DEF Again, Decodes, Elsewhere
  <2>5. StageTold(sweeping', spot', line', reached')
    BY <1>3, <2>3, <2>4 DEF StageTold
  <2> QED
    BY <1>1, <1>2, <2>4, <2>5, CarriesOn
<1>8. CASE line.row \notin KeptRows(on)
  <2>1. tables[line.row].gated /\ \A r \in KeptRows(on) : Id(tables[r]) # Id(tables[line.row])
    BY <1>1, <1>4, <1>5, <1>8, NoNamesake
  <2>2. FindEntry(Entries(on), Id(tables[line.row])) = 0
    BY <1>1, <2>1, FindNone
  <2>3. reached' = Refusal(2)
    BY <1>3, <1>5, <2>2, SelectNone
  <2>4. Decodes(reached') /\ Elsewhere(reached', line')
    BY <1>2, <2>1, <2>3, NoDecode DEF Decodes, Elsewhere
  <2>5. on # gateOn
    BY <1>5, <1>8
  <2>6. StageTold(sweeping', spot', line', reached')
    BY <1>3, <2>4, <2>5 DEF StageTold
  <2> QED
    BY <1>1, <1>2, <2>4, <2>6, CarriesOn
<1> QED
  BY <1>7, <1>8

LEMMA TablesTyped == \A t \in Tables : t \in Seq(TableRows)
<1> TAKE t \in Tables
<1>1. PICK m \in 0..MaxEntries : t \in [1..m -> TableRows]
  BY DEF Tables, SeqOf
<1>2. m \in Nat
  BY ReplayAssumption
<1> QED
  BY <1>1, <1>2, SeqDef

LEMMA CompiledStep == ReplayInv /\ Compiled => ReplayInv'
<1> SUFFICES ASSUME ReplayInv, Compiled PROVE ReplayInv'
  OBVIOUS
<1>1. /\ spot' = Beginning /\ lengths' = 0 /\ badCases' = 0 /\ line' = NoLine /\ reached' = NotTyped
      /\ sweeping' = "start" /\ gateOn' \in BOOLEAN
  BY DEF ReplayInv, Compiled
<1>2. RowsTyped'
  BY TablesTyped DEF Compiled, RowsTyped
<1>3. RowsTyped' => WalkedTo(Beginning, 0, 0)'
  BY WalkBegins, PTL
<1>4. WalkedTo(spot, lengths, badCases)'
  BY <1>1, <1>2, <1>3
<1>5. LineTold(line)'
  BY <1>1 DEF LineTold
<1>6. Decodes(reached)'
  BY <1>1 DEF Decodes, NotTyped
<1> QED
  BY <1>1, <1>2, <1>4, <1>5, <1>6 DEF ReplayInv

LEMMA ReplayStarts == RInit => ReplayInv
<1> SUFFICES ASSUME RInit PROVE ReplayInv
  OBVIOUS
<1>1. /\ tables = <<>> /\ gateOn = FALSE /\ sweeping = "source" /\ spot = Beginning
      /\ line = NoLine /\ badCases = 0 /\ lengths = 0 /\ reached = NotTyped
  BY DEF RInit, Beginning
<1>2. RowsTyped
  BY <1>1, EmptySeq DEF RowsTyped
<1>3. WalkedTo(spot, lengths, badCases)
  BY <1>1, <1>2, WalkBegins
<1>4. Decodes(reached)
  BY <1>1 DEF Decodes, NotTyped
<1> QED
  BY <1>1, <1>2, <1>3, <1>4 DEF ReplayInv, LineTold

LEMMA ReplayRests == ReplayInv /\ UNCHANGED replayVars => ReplayInv'
<1> SUFFICES ASSUME ReplayInv, UNCHANGED replayVars PROVE ReplayInv'
  OBVIOUS
<1>1. UNCHANGED <<tables, gateOn, sweeping, spot, line, badCases, lengths, reached>>
  BY DEF replayVars
<1>2. /\ RowsTyped' /\ WalkedTo(spot, lengths, badCases)' /\ LineTold(line)' /\ Decodes(reached)'
      /\ Len(Entries(gateOn))' = Len(Entries(gateOn)) /\ (Collide(Entries(gateOn))' <=> Collide(Entries(gateOn)))
      /\ (Again(reached, line)' <=> Again(reached, line)) /\ (Elsewhere(reached, line)' <=> Elsewhere(reached, line))
  BY <1>1, SameTree DEF ReplayInv
<1> QED
  BY <1>1, <1>2 DEF ReplayInv

LEMMA ReplayStep == ReplayInv /\ [RNext]_replayVars => ReplayInv'
<1> SUFFICES ASSUME ReplayInv, [RNext]_replayVars PROVE ReplayInv'
  OBVIOUS
<1>1. TRUE \in BOOLEAN /\ FALSE \in BOOLEAN
  OBVIOUS
<1> QED
  BY <1>1, ReplayRests, CompiledStep, StartSteps, SweepSteps, ReplaysStep, SummaryStep, RetypedStep, TypesOwnStep, Zenon
  DEF RNext

LEMMA ReplayTells == ReplayInv => ReplaysWhatItNames
<1> SUFFICES ASSUME ReplayInv PROVE ReplaysWhatItNames
  OBVIOUS
<1>1. sweeping = "again" => reached = [status |-> 0, row |-> line.row, case |-> line.case, n |-> line.n]
  BY DEF ReplayInv, Again
<1>2. sweeping = "elsewhere" => reached.row = line.row \/ (tables[line.row].gated /\ reached = Refusal(2))
  BY DEF ReplayInv, Elsewhere
<1>3. reached.row # 0 =>
        /\ CaseFits(tables[reached.row], reached.case)
        /\ reached.n \in Floors[tables[reached.row].path]..tables[reached.row].lens[reached.case + 1]
  BY DEF ReplayInv, Decodes, CaseGood, LengthGood
<1>4. ASSUME sweeping \in {"done", "printed"}
      PROVE  /\ lengths = SumFunction([p \in FitCases(gateOn) |-> LengthsOf(p)])
             /\ SweepStatus = 0 => \A e \in DOMAIN Entries(gateOn) :
                                \A c \in DOMAIN tables[Entries(gateOn)[e]].lens :
                                   CaseFits(tables[Entries(gateOn)[e]], c - 1)
  <2>1. RowsTyped /\ WalkedTo(spot, lengths, badCases) /\ spot.e > Len(Entries(gateOn))
    BY <1>4 DEF ReplayInv
  <2>2. spot \in [e : Nat \ {0}, c : Nat, k : Nat] /\ Len(Entries(gateOn)) \in Nat
    BY <2>1, EntriesTell DEF WalkedTo
  <2>3. spot.k = 0
    <3>1. ~(spot.e <= Len(Entries(gateOn)))
      BY <2>1, <2>2
    <3> QED
      BY <2>1, <3>1 DEF WalkedTo
  <2>4. Passed(spot.e, spot.c) = FitCases(gateOn)
    BY <2>1, <2>2, AllPassed
  <2>5. lengths = Summed(Lengths, FitCases(gateOn)) + 0 /\ lengths \in Nat /\ IsFiniteSet(FitCases(gateOn))
    BY <2>1, <2>3, <2>4 DEF WalkedTo
  <2>6. Summed(Lengths, FitCases(gateOn)) \in Int
    BY <2>1, <2>5, LengthsNumbered, SumInt
  <2>7. lengths = Summed(Lengths, FitCases(gateOn))
    BY <2>5, <2>6
  <2>8. SumFunction(Lengths) = Summed(Lengths, FitCases(gateOn))
    <3>1. DOMAIN Lengths = FitCases(gateOn)
      BY DEF Lengths
    <3> QED
      BY <3>1, SumFunctionIs, Zenon
  <2>9. lengths = SumFunction([p \in FitCases(gateOn) |-> LengthsOf(p)])
    BY <2>7, <2>8 DEF Lengths
  <2>10. ASSUME SweepStatus = 0, NEW e \in DOMAIN Entries(gateOn), NEW c \in DOMAIN tables[Entries(gateOn)[e]].lens
         PROVE  CaseFits(tables[Entries(gateOn)[e]], c - 1)
    <3>1. badCases = 0
      BY <2>10 DEF SweepStatus
    <3>2. CleanTo(spot.e, spot.c)
      BY <2>1, <3>1 DEF WalkedTo
    <3>3. e \in 1..Len(Entries(gateOn)) /\ Entries(gateOn)[e] \in 1..Len(tables)
      BY <2>1, EntriesTell
    <3> DEFINE lens == tables[Entries(gateOn)[e]].lens
    <3>4. lens \in Seq(Nat)
      BY <2>1, <3>3, RowFields
    <3>5. c - 1 \in Nat /\ c - 1 < Len(lens)
      <4>1. DOMAIN lens = 1..Len(lens) /\ Len(lens) \in Nat
        BY <3>4, LenProperties
      <4>2. c \in DOMAIN lens
        OBVIOUS
      <4> HIDE DEF lens
      <4> QED
        BY <4>1, <4>2
    <3>6. Before(e, c - 1, spot.e, spot.c)
      <4>1. e < spot.e
        BY <2>1, <2>2, <3>3
      <4> QED
        BY <4>1 DEF Before
    <3> QED
      BY <3>2, <3>3, <3>5, <3>6 DEF CleanTo
  <2> QED
    BY <2>9, <2>10
<1> QED
  BY <1>1, <1>2, <1>3, <1>4 DEF ReplaysWhatItNames

\* Invariant: the line for the first failure decodes that failure again on the tree that was
\* swept, elsewhere the same row's or nothing, and the total counts every length of every case
\* a device could send, whatever the tables (shortreport.c's build_entries, find_entry and sweep).
THEOREM LineReplays == ReplaySpec => []ReplaysWhatItNames
<1>1. ReplaySpec => []ReplayInv
  BY ReplayStarts, ReplayStep, PTL DEF ReplaySpec
<1> QED
  BY <1>1, ReplayTells, PTL

(***************************************************************************)
(* emu/pointer-bench.html: what the page holds of the events that came.     *)
(***************************************************************************)
Moves == [kind : {"move"}, t : Nat]
Wheels == [kind : {"wheel"}, x : Deltas, y : Deltas]
Presses == [kind : {"down"}, button : HidButtons]
Releases == [kind : {"up"}, button : HidButtons]
KeyEvents == [kind : {"key"}, repeat : BOOLEAN]
Events == Moves \cup Wheels \cup Presses \cup Releases \cup KeyEvents

\* The places in s of what is in K, and how many they are.
Where(s, K) == { i \in 1..Len(s) : s[i] \in K }
Count(s, K) == Cardinality(Where(s, K))

LEMMA WhereType ==
  ASSUME NEW E, NEW s \in Seq(E), NEW K
  PROVE  /\ IsFiniteSet(Where(s, K)) /\ Count(s, K) \in Nat
         /\ Len(s) + 1 \notin Where(s, K)
         /\ Where(s, K) \subseteq 1..Len(s)
<1>1. Len(s) \in Nat /\ Where(s, K) \subseteq 1..Len(s) /\ Len(s) + 1 \notin Where(s, K)
  BY LenProperties DEF Where
<1>2. IsFiniteSet(1..Len(s))
  BY <1>1, FS_Interval
<1>3. IsFiniteSet(Where(s, K))
  BY <1>1, <1>2, FS_Subset
<1>4. Count(s, K) \in Nat
  BY <1>3, FS_CardinalityType DEF Count
<1> QED
  BY <1>1, <1>3, <1>4

LEMMA WhereGrows ==
  ASSUME NEW E, NEW s \in Seq(E), NEW e \in E, NEW K
  PROVE  /\ Where(Append(s, e), K) = IF e \in K THEN Where(s, K) \cup {Len(s) + 1} ELSE Where(s, K)
         /\ Count(Append(s, e), K) = IF e \in K THEN Count(s, K) + 1 ELSE Count(s, K)
<1> DEFINE w == Append(s, e)
<1>1. /\ w \in Seq(E) /\ Len(s) \in Nat /\ Len(w) = Len(s) + 1 /\ w[Len(s) + 1] = e
      /\ \A i \in 1..Len(s) : w[i] = s[i]
  BY AppendProperties, LenProperties
<1> HIDE DEF w
<1>2. Where(w, K) = IF e \in K THEN Where(s, K) \cup {Len(s) + 1} ELSE Where(s, K)
  <2>1. 1..Len(w) = 1..Len(s) \cup {Len(s) + 1}
    BY <1>1
  <2>2. Where(w, K) = { i \in 1..Len(s) : w[i] \in K } \cup { i \in {Len(s) + 1} : w[i] \in K }
    BY <2>1 DEF Where
  <2>3. { i \in 1..Len(s) : w[i] \in K } = Where(s, K)
    BY <1>1 DEF Where
  <2> QED
    BY <1>1, <2>2, <2>3
<1>3. Count(w, K) = IF e \in K THEN Count(s, K) + 1 ELSE Count(s, K)
  <2>1. CASE e \in K
    <3>1. Where(w, K) = Where(s, K) \cup {Len(s) + 1}
      BY <1>2, <2>1
    <3>2. Cardinality(Where(s, K) \cup {Len(s) + 1}) = Cardinality(Where(s, K)) + 1
      BY WhereType, FS_AddElement
    <3> QED
      BY <2>1, <3>1, <3>2 DEF Count
  <2>2. CASE e \notin K
    BY <1>2, <2>2 DEF Count
  <2> QED
    BY <2>1, <2>2
<1> QED
  BY <1>2, <1>3 DEF w

LEMMA WhereEmpty == \A K : Where(<<>>, K) = {} /\ Count(<<>>, K) = 0
<1> TAKE K
<1>1. Where(<<>>, K) = {}
  BY EmptySeq DEF Where
<1> QED
  BY <1>1, FS_EmptySet DEF Count

LEMMA SuffixIs ==
  ASSUME NEW E, NEW s \in Seq(E), NEW m \in 0..Len(s)
  PROVE  LET r == SubSeq(s, m + 1, Len(s))
         IN  /\ r \in Seq(E) /\ Len(r) = Len(s) - m
             /\ \A i \in 1 .. Len(s) - m : r[i] = s[i + m]
<1> DEFINE r == SubSeq(s, m + 1, Len(s))
<1>1. Len(s) \in Nat /\ m \in Nat /\ m <= Len(s) /\ \A i \in 1..Len(s) : s[i] \in E
  BY LenProperties, ElementOfSeq
<1>2. \A i \in m + 1 .. Len(s) : s[i] \in E
  BY <1>1
<1>3. /\ r \in Seq(E)
      /\ Len(r) = IF m + 1 <= Len(s) THEN Len(s) - (m + 1) + 1 ELSE 0
      /\ \A i \in 1 .. Len(s) - (m + 1) + 1 : r[i] = s[(m + 1) + i - 1]
  BY <1>1, <1>2, SubSeqProperties
<1>4. Len(s) - (m + 1) + 1 = Len(s) - m
  BY <1>1
<1>5. \A i \in 1 .. Len(s) - m : (m + 1) + i - 1 = i + m
  BY <1>1
<1> HIDE DEF r
<1>6. Len(r) = Len(s) - m
  BY <1>1, <1>3
<1>7. \A i \in 1 .. Len(s) - m : r[i] = s[i + m]
  <2> TAKE i \in 1 .. Len(s) - m
  <2>1. i \in 1 .. Len(s) - (m + 1) + 1
    BY <1>4, Zenon
  <2>2. r[i] = s[(m + 1) + i - 1]
    BY <1>3, <2>1, Zenon
  <2> QED
    BY <1>5, <2>2, Zenon
<1> QED
  BY <1>3, <1>6, <1>7 DEF r

LEMMA PrefixIs ==
  ASSUME NEW E, NEW s \in Seq(E), NEW n \in 0..Len(s)
  PROVE  /\ SubSeq(s, 1, n) \in Seq(E) /\ Len(SubSeq(s, 1, n)) = n
         /\ \A i \in 1..n : SubSeq(s, 1, n)[i] = s[i]
<1>1. Len(s) \in Nat /\ n \in Nat /\ n <= Len(s) /\ \A i \in 1..Len(s) : s[i] \in E
  BY LenProperties, ElementOfSeq
<1>2. n \in Int /\ \A i \in 1..n : s[i] \in E
  BY <1>1
<1> DEFINE r == SubSeq(s, 1, n)
<1>3. /\ r \in Seq(E)
      /\ Len(r) = IF 1 <= n THEN n - 1 + 1 ELSE 0
      /\ \A i \in 1 .. n - 1 + 1 : r[i] = s[1 + i - 1]
  BY <1>2, SubSeqProperties
<1> HIDE DEF r
<1>4. n - 1 + 1 = n /\ \A i \in 1..n : 1 + i - 1 = i
  BY <1>1
<1>5. Len(r) = n
  BY <1>1, <1>3
<1>6. \A i \in 1..n : r[i] = s[i]
  BY <1>3, <1>4
<1> QED
  BY <1>3, <1>5, <1>6 DEF r

\* A prefix with nothing of K in it may go.
LEMMA CountShifts ==
  ASSUME NEW E, NEW s \in Seq(E), NEW m \in 0..Len(s), NEW K, \A i \in 1..m : s[i] \notin K
  PROVE  Count(SubSeq(s, m + 1, Len(s)), K) = Count(s, K)
<1> DEFINE r == SubSeq(s, m + 1, Len(s))
<1>1. Len(s) \in Nat /\ m \in Nat /\ m <= Len(s)
  BY LenProperties
<1>2. r \in Seq(E) /\ Len(r) = Len(s) - m /\ \A i \in 1 .. Len(s) - m : r[i] = s[i + m]
  BY SuffixIs
<1> HIDE DEF r
<1> DEFINE f == [i \in Where(r, K) |-> i + m]
<1>3. f \in Bijection(Where(r, K), Where(s, K))
  <2>1. \A i \in Where(r, K) : i \in 1 .. Len(s) - m /\ r[i] \in K
    BY <1>2 DEF Where
  <2>2. \A i \in Where(r, K) : i + m \in Where(s, K)
    <3> TAKE i \in Where(r, K)
    <3>1. i + m \in 1..Len(s) /\ s[i + m] \in K
      BY <1>1, <1>2, <2>1
    <3> QED
      BY <3>1 DEF Where
  <2>3. f \in [Where(r, K) -> Where(s, K)]
    BY <2>2
  <2>4. \A i, j \in Where(r, K) : f[i] = f[j] => i = j
    BY <1>1, <2>1
  <2>5. \A j \in Where(s, K) : \E i \in Where(r, K) : f[i] = j
    <3> TAKE j \in Where(s, K)
    <3>1. j \in 1..Len(s) /\ s[j] \in K /\ j \notin 1..m
      BY DEF Where
    <3>2. j - m \in 1 .. Len(s) - m /\ (j - m) + m = j
      BY <1>1, <3>1
    <3>3. j - m \in Where(r, K)
      BY <1>2, <3>1, <3>2 DEF Where
    <3> QED
      BY <3>2, <3>3
  <2> HIDE DEF f
  <2>6. f \in Injection(Where(r, K), Where(s, K))
    BY <2>3, <2>4 DEF Injection, IsInjective
  <2>7. f \in Surjection(Where(r, K), Where(s, K))
    BY <2>3, <2>5 DEF Surjection
  <2> QED
    BY <2>6, <2>7 DEF Bijection
<1>4. IsFiniteSet(Where(r, K))
  BY <1>2, WhereType
<1>5. Count(s, K) = Count(r, K)
  BY <1>3, <1>4, FS_Bijection DEF ExistsBijection, Count
<1> QED
  BY <1>5 DEF r

LEMMA IntervalSize == \A n \in Nat : Cardinality(1..n) = n
<1> TAKE n \in Nat
<1> QED
  BY FS_Interval

\* A set that holds whatever is below what it holds reaches up to some m.
LEMMA ReachesUpTo ==
  ASSUME NEW n \in Nat, NEW P \in SUBSET (1..n), \A i \in P : \A j \in 1..i : j \in P
  PROVE  \E m \in 0..n : P = 1..m
<1> DEFINE T == { k \in Nat : k <= n => \E m \in 0..k : P \cap (1..k) = 1..m }
<1>1. 0 \in T
  OBVIOUS
<1>2. ASSUME NEW k \in Nat, k \in T PROVE k + 1 \in T
  <2> SUFFICES ASSUME k + 1 <= n PROVE \E m \in 0 .. k + 1 : P \cap (1 .. k + 1) = 1..m
    OBVIOUS
  <2>1. PICK m \in 0..k : P \cap (1..k) = 1..m
    BY <1>2
  <2>2. CASE k + 1 \in P
    <3>1. P \cap (1 .. k + 1) = 1 .. k + 1
      BY <2>2
    <3> QED
      BY <3>1
  <2>3. CASE k + 1 \notin P
    <3>1. P \cap (1 .. k + 1) = 1..m
      BY <2>1, <2>3
    <3> QED
      BY <3>1
  <2> QED
    BY <2>2, <2>3
<1>3. Nat \subseteq T
  <2> HIDE DEF T
  <2> QED
    BY <1>1, <1>2, SetInduction
<1>4. PICK m \in 0..n : P \cap (1..n) = 1..m
  BY <1>3
<1> QED
  BY <1>4

-----------------------------------------------------------------------------
(***************************************************************************)
(* The moves of the last second: what is trimmed away is out of the window  *)
(* now and for good.                                                       *)
(***************************************************************************)
RecentTimes(T) == { t \in Nat : T - t <= Window }
RecentMoves(T) == { e \in Moves : T - e.t <= Window }

TimesTold(times, s, now) ==
    /\ times \in Seq(Nat)
    /\ \A j \in 1..Len(times) : times[j] <= now
    /\ \A j, k \in 1..Len(times) : j <= k => times[j] <= times[k]
    /\ \A T \in Nat : T >= now => Count(times, RecentTimes(T)) = Count(s, RecentMoves(T))

LEMMA LaterIsFresher == \A now, t, u, w \in Nat : t <= u /\ now - t <= w => now - u <= w
  OBVIOUS

LEMMA TrimKeeps ==
  ASSUME NEW now \in Nat, NEW times, NEW s, TimesTold(times, s, now)
  PROVE  /\ TimesTold(TrimMoveTimes(times, now), s, now)
         /\ Len(TrimMoveTimes(times, now)) = Count(s, RecentMoves(now))
<1>a. \A j, k \in 1..Len(times) : j <= k => times[j] <= times[k]
  BY DEF TimesTold
<1>1. /\ times \in Seq(Nat) /\ Len(times) \in Nat /\ DOMAIN times = 1..Len(times)
      /\ \A j \in 1..Len(times) : times[j] \in Nat /\ times[j] <= now
      /\ Window \in Nat
  <2>1. times \in Seq(Nat)
    BY DEF TimesTold
  <2>2. \A j \in 1..Len(times) : times[j] \in Nat
    BY <2>1, ElementOfSeq
  <2> QED
    BY <2>1, <2>2, LenProperties, BenchAssumption DEF TimesTold
<1> DEFINE old == { i \in 1..Len(times) : \A j \in 1..i : now - times[j] > Window }
<1>2. PICK m \in 0..Len(times) : old = 1..m
  <2>1. old \in SUBSET (1..Len(times))
    OBVIOUS
  <2>2. \A i \in old : \A j \in 1..i : j \in old
    BY <1>1
  <2> HIDE DEF old
  <2>3. Len(times) \in Nat
    BY <1>1
  <2> QED
    BY <2>1, <2>2, <2>3, ReachesUpTo
<1>3. Cardinality(old) = m
  <2>1. Cardinality(1..m) = m
    BY FS_Interval
  <2> QED
    BY <1>2, <2>1
<1> DEFINE r == SubSeq(times, m + 1, Len(times))
<1>4. TrimMoveTimes(times, now) = r
  BY <1>1, <1>3 DEF TrimMoveTimes
<1>5. \A i \in 1..m : now - times[i] > Window
  <2> TAKE i \in 1..m
  <2>1. i \in old /\ i \in 1..i
    BY <1>2
  <2> QED
    BY <2>1
<1>6. m < Len(times) => now - times[m + 1] <= Window
  <2> SUFFICES ASSUME m < Len(times), now - times[m + 1] > Window PROVE FALSE
    BY <1>1
  <2>1. m + 1 \in 1..Len(times)
    BY <1>1
  <2>2. \A j \in 1 .. m + 1 : now - times[j] > Window
    <3>1. \A j \in 1 .. m + 1 : j \in 1..m \/ j = m + 1
      BY <1>1
    <3> QED
      BY <1>5, <3>1
  <2>3. m + 1 \in old
    BY <2>1, <2>2
  <2> QED
    BY <1>2, <2>3
<1>7. \A T \in Nat : T >= now => \A i \in 1..m : times[i] \notin RecentTimes(T)
  <2> TAKE T \in Nat
  <2> HAVE T >= now
  <2> TAKE i \in 1..m
  <2> DEFINE t == times[i]
  <2>1. \A x \in Nat : now - x > Window => ~(T - x <= Window)
    BY <1>1
  <2>2. i \in 1..Len(times)
    BY <1>1
  <2>3. t \in Nat
    BY <1>1, <2>2, Zenon
  <2>4. now - t > Window
    BY <1>5, Zenon
  <2> HIDE DEF t
  <2>5. ~(T - t <= Window)
    BY <2>1, <2>3, <2>4, Zenon
  <2>6. t \notin RecentTimes(T)
    BY <2>5, Zenon DEF RecentTimes
  <2> QED
    BY <2>6 DEF t
<1> HIDE DEF r, old
<1>8. /\ r \in Seq(Nat) /\ Len(r) = Len(times) - m
      /\ \A i \in 1 .. Len(times) - m : r[i] = times[i + m]
  BY <1>1, SuffixIs DEF r
<1>9. \A T \in Nat : T >= now => Count(r, RecentTimes(T)) = Count(times, RecentTimes(T))
  <2> TAKE T \in Nat
  <2> HAVE T >= now
  <2> DEFINE K == RecentTimes(T)
  <2>1. \A i \in 1..m : times[i] \notin K
    BY <1>7
  <2> HIDE DEF K
  <2>2. Count(r, K) = Count(times, K)
    BY <1>1, <2>1, CountShifts DEF r
  <2> QED
    BY <2>2 DEF K
<1>10. \A i \in 1..Len(r) : i + m \in 1..Len(times) /\ r[i] = times[i + m]
  BY <1>1, <1>8
<1>11. TimesTold(r, s, now)
  <2>1. \A j \in 1..Len(r) : r[j] <= now
    BY <1>1, <1>10
  <2>2. \A j, k \in 1..Len(r) : j <= k => r[j] <= r[k]
    <3> TAKE j, k \in 1..Len(r)
    <3> HAVE j <= k
    <3>1. j + m \in 1..Len(times) /\ k + m \in 1..Len(times) /\ j + m <= k + m
      BY <1>10, <1>1
    <3>2. times[j + m] <= times[k + m]
      BY <1>a, <3>1
    <3> QED
      BY <1>10, <3>2
  <2>3. \A T \in Nat : T >= now => Count(r, RecentTimes(T)) = Count(s, RecentMoves(T))
    BY <1>9 DEF TimesTold
  <2> QED
    BY <1>8, <2>1, <2>2, <2>3 DEF TimesTold
<1>12. Where(r, RecentTimes(now)) = 1..Len(r)
  <2> SUFFICES ASSUME NEW i \in 1..Len(r) PROVE r[i] \in Nat /\ now - r[i] <= Window
    BY DEF Where, RecentTimes
  <2>1. m < Len(times) /\ m + 1 \in 1..Len(times) /\ i + m \in 1..Len(times) /\ m + 1 <= i + m
    BY <1>1, <1>8
  <2>2. times[m + 1] <= times[i + m] /\ times[m + 1] \in Nat /\ times[i + m] \in Nat
    BY <1>a, <1>1, <2>1
  <2>3. now - times[m + 1] <= Window
    BY <1>6, <2>1
  <2>0. Window \in Nat
    BY <1>1
  <2>4. now - times[i + m] <= Window
    BY <2>0, <2>2, <2>3, LaterIsFresher, Zenon
  <2> QED
    BY <1>10, <2>2, <2>4
<1>13. Count(r, RecentTimes(now)) = Len(r)
  <2>1. Len(r) \in Nat
    BY <1>8, LenProperties
  <2>2. Cardinality(1..Len(r)) = Len(r)
    BY <2>1, IntervalSize, Zenon
  <2> DEFINE places == 1..Len(r)
  <2>3. Where(r, RecentTimes(now)) = places /\ Cardinality(places) = Len(r)
    BY <1>12, <2>2
  <2> HIDE DEF places
  <2> QED
    BY <2>3 DEF Count
<1>14. Len(r) = Count(s, RecentMoves(now))
  BY <1>11, <1>13 DEF TimesTold
<1> QED
  BY <1>4, <1>11, <1>14
LEMMA TimesStart == \A now \in Nat : TimesTold(<<>>, <<>>, now)
<1> TAKE now \in Nat
<1>1. Len(<<>>) = 0 /\ <<>> \in Seq(Nat)
  BY EmptySeq
<1>2. \A K, L : Count(<<>>, K) = Count(<<>>, L)
  BY WhereEmpty
<1> QED
  BY <1>1, <1>2 DEF TimesTold

LEMMA TimePasses ==
  ASSUME NEW now \in Nat, NEW times, NEW s, TimesTold(times, s, now)
  PROVE  TimesTold(times, s, now + 1)
<1>1. times \in Seq(Nat) /\ \A j \in 1..Len(times) : times[j] \in Nat /\ times[j] <= now
  BY ElementOfSeq DEF TimesTold
<1>2. \A j \in 1..Len(times) : times[j] <= now + 1
  BY <1>1
<1>3. \A T \in Nat : T >= now + 1 => T >= now
  OBVIOUS
<1> QED
  BY <1>1, <1>2, <1>3 DEF TimesTold

\* An event that is no move leaves the moves as they were told.
LEMMA NoMoveTold ==
  ASSUME NEW now \in Nat, NEW times, NEW s \in Seq(Events), TimesTold(times, s, now), NEW e \in Events, e \notin Moves
  PROVE  TimesTold(times, Append(s, e), now)
<1>1. \A T : Count(Append(s, e), RecentMoves(T)) = Count(s, RecentMoves(T))
  <2> TAKE T
  <2>1. e \notin RecentMoves(T)
    BY DEF RecentMoves
  <2> QED
    BY <2>1, WhereGrows
<1> QED
  BY <1>1 DEF TimesTold

LEMMA MoveTold ==
  ASSUME NEW now \in Nat, NEW times, NEW s \in Seq(Events), TimesTold(times, s, now)
  PROVE  TimesTold(Append(times, now), Append(s, [kind |-> "move", t |-> now]), now)
<1> DEFINE w == Append(times, now)
           e == [kind |-> "move", t |-> now]
<1>0. e \in Events /\ e \in Moves /\ e.t = now
  BY DEF Events, Moves
<1>1. times \in Seq(Nat) /\ Len(times) \in Nat /\ \A j \in 1..Len(times) : times[j] \in Nat /\ times[j] <= now
  BY ElementOfSeq, LenProperties DEF TimesTold
<1>2. \A j, k \in 1..Len(times) : j <= k => times[j] <= times[k]
  BY DEF TimesTold
<1>3. /\ w \in Seq(Nat) /\ Len(w) = Len(times) + 1 /\ w[Len(times) + 1] = now
      /\ \A i \in 1..Len(times) : w[i] = times[i]
  BY <1>1, AppendProperties
<1> HIDE DEF w
<1>4. \A j \in 1..Len(w) : j \in 1..Len(times) \/ j = Len(times) + 1
  BY <1>1, <1>3
<1>5. \A j \in 1..Len(w) : w[j] <= now
  <2> TAKE j \in 1..Len(w)
  <2>1. CASE j \in 1..Len(times)
    BY <1>1, <1>3, <2>1
  <2>2. CASE j = Len(times) + 1
    BY <1>3, <2>2
  <2> QED
    BY <1>4, <2>1, <2>2
<1>6. \A j, k \in 1..Len(w) : j <= k => w[j] <= w[k]
  <2> TAKE j, k \in 1..Len(w)
  <2> HAVE j <= k
  <2>1. CASE k = Len(times) + 1
    BY <1>3, <1>5, <2>1
  <2>2. CASE k \in 1..Len(times)
    <3>1. j \in 1..Len(times)
      BY <1>1, <1>4, <2>2
    <3> QED
      BY <1>2, <1>3, <2>2, <3>1
  <2> QED
    BY <1>4, <2>1, <2>2
<1>7. \A T \in Nat : T >= now => Count(w, RecentTimes(T)) = Count(Append(s, e), RecentMoves(T))
  <2> TAKE T \in Nat
  <2> HAVE T >= now
  <2>1. Count(times, RecentTimes(T)) = Count(s, RecentMoves(T))
    BY DEF TimesTold
  <2>2. now \in RecentTimes(T) <=> e \in RecentMoves(T)
    BY <1>0 DEF RecentTimes, RecentMoves
  <2>3. Count(w, RecentTimes(T)) = IF now \in RecentTimes(T) THEN Count(times, RecentTimes(T)) + 1
                                   ELSE Count(times, RecentTimes(T))
    BY <1>1, WhereGrows DEF w
  <2>4. Count(Append(s, e), RecentMoves(T)) = IF e \in RecentMoves(T) THEN Count(s, RecentMoves(T)) + 1
                                              ELSE Count(s, RecentMoves(T))
    BY <1>0, WhereGrows
  <2> HIDE DEF e
  <2> QED
    BY <2>1, <2>2, <2>3, <2>4
<1> HIDE DEF e
<1>8. TimesTold(w, Append(s, e), now)
  BY <1>3, <1>5, <1>6, <1>7 DEF TimesTold
<1> QED
  BY <1>8 DEF w, e

-----------------------------------------------------------------------------
(***************************************************************************)
(* The log: its rows are the newest wheel events, newest first.            *)
(***************************************************************************)
LogLines == [x : Deltas, y : Deltas]
RowOf(s, i) == [x |-> s[i].x, y |-> s[i].y]
From(s, i) == { j \in Where(s, Wheels) : j >= i }
AtRow(log, s, nth) == \E i \in Where(s, Wheels) : Cardinality(From(s, i)) = nth /\ log[nth] = RowOf(s, i)
RowsTold(log, s) ==
    /\ log \in Seq(LogLines)
    /\ Len(log) = Min({Count(s, Wheels), LogCap})
    /\ \A nth \in 1..Len(log) : AtRow(log, s, nth)

LEMMA LesserOf == \A a, b \in Int : Min({a, b}) = IF a <= b THEN a ELSE b
<1> TAKE a, b \in Int
<1> DEFINE L == {a, b}
           m == IF a <= b THEN a ELSE b
<1>1. m \in L /\ \A y \in L : m <= y
  OBVIOUS
<1>2. \A z \in L : (\A y \in L : z <= y) => z = m
  OBVIOUS
<1> HIDE DEF L, m
<1>3. Min(L) = m
  BY <1>1, <1>2 DEF Min
<1> QED
  BY <1>3 DEF L, m

LEMMA LesserGrows ==
  \A c, cap \in Nat : /\ Min({c, cap}) \in Nat
                      /\ Min({Min({c, cap}) + 1, cap}) = Min({c + 1, cap})
<1> TAKE c, cap \in Nat
<1>1. Min({c, cap}) = IF c <= cap THEN c ELSE cap
  BY LesserOf
<1>2. Min({c, cap}) \in Nat /\ Min({c, cap}) + 1 \in Int /\ c + 1 \in Int /\ cap \in Int
  BY <1>1
<1>3. Min({Min({c, cap}) + 1, cap}) = IF Min({c, cap}) + 1 <= cap THEN Min({c, cap}) + 1 ELSE cap
  BY <1>2, LesserOf, Zenon
<1>4. Min({c + 1, cap}) = IF c + 1 <= cap THEN c + 1 ELSE cap
  BY <1>2, LesserOf, Zenon
<1> QED
  BY <1>1, <1>2, <1>3, <1>4

LEMMA RowsStart == RowsTold(<<>>, <<>>)
<1>1. <<>> \in Seq(LogLines) /\ Len(<<>>) = 0 /\ Count(<<>>, Wheels) = 0
  BY EmptySeq, WhereEmpty
<1>2. Min({0, LogCap}) = 0
  BY LesserOf, BenchAssumption
<1>3. \A nth \in 1..Len(<<>>) : AtRow(<<>>, <<>>, nth)
  <2>1. \A nth : nth \notin 1..0
    OBVIOUS
  <2> QED
    BY <1>1, <2>1, Zenon
<1> QED
  BY <1>1, <1>2, <1>3, Zenon DEF RowsTold

\* What is said of a place still holds with one event more.
LEMMA PlaceStays ==
  ASSUME NEW s \in Seq(Events), NEW e \in Events
  PROVE  \A K : \A i \in Where(s, K) : Append(s, e)[i] = s[i]
<1> TAKE K
<1> TAKE i \in Where(s, K)
<1>1. i \in 1..Len(s)
  BY DEF Where
<1> QED
  BY <1>1, AppendProperties

LEMMA OtherRows ==
  ASSUME NEW s \in Seq(Events), NEW log, RowsTold(log, s), NEW e \in Events, e \notin Wheels
  PROVE  RowsTold(log, Append(s, e))
<1> DEFINE w == Append(s, e)
<1>1. Where(w, Wheels) = Where(s, Wheels) /\ Count(w, Wheels) = Count(s, Wheels)
  BY WhereGrows
<1>2. \A i \in Where(s, Wheels) : w[i] = s[i]
  BY PlaceStays
<1> HIDE DEF w
<1>3. \A i \in Where(s, Wheels) : From(w, i) = From(s, i) /\ RowOf(w, i) = RowOf(s, i)
  BY <1>1, <1>2 DEF From, RowOf
<1>4. \A nth \in 1..Len(log) : AtRow(log, w, nth)
  <2> TAKE nth \in 1..Len(log)
  <2>1. AtRow(log, s, nth)
    BY DEF RowsTold
  <2> QED
    BY <1>1, <1>3, <2>1 DEF AtRow
<1>5. RowsTold(log, w)
  BY <1>1, <1>4 DEF RowsTold
<1> QED
  BY <1>5 DEF w

\* One wheel event more: its row on top, the others one further down, and none past LogCap.
NewestOnTop(log, r) == SubSeq(<<r>> \o log, 1, Min({Len(<<r>> \o log), LogCap}))

LEMMA OnTop ==
  ASSUME NEW log \in Seq(LogLines), NEW r \in LogLines
  PROVE  /\ NewestOnTop(log, r) \in Seq(LogLines)
         /\ Len(NewestOnTop(log, r)) = Min({Len(log) + 1, LogCap})
         /\ Len(NewestOnTop(log, r)) \in 1 .. Len(log) + 1
         /\ NewestOnTop(log, r)[1] = r
         /\ \A k \in 2 .. Len(NewestOnTop(log, r)) : NewestOnTop(log, r)[k] = log[k - 1]
<1> DEFINE w == <<r>> \o log
           n == Min({Len(w), LogCap})
           top == NewestOnTop(log, r)
<1>1. /\ w \in Seq(LogLines) /\ Len(log) \in Nat /\ Len(w) = Len(log) + 1 /\ w[1] = r
      /\ \A k \in 2 .. Len(log) + 1 : w[k] = log[k - 1]
  <2>1. <<r>> \in Seq(LogLines) /\ Len(<<r>>) = 1 /\ <<r>>[1] = r /\ Len(log) \in Nat
    BY LenProperties
  <2>2. /\ w \in Seq(LogLines) /\ Len(w) = Len(<<r>>) + Len(log)
        /\ \A k \in 1 .. Len(<<r>>) + Len(log) : w[k] = IF k <= Len(<<r>>) THEN <<r>>[k] ELSE log[k - Len(<<r>>)]
    BY <2>1, ConcatProperties
  <2> HIDE DEF w
  <2>3. \A k \in 1 .. 1 + Len(log) : w[k] = IF k <= 1 THEN r ELSE log[k - 1]
    BY <2>1, <2>2
  <2>4. Len(w) = Len(log) + 1
    BY <2>1, <2>2
  <2>5. w[1] = r
    BY <2>1, <2>3
  <2>6. \A k \in 2 .. Len(log) + 1 : w[k] = log[k - 1]
    BY <2>1, <2>3
  <2> QED
    BY <2>1, <2>2, <2>4, <2>5, <2>6
<1> HIDE DEF w
<1>2. n \in 1 .. Len(log) + 1 /\ n = Min({Len(log) + 1, LogCap})
  <2>1. n = IF Len(w) <= LogCap THEN Len(w) ELSE LogCap
    BY <1>1, LesserOf, BenchAssumption
  <2> HIDE DEF n
  <2>2. n \in 1 .. Len(log) + 1
    BY <1>1, <2>1, BenchAssumption
  <2> QED
    BY <1>1, <2>2 DEF n
<1> HIDE DEF n
<1>3. n \in 0..Len(w)
  BY <1>1, <1>2
<1>4. SubSeq(w, 1, n) \in Seq(LogLines) /\ Len(SubSeq(w, 1, n)) = n /\ \A k \in 1..n : SubSeq(w, 1, n)[k] = w[k]
  BY <1>1, <1>3, PrefixIs
<1>5. top = SubSeq(w, 1, n)
  BY DEF NewestOnTop, n, w
<1> HIDE DEF top
<1>6. n \in Nat /\ n >= 1
  BY <1>1, <1>2
<1>7. top \in Seq(LogLines) /\ Len(top) = n /\ \A k \in 1..n : top[k] = w[k]
  BY <1>4, <1>5
<1>8. \A k \in 2..n : k \in 1..n /\ k \in 2 .. Len(log) + 1
  BY <1>1, <1>2
<1>9. top[1] = r /\ \A k \in 2..n : top[k] = log[k - 1]
  <2>1. 1 \in 1..n
    BY <1>6
  <2> QED
    BY <1>1, <1>7, <1>8, <2>1
<1> QED
  BY <1>2, <1>7, <1>9 DEF top

LEMMA WheelRows ==
  ASSUME NEW s \in Seq(Events), NEW log, RowsTold(log, s), NEW e \in Wheels
  PROVE  /\ RowsTold(NewestOnTop(log, RowOf(<<e>>, 1)), Append(s, e))
         /\ NewestOnTop(log, RowOf(<<e>>, 1)) # <<>>
<1> DEFINE w == Append(s, e)
           n == Len(s) + 1
           r == RowOf(<<e>>, 1)
           top == NewestOnTop(log, r)
<1>1. e \in Events /\ log \in Seq(LogLines) /\ r \in LogLines
  <2>1. <<e>>[1] = e
    OBVIOUS
  <2>2. e.x \in Deltas /\ e.y \in Deltas
    BY DEF Wheels
  <2> QED
    BY <2>1, <2>2 DEF Events, RowsTold, RowOf, LogLines
<1>2. /\ Where(w, Wheels) = Where(s, Wheels) \cup {n} /\ Count(w, Wheels) = Count(s, Wheels) + 1
      /\ \A i \in Where(s, Wheels) : w[i] = s[i]
  <2>1. \A i \in Where(s, Wheels) : w[i] = s[i]
    BY <1>1, PlaceStays, Zenon
  <2>2. /\ Where(w, Wheels) = IF e \in Wheels THEN Where(s, Wheels) \cup {n} ELSE Where(s, Wheels)
        /\ Count(w, Wheels) = IF e \in Wheels THEN Count(s, Wheels) + 1 ELSE Count(s, Wheels)
    BY <1>1, WhereGrows
  <2> HIDE DEF w, n
  <2> QED
    BY <2>1, <2>2, Zenon
<1>3. w[n] = e /\ Len(s) \in Nat /\ n \in Nat
  BY <1>1, AppendProperties, LenProperties
<1>4. RowOf(w, n) = r
  <2>1. <<e>>[1] = e
    OBVIOUS
  <2> HIDE DEF w, n
  <2> QED
    BY <1>3, <2>1 DEF RowOf
<1>5. Where(s, Wheels) \subseteq 1..Len(s) /\ IsFiniteSet(Where(s, Wheels)) /\ Count(s, Wheels) \in Nat
  BY WhereType
<1>6. From(w, n) = {n}
  <2>1. \A j \in Where(s, Wheels) : ~(j >= n)
    BY <1>3, <1>5
  <2>2. n >= n
    BY <1>3
  <2> HIDE DEF w, n
  <2> QED
    BY <1>2, <2>1, <2>2 DEF From
<1>7. \A i \in Where(s, Wheels) : From(w, i) = From(s, i) \cup {n}
  <2> TAKE i \in Where(s, Wheels)
  <2>1. n >= i
    BY <1>3, <1>5
  <2> HIDE DEF w, n
  <2> QED
    BY <1>2, <2>1 DEF From
<1>8. \A i \in Where(s, Wheels) : Cardinality(From(w, i)) = Cardinality(From(s, i)) + 1
  <2> TAKE i \in Where(s, Wheels)
  <2>1. From(s, i) \subseteq Where(s, Wheels)
    BY DEF From
  <2>2. IsFiniteSet(From(s, i)) /\ n \notin From(s, i)
    <3>1. n \notin 1..Len(s)
      BY <1>3
    <3> QED
      BY <1>5, <2>1, <3>1, FS_Subset
  <2>3. Cardinality(From(s, i) \cup {n}) = Cardinality(From(s, i)) + 1
    BY <2>2, FS_AddElement
  <2> HIDE DEF w, n
  <2> QED
    BY <1>7, <2>3
<1>9. Cardinality(From(w, n)) = 1
  BY <1>6, FS_Singleton
<1>10. \A i \in Where(s, Wheels) : RowOf(w, i) = RowOf(s, i)
  <2> HIDE DEF w
  <2> QED
    BY <1>2 DEF RowOf
<1> HIDE DEF w, n, r, top
<1>11. /\ top \in Seq(LogLines) /\ Len(top) = Min({Len(log) + 1, LogCap}) /\ Len(top) \in 1 .. Len(log) + 1
       /\ top[1] = r /\ \A k \in 2 .. Len(top) : top[k] = log[k - 1]
  BY <1>1, OnTop DEF top
<1>12. Len(log) \in Nat /\ Len(top) \in Nat /\ Len(top) >= 1 /\ Len(top) <= Len(log) + 1
  BY <1>1, <1>11, LenProperties
<1>13. ASSUME NEW k \in 1..Len(top) PROVE AtRow(top, w, k)
  <2>1. CASE k = 1
    <3>1. n \in Where(w, Wheels) /\ top[1] = RowOf(w, n)
      BY <1>2, <1>4, <1>11
    <3> QED
      BY <1>9, <2>1, <3>1 DEF AtRow
  <2>2. CASE k # 1
    <3>1. k \in 2..Len(top) /\ k - 1 \in 1..Len(log) /\ k \in Nat
      BY <1>12, <2>2
    <3>2. AtRow(log, s, k - 1)
      BY <3>1 DEF RowsTold
    <3>3. PICK i \in Where(s, Wheels) : Cardinality(From(s, i)) = k - 1 /\ log[k - 1] = RowOf(s, i)
      BY <3>2 DEF AtRow
    <3>4. Cardinality(From(w, i)) = (k - 1) + 1
      BY <1>8, <3>3
    <3>5. top[k] = RowOf(w, i) /\ i \in Where(w, Wheels)
      BY <1>2, <1>10, <1>11, <3>1, <3>3
    <3>6. (k - 1) + 1 = k
      BY <3>1
    <3> QED
      BY <3>4, <3>5, <3>6 DEF AtRow
  <2> QED
    BY <2>1, <2>2
<1>14. Len(top) = Min({Count(w, Wheels), LogCap})
  <2>1. Len(log) = Min({Count(s, Wheels), LogCap})
    BY DEF RowsTold
  <2>2. LogCap \in Nat
    BY BenchAssumption
  <2> DEFINE c == Count(s, Wheels)
  <2>3. c \in Nat /\ Count(w, Wheels) = c + 1 /\ Len(log) = Min({c, LogCap})
    BY <1>2, <1>5, <2>1
  <2> HIDE DEF c
  <2>4. Min({Min({c, LogCap}) + 1, LogCap}) = Min({c + 1, LogCap})
    BY <2>2, <2>3, LesserGrows, Zenon
  <2> QED
    BY <1>11, <2>3, <2>4
<1>15. RowsTold(top, w)
  BY <1>11, <1>13, <1>14 DEF RowsTold
<1>16. top # <<>>
  BY <1>12, EmptySeq
<1> QED
  BY <1>15, <1>16 DEF top, w, r

-----------------------------------------------------------------------------
(***************************************************************************)
(* The channels: an axis is told by the wheel events that turned it.       *)
(***************************************************************************)
Turns(a) == { e \in Wheels : e[a] # 0 }
Values(s, a) == { s[i][a] : i \in Where(s, Turns(a)) }
Spread(s, a) == [i \in Where(s, Wheels) |-> s[i][a]]
Total(s, a) == Summed(Spread(s, a), Where(s, Wheels))
Bounds(least, most, V) ==
    \/ V = {} /\ least = <<>> /\ most = <<>>
    \/ \E lo, hi \in V : least = <<lo>> /\ most = <<hi>> /\ \A v \in V : lo <= v /\ v <= hi
AxisTold(c, s, a) ==
    /\ c.count = Count(s, Turns(a))
    /\ c.sum = Total(s, a)
    /\ Bounds(c.min, c.max, Values(s, a))

LEMMA GreaterOf == \A a, b \in Int : Max({a, b}) = IF a >= b THEN a ELSE b
<1> TAKE a, b \in Int
<1> DEFINE L == {a, b}
           m == IF a >= b THEN a ELSE b
<1>1. m \in L /\ \A y \in L : m >= y
  OBVIOUS
<1>2. \A z \in L : (\A y \in L : z >= y) => z = m
  OBVIOUS
<1> HIDE DEF L, m
<1>3. Max(L) = m
  BY <1>1, <1>2 DEF Max
<1> QED
  BY <1>3 DEF L, m

Lower(least, d) == IF least = <<>> THEN <<d>> ELSE <<Min({least[1], d})>>
Higher(most, d) == IF most = <<>> THEN <<d>> ELSE <<Max({most[1], d})>>

LEMMA BoundsGrow ==
  ASSUME NEW V, V \subseteq Int, NEW least, NEW most, Bounds(least, most, V), NEW d \in Int
  PROVE  Bounds(Lower(least, d), Higher(most, d), V \cup {d})
<1>1. CASE V = {} /\ least = <<>> /\ most = <<>>
  <2>1. Lower(least, d) = <<d>> /\ Higher(most, d) = <<d>> /\ V \cup {d} = {d}
    BY <1>1 DEF Lower, Higher
  <2>2. d \in {d} /\ \A v \in {d} : d <= v /\ v <= d
    OBVIOUS
  <2>3. Bounds(<<d>>, <<d>>, {d})
    BY <2>2, Zenon DEF Bounds
  <2> QED
    BY <2>1, <2>3, Zenon
<1>2. CASE \E lo, hi \in V : least = <<lo>> /\ most = <<hi>> /\ \A v \in V : lo <= v /\ v <= hi
  <2>1. PICK lo \in V, hi \in V : least = <<lo>> /\ most = <<hi>> /\ \A v \in V : lo <= v /\ v <= hi
    BY <1>2
  <2> DEFINE m == IF lo <= d THEN lo ELSE d
             n == IF hi >= d THEN hi ELSE d
  <2>2. least # <<>> /\ least[1] = lo /\ most # <<>> /\ most[1] = hi /\ lo \in Int /\ hi \in Int
    BY <2>1
  <2>3. Min({lo, d}) = m /\ Max({hi, d}) = n
    BY <2>2, LesserOf, GreaterOf
  <2>4. Lower(least, d) = <<m>> /\ Higher(most, d) = <<n>>
    <3>1. Lower(least, d) = <<Min({lo, d})>> /\ Higher(most, d) = <<Max({hi, d})>>
      BY <2>2 DEF Lower, Higher
    <3> HIDE DEF m, n
    <3> QED
      BY <2>3, <3>1
  <2>5. m \in V \cup {d} /\ n \in V \cup {d} /\ \A v \in V \cup {d} : m <= v /\ v <= n
    BY <2>1, <2>2
  <2> HIDE DEF m, n
  <2>6. Bounds(<<m>>, <<n>>, V \cup {d})
    BY <2>5, Zenon DEF Bounds
  <2> QED
    BY <2>4, <2>6, Zenon
<1> QED
  BY <1>1, <1>2 DEF Bounds

LEMMA AxisStarts == \A a : AxisTold(NoEvents, <<>>, a)
<1> TAKE a
<1>1. \A K : Where(<<>>, K) = {} /\ Count(<<>>, K) = 0
  BY WhereEmpty
<1>2. Total(<<>>, a) = 0
  BY <1>1, SumOfNone, Zenon DEF Total
<1>3. Values(<<>>, a) = {}
  BY <1>1 DEF Values
<1>4. Bounds(<<>>, <<>>, {})
  BY DEF Bounds
<1>5. NoEvents.count = 0 /\ NoEvents.sum = 0 /\ NoEvents.min = <<>> /\ NoEvents.max = <<>>
  BY DEF NoEvents
<1> QED
  BY <1>1, <1>2, <1>3, <1>4, <1>5, Zenon DEF AxisTold

\* An event outside K leaves what is read of those in K.
LEMMA ReadsStay ==
  ASSUME NEW s \in Seq(Events), NEW e \in Events, NEW K, e \notin K
  PROVE  /\ Where(Append(s, e), K) = Where(s, K)
         /\ \A i \in Where(s, K) : Append(s, e)[i] = s[i]
<1>1. Where(Append(s, e), K) = Where(s, K)
  BY WhereGrows
<1>2. \A i \in Where(s, K) : Append(s, e)[i] = s[i]
  BY PlaceStays, Zenon
<1> QED
  BY <1>1, <1>2

LEMMA OtherAxis ==
  ASSUME NEW s \in Seq(Events), NEW e \in Events, e \notin Wheels, NEW a, NEW c, AxisTold(c, s, a)
  PROVE  AxisTold(c, Append(s, e), a)
<1> DEFINE w == Append(s, e)
<1>0. e \notin Turns(a)
  BY DEF Turns
<1>1. Where(w, Wheels) = Where(s, Wheels) /\ \A i \in Where(s, Wheels) : w[i] = s[i]
  BY ReadsStay, Zenon
<1>2. Where(w, Turns(a)) = Where(s, Turns(a)) /\ \A i \in Where(s, Turns(a)) : w[i] = s[i]
  BY <1>0, ReadsStay, Zenon
<1> HIDE DEF w
<1>3. Spread(w, a) = Spread(s, a)
  BY <1>1 DEF Spread
<1>4. Total(w, a) = Total(s, a)
  BY <1>1, <1>3 DEF Total
<1>5. Values(w, a) = Values(s, a)
  BY <1>2 DEF Values
<1>6. Count(w, Turns(a)) = Count(s, Turns(a))
  BY <1>2 DEF Count
<1>7. AxisTold(c, w, a)
  BY <1>4, <1>5, <1>6 DEF AxisTold
<1> QED
  BY <1>7 DEF w

LEMMA SpreadIsNumbered ==
  ASSUME NEW s \in Seq(Events), NEW a \in Axes
  PROVE  /\ Numbered(Spread(s, a), Where(s, Wheels))
         /\ Values(s, a) \subseteq Int
         /\ \A e \in Wheels : e[a] \in Int
<1>1. \A e \in Wheels : e[a] \in Int
  <2> TAKE e \in Wheels
  <2>1. e.x \in Deltas /\ e.y \in Deltas
    BY DEF Wheels
  <2> QED
    BY <2>1, BenchAssumption DEF Axes
<1>2. \A i \in Where(s, Wheels) : s[i] \in Wheels
  BY DEF Where
<1>3. \A i \in Where(s, Turns(a)) : s[i] \in Wheels
  BY DEF Where, Turns
<1>4. IsFiniteSet(Where(s, Wheels))
  BY WhereType
<1>5. \A i \in Where(s, Wheels) : Spread(s, a)[i] = s[i][a]
  BY DEF Spread
<1>6. Numbered(Spread(s, a), Where(s, Wheels))
  BY <1>1, <1>2, <1>4, <1>5 DEF Numbered
<1>7. Values(s, a) \subseteq Int
  BY <1>1, <1>3 DEF Values
<1> QED
  BY <1>1, <1>6, <1>7

LEMMA TotalGrows ==
  ASSUME NEW s \in Seq(Events), NEW e \in Wheels, NEW a \in Axes
  PROVE  Total(Append(s, e), a) = e[a] + Total(s, a)
<1> DEFINE w == Append(s, e)
           n == Len(s) + 1
           f == Spread(w, a)
           g == Spread(s, a)
           S == Where(s, Wheels)
<1>1. e \in Events
  BY DEF Events
<1>2. w \in Seq(Events) /\ w[n] = e
  BY <1>1, AppendProperties
<1>3. \A i \in S : w[i] = s[i]
  BY <1>1, PlaceStays, Zenon
<1>4. Where(w, Wheels) = S \cup {n}
  <2>1. Where(w, Wheels) = IF e \in Wheels THEN S \cup {n} ELSE S
    BY <1>1, WhereGrows
  <2> HIDE DEF w, S, n
  <2> QED
    BY <2>1
<1>5. n \notin S
  BY WhereType
<1> HIDE DEF w, n, S
<1>6. Numbered(f, S \cup {n})
  BY <1>2, <1>4, SpreadIsNumbered, Zenon
<1>7. f[n] = e[a]
  BY <1>2, <1>4 DEF Spread
<1>8. \A i \in S : f[i] = g[i]
  BY <1>3, <1>4 DEF Spread, S
<1> HIDE DEF f, g
<1>9. Summed(f, S \cup {n}) = f[n] + Summed(f, S) /\ Numbered(f, S)
  BY <1>5, <1>6, SumAddsNumber, Zenon
<1>10. Summed(f, S) = Summed(g, S)
  BY <1>8, <1>9, SumSame
<1>11. Total(w, a) = f[n] + Summed(g, S)
  <2>1. Total(w, a) = Summed(f, S \cup {n})
    BY <1>4 DEF Total, f
  <2> QED
    BY <1>9, <1>10, <2>1
<1>12. Total(s, a) = Summed(g, S)
  BY DEF Total, g, S
<1> QED
  BY <1>7, <1>11, <1>12 DEF w

LEMMA WheelAxis ==
  ASSUME NEW s \in Seq(Events), NEW e \in Wheels, NEW a \in Axes, NEW c, AxisTold(c, s, a)
  PROVE  AxisTold(Bump(c, e[a]), Append(s, e), a)
<1> DEFINE w == Append(s, e)
           d == e[a]
           n == Len(s) + 1
           V == Values(s, a)
<1>1. e \in Events
  BY DEF Events
<1>2. d \in Int /\ V \subseteq Int
  BY SpreadIsNumbered
<1>3. Total(w, a) = d + Total(s, a) /\ Total(s, a) \in Int
  <2>1. Numbered(Spread(s, a), Where(s, Wheels))
    BY SpreadIsNumbered
  <2>2. Total(s, a) \in Int
    BY <2>1, SumInt, Zenon DEF Total
  <2> QED
    BY <2>2, TotalGrows
<1>4. e \in Turns(a) <=> d # 0
  BY DEF Turns
<1>5. CASE d = 0
  <2>1. e \notin Turns(a)
    BY <1>4, <1>5
  <2>2. Where(w, Turns(a)) = Where(s, Turns(a)) /\ \A i \in Where(s, Turns(a)) : w[i] = s[i]
    BY <1>1, <2>1, ReadsStay, Zenon
  <2> HIDE DEF w, d
  <2>3. Values(w, a) = Values(s, a) /\ Count(w, Turns(a)) = Count(s, Turns(a))
    BY <2>2 DEF Values, Count
  <2>4. Total(w, a) = Total(s, a)
    BY <1>3, <1>5
  <2>5. Bump(c, d) = c
    BY <1>5 DEF Bump
  <2>6. AxisTold(Bump(c, d), w, a)
    BY <2>3, <2>4, <2>5 DEF AxisTold
  <2> QED
    BY <2>6 DEF w, d
<1>6. CASE d # 0
  <2>1. e \in Turns(a)
    BY <1>4, <1>6
  <2>2. /\ Where(w, Turns(a)) = IF e \in Turns(a) THEN Where(s, Turns(a)) \cup {n} ELSE Where(s, Turns(a))
        /\ Count(w, Turns(a)) = IF e \in Turns(a) THEN Count(s, Turns(a)) + 1 ELSE Count(s, Turns(a))
    BY <1>1, WhereGrows
  <2>3. \A i \in Where(s, Turns(a)) : w[i] = s[i]
    BY <1>1, PlaceStays, Zenon
  <2>4. w[n] = e
    BY <1>1, AppendProperties
  <2> HIDE DEF w, n
  <2>5. Where(w, Turns(a)) = Where(s, Turns(a)) \cup {n} /\ Count(w, Turns(a)) = Count(s, Turns(a)) + 1
    BY <2>1, <2>2
  <2>6. Values(w, a) = V \cup {d}
    BY <2>3, <2>4, <2>5 DEF Values
  <2> HIDE DEF d, V
  <2>7. Bounds(c.min, c.max, V) /\ c.sum = Total(s, a) /\ c.count = Count(s, Turns(a))
    BY DEF AxisTold, V
  <2>8. Bounds(Lower(c.min, d), Higher(c.max, d), V \cup {d})
    BY <1>2, <2>7, BoundsGrow, Zenon
  <2>9. Bump(c, d) = [count |-> c.count + 1, sum |-> c.sum + d, min |-> Lower(c.min, d), max |-> Higher(c.max, d)]
    BY <1>6 DEF Bump, Lower, Higher
  <2> DEFINE b == Bump(c, d)
  <2>10. b.count = c.count + 1 /\ b.sum = c.sum + d /\ b.min = Lower(c.min, d) /\ b.max = Higher(c.max, d)
    BY <2>9
  <2> HIDE DEF b
  <2>11. b.sum = Total(w, a)
    BY <1>2, <1>3, <2>7, <2>10
  <2>12. b.count = Count(w, Turns(a))
    BY <2>5, <2>7, <2>10
  <2>13. Bounds(b.min, b.max, Values(w, a))
    BY <2>6, <2>8, <2>10
  <2>14. AxisTold(b, w, a)
    BY <2>11, <2>12, <2>13 DEF AxisTold
  <2> QED
    BY <2>14 DEF b, w, d
<1> QED
  BY <1>5, <1>6

-----------------------------------------------------------------------------
(***************************************************************************)
(* The page, told by its ledger.                                           *)
(***************************************************************************)
PressesOf(b) == { e \in Presses : e.button = b }
Clicks == Presses \cup Releases
FreshKeys == { e \in KeyEvents : ~e.repeat }

SamplesTold(n, s) == n = Min({Count(s, Moves), MAX_PTS})
ButtonsTold(counts, s) == counts \in [1..5 -> Nat] /\ \A b \in 1..5 : counts[b] = Count(s, PressesOf(b))
KeysTold(n, s) == n = Count(s, FreshKeys)
AxesTold(ch, s) == \A a \in Axes : AxisTold(ch[a], s, a)
PaintedNow(now, s, n, log) == [rate |-> Count(s, RecentMoves(now)), samples |-> n, log |-> log]

BenchInv ==
    /\ clock \in Nat /\ ledger \in Seq(Events)
    /\ TimesTold(moveTimes, ledger, clock)
    /\ SamplesTold(pts, ledger)
    /\ RowsTold(logRows, ledger)
    /\ AxesTold(channels, ledger)
    /\ ButtonsTold(btnCount, ledger)
    /\ KeysTold(keyCount, ledger)
    /\ Where(ledger, Clicks) # {} => held = down
    /\ screen \in [rate : Nat, samples : Nat, log : Seq(LogLines)]
    /\ (dirtyLog /\ logRows # <<>>) \/ screen.log = logRows
    /\ painted => screen = PaintedNow(clock, ledger, pts, logRows)

\* What an event says nothing of stays as it was told.
LEMMA Unsaid ==
  ASSUME NEW s \in Seq(Events), NEW e \in Events
  PROVE  /\ e \notin Moves => \A n : SamplesTold(n, s) => SamplesTold(n, Append(s, e))
         /\ e \notin Moves => \A now \in Nat : \A times : TimesTold(times, s, now) => TimesTold(times, Append(s, e), now)
         /\ e \notin Wheels => \A log : RowsTold(log, s) => RowsTold(log, Append(s, e))
         /\ e \notin Wheels => \A ch : AxesTold(ch, s) => AxesTold(ch, Append(s, e))
         /\ e \notin Presses => \A counts : ButtonsTold(counts, s) => ButtonsTold(counts, Append(s, e))
         /\ e \notin KeyEvents => \A n : KeysTold(n, s) => KeysTold(n, Append(s, e))
         /\ e \notin Clicks => Where(Append(s, e), Clicks) = Where(s, Clicks)
<1> DEFINE w == Append(s, e)
<1>1. \A K : e \notin K => Count(w, K) = Count(s, K) /\ Where(w, K) = Where(s, K)
  BY WhereGrows
<1>2. e \notin Moves => \A n : SamplesTold(n, s) => SamplesTold(n, w)
  BY <1>1 DEF SamplesTold
<1>3. e \notin Moves => \A now \in Nat : \A times : TimesTold(times, s, now) => TimesTold(times, w, now)
  BY NoMoveTold, Zenon
<1>4. e \notin Wheels => \A log : RowsTold(log, s) => RowsTold(log, w)
  BY OtherRows, Zenon
<1>5. e \notin Wheels => \A ch : AxesTold(ch, s) => AxesTold(ch, w)
  BY OtherAxis, Zenon DEF AxesTold
<1>6. e \notin Presses => \A counts : ButtonsTold(counts, s) => ButtonsTold(counts, w)
  <2> HAVE e \notin Presses
  <2>1. \A b : e \notin PressesOf(b)
    BY DEF PressesOf
  <2> HIDE DEF w
  <2>2. \A b : Count(w, PressesOf(b)) = Count(s, PressesOf(b))
    BY <1>1, <2>1
  <2> QED
    BY <2>2 DEF ButtonsTold
<1>7. e \notin KeyEvents => \A n : KeysTold(n, s) => KeysTold(n, w)
  <2> HAVE e \notin KeyEvents
  <2>1. e \notin FreshKeys
    BY DEF FreshKeys
  <2> HIDE DEF w
  <2> QED
    BY <1>1, <2>1 DEF KeysTold
<1> HIDE DEF w
<1>8. e \notin Clicks => Where(w, Clicks) = Where(s, Clicks)
  BY <1>1
<1> QED
  BY <1>2, <1>3, <1>4, <1>5, <1>6, <1>7, <1>8, Zenon DEF w

LEMMA KindsDiffer ==
  ASSUME NEW e
  PROVE  /\ e \in Moves => e \notin Wheels \cup Clicks \cup KeyEvents
         /\ e \in Wheels => e \notin Moves \cup Clicks \cup KeyEvents
         /\ e \in Clicks => e \notin Moves \cup Wheels \cup KeyEvents
         /\ e \in Releases => e \notin Presses
         /\ e \in KeyEvents => e \notin Moves \cup Wheels \cup Clicks
         /\ Presses \subseteq Clicks /\ Releases \subseteq Clicks
<1>1. e \in Moves => e.kind = "move"
  BY DEF Moves
<1>2. e \in Wheels => e.kind = "wheel"
  BY DEF Wheels
<1>3. e \in Presses => e.kind = "down"
  BY DEF Presses
<1>4. e \in Releases => e.kind = "up"
  BY DEF Releases
<1>5. e \in KeyEvents => e.kind = "key"
  BY DEF KeyEvents
<1> QED
  BY <1>1, <1>2, <1>3, <1>4, <1>5 DEF Clicks

\* With an event come, nothing is painted yet and the screen is as it was.
LEMMA Arrived ==
  ASSUME BenchInv, NEW e \in Events, Arrives(e)
  PROVE  /\ (clock \in Nat /\ ledger \in Seq(Events) /\ screen \in [rate : Nat, samples : Nat, log : Seq(LogLines)])'
         /\ ledger' = Append(ledger, e) /\ clock' = clock /\ screen' = screen /\ painted' = FALSE
         /\ ledger \in Seq(Events) /\ clock \in Nat
<1>1. ledger \in Seq(Events) /\ ledger' = Append(ledger, e)
  BY DEF BenchInv, Arrives
<1>2. Append(ledger, e) \in Seq(Events)
  BY <1>1, AppendProperties
<1> QED
  BY <1>1, <1>2 DEF BenchInv, Arrives

LEMMA MouseMoveStep == BenchInv /\ MouseMove => BenchInv'
<1> SUFFICES ASSUME BenchInv, MouseMove PROVE BenchInv'
  OBVIOUS
<1> DEFINE e == [kind |-> "move", t |-> clock]
<1>1. e \in Events /\ e \in Moves /\ Arrives(e)
  BY DEF BenchInv, MouseMove, Events, Moves
<1>2. e \notin Wheels /\ e \notin Clicks /\ e \notin Presses /\ e \notin KeyEvents
  BY <1>1, KindsDiffer
<1>3. /\ (clock \in Nat /\ ledger \in Seq(Events) /\ screen \in [rate : Nat, samples : Nat, log : Seq(LogLines)])'
      /\ ledger' = Append(ledger, e) /\ clock' = clock /\ screen' = screen /\ painted' = FALSE
      /\ ledger \in Seq(Events) /\ clock \in Nat
  BY <1>1, Arrived
<1>4. TimesTold(moveTimes', ledger', clock')
  <2>1. TimesTold(Append(moveTimes, clock), Append(ledger, e), clock)
    BY <1>3, MoveTold DEF BenchInv
  <2>2. TimesTold(TrimMoveTimes(Append(moveTimes, clock), clock), Append(ledger, e), clock)
    BY <1>3, <2>1, TrimKeeps
  <2>3. moveTimes' = TrimMoveTimes(Append(moveTimes, clock), clock)
    BY DEF MouseMove
  <2> QED
    BY <1>3, <2>2, <2>3, Zenon
<1>5. SamplesTold(pts', ledger')
  <2>1. Count(Append(ledger, e), Moves) = Count(ledger, Moves) + 1 /\ Count(ledger, Moves) \in Nat
    BY <1>1, <1>3, WhereGrows, WhereType
  <2>2. pts = Min({Count(ledger, Moves), MAX_PTS}) /\ pts' = Min({pts + 1, MAX_PTS}) /\ MAX_PTS \in Nat
    BY BenchAssumption DEF BenchInv, SamplesTold, MouseMove
  <2>3. Min({pts + 1, MAX_PTS}) = Min({Count(ledger, Moves) + 1, MAX_PTS})
    BY <2>1, <2>2, LesserGrows, Zenon
  <2> HIDE DEF e
  <2> QED
    BY <1>3, <2>1, <2>2, <2>3, Zenon DEF SamplesTold
<1>6. /\ RowsTold(logRows, Append(ledger, e)) /\ AxesTold(channels, Append(ledger, e))
      /\ ButtonsTold(btnCount, Append(ledger, e)) /\ KeysTold(keyCount, Append(ledger, e))
      /\ Where(Append(ledger, e), Clicks) = Where(ledger, Clicks)
  <2>1. RowsTold(logRows, ledger) /\ AxesTold(channels, ledger) /\ ButtonsTold(btnCount, ledger) /\ KeysTold(keyCount, ledger)
    BY DEF BenchInv
  <2> HIDE DEF e
  <2> QED
    BY <1>1, <1>2, <1>3, <2>1, Unsaid, Zenon
<1>7. UNCHANGED <<channels, logRows, dirtyLog, btnCount, keyCount, held, down>>
  BY DEF MouseMove
<1> HIDE DEF e
<1> QED
  BY <1>3, <1>4, <1>5, <1>6, <1>7 DEF BenchInv

LEMMA WheelStep == \A dx, dy \in Deltas : BenchInv /\ WheelTurns(dx, dy) => BenchInv'
<1> SUFFICES ASSUME NEW dx \in Deltas, NEW dy \in Deltas, BenchInv, WheelTurns(dx, dy) PROVE BenchInv'
  OBVIOUS
<1> DEFINE e == [kind |-> "wheel", x |-> dx, y |-> dy]
<1>1. e \in Events /\ e \in Wheels /\ Arrives(e) /\ e.x = dx /\ e.y = dy
  BY DEF WheelTurns, Events, Wheels
<1>2. e \notin Moves /\ e \notin Clicks /\ e \notin Presses /\ e \notin KeyEvents
  BY <1>1, KindsDiffer
<1>3. /\ (clock \in Nat /\ ledger \in Seq(Events) /\ screen \in [rate : Nat, samples : Nat, log : Seq(LogLines)])'
      /\ ledger' = Append(ledger, e) /\ clock' = clock /\ screen' = screen /\ painted' = FALSE
      /\ ledger \in Seq(Events) /\ clock \in Nat
  BY <1>1, Arrived
<1>4. RowsTold(logRows', ledger') /\ logRows' # <<>>
  <2>1. RowsTold(logRows, ledger)
    BY DEF BenchInv
  <2>2. logRows' = NewestOnTop(logRows, [x |-> dx, y |-> dy])
    BY DEF WheelTurns, NewestOnTop
  <2>3. RowOf(<<e>>, 1) = [x |-> dx, y |-> dy]
    <3>1. <<e>>[1] = e
      OBVIOUS
    <3> HIDE DEF e
    <3> QED
      BY <1>1, <3>1 DEF RowOf
  <2> HIDE DEF e
  <2>4. /\ RowsTold(NewestOnTop(logRows, RowOf(<<e>>, 1)), Append(ledger, e))
        /\ NewestOnTop(logRows, RowOf(<<e>>, 1)) # <<>>
    BY <1>1, <1>3, <2>1, WheelRows, Zenon
  <2> QED
    BY <1>3, <2>2, <2>3, <2>4, Zenon
<1>5. AxesTold(channels', ledger')
  <2>1. \A a \in Axes : AxisTold(channels[a], ledger, a)
    BY DEF BenchInv, AxesTold
  <2>2. channels' = [x |-> Bump(channels.x, dx), y |-> Bump(channels.y, dy)]
    BY DEF WheelTurns
  <2> HIDE DEF e
  <2>3. \A a \in Axes : AxisTold(Bump(channels[a], e[a]), Append(ledger, e), a)
    BY <1>1, <1>3, <2>1, WheelAxis, Zenon
  <2>4. \A a \in Axes : channels'[a] = Bump(channels[a], e[a])
    BY <1>1, <2>2 DEF Axes
  <2> QED
    BY <1>3, <2>3, <2>4, Zenon DEF AxesTold
<1>6. /\ TimesTold(moveTimes, Append(ledger, e), clock) /\ SamplesTold(pts, Append(ledger, e))
      /\ ButtonsTold(btnCount, Append(ledger, e)) /\ KeysTold(keyCount, Append(ledger, e))
      /\ Where(Append(ledger, e), Clicks) = Where(ledger, Clicks)
  <2>1. TimesTold(moveTimes, ledger, clock) /\ SamplesTold(pts, ledger) /\ ButtonsTold(btnCount, ledger) /\ KeysTold(keyCount, ledger)
    BY DEF BenchInv
  <2> HIDE DEF e
  <2> QED
    BY <1>1, <1>2, <1>3, <2>1, Unsaid, Zenon
<1>7. UNCHANGED <<pts, moveTimes, btnCount, keyCount, held, down>> /\ dirtyLog' = TRUE
  BY DEF WheelTurns
<1> HIDE DEF e
<1> QED
  BY <1>3, <1>4, <1>5, <1>6, <1>7 DEF BenchInv

\* A cell's count goes up with a press of its button, and the sixth button is no cell's.
LEMMA CellsCount ==
  \A b \in 1..6 : /\ BrowserButton[b] \in DOMAIN HID_BUTTON <=> b \in 1..5
                  /\ b \in 1..5 => HID_BUTTON[BrowserButton[b]] = b
<1> SUFFICES ASSUME NEW b \in 1..6
             PROVE  /\ BrowserButton[b] \in DOMAIN HID_BUTTON <=> b \in 1..5
                    /\ b \in 1..5 => HID_BUTTON[BrowserButton[b]] = b
  OBVIOUS
<1>1. /\ BrowserButton[1] = 0 /\ BrowserButton[2] = 2 /\ BrowserButton[3] = 1 /\ BrowserButton[4] = 3
      /\ BrowserButton[5] = 4 /\ BrowserButton[6] = 5
  BY DEF BrowserButton
<1>2. DOMAIN HID_BUTTON = 0..4 /\ \A n \in 0..4 : HID_BUTTON[n] = <<1, 3, 2, 4, 5>>[n + 1]
  BY DEF HID_BUTTON
<1>3. HID_BUTTON[0] = 1 /\ HID_BUTTON[1] = 3 /\ HID_BUTTON[2] = 2 /\ HID_BUTTON[3] = 4 /\ HID_BUTTON[4] = 5
  BY <1>2
<1>4. b = 1 \/ b = 2 \/ b = 3 \/ b = 4 \/ b = 5 \/ b = 6
  OBVIOUS
<1> QED
  BY <1>1, <1>2, <1>3, <1>4

LEMMA MouseDownStep == \A b \in HidButtons : BenchInv /\ MouseDown(b) => BenchInv'
<1> SUFFICES ASSUME NEW b \in HidButtons, BenchInv, MouseDown(b) PROVE BenchInv'
  OBVIOUS
<1> DEFINE e == [kind |-> "down", button |-> b]
           w == Append(ledger, e)
<1>1. e \in Events /\ e \in Presses /\ Arrives(e) /\ e.button = b
  BY DEF MouseDown, Events, Presses
<1>2. e \notin Moves /\ e \notin Wheels /\ e \in Clicks /\ e \notin KeyEvents
  BY <1>1, KindsDiffer
<1>3. /\ (clock \in Nat /\ ledger \in Seq(Events) /\ screen \in [rate : Nat, samples : Nat, log : Seq(LogLines)])'
      /\ ledger' = w /\ clock' = clock /\ screen' = screen /\ painted' = FALSE
      /\ ledger \in Seq(Events) /\ clock \in Nat
  BY <1>1, Arrived
<1>4. ButtonsTold(btnCount', ledger')
  <2>1. btnCount \in [1..5 -> Nat] /\ \A c \in 1..5 : btnCount[c] = Count(ledger, PressesOf(c))
    BY DEF BenchInv, ButtonsTold
  <2>2. \A c : e \in PressesOf(c) <=> b = c
    BY <1>1 DEF PressesOf
  <2>3. \A c : Count(w, PressesOf(c)) = IF e \in PressesOf(c) THEN Count(ledger, PressesOf(c)) + 1
                                        ELSE Count(ledger, PressesOf(c))
    BY <1>1, <1>3, WhereGrows
  <2>4. b \in 1..6
    BY BenchAssumption
  <2>5. btnCount' = IF b \in 1..5 THEN [btnCount EXCEPT ![b] = @ + 1] ELSE btnCount
    <3>1. BrowserButton[b] \in DOMAIN HID_BUTTON <=> b \in 1..5
      BY <2>4, CellsCount
    <3>2. b \in 1..5 => HID_BUTTON[BrowserButton[b]] = b
      BY <2>4, CellsCount
    <3>3. btnCount' = IF BrowserButton[b] \in DOMAIN HID_BUTTON
                      THEN [btnCount EXCEPT ![HID_BUTTON[BrowserButton[b]]] = @ + 1] ELSE btnCount
      BY DEF MouseDown
    <3> QED
      BY <3>1, <3>2, <3>3
  <2> HIDE DEF e, w
  <2>6. btnCount' \in [1..5 -> Nat]
    BY <2>1, <2>5
  <2>7. \A c \in 1..5 : btnCount'[c] = IF b = c THEN btnCount[c] + 1 ELSE btnCount[c]
    BY <2>1, <2>5
  <2>8. \A c \in 1..5 : btnCount'[c] = Count(w, PressesOf(c))
    BY <2>1, <2>2, <2>3, <2>7
  <2> QED
    BY <1>3, <2>6, <2>8 DEF ButtonsTold
<1>5. /\ TimesTold(moveTimes, w, clock) /\ SamplesTold(pts, w) /\ RowsTold(logRows, w)
      /\ AxesTold(channels, w) /\ KeysTold(keyCount, w)
  <2>1. /\ TimesTold(moveTimes, ledger, clock) /\ SamplesTold(pts, ledger) /\ RowsTold(logRows, ledger)
        /\ AxesTold(channels, ledger) /\ KeysTold(keyCount, ledger)
    BY DEF BenchInv
  <2> HIDE DEF e
  <2> QED
    BY <1>1, <1>2, <1>3, <2>1, Unsaid, Zenon
<1>6. UNCHANGED <<pts, moveTimes, channels, logRows, dirtyLog, keyCount>> /\ held' = down'
  BY DEF MouseDown
<1>7. (dirtyLog /\ logRows # <<>>) \/ screen.log = logRows
  BY DEF BenchInv
<1> HIDE DEF e, w
<1> QED
  BY <1>3, <1>4, <1>5, <1>6, <1>7 DEF BenchInv

LEMMA MouseUpStep == \A b \in HidButtons : BenchInv /\ MouseUp(b) => BenchInv'
<1> SUFFICES ASSUME NEW b \in HidButtons, BenchInv, MouseUp(b) PROVE BenchInv'
  OBVIOUS
<1> DEFINE e == [kind |-> "up", button |-> b]
           w == Append(ledger, e)
<1>1. e \in Events /\ e \in Releases /\ Arrives(e)
  BY DEF MouseUp, Events, Releases
<1>2. e \notin Moves /\ e \notin Wheels /\ e \notin Presses /\ e \notin KeyEvents
  BY <1>1, KindsDiffer
<1>3. /\ (clock \in Nat /\ ledger \in Seq(Events) /\ screen \in [rate : Nat, samples : Nat, log : Seq(LogLines)])'
      /\ ledger' = w /\ clock' = clock /\ screen' = screen /\ painted' = FALSE
      /\ ledger \in Seq(Events) /\ clock \in Nat
  BY <1>1, Arrived
<1>4. /\ TimesTold(moveTimes, w, clock) /\ SamplesTold(pts, w) /\ RowsTold(logRows, w)
      /\ AxesTold(channels, w) /\ ButtonsTold(btnCount, w) /\ KeysTold(keyCount, w)
  <2>1. /\ TimesTold(moveTimes, ledger, clock) /\ SamplesTold(pts, ledger) /\ RowsTold(logRows, ledger)
        /\ AxesTold(channels, ledger) /\ ButtonsTold(btnCount, ledger) /\ KeysTold(keyCount, ledger)
    BY DEF BenchInv
  <2> HIDE DEF e
  <2> QED
    BY <1>1, <1>2, <1>3, <2>1, Unsaid, Zenon
<1>5. UNCHANGED <<pts, moveTimes, channels, logRows, dirtyLog, btnCount, keyCount>> /\ held' = down'
  BY DEF MouseUp
<1>6. (dirtyLog /\ logRows # <<>>) \/ screen.log = logRows
  BY DEF BenchInv
<1> HIDE DEF e, w
<1> QED
  BY <1>3, <1>4, <1>5, <1>6 DEF BenchInv

LEMMA KeyDownStep == \A repeat \in BOOLEAN : BenchInv /\ KeyDown(repeat) => BenchInv'
<1> SUFFICES ASSUME NEW repeat \in BOOLEAN, BenchInv, KeyDown(repeat) PROVE BenchInv'
  OBVIOUS
<1> DEFINE e == [kind |-> "key", repeat |-> repeat]
           w == Append(ledger, e)
<1>1. e \in Events /\ e \in KeyEvents /\ Arrives(e) /\ (e \in FreshKeys <=> ~repeat)
  BY DEF KeyDown, Events, KeyEvents, FreshKeys
<1>2. e \notin Moves /\ e \notin Wheels /\ e \notin Presses /\ e \notin Clicks
  BY <1>1, KindsDiffer
<1>3. /\ (clock \in Nat /\ ledger \in Seq(Events) /\ screen \in [rate : Nat, samples : Nat, log : Seq(LogLines)])'
      /\ ledger' = w /\ clock' = clock /\ screen' = screen /\ painted' = FALSE
      /\ ledger \in Seq(Events) /\ clock \in Nat
  BY <1>1, Arrived
<1>4. KeysTold(keyCount', ledger')
  <2>1. keyCount = Count(ledger, FreshKeys) /\ keyCount' = IF repeat THEN keyCount ELSE keyCount + 1
    BY DEF BenchInv, KeysTold, KeyDown
  <2>2. Count(w, FreshKeys) = IF e \in FreshKeys THEN Count(ledger, FreshKeys) + 1 ELSE Count(ledger, FreshKeys)
    BY <1>1, <1>3, WhereGrows
  <2> HIDE DEF e, w
  <2> QED
    BY <1>1, <1>3, <2>1, <2>2 DEF KeysTold
<1>5. /\ TimesTold(moveTimes, w, clock) /\ SamplesTold(pts, w) /\ RowsTold(logRows, w)
      /\ AxesTold(channels, w) /\ ButtonsTold(btnCount, w) /\ Where(w, Clicks) = Where(ledger, Clicks)
  <2>1. /\ TimesTold(moveTimes, ledger, clock) /\ SamplesTold(pts, ledger) /\ RowsTold(logRows, ledger)
        /\ AxesTold(channels, ledger) /\ ButtonsTold(btnCount, ledger)
    BY DEF BenchInv
  <2> HIDE DEF e
  <2> QED
    BY <1>1, <1>2, <1>3, <2>1, Unsaid, Zenon
<1>6. UNCHANGED <<pts, moveTimes, channels, logRows, dirtyLog, btnCount, held, down>>
  BY DEF KeyDown
<1>7. /\ (dirtyLog /\ logRows # <<>>) \/ screen.log = logRows
      /\ Where(ledger, Clicks) # {} => held = down
  BY DEF BenchInv
<1> HIDE DEF e, w
<1> QED
  BY <1>3, <1>4, <1>5, <1>6, <1>7 DEF BenchInv

LEMMA PaintStep == BenchInv /\ Paint => BenchInv'
<1> SUFFICES ASSUME BenchInv, Paint PROVE BenchInv'
  OBVIOUS
<1>1. /\ clock \in Nat /\ ledger \in Seq(Events) /\ TimesTold(moveTimes, ledger, clock)
      /\ SamplesTold(pts, ledger) /\ RowsTold(logRows, ledger)
      /\ (dirtyLog /\ logRows # <<>>) \/ screen.log = logRows
  BY DEF BenchInv
<1>2. /\ moveTimes' = TrimMoveTimes(moveTimes, clock)
      /\ screen' = [rate |-> Len(moveTimes'), samples |-> pts,
                    log |-> IF dirtyLog /\ logRows # <<>> THEN logRows ELSE screen.log]
      /\ UNCHANGED <<clock, pts, channels, logRows, btnCount, keyCount, held, down, ledger>>
  BY DEF Paint
<1>3. TimesTold(moveTimes', ledger, clock) /\ Len(moveTimes') = Count(ledger, RecentMoves(clock))
  BY <1>1, <1>2, TrimKeeps
<1>4. screen' = PaintedNow(clock, ledger, pts, logRows)
  BY <1>1, <1>2, <1>3 DEF PaintedNow
<1>5. Count(ledger, RecentMoves(clock)) \in Nat /\ pts \in Nat /\ logRows \in Seq(LogLines)
  <2>1. Count(ledger, RecentMoves(clock)) \in Nat /\ Count(ledger, Moves) \in Nat /\ MAX_PTS \in Nat
    BY <1>1, WhereType, BenchAssumption
  <2>2. pts \in Nat
    BY <1>1, <2>1, LesserGrows, Zenon DEF SamplesTold
  <2> QED
    BY <1>1, <2>1, <2>2 DEF RowsTold
<1>6. screen' \in [rate : Nat, samples : Nat, log : Seq(LogLines)] /\ screen'.log = logRows
  BY <1>4, <1>5 DEF PaintedNow
<1> QED
  BY <1>2, <1>3, <1>4, <1>6 DEF BenchInv

\* With nothing come, everything told is back where it began.
LEMMA Afresh ==
  ASSUME NEW now \in Nat
  PROVE  /\ <<>> \in Seq(Events) /\ TimesTold(<<>>, <<>>, now) /\ SamplesTold(0, <<>>) /\ RowsTold(<<>>, <<>>)
         /\ AxesTold([a \in Axes |-> NoEvents], <<>>) /\ ButtonsTold([b \in 1..5 |-> 0], <<>>)
         /\ KeysTold(0, <<>>) /\ Where(<<>>, Clicks) = {}
<1>1. \A K : Where(<<>>, K) = {} /\ Count(<<>>, K) = 0
  BY WhereEmpty
<1>2. SamplesTold(0, <<>>)
  <2>1. Min({0, MAX_PTS}) = 0
    BY LesserOf, BenchAssumption
  <2> QED
    BY <1>1, <2>1, Zenon DEF SamplesTold
<1>3. AxesTold([a \in Axes |-> NoEvents], <<>>)
  <2>1. \A a \in Axes : AxisTold(NoEvents, <<>>, a)
    BY AxisStarts, Zenon
  <2> QED
    BY <2>1, Zenon DEF AxesTold
<1>4. ButtonsTold([b \in 1..5 |-> 0], <<>>)
  BY <1>1 DEF ButtonsTold
<1>5. KeysTold(0, <<>>)
  BY <1>1 DEF KeysTold
<1>6. <<>> \in Seq(Events)
  BY EmptySeq
<1>7. TimesTold(<<>>, <<>>, now)
  BY TimesStart
<1> QED
  BY <1>1, <1>2, <1>3, <1>4, <1>5, <1>6, <1>7, RowsStart, Zenon

LEMMA ResetStep == BenchInv /\ Reset => BenchInv'
<1> SUFFICES ASSUME BenchInv, Reset PROVE BenchInv'
  OBVIOUS
<1>1. clock \in Nat /\ screen \in [rate : Nat, samples : Nat, log : Seq(LogLines)]
  BY DEF BenchInv
<1>2. /\ pts' = 0 /\ logRows' = <<>> /\ moveTimes' = <<>> /\ channels' = [a \in Axes |-> NoEvents]
      /\ btnCount' = [b \in 1..5 |-> 0] /\ keyCount' = 0 /\ ledger' = <<>> /\ painted' = FALSE
      /\ clock' = clock /\ screen' = [screen EXCEPT !.log = <<>>]
  BY DEF Reset
<1>3. screen' \in [rate : Nat, samples : Nat, log : Seq(LogLines)] /\ screen'.log = <<>>
  <2>1. <<>> \in Seq(LogLines)
    BY EmptySeq
  <2> QED
    BY <1>1, <1>2, <2>1
<1>4. /\ <<>> \in Seq(Events) /\ TimesTold(<<>>, <<>>, clock) /\ SamplesTold(0, <<>>) /\ RowsTold(<<>>, <<>>)
      /\ AxesTold([a \in Axes |-> NoEvents], <<>>) /\ ButtonsTold([b \in 1..5 |-> 0], <<>>)
      /\ KeysTold(0, <<>>) /\ Where(<<>>, Clicks) = {}
  BY <1>1, Afresh
<1>5. /\ ledger' \in Seq(Events) /\ TimesTold(moveTimes', ledger', clock') /\ SamplesTold(pts', ledger')
      /\ RowsTold(logRows', ledger') /\ AxesTold(channels', ledger') /\ ButtonsTold(btnCount', ledger')
      /\ KeysTold(keyCount', ledger') /\ Where(ledger', Clicks) = {}
  BY <1>2, <1>4, Zenon
<1> QED
  BY <1>1, <1>2, <1>3, <1>5 DEF BenchInv

LEMMA TimeStep == BenchInv /\ TimeGoesBy => BenchInv'
<1> SUFFICES ASSUME BenchInv, TimeGoesBy PROVE BenchInv'
  OBVIOUS
<1>1. clock' = clock + 1 /\ painted' = FALSE
  BY DEF TimeGoesBy
<1>2. UNCHANGED <<pts, moveTimes, channels, logRows, dirtyLog, btnCount, keyCount, held, down, screen, ledger>>
  BY DEF TimeGoesBy
<1>3. clock \in Nat /\ TimesTold(moveTimes, ledger, clock)
  BY DEF BenchInv
<1>4. clock' \in Nat /\ TimesTold(moveTimes, ledger, clock')
  BY <1>1, <1>3, TimePasses
<1> QED
  BY <1>1, <1>2, <1>4 DEF BenchInv

LEMMA BenchStarts == BenchInit => BenchInv
<1> SUFFICES ASSUME BenchInit PROVE BenchInv
  OBVIOUS
<1>1. /\ clock = 0 /\ pts = 0 /\ moveTimes = <<>> /\ channels = [a \in Axes |-> NoEvents] /\ logRows = <<>>
      /\ btnCount = [b \in 1..5 |-> 0] /\ keyCount = 0 /\ screen = Blank /\ painted = FALSE /\ ledger = <<>>
  BY DEF BenchInit
<1>2. 0 \in Nat
  OBVIOUS
<1>3. /\ <<>> \in Seq(Events) /\ TimesTold(<<>>, <<>>, 0) /\ SamplesTold(0, <<>>) /\ RowsTold(<<>>, <<>>)
      /\ AxesTold([a \in Axes |-> NoEvents], <<>>) /\ ButtonsTold([b \in 1..5 |-> 0], <<>>)
      /\ KeysTold(0, <<>>) /\ Where(<<>>, Clicks) = {}
  BY <1>2, Afresh
<1>4. /\ ledger \in Seq(Events) /\ TimesTold(moveTimes, ledger, clock) /\ SamplesTold(pts, ledger)
      /\ RowsTold(logRows, ledger) /\ AxesTold(channels, ledger) /\ ButtonsTold(btnCount, ledger)
      /\ KeysTold(keyCount, ledger) /\ Where(ledger, Clicks) = {}
  BY <1>1, <1>3, Zenon
<1>5. screen \in [rate : Nat, samples : Nat, log : Seq(LogLines)] /\ screen.log = <<>>
  <2>1. <<>> \in Seq(LogLines)
    BY EmptySeq
  <2> QED
    BY <1>1, <2>1 DEF Blank
<1> QED
  BY <1>1, <1>2, <1>4, <1>5 DEF BenchInv

LEMMA BenchStep == BenchInv /\ [BenchNext]_benchVars => BenchInv'
<1> SUFFICES ASSUME BenchInv, [BenchNext]_benchVars PROVE BenchInv'
  OBVIOUS
<1>1. CASE UNCHANGED benchVars
  BY <1>1 DEF benchVars, BenchInv
<1>2. CASE BenchNext
  BY <1>2, MouseMoveStep, PaintStep, ResetStep, TimeStep, WheelStep, MouseDownStep, MouseUpStep, KeyDownStep, Zenon
  DEF BenchNext
<1> QED
  BY <1>1, <1>2

\* The events that came, by kind and by what they are asked for.
LEMMA CameWhere ==
  ASSUME ledger \in Seq(Events)
  PROVE  /\ Came("move") = Where(ledger, Moves) /\ Came("wheel") = Where(ledger, Wheels)
         /\ Came("down") \cup Came("up") = Where(ledger, Clicks)
         /\ \A T : { i \in Came("move") : T - ledger[i].t <= Window } = Where(ledger, RecentMoves(T))
         /\ \A a : { i \in Came("wheel") : ledger[i][a] # 0 } = Where(ledger, Turns(a))
         /\ \A b : { i \in Came("down") : ledger[i].button = b } = Where(ledger, PressesOf(b))
         /\ { i \in Came("key") : ~ledger[i].repeat } = Where(ledger, FreshKeys)
<1>1. DOMAIN ledger = 1..Len(ledger) /\ \A i \in 1..Len(ledger) : ledger[i] \in Events
  BY LenProperties, ElementOfSeq
<1>2. \A e \in Events : /\ e \in Moves <=> e.kind = "move"
                        /\ e \in Wheels <=> e.kind = "wheel"
                        /\ e \in Presses <=> e.kind = "down"
                        /\ e \in Releases <=> e.kind = "up"
                        /\ e \in KeyEvents <=> e.kind = "key"
  <2> TAKE e \in Events
  <2>1. e \in Moves => e.kind = "move"
    BY DEF Moves
  <2>2. e \in Wheels => e.kind = "wheel"
    BY DEF Wheels
  <2>3. e \in Presses => e.kind = "down"
    BY DEF Presses
  <2>4. e \in Releases => e.kind = "up"
    BY DEF Releases
  <2>5. e \in KeyEvents => e.kind = "key"
    BY DEF KeyEvents
  <2>6. e \in Moves \/ e \in Wheels \/ e \in Presses \/ e \in Releases \/ e \in KeyEvents
    BY DEF Events
  <2> QED
    BY <2>1, <2>2, <2>3, <2>4, <2>5, <2>6
<1>3. \A i \in 1..Len(ledger) : /\ ledger[i] \in Moves <=> ledger[i].kind = "move"
                                /\ ledger[i] \in Wheels <=> ledger[i].kind = "wheel"
                                /\ ledger[i] \in Presses <=> ledger[i].kind = "down"
                                /\ ledger[i] \in Releases <=> ledger[i].kind = "up"
                                /\ ledger[i] \in KeyEvents <=> ledger[i].kind = "key"
  BY <1>1, <1>2
<1>4. /\ Came("move") = Where(ledger, Moves) /\ Came("wheel") = Where(ledger, Wheels)
      /\ Came("down") = Where(ledger, Presses) /\ Came("up") = Where(ledger, Releases)
      /\ Came("key") = Where(ledger, KeyEvents)
  BY <1>1, <1>3 DEF Came, Where
<1>5. Came("down") \cup Came("up") = Where(ledger, Clicks)
  BY <1>4 DEF Where, Clicks
<1>6. \A T : { i \in Came("move") : T - ledger[i].t <= Window } = Where(ledger, RecentMoves(T))
  BY <1>4 DEF Where, RecentMoves
<1>7. \A a : { i \in Came("wheel") : ledger[i][a] # 0 } = Where(ledger, Turns(a))
  BY <1>4 DEF Where, Turns
<1>8. \A b : { i \in Came("down") : ledger[i].button = b } = Where(ledger, PressesOf(b))
  BY <1>4 DEF Where, PressesOf
<1>9. { i \in Came("key") : ~ledger[i].repeat } = Where(ledger, FreshKeys)
  BY <1>4 DEF Where, FreshKeys
<1> QED
  BY <1>4, <1>5, <1>6, <1>7, <1>8, <1>9

\* The least and the greatest of what an axis turned by are what its bounds say.
LEMMA BoundsTell ==
  ASSUME NEW least, NEW most, NEW V, V \subseteq Int, V # {}, Bounds(least, most, V)
  PROVE  least[1] = Min(V) /\ most[1] = Max(V)
<1>1. PICK lo \in V, hi \in V : least = <<lo>> /\ most = <<hi>> /\ \A v \in V : lo <= v /\ v <= hi
  BY DEF Bounds
<1>2. \A z \in V : (\A y \in V : z <= y) => z = lo
  BY <1>1
<1>3. \A z \in V : (\A y \in V : z >= y) => z = hi
  BY <1>1
<1>4. Min(V) = lo
  BY <1>1, <1>2 DEF Min
<1>5. \A y \in V : hi >= y
  BY <1>1
<1>6. Max(V) = hi
  BY <1>3, <1>5 DEF Max
<1> QED
  BY <1>1, <1>4, <1>6

LEMMA PaintedTells ==
  ASSUME BenchInv, painted
  PROVE  /\ screen.rate = Cardinality({ i \in Came("move") : clock - ledger[i].t <= Window })
         /\ screen.samples = Min({Cardinality(Came("move")), MAX_PTS})
         /\ Len(screen.log) = Min({Cardinality(Came("wheel")), LogCap})
         /\ \A nth \in DOMAIN screen.log : \E i \in Came("wheel") :
               /\ Cardinality({ j \in Came("wheel") : j >= i }) = nth
               /\ screen.log[nth] = [x |-> ledger[i].x, y |-> ledger[i].y]
<1>1. /\ ledger \in Seq(Events) /\ SamplesTold(pts, ledger) /\ RowsTold(logRows, ledger)
      /\ screen = PaintedNow(clock, ledger, pts, logRows)
  BY DEF BenchInv
<1>2. screen.rate = Count(ledger, RecentMoves(clock)) /\ screen.samples = pts /\ screen.log = logRows
  BY <1>1 DEF PaintedNow
<1>3. /\ Came("move") = Where(ledger, Moves) /\ Came("wheel") = Where(ledger, Wheels)
      /\ { i \in Came("move") : clock - ledger[i].t <= Window } = Where(ledger, RecentMoves(clock))
  BY <1>1, CameWhere
<1>4. screen.rate = Cardinality({ i \in Came("move") : clock - ledger[i].t <= Window })
  BY <1>2, <1>3 DEF Count
<1>5. screen.samples = Min({Cardinality(Came("move")), MAX_PTS})
  BY <1>1, <1>2, <1>3 DEF SamplesTold, Count
<1>6. Len(screen.log) = Min({Cardinality(Came("wheel")), LogCap})
  BY <1>1, <1>2, <1>3 DEF RowsTold, Count
<1>7. DOMAIN screen.log = 1..Len(logRows)
  BY <1>1, <1>2, LenProperties DEF RowsTold
<1>8. \A nth \in 1..Len(logRows) : \E i \in Where(ledger, Wheels) :
          Cardinality(From(ledger, i)) = nth /\ logRows[nth] = RowOf(ledger, i)
  BY <1>1 DEF RowsTold, AtRow
<1>9. \A i : From(ledger, i) = { j \in Came("wheel") : j >= i }
  BY <1>3 DEF From
<1>10. \A i : RowOf(ledger, i) = [x |-> ledger[i].x, y |-> ledger[i].y]
  BY DEF RowOf
<1>11. \A nth \in DOMAIN screen.log : \E i \in Came("wheel") :
          /\ Cardinality({ j \in Came("wheel") : j >= i }) = nth
          /\ screen.log[nth] = [x |-> ledger[i].x, y |-> ledger[i].y]
  <2> TAKE nth \in DOMAIN screen.log
  <2>1. PICK i \in Where(ledger, Wheels) :
            Cardinality(From(ledger, i)) = nth /\ logRows[nth] = RowOf(ledger, i)
    BY <1>7, <1>8
  <2>2. i \in Came("wheel") /\ Cardinality({ j \in Came("wheel") : j >= i }) = nth
    BY <1>3, <1>9, <2>1
  <2>3. screen.log[nth] = [x |-> ledger[i].x, y |-> ledger[i].y]
    BY <1>2, <1>10, <2>1
  <2> QED
    BY <2>2, <2>3
<1> QED
  BY <1>4, <1>5, <1>6, <1>11

LEMMA AxisTells ==
  ASSUME BenchInv, NEW a \in Axes
  PROVE  /\ channels[a].count = Cardinality({ i \in Came("wheel") : ledger[i][a] # 0 })
         /\ channels[a].sum = TotalOf(a)
         /\ Extremes(a) # {} => channels[a].min[1] = Min(Extremes(a)) /\ channels[a].max[1] = Max(Extremes(a))
<1> DEFINE c == channels[a]
<1>1. ledger \in Seq(Events) /\ AxisTold(c, ledger, a)
  BY DEF BenchInv, AxesTold
<1> HIDE DEF c
<1>2. /\ Came("wheel") = Where(ledger, Wheels)
      /\ { i \in Came("wheel") : ledger[i][a] # 0 } = Where(ledger, Turns(a))
  BY <1>1, CameWhere
<1>3. c.count = Cardinality({ i \in Came("wheel") : ledger[i][a] # 0 })
  BY <1>1, <1>2 DEF AxisTold, Count
<1>4. c.sum = TotalOf(a)
  <2>1. DOMAIN Spread(ledger, a) = Where(ledger, Wheels)
    BY DEF Spread
  <2>2. SumFunction(Spread(ledger, a)) = Summed(Spread(ledger, a), Where(ledger, Wheels))
    BY <2>1, SumFunctionIs, Zenon
  <2>3. TotalOf(a) = SumFunction(Spread(ledger, a))
    BY <1>2, Zenon DEF TotalOf, Spread
  <2> QED
    BY <1>1, <2>2, <2>3, Zenon DEF AxisTold, Total
<1>5. Extremes(a) = Values(ledger, a)
  <2>1. \A v : v \in Extremes(a) <=> \E i \in Where(ledger, Wheels) : ledger[i][a] # 0 /\ v = ledger[i][a]
    BY <1>2 DEF Extremes
  <2>2. \A i : i \in Where(ledger, Turns(a)) <=> i \in Where(ledger, Wheels) /\ ledger[i][a] # 0
    BY DEF Where, Turns
  <2>3. \A v : v \in Values(ledger, a) <=> \E i \in Where(ledger, Wheels) : ledger[i][a] # 0 /\ v = ledger[i][a]
    BY <2>2 DEF Values
  <2> QED
    BY <2>1, <2>3
<1>6. Extremes(a) # {} => c.min[1] = Min(Extremes(a)) /\ c.max[1] = Max(Extremes(a))
  <2> HAVE Extremes(a) # {}
  <2>1. Extremes(a) \subseteq Int /\ Bounds(c.min, c.max, Extremes(a))
    BY <1>1, <1>5, SpreadIsNumbered DEF AxisTold
  <2> HIDE DEF Extremes
  <2> QED
    BY <2>1, BoundsTell, Zenon
<1> QED
  BY <1>3, <1>4, <1>6 DEF c

LEMMA BenchTells == BenchInv => BenchReadsWhatCame
<1> SUFFICES ASSUME BenchInv PROVE BenchReadsWhatCame
  OBVIOUS
<1>1. ledger \in Seq(Events) /\ ButtonsTold(btnCount, ledger) /\ KeysTold(keyCount, ledger)
  BY DEF BenchInv
<1>2. /\ Came("down") \cup Came("up") = Where(ledger, Clicks)
      /\ \A b : { i \in Came("down") : ledger[i].button = b } = Where(ledger, PressesOf(b))
      /\ { i \in Came("key") : ~ledger[i].repeat } = Where(ledger, FreshKeys)
  BY <1>1, CameWhere
<1>3. Came("down") \cup Came("up") # {} => held = down
  BY <1>2 DEF BenchInv
<1>4. \A b \in 1..5 : btnCount[b] = Cardinality({ i \in Came("down") : ledger[i].button = b })
  BY <1>1, <1>2 DEF ButtonsTold, Count
<1>5. keyCount = Cardinality({ i \in Came("key") : ~ledger[i].repeat })
  BY <1>1, <1>2 DEF KeysTold, Count
<1> QED
  BY <1>3, <1>4, <1>5, PaintedTells, AxisTells, Zenon DEF BenchReadsWhatCame

\* Invariant: whatever came since Reset, and however frames and pauses fall between, the bench
\* shows that and nothing else (emu/pointer-bench.html's listeners, frame and reset).
THEOREM BenchReads == BenchSpec => []BenchReadsWhatCame
<1>1. BenchSpec => []BenchInv
  BY BenchStarts, BenchStep, PTL DEF BenchSpec
<1> QED
  BY <1>1, BenchTells, PTL

(***************************************************************************)
(* tools/hiditems.py: the items that were written are the items walked.     *)
(***************************************************************************)
\* The first n pieces of s, joined.
Upto(s, n) == FlattenSeq([i \in 1..n |-> s[i]])

LEMMA UptoStep ==
  ASSUME NEW B, NEW s \in Seq(Seq(B)), NEW n \in Nat, n < Len(s)
  PROVE  Upto(s, n + 1) = Upto(s, n) \o s[n + 1]
<1> DEFINE p == [i \in 1..n |-> s[i]]
           q == [i \in 1 .. n + 1 |-> s[i]]
<1>1. Len(s) \in Nat /\ \A i \in 1..Len(s) : s[i] \in Seq(B)
  BY LenProperties, ElementOfSeq
<1>2. \A i \in 1 .. n + 1 : i \in 1..Len(s)
  BY <1>1
<1>3. p \in Seq(Seq(B)) /\ Len(p) = n /\ s[n + 1] \in Seq(B)
  <2>1. p \in [1..n -> Seq(B)]
    BY <1>1, <1>2
  <2>2. n + 1 \in 1 .. n + 1
    OBVIOUS
  <2>3. s[n + 1] \in Seq(B)
    BY <1>1, <1>2, <2>2
  <2> HIDE DEF p
  <2> QED
    BY <2>1, <2>3, SeqDef, LenProperties
<1>4. Append(p, s[n + 1]) = q
  <2>1. /\ Append(p, s[n + 1]) \in Seq(Seq(B)) /\ Len(Append(p, s[n + 1])) = n + 1
        /\ \A i \in 1..n : Append(p, s[n + 1])[i] = p[i]
        /\ Append(p, s[n + 1])[n + 1] = s[n + 1]
    BY <1>3, AppendProperties
  <2>2. \A i \in 1..n : p[i] = s[i]
    OBVIOUS
  <2> DEFINE a == Append(p, s[n + 1])
  <2>3. DOMAIN a = 1 .. n + 1 /\ a = [i \in DOMAIN a |-> a[i]]
    BY <2>1, LenProperties
  <2>4. \A i \in 1 .. n + 1 : a[i] = s[i]
    <3>1. \A i \in 1 .. n + 1 : i \in 1..n \/ i = n + 1
      OBVIOUS
    <3> HIDE DEF p
    <3> QED
      BY <2>1, <2>2, <3>1
  <2> HIDE DEF a
  <2>5. a = q
    BY <2>3, <2>4
  <2> QED
    BY <2>5 DEF a
<1> HIDE DEF p, q
<1>5. FlattenSeq(Append(p, s[n + 1])) = FlattenSeq(p) \o s[n + 1]
  BY <1>3, FlattenAppend
<1> QED
  BY <1>4, <1>5, Zenon DEF Upto, p, q

LEMMA UptoNone == \A s : Upto(s, 0) = <<>>
<1> TAKE s
<1>1. [i \in 1..0 |-> s[i]] = <<>>
  OBVIOUS
<1>2. FlattenSeq(<<>>) = <<>>
  BY FlattenIs
<1> QED
  BY <1>1, <1>2, Zenon DEF Upto

LEMMA UptoAll == ASSUME NEW B, NEW s \in Seq(B) PROVE Upto(s, Len(s)) = FlattenSeq(s)
<1>1. s = [i \in 1..Len(s) |-> s[i]]
  BY LenProperties
<1> QED
  BY <1>1, Zenon DEF Upto

LEMMA UptoType ==
  ASSUME NEW B, NEW s \in Seq(Seq(B))
  PROVE  \A n \in Nat : n <= Len(s) => Upto(s, n) \in Seq(B)
<1> DEFINE T == { n \in Nat : n <= Len(s) => Upto(s, n) \in Seq(B) }
<1>1. 0 \in T
  <2>1. <<>> \in Seq(B)
    BY EmptySeq
  <2>2. Upto(s, 0) \in Seq(B)
    BY <2>1, UptoNone, Zenon
  <2> QED
    BY <2>2
<1>2. ASSUME NEW n \in Nat, n \in T PROVE n + 1 \in T
  <2> SUFFICES ASSUME n + 1 <= Len(s) PROVE Upto(s, n + 1) \in Seq(B)
    OBVIOUS
  <2>1. Len(s) \in Nat /\ \A i \in 1..Len(s) : s[i] \in Seq(B)
    BY LenProperties, ElementOfSeq
  <2>2. n < Len(s) /\ n <= Len(s) /\ n + 1 \in 1..Len(s)
    BY <2>1
  <2>3. Upto(s, n) \in Seq(B) /\ s[n + 1] \in Seq(B)
    BY <1>2, <2>1, <2>2
  <2>4. Upto(s, n) \o s[n + 1] \in Seq(B)
    BY <2>3, ConcatProperties
  <2> QED
    BY <2>2, <2>4, UptoStep
<1>3. Nat \subseteq T
  <2> HIDE DEF T
  <2> QED
    BY <1>1, <1>2, SetInduction
<1> QED
  BY <1>3

LEMMA UptoGrows ==
  ASSUME NEW B, NEW s \in Seq(Seq(B)), NEW n \in Nat, n <= Len(s)
  PROVE  \A m \in Nat : n <= m /\ m <= Len(s) => StartsWith(Upto(s, m), Upto(s, n))
<1> DEFINE T == { m \in Nat : n <= m /\ m <= Len(s) => StartsWith(Upto(s, m), Upto(s, n)) }
           u == Upto(s, n)
<1>0. Len(s) \in Nat /\ u \in Seq(B) /\ Len(u) \in Nat
  BY UptoType, LenProperties
<1>a. StartsWith(u, u)
  BY <1>0 DEF StartsWith
<1>1. 0 \in T
  <2>1. 0 \in Nat /\ (n <= 0 => n = 0)
    OBVIOUS
  <2> QED
    BY <1>a, <2>1
<1>2. ASSUME NEW m \in Nat, m \in T PROVE m + 1 \in T
  <2> SUFFICES ASSUME n <= m + 1, m + 1 <= Len(s) PROVE StartsWith(Upto(s, m + 1), u)
    OBVIOUS
  <2>1. CASE n = m + 1
    BY <1>a, <2>1
  <2>2. CASE n # m + 1
    <3> DEFINE v == Upto(s, m)
               w == Upto(s, m + 1)
    <3>1. n <= m /\ m < Len(s) /\ m <= Len(s) /\ m + 1 \in 1..Len(s)
      BY <1>0, <2>2
    <3>2. StartsWith(v, u)
      BY <1>2, <3>1
    <3>3. w = v \o s[m + 1] /\ v \in Seq(B) /\ s[m + 1] \in Seq(B)
      <4>1. w = v \o s[m + 1]
        BY <3>1, UptoStep
      <4>2. v \in Seq(B)
        BY <3>1, UptoType, Zenon
      <4>3. s[m + 1] \in Seq(B)
        BY <3>1, ElementOfSeq
      <4> QED
        BY <4>1, <4>2, <4>3
    <3> HIDE DEF v, w, u
    <3>4. /\ Len(w) = Len(v) + Len(s[m + 1]) /\ Len(v) \in Nat /\ Len(s[m + 1]) \in Nat
          /\ \A i \in 1..Len(v) : w[i] = v[i]
      <4>1. /\ Len(w) = Len(v) + Len(s[m + 1])
            /\ \A i \in 1 .. Len(v) + Len(s[m + 1]) : w[i] = IF i <= Len(v) THEN v[i] ELSE s[m + 1][i - Len(v)]
        BY <3>3, ConcatProperties
      <4>2. Len(v) \in Nat /\ Len(s[m + 1]) \in Nat
        BY <3>3, LenProperties
      <4> DEFINE p == Len(v)
                 q == Len(s[m + 1])
      <4>3. \A i \in 1..p : i \in 1 .. p + q /\ i <= p
        BY <4>2
      <4> QED
        BY <4>1, <4>2, <4>3
    <3>5. StartsWith(w, u)
      BY <1>0, <3>2, <3>4 DEF StartsWith
    <3> QED
      BY <3>5 DEF w
  <2> QED
    BY <2>1, <2>2
<1>3. Nat \subseteq T
  <2> HIDE DEF T
  <2> QED
    BY <1>1, <1>2, SetInduction
<1> QED
  BY <1>3

\* x stands in t behind the first n.
Stands(t, n, x) ==
    /\ n \in Nat /\ Len(x) \in Nat /\ n + Len(x) <= Len(t)
    /\ \A i \in 1..Len(x) : t[n + i] = x[i]

LEMMA PieceStands ==
  ASSUME NEW B, NEW s \in Seq(Seq(B)), NEW k \in 1..Len(s)
  PROVE  /\ Stands(FlattenSeq(s), Len(Upto(s, k - 1)), s[k])
         /\ Len(Upto(s, k)) = Len(Upto(s, k - 1)) + Len(s[k])
<1> DEFINE v == Upto(s, k - 1)
           w == Upto(s, k)
           t == FlattenSeq(s)
           x == s[k]
<1>1. Len(s) \in Nat /\ k \in Nat /\ k - 1 \in Nat /\ k <= Len(s) /\ k - 1 < Len(s) /\ (k - 1) + 1 = k
  BY LenProperties
<1>2. w = v \o x
  BY <1>1, UptoStep
<1>3. v \in Seq(B) /\ x \in Seq(B)
  BY <1>1, UptoType, ElementOfSeq
<1>4. StartsWith(t, w)
  <2>1. Upto(s, Len(s)) = t
    BY UptoAll
  <2>2. StartsWith(Upto(s, Len(s)), w)
    BY <1>1, UptoGrows
  <2> QED
    BY <2>1, <2>2, Zenon
<1> HIDE DEF v, w, t, x
<1>5. /\ Len(w) = Len(v) + Len(x)
      /\ \A i \in 1 .. Len(v) + Len(x) : w[i] = IF i <= Len(v) THEN v[i] ELSE x[i - Len(v)]
  BY <1>2, <1>3, ConcatProperties
<1>6. Len(v) \in Nat /\ Len(x) \in Nat
  BY <1>3, LenProperties
<1>7. \A i \in 1..Len(x) : t[Len(v) + i] = x[i]
  <2> TAKE i \in 1..Len(x)
  <2>1. Len(v) + i \in 1 .. Len(v) + Len(x) /\ ~(Len(v) + i <= Len(v)) /\ (Len(v) + i) - Len(v) = i
    BY <1>6
  <2>2. w[Len(v) + i] = x[(Len(v) + i) - Len(v)]
    BY <1>5, <2>1, Zenon
  <2>3. t[Len(v) + i] = w[Len(v) + i]
    BY <1>4, <1>5, <2>1 DEF StartsWith
  <2> QED
    BY <2>1, <2>2, <2>3, Zenon
<1>8. Stands(t, Len(v), x)
  BY <1>4, <1>5, <1>6, <1>7 DEF Stands, StartsWith
<1> QED
  BY <1>5, <1>8, Zenon DEF v, w, t, x

LEMMA Cut ==
  ASSUME NEW B, NEW t \in Seq(B), NEW x \in Seq(B), NEW n, Stands(t, n, x)
  PROVE  SubSeq(t, n + 1, n + Len(x)) = x
<1> DEFINE y == SubSeq(t, n + 1, n + Len(x))
<1>1. n \in Nat /\ Len(x) \in Nat /\ Len(t) \in Nat /\ n + Len(x) <= Len(t)
  BY LenProperties DEF Stands
<1>2. \A i \in n + 1 .. n + Len(x) : t[i] \in B
  <2> TAKE i \in n + 1 .. n + Len(x)
  <2>1. i \in 1..Len(t)
    BY <1>1
  <2> QED
    BY <2>1, ElementOfSeq
<1>3. /\ y \in Seq(B) /\ Len(y) = IF n + 1 <= n + Len(x) THEN (n + Len(x)) - (n + 1) + 1 ELSE 0
      /\ \A i \in 1 .. (n + Len(x)) - (n + 1) + 1 : y[i] = t[(n + 1) + i - 1]
  BY <1>1, <1>2, SubSeqProperties
<1> HIDE DEF y
<1>4. Len(y) = Len(x)
  BY <1>1, <1>3
<1>5. \A i \in 1..Len(x) : y[i] = x[i]
  <2> TAKE i \in 1..Len(x)
  <2>1. i \in 1 .. (n + Len(x)) - (n + 1) + 1 /\ (n + 1) + i - 1 = n + i
    BY <1>1
  <2>2. y[i] = t[n + i]
    BY <1>3, <2>1
  <2> QED
    BY <2>2 DEF Stands
<1>6. y = x
  BY <1>3, <1>4, <1>5, SeqEqual
<1> QED
  BY <1>6 DEF y

\* A number below 256^size is told by that many bytes, and a prefix by its tag and its size.
LEMMA Digits ==
  ASSUME NEW v \in Nat
  PROVE  /\ v < 256 => v = v % 256
         /\ v < 65536 => v = (v % 256) + 256 * ((v \div 256) % 256)
         /\ v < 4294967296 => v = (v % 256) + 256 * ((v \div 256) % 256) + 65536 * ((v \div 65536) % 256)
                                     + 16777216 * ((v \div 16777216) % 256)
<1>1. v < 256 => v = v % 256
  OBVIOUS
<1>2. v < 65536 => v = (v % 256) + 256 * ((v \div 256) % 256)
  OBVIOUS
<1>3. v < 4294967296 => v = (v % 256) + 256 * ((v \div 256) % 256) + 65536 * ((v \div 65536) % 256)
                                     + 16777216 * ((v \div 16777216) % 256)
  OBVIOUS
<1> QED
  BY <1>1, <1>2, <1>3

LEMMA Weights ==
    /\ Weight[1] = 1 /\ Weight[2] = 256 /\ Weight[3] = 65536 /\ Weight[4] = 16777216
    /\ Room(0) = 1 /\ Room(1) = 256 /\ Room(2) = 65536 /\ Room(4) = 4294967296
BY DEF Weight, Room

LEMMA Prefix == 
  ASSUME NEW n \in 0..62, NEW z \in {0, 1, 2, 4}
  PROVE  LET b == 4 * n + (IF z = 4 THEN 3 ELSE z)
         IN  b \in 0..253 /\ b - (b % 4) = 4 * n /\ b % 4 = (IF z = 4 THEN 3 ELSE z)
OBVIOUS

AllItems == ShortItems \cup LongItems

LEMMA ShortFields ==
  ASSUME NEW item \in ShortItems
  PROVE  /\ \E n \in 0..62 : item.tag = 4 * n
         /\ item.tag \in Nat /\ item.tag # LONG_ITEM /\ item.size \in {0, 1, 2, 4} /\ item.value \in Nat
         /\ item.value < Room(item.size)
BY DEF ShortItems, LONG_ITEM

LEMMA LongFields ==
  ASSUME NEW item \in LongItems
  PROVE  item.tag = LONG_ITEM /\ item.size \in Byte /\ item.value \in Seq(Byte) /\ item.size = Len(item.value)
BY DEF LongItems

\* The prefix of a short item
Lead(item) == item.tag + (IF item.size = 4 THEN 3 ELSE item.size)

LEMMA ShortCode ==
  ASSUME NEW item \in ShortItems
  PROVE  /\ Encode(item) \in Seq(Byte) /\ Len(Encode(item)) = item.size + 1
         /\ Encode(item)[1] = Lead(item)
         /\ \A k \in 1..item.size : Encode(item)[k + 1] = (item.value \div Weight[k]) % 256
<1> DEFINE w == Little(item.value, item.size)
           e == <<Lead(item)>> \o w
<1>1. item.tag # LONG_ITEM /\ item.size \in {0, 1, 2, 4} /\ item.value \in Nat
  BY ShortFields
<1>2. Encode(item) = e
  BY <1>1 DEF Encode, Lead
<1>3. Lead(item) \in Byte
  <2>1. PICK n \in 0..62 : item.tag = 4 * n
    BY ShortFields
  <2> QED
    BY <1>1, <2>1 DEF Lead, Byte
<1>4. \A k \in 1..item.size : Weight[k] \in Nat \ {0}
  <2>1. \A k \in 1..4 : Weight[k] \in Nat \ {0}
    BY Weights
  <2>2. \A k \in 1..item.size : k \in 1..4
    BY <1>1
  <2> QED
    BY <2>1, <2>2
<1>5. w \in Seq(Byte) /\ Len(w) = item.size /\ \A k \in 1..item.size : w[k] = (item.value \div Weight[k]) % 256
  <2>1. w = [k \in 1..item.size |-> (item.value \div Weight[k]) % 256]
    BY DEF Little
  <2>2. \A k \in 1..item.size : (item.value \div Weight[k]) % 256 \in Byte
    <3> TAKE k \in 1..item.size
    <3>1. Weight[k] \in Nat \ {0}
      BY <1>4
    <3> DEFINE d == Weight[k]
    <3> HIDE DEF d
    <3>2. d \in Nat \ {0}
      BY <3>1 DEF d
    <3>3. item.value \div d \in Nat
      BY <1>1, <3>2
    <3>4. (item.value \div d) % 256 \in Byte
      BY <3>3 DEF Byte
    <3> QED
      BY <3>4 DEF d
  <2> HIDE DEF w
  <2>3. w \in [1..item.size -> Byte] /\ item.size \in Nat
    BY <1>1, <2>1, <2>2
  <2>4. w \in Seq(Byte)
    BY <2>3, SeqDef
  <2> QED
    BY <2>1, <2>3, <2>4, LenProperties
<1>6. <<Lead(item)>> \in Seq(Byte) /\ Len(<<Lead(item)>>) = 1 /\ <<Lead(item)>>[1] = Lead(item)
  BY <1>3
<1> HIDE DEF w
<1>7. /\ e \in Seq(Byte) /\ Len(e) = 1 + item.size
      /\ \A i \in 1 .. 1 + item.size : e[i] = IF i <= 1 THEN <<Lead(item)>>[i] ELSE w[i - 1]
  BY <1>5, <1>6, ConcatProperties
<1> HIDE DEF e
<1>8. e[1] = Lead(item)
  BY <1>1, <1>6, <1>7
<1>9. \A k \in 1..item.size : e[k + 1] = w[k]
  <2> TAKE k \in 1..item.size
  <2>1. k + 1 \in 1 .. 1 + item.size /\ ~(k + 1 <= 1) /\ (k + 1) - 1 = k
    BY <1>1
  <2>2. e[k + 1] = w[(k + 1) - 1]
    BY <1>7, <2>1, Zenon
  <2> QED
    BY <2>1, <2>2, Zenon
<1>10. Len(e) = item.size + 1
  BY <1>1, <1>7
<1> QED
  BY <1>2, <1>5, <1>7, <1>8, <1>9, <1>10

LEMMA LongCode ==
  ASSUME NEW item \in LongItems
  PROVE  /\ Encode(item) \in Seq(Byte) /\ Len(Encode(item)) = item.size + 3
         /\ Encode(item)[1] = LONG_ITEM /\ Encode(item)[2] = item.size
<1> DEFINE h == <<LONG_ITEM, item.size, 0>>
           v == item.value
           e == h \o v
<1>1. item.tag = LONG_ITEM /\ item.size \in Byte /\ v \in Seq(Byte) /\ item.size = Len(v)
  BY LongFields
<1>2. Encode(item) = e
  BY <1>1 DEF Encode
<1>3. h \in Seq(Byte) /\ Len(h) = 3 /\ h[1] = LONG_ITEM /\ h[2] = item.size
  <2>1. LONG_ITEM \in Byte /\ item.size \in Byte /\ 0 \in Byte
    BY <1>1 DEF Byte, LONG_ITEM
  <2>2. \A a, b, c \in Byte : /\ <<a, b, c>> \in Seq(Byte) /\ Len(<<a, b, c>>) = 3
                              /\ <<a, b, c>>[1] = a /\ <<a, b, c>>[2] = b
    OBVIOUS
  <2> QED
    BY <2>1, <2>2, Zenon
<1> HIDE DEF h, v
<1>4. /\ e \in Seq(Byte) /\ Len(e) = 3 + Len(v)
      /\ \A i \in 1 .. 3 + Len(v) : e[i] = IF i <= 3 THEN h[i] ELSE v[i - 3]
  <2>1. h \in Seq(Byte) /\ v \in Seq(Byte)
    BY <1>1, <1>3, Zenon
  <2>2. /\ e \in Seq(Byte) /\ Len(e) = Len(h) + Len(v)
        /\ \A i \in 1 .. Len(h) + Len(v) : e[i] = IF i <= Len(h) THEN h[i] ELSE v[i - Len(h)]
    BY <2>1, ConcatProperties
  <2> QED
    BY <1>3, <2>2, Zenon
<1>5. Len(v) \in Nat
  BY <1>1, LenProperties
<1> HIDE DEF e
<1>6. e[1] = h[1] /\ e[2] = h[2] /\ Len(e) = item.size + 3
  BY <1>1, <1>4, <1>5
<1> QED
  BY <1>2, <1>3, <1>4, <1>6

\* What walk_items tells of an item that stands behind n bytes.
Seen(item, n) ==
    [ tag |-> item.tag, size |-> item.size, value |-> IF item.tag = LONG_ITEM THEN 0 ELSE item.value,
      offset |-> n + 1, end |-> n + 1 + Len(Encode(item)) ]

LEMMA ShortAt ==
  \A data, i, size, bytes :
      /\ size = (IF data[i] % 4 = 3 THEN 4 ELSE data[i] % 4)
      /\ bytes = [k \in 1..4 |-> IF k <= size /\ i + k <= Len(data) THEN data[i + k] ELSE 0]
      => ItemAtShort(data, i) =
             [ tag |-> data[i] - (data[i] % 4), size |-> size,
               value |-> FromLittle(bytes),
               offset |-> i, end |-> i + 1 + size ]
BY DEF ItemAtShort

LEMMA ReadsShort ==
  ASSUME NEW item \in ShortItems, NEW data \in Seq(Byte), NEW n, Stands(data, n, Encode(item))
  PROVE  ItemAt(data, n + 1) = Seen(item, n)
<1> DEFINE i == n + 1
           p == data[i]
           z == item.size
           v == item.value
           size == IF p % 4 = 3 THEN 4 ELSE p % 4
           bytes == [k \in 1..4 |-> IF k <= size /\ i + k <= Len(data) THEN data[i + k] ELSE 0]
           value == FromLittle(bytes)
<1>1. item.tag # LONG_ITEM /\ z \in {0, 1, 2, 4} /\ v \in Nat /\ v < Room(z) /\ item.tag \in Nat
  BY ShortFields
<1>2. n \in Nat /\ Len(data) \in Nat /\ n + z + 1 <= Len(data) /\ Len(Encode(item)) = z + 1
  <2>1. Len(Encode(item)) = z + 1 /\ n \in Nat /\ n + Len(Encode(item)) <= Len(data) /\ Len(data) \in Nat
    BY ShortCode, LenProperties DEF Stands
  <2> QED
    BY <1>1, <2>1
<1>3. p = Lead(item) /\ \A k \in 1..z : data[i + k] = (v \div Weight[k]) % 256
  <2>1. \A k \in 1 .. z + 1 : data[n + k] = Encode(item)[k]
    BY <1>2 DEF Stands
  <2>2. Encode(item)[1] = Lead(item) /\ \A k \in 1..z : Encode(item)[k + 1] = (v \div Weight[k]) % 256
    BY ShortCode
  <2>3. 1 \in 1 .. z + 1
    BY <1>1
  <2>4. \A k \in 1..z : k + 1 \in 1 .. z + 1 /\ n + (k + 1) = i + k
    BY <1>1, <1>2
  <2>5. p = Lead(item)
    BY <2>1, <2>2, <2>3
  <2>6. ASSUME NEW k \in 1..z PROVE data[i + k] = (v \div Weight[k]) % 256
    BY <2>1, <2>2, <2>4, Zenon
  <2> QED
    BY <2>5, <2>6, Zenon
<1>4. p \in 0..253 /\ p - (p % 4) = item.tag /\ p % 4 = (IF z = 4 THEN 3 ELSE z)
  <2>1. PICK m \in 0..62 : item.tag = 4 * m
    BY ShortFields
  <2>2. p = 4 * m + (IF z = 4 THEN 3 ELSE z)
    BY <1>3, <2>1 DEF Lead
  <2> HIDE DEF p, z
  <2>3. z \in {0, 1, 2, 4}
    BY <1>1
  <2> QED
    BY <2>1, <2>2, <2>3, Prefix
<1>5. size = z
  BY <1>1, <1>4
<1>6. \A k \in 1..4 : bytes[k] = IF k <= z THEN (v \div Weight[k]) % 256 ELSE 0
  <2> TAKE k \in 1..4
  <2>1. bytes[k] = IF k <= size /\ i + k <= Len(data) THEN data[i + k] ELSE 0
    OBVIOUS
  <2> HIDE DEF bytes, size
  <2>2. CASE k <= z
    <3>1. i + k <= Len(data) /\ k \in 1..z
      BY <1>1, <1>2, <2>2
    <3>2. data[i + k] = (v \div Weight[k]) % 256
      BY <1>3, <3>1
    <3> QED
      BY <1>5, <2>1, <2>2, <3>1, <3>2, Zenon
  <2>3. CASE ~(k <= z)
    BY <1>5, <2>1, <2>3, Zenon
  <2> QED
    BY <2>2, <2>3
<1> HIDE DEF bytes
<1>7. value = v
  <2>0. value = bytes[1] + 256 * bytes[2] + 65536 * bytes[3] + 16777216 * bytes[4]
    BY DEF FromLittle
  <2> HIDE DEF value
  <2>1. 1 \in 1..4 /\ 2 \in 1..4 /\ 3 \in 1..4 /\ 4 \in 1..4
    OBVIOUS
  <2>2. CASE z = 0
    <3>1. bytes[1] = 0 /\ bytes[2] = 0 /\ bytes[3] = 0 /\ bytes[4] = 0
      BY <1>6, <2>1, <2>2
    <3>2. v < 1
      BY <1>1, <2>2, Weights
    <3> QED
      BY <1>1, <2>0, <3>1, <3>2
  <2>3. CASE z = 1
    <3>1. bytes[1] = (v \div 1) % 256 /\ bytes[2] = 0 /\ bytes[3] = 0 /\ bytes[4] = 0
      BY <1>6, <2>1, <2>3, Weights
    <3>2. v < 256 /\ v \div 1 = v
      BY <1>1, <2>3, Weights
    <3> HIDE DEF v
    <3>3. v \in Nat
      BY <1>1
    <3>4. v = v % 256
      BY <3>2, <3>3, Digits
    <3> QED
      BY <2>0, <3>1, <3>2, <3>3, <3>4
  <2>4. CASE z = 2
    <3>1. bytes[1] = (v \div 1) % 256 /\ bytes[2] = (v \div 256) % 256 /\ bytes[3] = 0 /\ bytes[4] = 0
      BY <1>6, <2>1, <2>4, Weights
    <3>2. v < 65536 /\ v \div 1 = v
      BY <1>1, <2>4, Weights
    <3> HIDE DEF v
    <3>3. v \in Nat
      BY <1>1
    <3>4. v = (v % 256) + 256 * ((v \div 256) % 256)
      BY <3>2, <3>3, Digits
    <3> QED
      BY <2>0, <3>1, <3>2, <3>3, <3>4
  <2>5. CASE z = 4
    <3>1. /\ bytes[1] = (v \div 1) % 256 /\ bytes[2] = (v \div 256) % 256
          /\ bytes[3] = (v \div 65536) % 256 /\ bytes[4] = (v \div 16777216) % 256
      BY <1>6, <2>1, <2>5, Weights
    <3>2. v < 4294967296 /\ v \div 1 = v
      BY <1>1, <2>5, Weights
    <3> HIDE DEF v
    <3>3. v \in Nat
      BY <1>1
    <3>4. v = (v % 256) + 256 * ((v \div 256) % 256) + 65536 * ((v \div 65536) % 256)
                + 16777216 * ((v \div 16777216) % 256)
      BY <3>2, <3>3, Digits
    <3> QED
      BY <2>0, <3>1, <3>2, <3>3, <3>4
  <2> QED
    BY <1>1, <2>2, <2>3, <2>4, <2>5
<1>8. p # LONG_ITEM
  <2>1. p \in 0..253
    BY <1>4, Zenon
  <2> HIDE DEF p
  <2> QED
    BY <2>1 DEF LONG_ITEM
<1>9. ItemAt(data, i) = [tag |-> p - (p % 4), size |-> size, value |-> value, offset |-> i, end |-> i + 1 + size]
  <2>1. ItemAt(data, i) = ItemAtShort(data, i)
    <3> HIDE DEF bytes, size, value
    <3> QED
      BY <1>8 DEF ItemAt
  <2>2. bytes = [k \in 1..4 |-> IF k <= size /\ i + k <= Len(data) THEN data[i + k] ELSE 0]
    BY DEF bytes
  <2>3. ItemAtShort(data, i) = [tag |-> p - (p % 4), size |-> size, value |-> value, offset |-> i, end |-> i + 1 + size]
    <3>1. size = (IF data[i] % 4 = 3 THEN 4 ELSE data[i] % 4)
      OBVIOUS
    <3> HIDE DEF size, bytes, i
    <3> QED
      BY <2>2, <3>1, ShortAt, Zenon
  <2> HIDE DEF size, value, p, i
  <2> QED
    BY <2>1, <2>3, Zenon
<1>10. i + 1 + z = n + 1 + Len(Encode(item))
  BY <1>1, <1>2
<1> HIDE DEF p, size, value
<1>11. ItemAt(data, i) = [tag |-> item.tag, size |-> z, value |-> v, offset |-> i, end |-> n + 1 + Len(Encode(item))]
  BY <1>4, <1>5, <1>7, <1>9, <1>10, Zenon
<1> QED
  BY <1>1, <1>11 DEF Seen

LEMMA ReadsLong ==
  ASSUME NEW item \in LongItems, NEW data \in Seq(Byte), NEW n, Stands(data, n, Encode(item))
  PROVE  ItemAt(data, n + 1) = Seen(item, n)
<1>1. item.tag = LONG_ITEM /\ item.size \in Nat
  BY LongFields DEF Byte
<1>2. Len(Encode(item)) = item.size + 3 /\ n \in Nat /\ n + Len(Encode(item)) <= Len(data) /\ Len(data) \in Nat
  BY LongCode, LenProperties DEF Stands
<1>3. data[n + 1] = LONG_ITEM /\ data[n + 2] = item.size
  <2>1. 1 \in 1..Len(Encode(item)) /\ 2 \in 1..Len(Encode(item))
    BY <1>1, <1>2
  <2> QED
    BY <2>1, LongCode DEF Stands
<1>4. n + 1 < Len(data) /\ (n + 1) + 1 = n + 2 /\ n + 1 + 3 + item.size = n + 1 + Len(Encode(item))
  BY <1>1, <1>2
<1>5. ItemAt(data, n + 1) =
          [tag |-> LONG_ITEM, size |-> item.size, value |-> 0, offset |-> n + 1, end |-> n + 1 + 3 + item.size]
  BY <1>3, <1>4 DEF ItemAt
<1> QED
  BY <1>1, <1>4, <1>5 DEF Seen

LEMMA ReadsItem ==
  ASSUME NEW item \in AllItems, NEW data \in Seq(Byte), NEW n, Stands(data, n, Encode(item))
  PROVE  ItemAt(data, n + 1) = Seen(item, n)
BY ReadsShort, ReadsLong DEF AllItems

LEMMA Codes ==
  ASSUME NEW item \in AllItems
  PROVE  Encode(item) \in Seq(Byte) /\ Len(Encode(item)) \in Nat /\ Len(Encode(item)) >= 1
<1>1. CASE item \in ShortItems
  BY <1>1, ShortCode, ShortFields
<1>2. CASE item \in LongItems
  BY <1>2, LongCode, LongFields DEF Byte
<1> QED
  BY <1>1, <1>2 DEF AllItems

\* The bytes of the items S, item by item and in one.
Coded(S) == [k \in 1..Len(S) |-> Encode(S[k])]
Encoded(S) == FlattenSeq(Coded(S))

\* The bytes before item k
Offset(S, k) == Len(Upto(Coded(S), k - 1))

LEMMA FlattenType == ASSUME NEW B, NEW s \in Seq(Seq(B)) PROVE FlattenSeq(s) \in Seq(B)
<1>1. Len(s) \in Nat /\ Len(s) <= Len(s)
  BY LenProperties
<1>2. Upto(s, Len(s)) \in Seq(B)
  BY <1>1, UptoType
<1>3. Upto(s, Len(s)) = FlattenSeq(s)
  BY UptoAll
<1> QED
  BY <1>2, <1>3, Zenon

LEMMA Coding ==
  ASSUME NEW S \in Seq(AllItems)
  PROVE  /\ Coded(S) \in Seq(Seq(Byte)) /\ Len(Coded(S)) = Len(S) /\ Len(S) \in Nat
         /\ \A k \in 1..Len(S) : Coded(S)[k] = Encode(S[k]) /\ S[k] \in AllItems
         /\ Encoded(S) \in Seq(Byte)
<1>1. Len(S) \in Nat /\ \A k \in 1..Len(S) : S[k] \in AllItems
  BY LenProperties, ElementOfSeq
<1>2. \A k \in 1..Len(S) : Encode(S[k]) \in Seq(Byte)
  BY <1>1, Codes
<1>3. Coded(S) \in [1..Len(S) -> Seq(Byte)]
  BY <1>2 DEF Coded
<1>4. Coded(S) \in Seq(Seq(Byte)) /\ Len(Coded(S)) = Len(S)
  BY <1>1, <1>3, SeqDef, LenProperties
<1>5. Encoded(S) \in Seq(Byte)
  BY <1>4, FlattenType DEF Encoded
<1> QED
  BY <1>1, <1>4, <1>5 DEF Coded

LEMMA Standing ==
  ASSUME NEW S \in Seq(AllItems)
  PROVE  /\ Offset(S, 1) = 0
         /\ Offset(S, Len(S) + 1) = Len(Encoded(S))
         /\ \A k \in 1..Len(S) : /\ Stands(Encoded(S), Offset(S, k), Encode(S[k]))
                                 /\ Offset(S, k + 1) = Offset(S, k) + Len(Encode(S[k]))
<1> DEFINE c == Coded(S)
<1>1. c \in Seq(Seq(Byte)) /\ Len(c) = Len(S) /\ Len(S) \in Nat /\ \A k \in 1..Len(S) : c[k] = Encode(S[k])
  BY Coding
<1>2. Offset(S, 1) = 0
  <2>1. 1 - 1 = 0 /\ Upto(c, 0) = <<>> /\ Len(<<>>) = 0
    BY UptoNone
  <2> QED
    BY <2>1, Zenon DEF Offset
<1>3. Offset(S, Len(S) + 1) = Len(Encoded(S))
  <2>1. (Len(S) + 1) - 1 = Len(c)
    BY <1>1
  <2>2. Upto(c, Len(c)) = Encoded(S)
    BY <1>1, UptoAll DEF Encoded
  <2> QED
    BY <2>1, <2>2, Zenon DEF Offset
<1>4. ASSUME NEW k \in 1..Len(S)
      PROVE  /\ Stands(Encoded(S), Offset(S, k), Encode(S[k]))
             /\ Offset(S, k + 1) = Offset(S, k) + Len(Encode(S[k]))
  <2>1. k \in 1..Len(c) /\ c[k] = Encode(S[k]) /\ (k + 1) - 1 = k
    BY <1>1
  <2>2. Stands(FlattenSeq(c), Len(Upto(c, k - 1)), c[k]) /\ Len(Upto(c, k)) = Len(Upto(c, k - 1)) + Len(c[k])
    BY <1>1, <2>1, PieceStands
  <2> QED
    BY <2>1, <2>2, Zenon DEF Offset, Encoded
<1> QED
  BY <1>2, <1>3, <1>4

LEMMA Offsets ==
  ASSUME NEW S \in Seq(AllItems)
  PROVE  /\ \A k \in 1 .. Len(S) + 1 : Offset(S, k) \in Nat /\ k - 1 <= Offset(S, k) /\ Offset(S, k) <= Len(Encoded(S))
         /\ \A k \in 1..Len(S) : Offset(S, k) + Len(Encode(S[k])) <= Len(Encoded(S))
<1>1. Len(S) \in Nat /\ Len(Encoded(S)) \in Nat /\ \A k \in 1..Len(S) : S[k] \in AllItems
  BY Coding, LenProperties
<1>2. \A k \in 1..Len(S) : Len(Encode(S[k])) \in Nat /\ Len(Encode(S[k])) >= 1
  BY <1>1, Codes
<1>3. \A k \in 1..Len(S) : /\ Offset(S, k) \in Nat /\ Offset(S, k) + Len(Encode(S[k])) <= Len(Encoded(S))
                           /\ Offset(S, k + 1) = Offset(S, k) + Len(Encode(S[k]))
  BY Standing DEF Stands
<1>4. Offset(S, 1) = 0 /\ Offset(S, Len(S) + 1) = Len(Encoded(S))
  BY Standing
<1> DEFINE T == { n \in Nat : n <= Len(S) => n <= Offset(S, n + 1) }
<1>5. 0 \in T
  <2>1. 0 + 1 = 1
    OBVIOUS
  <2> QED
    BY <1>4, <2>1
<1>6. ASSUME NEW n \in Nat, n \in T PROVE n + 1 \in T
  <2> SUFFICES ASSUME n + 1 <= Len(S) PROVE n + 1 <= Offset(S, (n + 1) + 1)
    OBVIOUS
  <2>1. n <= Len(S) /\ n + 1 \in 1..Len(S)
    BY <1>1
  <2> DEFINE w == Offset(S, n + 1)
             x == Offset(S, (n + 1) + 1)
             l == Len(Encode(S[n + 1]))
  <2>2. n <= w /\ w \in Nat /\ x = w + l /\ l \in Nat /\ l >= 1
    BY <1>2, <1>3, <1>6, <2>1
  <2> HIDE DEF w, x, l
  <2>3. n + 1 <= x
    BY <2>2
  <2> QED
    BY <2>3 DEF x
<1>7. Nat \subseteq T
  <2> HIDE DEF T
  <2> QED
    BY <1>5, <1>6, SetInduction
<1>8. ASSUME NEW k \in 1 .. Len(S) + 1 PROVE Offset(S, k) \in Nat /\ k - 1 <= Offset(S, k) /\ Offset(S, k) <= Len(Encoded(S))
  <2>1. k - 1 \in T /\ (k - 1) + 1 = k /\ k - 1 <= Len(S)
    BY <1>1, <1>7
  <2>2. k - 1 <= Offset(S, k)
    BY <2>1
  <2>3. CASE k = Len(S) + 1
    BY <1>1, <1>4, <2>2, <2>3
  <2>4. CASE k # Len(S) + 1
    <3>1. k \in 1..Len(S)
      BY <1>1, <2>4
    <3>2. Offset(S, k) \in Nat /\ Len(Encode(S[k])) \in Nat /\ Offset(S, k) + Len(Encode(S[k])) <= Len(Encoded(S))
      BY <1>2, <1>3, <3>1
    <3> DEFINE w == Offset(S, k)
               l == Len(Encode(S[k]))
               e == Len(Encoded(S))
    <3> HIDE DEF w, l, e
    <3>3. w \in Nat /\ w <= e
      <4>1. w \in Nat /\ l \in Nat /\ e \in Nat /\ w + l <= e
        BY <1>1, <3>2 DEF w, l, e
      <4> QED
        BY <4>1
    <3> QED
      BY <2>2, <3>3 DEF w, e
  <2> QED
    BY <2>3, <2>4
<1> QED
  BY <1>3, <1>8

\* Two functions with one recursion are one.
OneRecursion(F, G, N) == F[0] = G[0] /\ \A k \in 1..N : F[k - 1] = G[k - 1] => F[k] = G[k]
Same(F, G, N) == \A k \in 0..N : F[k] = G[k]

LEMMA Alongside ==
  ASSUME NEW N \in Nat, NEW F, NEW G, OneRecursion(F, G, N)
  PROVE  Same(F, G, N)
<1> USE DEF OneRecursion, Same
<1> DEFINE T == { n \in Nat : n <= N => F[n] = G[n] }
<1>1. 0 \in T
  OBVIOUS
<1>2. ASSUME NEW n \in Nat, n \in T PROVE n + 1 \in T
  <2> SUFFICES ASSUME n + 1 <= N PROVE F[n + 1] = G[n + 1]
    OBVIOUS
  <2>1. n + 1 \in 1..N /\ (n + 1) - 1 = n /\ n <= N
    OBVIOUS
  <2>2. F[n] = G[n]
    BY <1>2, <2>1
  <2> QED
    BY <2>1, <2>2, Zenon
<1>3. Nat \subseteq T
  <2> HIDE DEF T
  <2> QED
    BY <1>1, <1>2, SetInduction
<1> QED
  BY <1>3

LEMMA Extend ==
  ASSUME NEW f, NEW k \in Nat \ {0}
  PROVE  Append([j \in 1 .. k - 1 |-> f[j]], f[k]) = [j \in 1..k |-> f[j]]
<1> DEFINE B == { f[j] : j \in 1..k }
           p == [j \in 1 .. k - 1 |-> f[j]]
           q == [j \in 1..k |-> f[j]]
           a == Append(p, f[k])
<1>1. p \in [1 .. k - 1 -> B] /\ f[k] \in B /\ k - 1 \in Nat
  OBVIOUS
<1> HIDE DEF B
<1>2. p \in Seq(B) /\ Len(p) = k - 1
  <2> HIDE DEF p
  <2> QED
    BY <1>1, SeqDef, LenProperties
<1>3. \A j \in 1 .. k - 1 : p[j] = f[j]
  OBVIOUS
<1> HIDE DEF p
<1>4. a \in Seq(B) /\ Len(a) = k /\ (\A j \in 1 .. k - 1 : a[j] = p[j]) /\ a[k] = f[k]
  <2>1. Len(a) = Len(p) + 1 /\ (\A j \in 1..Len(p) : a[j] = p[j]) /\ a[Len(p) + 1] = f[k] /\ a \in Seq(B)
    BY <1>1, <1>2, AppendProperties
  <2>2. Len(p) + 1 = k
    BY <1>2
  <2> QED
    BY <1>2, <2>1, <2>2, Zenon
<1>5. DOMAIN a = 1..k /\ a = [j \in DOMAIN a |-> a[j]]
  BY <1>4, LenProperties
<1>6. \A j \in 1..k : a[j] = f[j]
  BY <1>3, <1>4
<1> HIDE DEF a
<1>7. a = q
  BY <1>5, <1>6
<1> QED
  BY <1>7 DEF a, p

\* What walk_items yields of the items S.
Read(S) == [k \in 1..Len(S) |-> Seen(S[k], Offset(S, k))]

Walking(F, data) == F = [k \in 0..Len(data) |->
                           IF k = 0 THEN [yielded |-> <<>>, i |-> 1] ELSE WalkStep(data, F[k - 1])]

LEMMA WalkIs == \A data : Walk(data) = (CHOOSE F : Walking(F, data))[Len(data)].yielded
BY Zenon DEF Walk, Walking

Done(S, k) == IF k <= Len(S) THEN k ELSE Len(S)
WalkedSoFar(S, k) == [yielded |-> [j \in 1..Done(S, k) |-> Read(S)[j]], i |-> Offset(S, Done(S, k) + 1) + 1]

LEMMA WalkRound ==
  ASSUME NEW S \in Seq(AllItems), NEW k \in 1..Len(Encoded(S))
  PROVE  WalkStep(Encoded(S), WalkedSoFar(S, k - 1)) = WalkedSoFar(S, k)
<1> DEFINE data == Encoded(S)
           n == Len(S)
           end == Len(data)
           w == Offset(S, k)
           e == Encode(S[k])
           old == WalkedSoFar(S, k - 1)
<1>1. n \in Nat /\ end \in Nat /\ data \in Seq(Byte) /\ k \in Nat
  BY Coding, LenProperties
<1>2. CASE k <= n
  <2>1. k \in 1..n /\ Done(S, k) = k /\ Done(S, k - 1) = k - 1 /\ (k - 1) + 1 = k
    BY <1>1, <1>2 DEF Done
  <2>2. S[k] \in AllItems /\ Stands(data, w, e) /\ Offset(S, k + 1) = w + Len(e)
    BY <2>1, Coding, Standing
  <2>3. w \in Nat /\ Len(e) \in Nat /\ Len(e) >= 1 /\ w + Len(e) <= end
    BY <2>2, Codes DEF Stands
  <2> HIDE DEF w, e, n, end, data
  <2>4. ItemAt(data, w + 1) = Seen(S[k], w)
    BY <1>1, <2>2, <2>3, ReadsItem DEF e
  <2>5. old = [yielded |-> [j \in 1 .. k - 1 |-> Read(S)[j]], i |-> w + 1]
    BY <2>1, Zenon DEF WalkedSoFar, w
  <2>6. ~(w + 1 > end) /\ w + 1 + Len(e) = (w + Len(e)) + 1
    BY <1>1, <2>3
  <2>7. Seen(S[k], w).end = w + 1 + Len(e)
    BY DEF Seen, e
  <2>8. Seen(S[k], w) = Read(S)[k]
    BY <2>1 DEF Read, w, n
  <2>9. Append([j \in 1 .. k - 1 |-> Read(S)[j]], Read(S)[k]) = [j \in 1..k |-> Read(S)[j]]
    BY <1>1, Extend
  <2>10. WalkedSoFar(S, k) = [yielded |-> [j \in 1..k |-> Read(S)[j]], i |-> w + 1 + Len(e)]
    BY <2>1, <2>2, <2>6, Zenon DEF WalkedSoFar
  <2> HIDE DEF old
  <2>11. old.i = w + 1 /\ old.yielded = [j \in 1 .. k - 1 |-> Read(S)[j]]
    BY <2>5
  <2>12. ~(old.i > Len(data))
    BY <2>6, <2>11 DEF end
  <2>13. WalkStep(data, old) = [yielded |-> Append(old.yielded, ItemAt(data, old.i)), i |-> ItemAt(data, old.i).end]
    BY <2>12, Zenon DEF WalkStep
  <2>14. WalkStep(data, old) = [yielded |-> [j \in 1..k |-> Read(S)[j]], i |-> w + 1 + Len(e)]
    BY <2>4, <2>7, <2>8, <2>9, <2>11, <2>13, Zenon
  <2> QED
    BY <2>10, <2>14, Zenon DEF old, data
<1>3. CASE ~(k <= n)
  <2>1. Done(S, k) = n /\ Done(S, k - 1) = n
    BY <1>1, <1>3 DEF Done
  <2>2. Offset(S, n + 1) = end
    BY Standing
  <2>3. old = [yielded |-> [j \in 1..n |-> Read(S)[j]], i |-> end + 1] /\ WalkedSoFar(S, k) = old
    BY <2>1, <2>2, Zenon DEF WalkedSoFar
  <2> HIDE DEF old, n, end
  <2>4. old.i > end
    BY <1>1, <2>3
  <2>5. WalkStep(data, old) = old
    BY <2>4, Zenon DEF WalkStep, end
  <2> QED
    BY <2>3, <2>5, Zenon DEF old
<1> QED
  BY <1>2, <1>3

LEMMA WalkReads == ASSUME NEW S \in Seq(AllItems) PROVE Walk(Encoded(S)) = Read(S)
<1> DEFINE data == Encoded(S)
           N == Len(data)
           A == [k \in 0..N |-> WalkedSoFar(S, k)]
           C == CHOOSE F : Walking(F, data)
           start == [yielded |-> <<>>, i |-> 1]
<1>1. N \in Nat /\ Len(S) \in Nat /\ Len(S) <= N
  <2>1. N \in Nat /\ Len(S) \in Nat
    BY Coding, LenProperties
  <2>2. Len(S) + 1 \in 1 .. Len(S) + 1
    BY <2>1
  <2>3. (Len(S) + 1) - 1 <= Offset(S, Len(S) + 1) /\ Offset(S, Len(S) + 1) = N
    BY <2>2, Offsets, Standing
  <2> QED
    BY <2>1, <2>3
<1>2. WalkedSoFar(S, 0) = start
  <2>1. Done(S, 0) = 0 /\ 0 + 1 = 1
    BY <1>1 DEF Done
  <2>2. Offset(S, 1) + 1 = 1
    BY Standing
  <2>3. [j \in 1..0 |-> Read(S)[j]] = <<>>
    OBVIOUS
  <2> QED
    BY <2>1, <2>2, <2>3, Zenon DEF WalkedSoFar
<1> HIDE DEF start, data, N
<1>3. \A k \in 1..N : WalkStep(data, A[k - 1]) = A[k]
  <2> TAKE k \in 1..N
  <2>1. k \in 0..N /\ k - 1 \in 0..N
    BY <1>1
  <2>2. WalkStep(data, WalkedSoFar(S, k - 1)) = WalkedSoFar(S, k)
    BY WalkRound DEF data, N
  <2> QED
    BY <2>1, <2>2
<1>4. A[0] = start
  BY <1>1, <1>2
<1>5. Walking(A, data)
  <2>1. A = [k \in 0..N |-> A[k]]
    OBVIOUS
  <2> HIDE DEF A
  <2>2. \A k \in 0..N : A[k] = IF k = 0 THEN start ELSE WalkStep(data, A[k - 1])
    <3> TAKE k \in 0..N
    <3>1. CASE k = 0
      BY <1>4, <3>1
    <3>2. CASE k # 0
      <4>1. k \in 1..N
        BY <1>1, <3>2
      <4> QED
        BY <1>3, <3>2, <4>1, Zenon
    <3> QED
      BY <3>1, <3>2
  <2> QED
    BY <2>1, <2>2, Zenon DEF Walking, start, N
<1>6. Walking(C, data)
  BY <1>5, Zenon
<1> HIDE DEF C, A
<1>7. \A k \in 0..N : C[k] = A[k]
  <2>1. \A k \in 0..N : C[k] = IF k = 0 THEN start ELSE WalkStep(data, C[k - 1])
    BY <1>6, Zenon DEF Walking, start, N
  <2>2. C[0] = A[0]
    BY <1>1, <1>4, <2>1
  <2>3. ASSUME NEW k \in 1..N, C[k - 1] = A[k - 1] PROVE C[k] = A[k]
    <3>1. k \in 0..N /\ k # 0
      BY <1>1
    <3> QED
      BY <1>3, <2>1, <2>3, <3>1, Zenon
  <2>4. \A k \in 1..N : C[k - 1] = A[k - 1] => C[k] = A[k]
    BY <2>3
  <2>5. OneRecursion(C, A, N)
    BY <2>2, <2>4, Zenon DEF OneRecursion
  <2> QED
    <3>1. Same(C, A, N)
      BY <1>1, <2>5, Alongside
    <3> QED
      BY <3>1 DEF Same
<1>8. Walk(data) = C[N].yielded
  BY WalkIs, Zenon DEF C, N
<1>9. C[N] = WalkedSoFar(S, N)
  BY <1>1, <1>7 DEF A
<1>10. Done(S, N) = Len(S)
  BY <1>1 DEF Done
<1>11. Walk(data) = [j \in 1..Len(S) |-> Read(S)[j]]
  BY <1>8, <1>9, <1>10 DEF WalkedSoFar
<1>12. Read(S) = [j \in 1..Len(S) |-> Read(S)[j]]
  BY DEF Read
<1> QED
  BY <1>11, <1>12, Zenon DEF data

LEMMA SliceOf ==
  ASSUME NEW S \in Seq(AllItems), NEW k \in 1..Len(S)
  PROVE  Slice(Encoded(S), Read(S)[k]) = Encode(S[k])
<1> DEFINE data == Encoded(S)
           w == Offset(S, k)
           e == Encode(S[k])
<1>1. data \in Seq(Byte) /\ e \in Seq(Byte) /\ Stands(data, w, e)
  BY Coding, Codes, Standing
<1>2. Read(S)[k] = Seen(S[k], w)
  BY DEF Read
<1>3. Seen(S[k], w).offset = w + 1 /\ Seen(S[k], w).end = w + 1 + Len(e)
  BY DEF Seen
<1> HIDE DEF data, w, e
<1>4. w \in Nat /\ Len(e) \in Nat /\ w + 1 + Len(e) - 1 = w + Len(e)
  <2>1. w \in Nat /\ Len(e) \in Nat
    BY <1>1 DEF Stands
  <2> QED
    BY <2>1
<1>5. SubSeq(data, w + 1, w + Len(e)) = e
  BY <1>1, Cut
<1>6. Read(S)[k].offset = w + 1 /\ Read(S)[k].end - 1 = w + Len(e)
  <2>1. Read(S)[k].offset = w + 1 /\ Read(S)[k].end = w + 1 + Len(e)
    BY <1>2, <1>3, Zenon
  <2> QED
    BY <1>4, <2>1
<1> QED
  BY <1>5, <1>6, Zenon DEF Slice, data, e

(***************************************************************************)
(* normalise: every End Collection without its data byte.                   *)
(***************************************************************************)
EndItem == Item(End_Collection, 0, 0)
Normal(S) == [k \in 1..Len(S) |-> IF S[k].tag = End_Collection THEN EndItem ELSE S[k]]

LEMMA EndCode ==
    /\ EndItem \in AllItems /\ Encode(EndItem) = <<End_Collection>>
    /\ EndItem.tag = End_Collection
    /\ \A item \in AllItems : item.tag = End_Collection /\ ~(item.size > 0) => Encode(item) = <<End_Collection>>
<1>1. 192 \in { 4 * n : n \in 0..62 }
  <2>1. 48 \in 0..62 /\ 4 * 48 = 192
    OBVIOUS
  <2> QED
    BY <2>1
<1>2. EndItem \in ShortItems
  BY <1>1, Weights DEF EndItem, Item, End_Collection, ShortItems
<1>3. ASSUME NEW item \in ShortItems, item.tag = End_Collection, ~(item.size > 0) PROVE Encode(item) = <<End_Collection>>
  <2>1. item.size = 0
    BY <1>3, ShortFields
  <2> DEFINE e == Encode(item)
  <2>2. e \in Seq(Byte) /\ Len(e) = 1 /\ e[1] = End_Collection
    <3>1. Lead(item) = End_Collection
      BY <1>3, <2>1 DEF Lead, End_Collection
    <3>2. e \in Seq(Byte) /\ Len(e) = item.size + 1 /\ e[1] = Lead(item)
      BY ShortCode
    <3> QED
      BY <2>1, <3>1, <3>2
  <2> HIDE DEF e
  <2>3. e = <<End_Collection>>
    <3>1. End_Collection \in Byte
      BY DEF End_Collection, Byte
    <3>2. <<End_Collection>> \in Seq(Byte) /\ Len(<<End_Collection>>) = 1 /\ <<End_Collection>>[1] = End_Collection
      BY <3>1
    <3>3. \A i \in 1..1 : i = 1
      OBVIOUS
    <3>4. \A i \in 1..Len(e) : e[i] = <<End_Collection>>[i]
      BY <2>2, <3>2, <3>3
    <3> QED
      BY <2>2, <3>2, <3>4, SeqEqual
  <2> QED
    BY <2>3 DEF e
<1>4. EndItem.tag = End_Collection /\ EndItem.size = 0
  BY DEF EndItem, Item
<1>5. ASSUME NEW item \in LongItems PROVE item.tag # End_Collection
  BY <1>5, LongFields DEF LONG_ITEM, End_Collection
<1> QED
  BY <1>2, <1>3, <1>4, <1>5 DEF AllItems

LEMMA NormalItems ==
  ASSUME NEW S \in Seq(AllItems)
  PROVE  Normal(S) \in Seq(AllItems) /\ Len(Normal(S)) = Len(S)
<1>1. Len(S) \in Nat /\ \A k \in 1..Len(S) : S[k] \in AllItems
  BY Coding
<1>2. Normal(S) \in [1..Len(S) -> AllItems]
  BY <1>1, EndCode DEF Normal
<1> QED
  BY <1>1, <1>2, SeqDef, LenProperties

LEMMA Normalises ==
  ASSUME NEW S \in Seq(AllItems)
  PROVE  NormaliseEndCollection(Encoded(S)) = Encoded(Normal(S))
<1> DEFINE data == Encoded(S)
           Cleaned(item) == IF item.tag = End_Collection /\ item.size > 0 THEN <<End_Collection>> ELSE Slice(data, item)
<1>1. Walk(data) = Read(S) /\ DOMAIN Read(S) = 1..Len(S)
  BY WalkReads DEF Read
<1>2. NormaliseEndCollection(data) = FlattenSeq([k \in 1..Len(S) |-> Cleaned(Read(S)[k])])
  BY <1>1, Zenon DEF NormaliseEndCollection
<1>3. ASSUME NEW k \in 1..Len(S) PROVE Cleaned(Read(S)[k]) = Encode(Normal(S)[k])
  <2>1. Slice(data, Read(S)[k]) = Encode(S[k]) /\ S[k] \in AllItems
    BY SliceOf, Coding
  <2>2. Read(S)[k].tag = S[k].tag /\ Read(S)[k].size = S[k].size
    BY DEF Read, Seen
  <2>3. Normal(S)[k] = IF S[k].tag = End_Collection THEN EndItem ELSE S[k]
    BY DEF Normal
  <2> QED
    BY <2>1, <2>2, <2>3, EndCode, Zenon
<1>4. Coded(Normal(S)) = [k \in 1..Len(S) |-> Encode(Normal(S)[k])]
  BY NormalItems DEF Coded
<1> HIDE DEF Cleaned
<1>5. [k \in 1..Len(S) |-> Cleaned(Read(S)[k])] = [k \in 1..Len(S) |-> Encode(Normal(S)[k])]
  BY <1>3
<1> QED
  BY <1>2, <1>4, <1>5, Zenon DEF Encoded

\* A function by recursion, each step a function of what is in X.
Recurs(f, X, N, a, G) == f \in [0..N -> X] /\ f[0] = a /\ \A k \in 1..N : f[k] = G[k][f[k - 1]]

LEMMA RecursionExists ==
  ASSUME NEW X, NEW N \in Nat, NEW a \in X, NEW G \in [1..N -> [X -> X]]
  PROVE  \E f : Recurs(f, X, N, a, G)
<1> DEFINE Holds(f, n) == f[0] = a /\ \A k \in 1..N : k <= n => f[k] = G[k][f[k - 1]]
           T == { n \in Nat : \E f \in [0..N -> X] : Holds(f, n) }
<1>1. 0 \in T
  <2>1. [k \in 0..N |-> a] \in [0..N -> X] /\ Holds([k \in 0..N |-> a], 0)
    OBVIOUS
  <2> QED
    BY <2>1
<1>2. ASSUME NEW n \in Nat, n \in T PROVE n + 1 \in T
  <2>1. PICK f \in [0..N -> X] : Holds(f, n)
    BY <1>2
  <2> DEFINE g == [k \in 0..N |-> IF k = n + 1 THEN G[k][f[k - 1]] ELSE f[k]]
  <2>2. g \in [0..N -> X]
    <3>1. \A k \in 0..N : k = n + 1 => k \in 1..N /\ k - 1 \in 0..N
      OBVIOUS
    <3> QED
      BY <2>1, <3>1
  <2>3. Holds(g, n + 1)
    <3>1. g[0] = a
      BY <2>1
    <3>2. ASSUME NEW k \in 1..N, k <= n + 1 PROVE g[k] = G[k][g[k - 1]]
      <4>1. g[k - 1] = f[k - 1]
        <5>1. k - 1 \in 0..N /\ k - 1 # n + 1
          BY <3>2
        <5> QED
          BY <5>1
      <4>2. CASE k = n + 1
        <5>1. g[k] = G[k][f[k - 1]]
          BY <4>2
        <5> HIDE DEF g
        <5> QED
          BY <4>1, <5>1
      <4>3. CASE k # n + 1
        <5>1. g[k] = f[k] /\ k <= n
          BY <3>2, <4>3
        <5>2. f[k] = G[k][f[k - 1]]
          BY <2>1, <5>1
        <5> HIDE DEF g
        <5> QED
          BY <4>1, <5>1, <5>2
      <4> QED
        BY <4>2, <4>3
    <3> QED
      BY <3>1, <3>2
  <2> HIDE DEF g, Holds
  <2>4. \E h \in [0..N -> X] : Holds(h, n + 1)
    BY <2>2, <2>3
  <2> QED
    BY <2>4
<1>3. N \in T
  <2> HIDE DEF T
  <2>1. Nat \subseteq T
    BY <1>1, <1>2, SetInduction
  <2> QED
    BY <2>1
<1>4. PICK f \in [0..N -> X] : Holds(f, N)
  BY <1>3
<1>5. \A k \in 1..N : k <= N
  OBVIOUS
<1>6. Recurs(f, X, N, a, G)
  BY <1>4, <1>5 DEF Recurs
<1> QED
  BY <1>6

(***************************************************************************)
(* fix axes: a Logical Minimum in front of the first input read as unsigned. *)
(***************************************************************************)
LEMMA LatestNone == \A S, tag : Latest(S, tag, 0) = {}
<1> TAKE S, tag
<1>1. { m \in 1..0 : S[m].tag = tag } = {}
  OBVIOUS
<1> QED
  BY <1>1, Zenon DEF Latest

LEMMA LatestStep ==
  ASSUME NEW S \in Seq(AllItems), NEW tag, NEW k \in 1..Len(S)
  PROVE  /\ S[k].tag = tag => Latest(S, tag, k) = {Signed(S[k].value, S[k].size)}
         /\ S[k].tag # tag => Latest(S, tag, k) = Latest(S, tag, k - 1)
<1> DEFINE Earlier(n) == { m \in 1..n : S[m].tag = tag }
           Told(B) == IF B = {} THEN {} ELSE { Signed(S[Max(B)].value, S[Max(B)].size) }
<1>1. \A n : Latest(S, tag, n) = Told(Earlier(n))
  BY Zenon DEF Latest
<1>2. k \in Nat \ {0}
  BY LenProperties
<1>3. CASE S[k].tag = tag
  <2>1. k \in Earlier(k) /\ \A m \in Earlier(k) : k >= m
    BY <1>2, <1>3
  <2>2. Earlier(k) \subseteq Nat
    BY <1>2
  <2> HIDE DEF Earlier
  <2>3. Max(Earlier(k)) = k
    <3>1. \A m \in Earlier(k) : (\A y \in Earlier(k) : m >= y) => m = k
      BY <1>2, <2>1, <2>2
    <3> QED
      BY <2>1, <3>1 DEF Max
  <2>4. Earlier(k) # {}
    BY <2>1
  <2>5. Told(Earlier(k)) = {Signed(S[k].value, S[k].size)}
    BY <2>3, <2>4, Zenon
  <2> QED
    BY <1>1, <1>3, <2>5, Zenon
<1>4. CASE S[k].tag # tag
  <2>1. Earlier(k) = Earlier(k - 1)
    BY <1>2, <1>4
  <2> HIDE DEF Earlier
  <2> QED
    BY <1>1, <1>4, <2>1, Zenon
<1> QED
  BY <1>3, <1>4

LEMMA SignedType == ASSUME NEW v \in Nat, NEW z \in {0, 1, 2, 4} PROVE Signed(v, z) \in Int
<1>1. Room(z) \in Nat
  BY Weights
<1> DEFINE r == Room(z)
<1> HIDE DEF r
<1>2. Signed(v, z) = IF z > 0 /\ v >= r \div 2 THEN v - r ELSE v
  BY Zenon DEF Signed, r
<1>3. r \in Nat
  BY <1>1 DEF r
<1> QED
  BY <1>2, <1>3

\* What there is to know of an item as it is walked.
LEMMA ReadFields ==
  ASSUME NEW S \in Seq(AllItems), NEW k \in 1..Len(S)
  PROVE  /\ Read(S)[k].tag = S[k].tag /\ Read(S)[k].size = S[k].size
         /\ S[k].tag # LONG_ITEM => /\ Read(S)[k].value = S[k].value /\ S[k] \in ShortItems
                                    /\ S[k].value \in Nat /\ Signed(S[k].value, S[k].size) \in Int
<1>1. S[k] \in AllItems
  BY Coding
<1>2. Read(S)[k] = Seen(S[k], Offset(S, k))
  BY DEF Read
<1>3. Read(S)[k].tag = S[k].tag /\ Read(S)[k].size = S[k].size /\ (S[k].tag # LONG_ITEM => Read(S)[k].value = S[k].value)
  BY <1>2 DEF Seen
<1>4. ASSUME S[k].tag # LONG_ITEM PROVE S[k] \in ShortItems /\ S[k].value \in Nat /\ Signed(S[k].value, S[k].size) \in Int
  <2>1. S[k] \in ShortItems
    BY <1>1, <1>4, LongFields DEF AllItems
  <2>2. S[k].value \in Nat /\ S[k].size \in {0, 1, 2, 4}
    BY <2>1, ShortFields
  <2> QED
    BY <2>1, <2>2, SignedType
<1> QED
  BY <1>3, <1>4

LEMMA MinimumType == ASSUME NEW v \in Int PROVE LogicalMinimum(v) \in Seq(Byte)
<1> DEFINE z == IF v >= -128 THEN 1 ELSE IF v >= -32768 THEN 2 ELSE 4
           u == v + Room(z)
           lead == 20 + (IF z = 4 THEN 3 ELSE z)
           w == Little(u, z)
<1>1. z \in {1, 2, 4}
  OBVIOUS
<1> HIDE DEF z
<1>2. u \in Int
  BY <1>1, Weights
<1>3. LogicalMinimum(v) = <<lead>> \o w
  <2>1. LogicalMinimum(v) = Encode(Item(Logical_Minimum, z, u))
    BY DEF LogicalMinimum, z
  <2> HIDE DEF u
  <2>2. Encode(Item(Logical_Minimum, z, u)) = <<lead>> \o w
    BY DEF Encode, Item, Logical_Minimum, LONG_ITEM
  <2> QED
    BY <2>1, <2>2
<1>4. lead \in Byte /\ <<lead>> \in Seq(Byte)
  BY <1>1 DEF Byte
<1>5. w \in Seq(Byte)
  <2>1. \A k \in 1..z : Weight[k] \in Nat \ {0}
    <3>1. \A k \in 1..4 : Weight[k] \in Nat \ {0}
      BY Weights
    <3>2. \A k \in 1..z : k \in 1..4
      BY <1>1
    <3> QED
      BY <3>1, <3>2
  <2>2. ASSUME NEW k \in 1..z PROVE (u \div Weight[k]) % 256 \in Byte
    <3> DEFINE d == Weight[k]
    <3>1. d \in Nat \ {0}
      BY <2>1
    <3> HIDE DEF d, u
    <3>2. u \div d \in Int
      BY <1>2, <3>1
    <3>3. (u \div d) % 256 \in Byte
      BY <3>2 DEF Byte
    <3> QED
      BY <3>3 DEF d
  <2>3. w = [k \in 1..z |-> (u \div Weight[k]) % 256]
    BY DEF Little
  <2> HIDE DEF w, u
  <2>4. w \in [1..z -> Byte] /\ z \in Nat
    BY <1>1, <2>2, <2>3
  <2> QED
    BY <2>4, SeqDef
<1> HIDE DEF w, lead
<1> QED
  BY <1>3, <1>4, <1>5, ConcatProperties

AxisStates == [out : Seq(Byte), fixed : BOOLEAN, zero : BOOLEAN, lmax : Int]
NoAxes == [out |-> <<>>, fixed |-> FALSE, zero |-> FALSE, lmax |-> 0]

LEMMA AxesType ==
  ASSUME NEW S \in Seq(AllItems), NEW k \in 1..Len(S), NEW acc \in AxisStates
  PROVE  AxisStep(Encoded(S), acc, Read(S)[k]) \in AxisStates
<1> DEFINE data == Encoded(S)
           item == Read(S)[k]
           value == Signed(item.value, item.size)
           zero == IF item.tag = Logical_Minimum THEN value = 0 ELSE acc.zero
           lmax == IF item.tag = Logical_Maximum THEN value ELSE acc.lmax
           fixes == item.tag = Input /\ Relative(item.value) /\ zero /\ lmax > 0 /\ ~acc.fixed
           front == IF fixes THEN LogicalMinimum(-lmax) ELSE <<>>
<1>1. /\ AxisStep(data, acc, item).out = acc.out \o front \o Slice(data, item)
      /\ AxisStep(data, acc, item) =
             [ out |-> acc.out \o front \o Slice(data, item), fixed |-> acc.fixed \/ fixes,
               zero |-> zero /\ ~fixes, lmax |-> lmax ]
  BY Zenon DEF AxisStep
<1>2. lmax \in Int
  <2>1. item.tag = Logical_Maximum => value \in Int
    <3>1. item.tag = S[k].tag /\ item.size = S[k].size
      BY ReadFields
    <3>2. S[k].tag # LONG_ITEM => item.value = S[k].value /\ Signed(S[k].value, S[k].size) \in Int
      BY ReadFields
    <3>3. Logical_Maximum # LONG_ITEM
      BY DEF Logical_Maximum, LONG_ITEM
    <3> HIDE DEF item
    <3> QED
      BY <3>1, <3>2, <3>3, Zenon
  <2>2. acc.lmax \in Int
    BY DEF AxisStates
  <2> HIDE DEF item, value
  <2> QED
    BY <2>1, <2>2
<1>3. zero \in BOOLEAN /\ acc.fixed \in BOOLEAN
  <2>1. acc.zero \in BOOLEAN /\ acc.fixed \in BOOLEAN
    BY DEF AxisStates
  <2>2. (value = 0) \in BOOLEAN
    BY Zenon
  <2> HIDE DEF item, value
  <2> QED
    BY <2>1, <2>2, Zenon
<1> HIDE DEF lmax, zero
<1>4. fixes \in BOOLEAN
  BY Zenon
<1>5. front \in Seq(Byte)
  <2> HIDE DEF fixes
  <2>1. LogicalMinimum(-lmax) \in Seq(Byte)
    <3>1. -lmax \in Int
      BY <1>2
    <3> QED
      BY <3>1, MinimumType
  <2>2. <<>> \in Seq(Byte)
    BY EmptySeq
  <2> QED
    BY <2>1, <2>2
<1>6. Slice(data, item) \in Seq(Byte)
  BY SliceOf, Coding, Codes
<1> HIDE DEF fixes, front, item, data
<1>7. acc.out \o front \o Slice(data, item) \in Seq(Byte)
  <2>1. acc.out \in Seq(Byte)
    BY DEF AxisStates
  <2>2. acc.out \o front \in Seq(Byte)
    BY <1>5, <2>1, ConcatProperties
  <2> QED
    BY <1>6, <2>2, ConcatProperties
<1> DEFINE bytes == acc.out \o front \o Slice(data, item)
           f == acc.fixed \/ fixes
           z == zero /\ ~fixes
<1>8. f \in BOOLEAN /\ z \in BOOLEAN
  BY <1>3, <1>4, Zenon
<1>9. AxisStep(data, acc, item) = [out |-> bytes, fixed |-> f, zero |-> z, lmax |-> lmax]
  BY <1>1, Zenon
<1>10. bytes \in Seq(Byte)
  BY <1>7, Zenon
<1> HIDE DEF bytes, f, z
<1>11. [out |-> bytes, fixed |-> f, zero |-> z, lmax |-> lmax] \in AxisStates
  BY <1>2, <1>8, <1>10 DEF AxisStates
<1> QED
  BY <1>9, <1>11, Zenon DEF data, item

Fixing(F, data, walked) == F = [k \in 0..Len(walked) |-> IF k = 0 THEN NoAxes ELSE AxisStep(data, F[k - 1], walked[k])]

LEMMA FixIs == \A data : FixSignedAxes(data) = (CHOOSE F : Fixing(F, data, Walk(data)))[Len(Walk(data))].out
BY Zenon DEF FixSignedAxes, Fixing, NoAxes

LEMMA FixRuns ==
  ASSUME NEW S \in Seq(AllItems)
  PROVE  \E F \in [0..Len(S) -> AxisStates] :
             /\ F[0] = NoAxes
             /\ \A k \in 1..Len(S) : F[k] = AxisStep(Encoded(S), F[k - 1], Read(S)[k])
             /\ FixSignedAxes(Encoded(S)) = F[Len(S)].out
<1> DEFINE data == Encoded(S)
           N == Len(S)
           walked == Read(S)
           C == CHOOSE F : Fixing(F, data, walked)
           G == [k \in 1..N |-> [acc \in AxisStates |-> AxisStep(data, acc, walked[k])]]
<1>1. N \in Nat /\ Len(walked) = N /\ Walk(data) = walked
  <2>1. N \in Nat
    BY Coding
  <2>2. Len(walked) = N
    BY <2>1 DEF Read
  <2> QED
    BY <2>1, <2>2, WalkReads
<1>2. NoAxes \in AxisStates
  <2>1. <<>> \in Seq(Byte)
    BY EmptySeq
  <2> QED
    BY <2>1 DEF NoAxes, AxisStates
<1>3. G \in [1..N -> [AxisStates -> AxisStates]]
  <2>1. \A k \in 1..N : \A acc \in AxisStates : AxisStep(data, acc, walked[k]) \in AxisStates
    BY AxesType
  <2> HIDE DEF data, walked
  <2> QED
    BY <2>1
<1> HIDE DEF data, walked, N
<1>4. \A k \in 1..N : \A acc \in AxisStates : G[k][acc] = AxisStep(data, acc, walked[k])
  OBVIOUS
<1> HIDE DEF G
<1>5. PICK A \in [0..N -> AxisStates] : A[0] = NoAxes /\ \A k \in 1..N : A[k] = G[k][A[k - 1]]
  <2>1. \E f : Recurs(f, AxisStates, N, NoAxes, G)
    BY <1>1, <1>2, <1>3, RecursionExists
  <2> QED
    BY <2>1, Zenon DEF Recurs
<1>6. \A k \in 0..N : A[k] = IF k = 0 THEN NoAxes ELSE AxisStep(data, A[k - 1], walked[k])
  <2> TAKE k \in 0..N
  <2>1. CASE k = 0
    BY <1>5, <2>1
  <2>2. CASE k # 0
    <3>1. k \in 1..N /\ k - 1 \in 0..N
      BY <1>1, <2>2
    <3>2. A[k - 1] \in AxisStates
      BY <3>1
    <3> QED
      BY <1>4, <1>5, <2>2, <3>1, <3>2, Zenon
  <2> QED
    BY <2>1, <2>2
<1>7. Fixing(A, data, walked)
  <2>1. A = [k \in 0..N |-> A[k]]
    OBVIOUS
  <2> QED
    BY <1>1, <1>6, <2>1, Zenon DEF Fixing
<1>8. Fixing(C, data, walked)
  BY <1>7, Zenon
<1>9. FixSignedAxes(data) = C[N].out
  BY <1>1, FixIs, Zenon
<1> HIDE DEF C
<1>10. C[N] = A[N]
  <2>1. \A k \in 0..N : C[k] = IF k = 0 THEN NoAxes ELSE AxisStep(data, C[k - 1], walked[k])
    BY <1>1, <1>8, Zenon DEF Fixing
  <2>2. C[0] = A[0]
    BY <1>1, <1>5, <2>1
  <2>3. ASSUME NEW k \in 1..N, C[k - 1] = A[k - 1] PROVE C[k] = A[k]
    <3>1. k \in 0..N /\ k # 0
      BY <1>1
    <3> QED
      BY <1>6, <2>1, <2>3, <3>1, Zenon
  <2>4. \A k \in 1..N : C[k - 1] = A[k - 1] => C[k] = A[k]
    BY <2>3
  <2>5. OneRecursion(C, A, N)
    BY <2>2, <2>4, Zenon DEF OneRecursion
  <2>6. Same(C, A, N)
    BY <1>1, <2>5, Alongside
  <2> QED
    BY <1>1, <2>6 DEF Same
<1>11. \A k \in 1..N : A[k] = AxisStep(data, A[k - 1], walked[k])
  BY <1>1, <1>6
<1>12. A[0] = NoAxes /\ FixSignedAxes(data) = A[N].out
  BY <1>5, <1>9, <1>10, Zenon
<1> QED
  BY <1>11, <1>12, Zenon DEF data, walked, N

\* What stands in front of item k once the axes are fixed.
Sign(S, k) == IF Unsigned(S) # {} /\ k = Min(Unsigned(S))
              THEN LogicalMinimum(-(CHOOSE max \in Latest(S, Logical_Maximum, k) : TRUE)) ELSE <<>>
Parts(S) == [k \in 1..Len(S) |-> Sign(S, k) \o Encode(S[k])]

\* fix_signed_axes after k items: it has fixed the first input there was to fix, and until
\* then it knows the last minimum and maximum.
AxisInv(S, acc, k) ==
    /\ acc \in AxisStates
    /\ acc.out = Upto(Parts(S), k)
    /\ acc.fixed <=> \E j \in Unsigned(S) : j <= k
    /\ ~acc.fixed => (acc.zero <=> Latest(S, Logical_Minimum, k) = {0})
    /\ \/ Latest(S, Logical_Maximum, k) = {} /\ acc.lmax = 0
       \/ Latest(S, Logical_Maximum, k) = {acc.lmax}

\* The two tags differ from each other and from an input's.
LEMMA TagsDiffer ==
    /\ Logical_Minimum # Logical_Maximum /\ Logical_Minimum # Input /\ Logical_Maximum # Input
    /\ Logical_Minimum # LONG_ITEM /\ Logical_Maximum # LONG_ITEM /\ Input # LONG_ITEM
BY DEF Logical_Minimum, Logical_Maximum, Input, LONG_ITEM

LEMMA PiecesType ==
  ASSUME NEW S \in Seq(AllItems), \A k \in 1..Len(S) : Sign(S, k) \in Seq(Byte)
  PROVE  Parts(S) \in Seq(Seq(Byte)) /\ Len(Parts(S)) = Len(S)
<1>1. Len(S) \in Nat /\ \A k \in 1..Len(S) : Encode(S[k]) \in Seq(Byte)
  BY Coding, Codes
<1>2. \A k \in 1..Len(S) : Sign(S, k) \o Encode(S[k]) \in Seq(Byte)
  BY <1>1, ConcatProperties
<1>3. Parts(S) \in [1..Len(S) -> Seq(Byte)]
  BY <1>2 DEF Parts
<1> QED
  BY <1>1, <1>3, SeqDef, LenProperties

\* Whether item k is the input to fix, and its maximum.
LEMMA FirstUnsigned ==
  ASSUME NEW S \in Seq(AllItems), NEW k \in 1..Len(S)
  PROVE  /\ Unsigned(S) \subseteq 1..Len(S)
         /\ Unsigned(S) # {} /\ k = Min(Unsigned(S)) <=> k \in Unsigned(S) /\ ~\E j \in Unsigned(S) : j <= k - 1
<1> DEFINE U == Unsigned(S)
<1>1. U \subseteq 1..Len(S) /\ Len(S) \in Nat /\ k \in Nat
  BY LenProperties DEF Unsigned
<1> HIDE DEF U
<1>a. U \subseteq Nat
  BY <1>1
<1>b. U # {} => Min(U) \in U /\ \A y \in U : Min(U) <= y
  BY <1>a, SmallestIs
<1>2. ASSUME U # {}, k = Min(U) PROVE k \in U /\ ~\E j \in U : j <= k - 1
  <2>1. Min(U) \in U /\ \A y \in U : Min(U) <= y
    BY <1>b, <1>2, Zenon
  <2> QED
    BY <1>1, <1>2, <2>1
<1>3. ASSUME k \in U, ~\E j \in U : j <= k - 1 PROVE U # {} /\ k = Min(U)
  <2>1. Min(U) \in U /\ \A y \in U : Min(U) <= y
    BY <1>b, <1>3, Zenon
  <2> DEFINE m == Min(U)
  <2> HIDE DEF m
  <2>2. m \in U /\ m \in Nat /\ m <= k
    BY <1>a, <1>3, <2>1 DEF m
  <2>3. ~(m <= k - 1)
    BY <1>3, <2>2, Zenon
  <2>4. m = k
    BY <1>1, <2>2, <2>3
  <2> QED
    BY <1>3, <2>4 DEF m
<1> QED
  BY <1>1, <1>2, <1>3 DEF U

LEMMA SignType == ASSUME NEW S \in Seq(AllItems), NEW k \in 1..Len(S) PROVE Sign(S, k) \in Seq(Byte)
<1> DEFINE L == Latest(S, Logical_Maximum, k)
           max == CHOOSE m \in L : TRUE
<1>1. CASE Unsigned(S) # {} /\ k = Min(Unsigned(S))
  <2>1. k \in Unsigned(S)
    BY <1>1, FirstUnsigned
  <2>2. L # {}
    BY <2>1 DEF Unsigned
  <2>3. \A n \in Nat : n <= Len(S) => \A m \in Latest(S, Logical_Maximum, n) : m \in Int
    <3> DEFINE T == { n \in Nat : n <= Len(S) => \A m \in Latest(S, Logical_Maximum, n) : m \in Int }
    <3>1. 0 \in T
      BY LatestNone
    <3>2. ASSUME NEW n \in Nat, n \in T PROVE n + 1 \in T
      <4> SUFFICES ASSUME n + 1 <= Len(S) PROVE \A m \in Latest(S, Logical_Maximum, n + 1) : m \in Int
        OBVIOUS
      <4>1. n <= Len(S) /\ n + 1 \in 1..Len(S) /\ (n + 1) - 1 = n
        BY LenProperties
      <4>2. /\ S[n + 1].tag = Logical_Maximum =>
                   Latest(S, Logical_Maximum, n + 1) = {Signed(S[n + 1].value, S[n + 1].size)}
            /\ S[n + 1].tag # Logical_Maximum => Latest(S, Logical_Maximum, n + 1) = Latest(S, Logical_Maximum, n)
        <5> DEFINE k1 == n + 1
        <5>1. k1 \in 1..Len(S) /\ k1 - 1 = n
          BY <4>1
        <5> HIDE DEF k1
        <5>2. /\ S[k1].tag = Logical_Maximum =>
                     Latest(S, Logical_Maximum, k1) = {Signed(S[k1].value, S[k1].size)}
              /\ S[k1].tag # Logical_Maximum =>
                     Latest(S, Logical_Maximum, k1) = Latest(S, Logical_Maximum, k1 - 1)
          BY <5>1, LatestStep
        <5> QED
          BY <5>1, <5>2, Zenon DEF k1
      <4>3. S[n + 1].tag = Logical_Maximum => Signed(S[n + 1].value, S[n + 1].size) \in Int
        BY <4>1, ReadFields, TagsDiffer
      <4>4. \A m \in Latest(S, Logical_Maximum, n) : m \in Int
        BY <3>2, <4>1
      <4> QED
        BY <4>2, <4>3, <4>4
    <3>3. Nat \subseteq T
      <4> HIDE DEF T
      <4> QED
        BY <3>1, <3>2, SetInduction
    <3> QED
      BY <3>3
  <2>4. max \in Int
    <3>1. k \in Nat /\ k <= Len(S)
      BY LenProperties
    <3> QED
      BY <2>2, <2>3, <3>1
  <2> HIDE DEF max
  <2>5. -max \in Int
    BY <2>4
  <2>6. Sign(S, k) = LogicalMinimum(-max)
    BY <1>1, Zenon DEF Sign, max
  <2> QED
    BY <2>5, <2>6, MinimumType
<1>2. CASE ~(Unsigned(S) # {} /\ k = Min(Unsigned(S)))
  <2>1. Sign(S, k) = <<>>
    BY <1>2, Zenon DEF Sign
  <2> QED
    BY <2>1, EmptySeq
<1> QED
  BY <1>1, <1>2

LEMMA AxisRound ==
  ASSUME NEW S \in Seq(AllItems), NEW k \in 1..Len(S), NEW acc, AxisInv(S, acc, k - 1)
  PROVE  AxisInv(S, AxisStep(Encoded(S), acc, Read(S)[k]), k)
<1> DEFINE data == Encoded(S)
           item == Read(S)[k]
           value == Signed(item.value, item.size)
           zero == IF item.tag = Logical_Minimum THEN value = 0 ELSE acc.zero
           lmax == IF item.tag = Logical_Maximum THEN value ELSE acc.lmax
           fixes == item.tag = Input /\ Relative(item.value) /\ zero /\ lmax > 0 /\ ~acc.fixed
           front == IF fixes THEN LogicalMinimum(-lmax) ELSE <<>>
           bytes == acc.out \o front \o Slice(data, item)
           next == AxisStep(data, acc, item)
           Mins(n) == Latest(S, Logical_Minimum, n)
           Maxs(n) == Latest(S, Logical_Maximum, n)
           U == Unsigned(S)
<1>1. next = [out |-> bytes, fixed |-> acc.fixed \/ fixes, zero |-> zero /\ ~fixes, lmax |-> lmax]
  BY Zenon DEF AxisStep
<1>2. acc \in AxisStates /\ acc.out = Upto(Parts(S), k - 1)
  BY Zenon DEF AxisInv
<1>3. acc.fixed <=> \E j \in U : j <= k - 1
  BY Zenon DEF AxisInv
<1>4. ~acc.fixed => (acc.zero <=> Mins(k - 1) = {0})
  BY Zenon DEF AxisInv
<1>5. (Maxs(k - 1) = {} /\ acc.lmax = 0) \/ Maxs(k - 1) = {acc.lmax}
  BY Zenon DEF AxisInv
<1>6. item.tag = S[k].tag /\ item.size = S[k].size /\ (S[k].tag # LONG_ITEM => item.value = S[k].value)
  BY ReadFields
<1>7. S[k].tag # LONG_ITEM => value = Signed(S[k].value, S[k].size)
  <2> HIDE DEF item
  <2> QED
    BY <1>6, Zenon
<1> HIDE DEF item, value
<1>8. ~acc.fixed => (zero <=> Mins(k) = {0})
  <2> SUFFICES ASSUME ~acc.fixed PROVE zero <=> Mins(k) = {0}
    OBVIOUS
  <2>1. CASE S[k].tag = Logical_Minimum
    <3>1. Mins(k) = {value}
      BY <1>7, <2>1, LatestStep, TagsDiffer
    <3>2. zero <=> value = 0
      BY <1>6, <2>1, Zenon
    <3>3. {value} = {0} <=> value = 0
      OBVIOUS
    <3> QED
      BY <3>1, <3>2, <3>3, Zenon
  <2>2. CASE S[k].tag # Logical_Minimum
    <3>1. Mins(k) = Mins(k - 1)
      BY <2>2, LatestStep
    <3>2. zero <=> acc.zero
      BY <1>6, <2>2, Zenon
    <3> QED
      BY <1>4, <3>1, <3>2, Zenon
  <2> QED
    BY <2>1, <2>2
<1>9. (Maxs(k) = {} /\ lmax = 0) \/ Maxs(k) = {lmax}
  <2>1. CASE S[k].tag = Logical_Maximum
    <3>1. Maxs(k) = {value}
      BY <1>7, <2>1, LatestStep, TagsDiffer
    <3>2. lmax = value
      BY <1>6, <2>1, Zenon
    <3> QED
      BY <3>1, <3>2, Zenon
  <2>2. CASE S[k].tag # Logical_Maximum
    <3>1. Maxs(k) = Maxs(k - 1)
      BY <2>2, LatestStep
    <3>2. lmax = acc.lmax
      BY <1>6, <2>2, Zenon
    <3> QED
      BY <1>5, <3>1, <3>2, Zenon
  <2> QED
    BY <2>1, <2>2
<1> HIDE DEF zero, lmax
<1>10. lmax > 0 <=> \E max \in Maxs(k) : max > 0
  <2> DEFINE M == Maxs(k)
  <2> HIDE DEF Maxs, M
  <2>1. (M = {} /\ lmax = 0) \/ M = {lmax}
    BY <1>9 DEF M
  <2>2. lmax > 0 <=> \E max \in M : max > 0
    BY <2>1
  <2> QED
    BY <2>2 DEF M
<1>11. k \in U <=> S[k].tag = Input /\ Relative(S[k].value) /\ Mins(k) = {0} /\ \E max \in Maxs(k) : max > 0
  <2>1. DOMAIN S = 1..Len(S)
    BY LenProperties
  <2> QED
    BY <2>1, Zenon DEF Unsigned
<1>12. S[k].tag = Input => item.value = S[k].value
  BY <1>6, TagsDiffer
<1>13. fixes <=> U # {} /\ k = Min(U)
  <2>1. fixes <=> k \in U /\ ~acc.fixed
    <3> HIDE DEF Mins, Maxs, U
    <3> QED
      BY <1>6, <1>8, <1>10, <1>11, <1>12, Zenon
  <2>2. U # {} /\ k = Min(U) <=> k \in U /\ ~\E j \in U : j <= k - 1
    BY FirstUnsigned
  <2> HIDE DEF fixes, U
  <2> QED
    BY <1>3, <2>1, <2>2, Zenon
<1>14. front = Sign(S, k)
  <2>1. CASE fixes
    <3>1. \E max \in Maxs(k) : max > 0
      BY <1>10, <2>1, Zenon
    <3>2. Maxs(k) = {lmax}
      <4> HIDE DEF Maxs
      <4> QED
        BY <1>9, <3>1
    <3>3. (CHOOSE max \in {lmax} : TRUE) = lmax
      OBVIOUS
    <3>4. (CHOOSE max \in Maxs(k) : TRUE) = lmax
      BY <3>2, <3>3, Zenon
    <3>5. Sign(S, k) = LogicalMinimum(-(CHOOSE max \in Maxs(k) : TRUE))
      BY <1>13, <2>1, Zenon DEF Sign
    <3> HIDE DEF Maxs, fixes
    <3> QED
      BY <2>1, <3>4, <3>5, Zenon
  <2>2. CASE ~fixes
    <3>1. Sign(S, k) = <<>>
      BY <1>13, <2>2, Zenon DEF Sign
    <3> HIDE DEF fixes
    <3> QED
      BY <2>2, <3>1, Zenon
  <2> QED
    BY <2>1, <2>2
<1>15. next.fixed <=> \E j \in U : j <= k
  <2>1. next.fixed <=> acc.fixed \/ fixes
    <3> HIDE DEF fixes, bytes, next
    <3> QED
      BY <1>1
  <2>2. fixes <=> k \in U /\ ~acc.fixed
    BY <1>3, <1>13, FirstUnsigned, Zenon
  <2>3. U \subseteq 1..Len(S) /\ k \in Nat /\ Len(S) \in Nat
    BY FirstUnsigned, LenProperties
  <2>4. \A j \in U : j <= k <=> j <= k - 1 \/ j = k
    <3> HIDE DEF U
    <3> QED
      BY <2>3
  <2> HIDE DEF U, fixes, next
  <2> QED
    BY <1>3, <2>1, <2>2, <2>4, Zenon
<1>16. ~next.fixed => (next.zero <=> Mins(k) = {0})
  <2> DEFINE f == acc.fixed \/ fixes
             z == zero /\ ~fixes
  <2>1. next.fixed = f /\ next.zero = z
    <3> HIDE DEF f, z, bytes, next
    <3>1. next = [out |-> bytes, fixed |-> f, zero |-> z, lmax |-> lmax]
      BY <1>1, Zenon DEF f, z
    <3> QED
      BY <3>1
  <2> HIDE DEF next, fixes, Mins
  <2> QED
    BY <1>8, <2>1, Zenon
<1>17. next.lmax = lmax /\ next.out = bytes
  <2> HIDE DEF bytes, fixes, next
  <2> QED
    BY <1>1
<1>18. next.out = Upto(Parts(S), k)
  <2>1. \A j \in 1..Len(S) : Sign(S, j) \in Seq(Byte)
    BY SignType
  <2>2. Parts(S) \in Seq(Seq(Byte)) /\ Len(Parts(S)) = Len(S)
    BY <2>1, PiecesType
  <2>3. k - 1 \in Nat /\ k - 1 < Len(Parts(S)) /\ k - 1 <= Len(Parts(S)) /\ (k - 1) + 1 = k
    BY <2>2, LenProperties
  <2>4. Upto(Parts(S), (k - 1) + 1) = Upto(Parts(S), k - 1) \o Parts(S)[(k - 1) + 1]
    BY <2>2, <2>3, UptoStep
  <2>5. Parts(S)[k] = Sign(S, k) \o Encode(S[k])
    BY DEF Parts
  <2>6. Slice(data, item) = Encode(S[k]) /\ Encode(S[k]) \in Seq(Byte)
    BY SliceOf, Coding, Codes DEF item
  <2>7. Upto(Parts(S), k - 1) \in Seq(Byte) /\ Sign(S, k) \in Seq(Byte)
    BY <2>1, <2>2, <2>3, UptoType
  <2>8. (Upto(Parts(S), k - 1) \o Sign(S, k)) \o Encode(S[k]) = Upto(Parts(S), k - 1) \o (Sign(S, k) \o Encode(S[k]))
    <3> DEFINE a == Upto(Parts(S), k - 1)
               b == Sign(S, k)
               c == Encode(S[k])
    <3>1. a \in Seq(Byte) /\ b \in Seq(Byte) /\ c \in Seq(Byte)
      BY <2>6, <2>7, Zenon
    <3> HIDE DEF a, b, c
    <3>2. (a \o b) \o c = a \o (b \o c)
      BY <3>1, ConcatAssociative
    <3> QED
      BY <3>2, Zenon DEF a, b, c
  <2> HIDE DEF front, next
  <2>9. next.out = (Upto(Parts(S), k - 1) \o Sign(S, k)) \o Encode(S[k])
    BY <1>2, <1>14, <1>17, <2>6, Zenon
  <2>10. Upto(Parts(S), k) = Upto(Parts(S), k - 1) \o (Sign(S, k) \o Encode(S[k]))
    BY <2>3, <2>4, <2>5, Zenon
  <2> QED
    BY <2>8, <2>9, <2>10, Zenon
<1>19. next \in AxisStates
  BY <1>2, AxesType DEF item
<1> HIDE DEF next, U
<1> QED
  BY <1>9, <1>15, <1>16, <1>17, <1>18, <1>19, Zenon DEF AxisInv, next, data, item, U

LEMMA AxesFixed ==
  ASSUME NEW S \in Seq(AllItems)
  PROVE  FixSignedAxes(Encoded(S)) = FlattenSeq(Parts(S))
<1>1. PICK F \in [0..Len(S) -> AxisStates] :
          /\ F[0] = NoAxes
          /\ \A k \in 1..Len(S) : F[k] = AxisStep(Encoded(S), F[k - 1], Read(S)[k])
          /\ FixSignedAxes(Encoded(S)) = F[Len(S)].out
  BY FixRuns
<1>2. Len(S) \in Nat
  BY LenProperties
<1> DEFINE T == { n \in Nat : n <= Len(S) => AxisInv(S, F[n], n) }
<1>3. 0 \in T
  <2>1. NoAxes.out = Upto(Parts(S), 0)
    BY UptoNone DEF NoAxes
  <2>2. NoAxes.fixed = FALSE /\ NoAxes.zero = FALSE /\ NoAxes.lmax = 0
    BY DEF NoAxes
  <2>3. ~\E j \in Unsigned(S) : j <= 0
    <3>1. Unsigned(S) \subseteq 1..Len(S)
      BY LenProperties DEF Unsigned
    <3> QED
      BY <1>2, <3>1
  <2>4. Latest(S, Logical_Minimum, 0) = {} /\ Latest(S, Logical_Maximum, 0) = {}
    BY LatestNone
  <2>5. Latest(S, Logical_Minimum, 0) # {0}
    BY <2>4
  <2>6. NoAxes \in AxisStates
    BY <1>1, <1>2
  <2>7. AxisInv(S, NoAxes, 0)
    BY <2>1, <2>2, <2>3, <2>4, <2>5, <2>6, Zenon DEF AxisInv
  <2> QED
    BY <1>1, <2>7
<1>4. ASSUME NEW n \in Nat, n \in T PROVE n + 1 \in T
  <2> SUFFICES ASSUME n + 1 <= Len(S) PROVE AxisInv(S, F[n + 1], n + 1)
    OBVIOUS
  <2> DEFINE k == n + 1
  <2>1. k \in 1..Len(S) /\ k - 1 = n /\ n <= Len(S)
    BY <1>2
  <2>2. AxisInv(S, F[n], n)
    BY <1>4, <2>1
  <2> HIDE DEF k
  <2>3. AxisInv(S, F[k - 1], k - 1)
    BY <2>1, <2>2, Zenon
  <2>4. AxisInv(S, AxisStep(Encoded(S), F[k - 1], Read(S)[k]), k)
    BY <2>1, <2>3, AxisRound
  <2>5. F[k] = AxisStep(Encoded(S), F[k - 1], Read(S)[k])
    BY <1>1, <2>1, Zenon
  <2> QED
    BY <2>4, <2>5, Zenon DEF k
<1>5. AxisInv(S, F[Len(S)], Len(S))
  <2>1. Nat \subseteq T
    <3> HIDE DEF T
    <3> QED
      BY <1>3, <1>4, SetInduction
  <2> QED
    BY <1>2, <2>1
<1>6. FixSignedAxes(Encoded(S)) = Upto(Parts(S), Len(S))
  BY <1>1, <1>5, Zenon DEF AxisInv
<1>7. Parts(S) \in Seq(Seq(Byte)) /\ Len(Parts(S)) = Len(S)
  <2>1. \A j \in 1..Len(S) : Sign(S, j) \in Seq(Byte)
    BY SignType
  <2> QED
    BY <2>1, PiecesType
<1>8. Upto(Parts(S), Len(Parts(S))) = FlattenSeq(Parts(S))
  BY <1>7, UptoAll
<1> QED
  BY <1>6, <1>7, <1>8, Zenon

\* An End Collection has no part in it.
LEMMA NormalFields ==
  ASSUME NEW S \in Seq(AllItems), NEW k \in 1..Len(S)
  PROVE  Normal(S)[k].tag = S[k].tag /\ (S[k].tag # End_Collection => Normal(S)[k] = S[k])
<1>1. Normal(S)[k] = IF S[k].tag = End_Collection THEN EndItem ELSE S[k]
  BY DEF Normal
<1> QED
  BY <1>1, EndCode, Zenon

LEMMA NormalLatest ==
  ASSUME NEW S \in Seq(AllItems), NEW tag, tag # End_Collection, NEW k \in 0..Len(S)
  PROVE  Latest(Normal(S), tag, k) = Latest(S, tag, k)
<1> DEFINE N == Normal(S)
           T == { n \in Nat : n <= Len(S) => Latest(N, tag, n) = Latest(S, tag, n) }
<1>1. N \in Seq(AllItems) /\ Len(N) = Len(S) /\ Len(S) \in Nat
  BY NormalItems, LenProperties
<1>2. 0 \in T
  BY LatestNone
<1>3. ASSUME NEW n \in Nat, n \in T PROVE n + 1 \in T
  <2> SUFFICES ASSUME n + 1 <= Len(S) PROVE Latest(N, tag, n + 1) = Latest(S, tag, n + 1)
    OBVIOUS
  <2> DEFINE m == n + 1
  <2>1. m \in 1..Len(S) /\ m \in 1..Len(N) /\ m - 1 = n /\ n <= Len(S)
    BY <1>1
  <2> HIDE DEF m
  <2>2. N[m].tag = S[m].tag /\ (S[m].tag # End_Collection => N[m] = S[m])
    BY <2>1, NormalFields
  <2> HIDE DEF N
  <2>3. Latest(N, tag, m - 1) = Latest(S, tag, m - 1)
    BY <1>3, <2>1
  <2>4. CASE S[m].tag = tag
    <3>1. Latest(N, tag, m) = {Signed(N[m].value, N[m].size)} /\ Latest(S, tag, m) = {Signed(S[m].value, S[m].size)}
      BY <1>1, <2>1, <2>2, <2>4, LatestStep
    <3>2. N[m] = S[m]
      BY <2>2, <2>4, Zenon
    <3>3. Latest(N, tag, m) = Latest(S, tag, m)
      BY <3>1, <3>2, Zenon
    <3> QED
      BY <3>3 DEF m
  <2>5. CASE S[m].tag # tag
    <3>1. Latest(N, tag, m) = Latest(N, tag, m - 1) /\ Latest(S, tag, m) = Latest(S, tag, m - 1)
      BY <1>1, <2>1, <2>2, <2>5, LatestStep
    <3>2. Latest(N, tag, m) = Latest(S, tag, m)
      BY <2>3, <3>1, Zenon
    <3> QED
      BY <3>2 DEF m
  <2> QED
    BY <2>4, <2>5
<1>4. k \in T
  <2> HIDE DEF T
  <2>1. Nat \subseteq T
    BY <1>2, <1>3, SetInduction
  <2> QED
    BY <1>1, <2>1
<1> QED
  BY <1>1, <1>4

LEMMA NormalUnsigned ==
  ASSUME NEW S \in Seq(AllItems)
  PROVE  /\ Unsigned(Normal(S)) = Unsigned(S)
         /\ \A k \in 1..Len(S) : Latest(Normal(S), Logical_Maximum, k) = Latest(S, Logical_Maximum, k)
<1>1. Len(Normal(S)) = Len(S) /\ Len(S) \in Nat /\ DOMAIN S = 1..Len(S) /\ DOMAIN Normal(S) = 1..Len(S)
  BY NormalItems, LenProperties
<1>2. \A k \in 1..Len(S) : k \in 0..Len(S)
  BY <1>1
<1>3. Logical_Minimum # End_Collection /\ Logical_Maximum # End_Collection /\ Input # End_Collection
  BY DEF Logical_Minimum, Logical_Maximum, Input, End_Collection
<1>4. ASSUME NEW k \in 1..Len(S)
      PROVE  /\ Latest(Normal(S), Logical_Maximum, k) = Latest(S, Logical_Maximum, k)
             /\ Latest(Normal(S), Logical_Minimum, k) = Latest(S, Logical_Minimum, k)
             /\ Normal(S)[k].tag = S[k].tag /\ (S[k].tag = Input => Normal(S)[k] = S[k])
  <2>1. Latest(Normal(S), Logical_Maximum, k) = Latest(S, Logical_Maximum, k)
    BY <1>2, <1>3, NormalLatest
  <2>2. Latest(Normal(S), Logical_Minimum, k) = Latest(S, Logical_Minimum, k)
    BY <1>2, <1>3, NormalLatest
  <2>3. Normal(S)[k].tag = S[k].tag /\ (S[k].tag = Input => Normal(S)[k] = S[k])
    BY <1>3, NormalFields
  <2> QED
    BY <2>1, <2>2, <2>3
<1>5. \A k \in 1..Len(S) : k \in Unsigned(Normal(S)) <=> k \in Unsigned(S)
  <2> TAKE k \in 1..Len(S)
  <2>1. k \in Unsigned(S) <=> /\ S[k].tag = Input /\ Relative(S[k].value)
                              /\ Latest(S, Logical_Minimum, k) = {0}
                              /\ \E max \in Latest(S, Logical_Maximum, k) : max > 0
    BY <1>1, Zenon DEF Unsigned
  <2> DEFINE N == Normal(S)
  <2>2. DOMAIN N = 1..Len(S)
    BY <1>1
  <2>3. /\ Latest(N, Logical_Maximum, k) = Latest(S, Logical_Maximum, k)
        /\ Latest(N, Logical_Minimum, k) = Latest(S, Logical_Minimum, k)
        /\ N[k].tag = S[k].tag /\ (S[k].tag = Input => N[k] = S[k])
    BY <1>4
  <2> HIDE DEF N
  <2>4. k \in Unsigned(N) <=> /\ N[k].tag = Input /\ Relative(N[k].value)
                              /\ Latest(N, Logical_Minimum, k) = {0}
                              /\ \E max \in Latest(N, Logical_Maximum, k) : max > 0
    BY <2>2, Zenon DEF Unsigned
  <2>5. k \in Unsigned(N) <=> k \in Unsigned(S)
    BY <2>1, <2>3, <2>4, Zenon
  <2> QED
    BY <2>5 DEF N
<1>6. Unsigned(Normal(S)) \subseteq 1..Len(S) /\ Unsigned(S) \subseteq 1..Len(S)
  BY <1>1 DEF Unsigned
<1>7. Unsigned(Normal(S)) = Unsigned(S)
  <2> DEFINE A == Unsigned(Normal(S))
             B == Unsigned(S)
  <2>1. A \subseteq 1..Len(S) /\ B \subseteq 1..Len(S) /\ \A k \in 1..Len(S) : k \in A <=> k \in B
    BY <1>5, <1>6
  <2> HIDE DEF A, B
  <2>2. A = B
    BY <2>1
  <2> QED
    BY <2>2 DEF A, B
<1> QED
  BY <1>4, <1>7

(***************************************************************************)
(* The corpus entry written, the descriptor generated, the host answered.   *)
(***************************************************************************)
AsAsked(S, flags) == IF "normalise" \in flags THEN Normal(S) ELSE S
RewrittenItems(S, flags) == IF "fix axes" \in flags THEN FlattenSeq(Parts(AsAsked(S, flags))) ELSE Encoded(AsAsked(S, flags))

DescInv ==
    /\ items \in Seq(AllItems)
    /\ stage = "corpus" => desc = Encoded(items)
    /\ stage # "corpus" => desc = RewrittenItems(items, asked)

LEMMA CorpusTypes == Vocabulary \subseteq AllItems /\ Preamble \in Seq(AllItems)
BY DescriptorAssumption, Zenon DEF AllItems

LEMMA DescStarts == DescInit => DescInv
<1> SUFFICES ASSUME DescInit PROVE DescInv
  OBVIOUS
<1>1. stage = "corpus" /\ items = Preamble /\ desc = FlattenSeq([k \in DOMAIN Preamble |-> Encode(Preamble[k])])
  BY Zenon DEF DescInit
<1>2. Preamble \in Seq(AllItems) /\ DOMAIN Preamble = 1..Len(Preamble)
  BY CorpusTypes, LenProperties
<1>3. desc = Encoded(items)
  BY <1>1, <1>2, Zenon DEF Encoded, Coded
<1> QED
  BY <1>1, <1>2, <1>3, Zenon DEF DescInv

LEMMA EncodedAppend ==
  ASSUME NEW S \in Seq(AllItems), NEW item \in AllItems
  PROVE  Append(S, item) \in Seq(AllItems) /\ Encoded(Append(S, item)) = Encoded(S) \o Encode(item)
<1> DEFINE s == Append(S, item)
           c == Coded(S)
           e == Encode(item)
           d == Append(c, e)
<1>1. /\ s \in Seq(AllItems) /\ Len(s) = Len(S) + 1 /\ (\A i \in 1..Len(S) : s[i] = S[i])
      /\ s[Len(S) + 1] = item
  BY AppendProperties
<1> HIDE DEF s
<1>2. c \in Seq(Seq(Byte)) /\ Len(c) = Len(S) /\ Len(S) \in Nat /\ (\A k \in 1..Len(S) : c[k] = Encode(S[k])) /\ e \in Seq(Byte)
  BY Coding, Codes
<1>3. Coded(s) \in Seq(Seq(Byte)) /\ Len(Coded(s)) = Len(s) /\ \A k \in 1..Len(s) : Coded(s)[k] = Encode(s[k])
  BY <1>1, Coding
<1> HIDE DEF c, e
<1>4. d \in Seq(Seq(Byte)) /\ Len(d) = Len(c) + 1 /\ (\A i \in 1..Len(c) : d[i] = c[i]) /\ d[Len(c) + 1] = e
  BY <1>2, AppendProperties
<1> HIDE DEF d
<1>5. \A k \in 1..Len(s) : Coded(s)[k] = d[k]
  <2> TAKE k \in 1..Len(s)
  <2>1. k \in 1..Len(S) \/ k = Len(S) + 1
    BY <1>1, <1>2
  <2>2. Coded(s)[k] = Encode(s[k])
    BY <1>3
  <2>3. CASE k \in 1..Len(S)
    BY <1>1, <1>2, <1>4, <2>2, <2>3, Zenon
  <2>4. CASE k = Len(S) + 1
    BY <1>1, <1>2, <1>4, <2>2, <2>4, Zenon DEF e
  <2> QED
    BY <2>1, <2>3, <2>4
<1>6. Coded(s) = d
  <2>1. Len(Coded(s)) = Len(d)
    BY <1>1, <1>2, <1>3, <1>4
  <2>2. \A k \in 1..Len(Coded(s)) : Coded(s)[k] = d[k]
    BY <1>3, <1>5, Zenon
  <2> QED
    BY <1>3, <1>4, <2>1, <2>2, SeqEqual
<1>7. FlattenSeq(Append(c, e)) = FlattenSeq(c) \o e
  BY <1>2, FlattenAppend
<1>8. Encoded(s) = Encoded(S) \o e
  BY <1>6, <1>7, Zenon DEF Encoded, c, d
<1> QED
  BY <1>1, <1>8, Zenon DEF s, e

LEMMA WriteStep == DescInv /\ Write => DescInv'
<1> SUFFICES ASSUME DescInv, Write PROVE DescInv'
  OBVIOUS
<1>1. stage = "corpus" /\ stage' = stage /\ items \in Seq(AllItems) /\ desc = Encoded(items)
  BY Zenon DEF Write, DescInv
<1>2. PICK item \in Vocabulary : items' = Append(items, item) /\ desc' = desc \o Encode(item)
  BY Zenon DEF Write
<1>3. item \in AllItems
  BY CorpusTypes
<1>4. items' \in Seq(AllItems) /\ desc' = Encoded(items')
  <2>1. Append(items, item) \in Seq(AllItems) /\ Encoded(Append(items, item)) = Encoded(items) \o Encode(item)
    BY <1>1, <1>3, EncodedAppend
  <2> QED
    BY <1>1, <1>2, <2>1, Zenon
<1> QED
  BY <1>1, <1>4, Zenon DEF DescInv

LEMMA RewrittenIs ==
  ASSUME NEW S \in Seq(AllItems), NEW flags, desc = Encoded(S)
  PROVE  Rewritten(flags) = RewrittenItems(S, flags)
<1> DEFINE n == AsAsked(S, flags)
<1>1. (IF "normalise" \in flags THEN NormaliseEndCollection(desc) ELSE desc) = Encoded(n)
  BY Normalises, Zenon DEF AsAsked
<1>2. n \in Seq(AllItems)
  BY NormalItems, Zenon DEF AsAsked
<1>3. FixSignedAxes(Encoded(n)) = FlattenSeq(Parts(n))
  BY <1>2, AxesFixed
<1> QED
  BY <1>1, <1>3, Zenon DEF Rewritten, RewrittenItems

LEMMA DescStep == DescInv /\ [DescNext]_descVars => DescInv'
<1> SUFFICES ASSUME DescInv, [DescNext]_descVars PROVE DescInv'
  OBVIOUS
<1>1. CASE Write
  BY <1>1, WriteStep
<1>2. CASE Generate
  <2>1. stage = "corpus" /\ items' = items /\ desc' = Rewritten(asked') /\ items \in Seq(AllItems) /\ desc = Encoded(items)
    BY <1>2, Zenon DEF Generate, DescInv
  <2>2. stage' # "corpus"
    <3>1. stage' = IF inputs' = <<>> THEN "refused" ELSE "built"
      BY <1>2, Zenon DEF Generate
    <3>2. "refused" # "corpus" /\ "built" # "corpus"
      OBVIOUS
    <3> QED
      BY <3>1, <3>2, Zenon
  <2>3. Rewritten(asked') = RewrittenItems(items, asked')
    BY <2>1, RewrittenIs
  <2> QED
    BY <2>1, <2>2, <2>3, Zenon DEF DescInv
<1>3. CASE Asked
  <2>1. stage = "built" /\ stage' = "answered" /\ UNCHANGED <<items, asked, desc>>
    BY <1>3, Zenon DEF Asked
  <2>2. "built" # "corpus" /\ "answered" # "corpus"
    OBVIOUS
  <2> QED
    BY <2>1, <2>2, Zenon DEF DescInv
<1>4. CASE UNCHANGED descVars
  <2>1. UNCHANGED <<stage, items, asked, desc>>
    BY <1>4 DEF descVars
  <2> QED
    BY <2>1, Zenon DEF DescInv
<1> QED
  BY <1>1, <1>2, <1>3, <1>4 DEF DescNext

LEMMA AskedTells == DescInv => OnlyWhatWasAsked
<1> SUFFICES ASSUME DescInv, stage \in {"built", "refused", "answered"}
             PROVE  OnlyWhatWasAsked
  BY Zenon DEF OnlyWhatWasAsked
<1> DEFINE normal == [k \in DOMAIN items |->
                IF "normalise" \in asked /\ items[k].tag = End_Collection THEN Item(End_Collection, 0, 0) ELSE items[k]]
           U == Unsigned(items)
           axis == Min(U)
           signs == "fix axes" \in asked /\ U # {}
           Ahead(k) == IF signs /\ k = axis
                       THEN LogicalMinimum(-(CHOOSE max \in Latest(items, Logical_Maximum, k) : TRUE)) ELSE <<>>
           n == AsAsked(items, asked)
<1>1. items \in Seq(AllItems) /\ desc = RewrittenItems(items, asked)
  <2>1. stage # "corpus"
    OBVIOUS
  <2> QED
    BY <2>1, Zenon DEF DescInv
<1>2. Len(items) \in Nat /\ DOMAIN items = 1..Len(items)
  BY <1>1, LenProperties
<1>3. normal = n /\ n \in Seq(AllItems) /\ Len(n) = Len(items)
  <2>1. CASE "normalise" \in asked
    <3>1. n = Normal(items)
      BY <2>1, Zenon DEF AsAsked
    <3>2. normal = Normal(items)
      BY <1>2, <2>1, Zenon DEF Normal, EndItem
    <3> QED
      BY <1>1, <3>1, <3>2, NormalItems, Zenon
  <2>2. CASE "normalise" \notin asked
    <3>1. n = items
      BY <2>2, Zenon DEF AsAsked
    <3>2. normal = [k \in DOMAIN items |-> items[k]]
      BY <2>2, Zenon
    <3>3. items = [k \in DOMAIN items |-> items[k]]
      BY <1>1
    <3> QED
      BY <1>1, <3>1, <3>2, <3>3, Zenon
  <2> QED
    BY <2>1, <2>2
<1>4. Unsigned(n) = U /\ \A k \in 1..Len(items) : Latest(n, Logical_Maximum, k) = Latest(items, Logical_Maximum, k)
  BY <1>1, NormalUnsigned, Zenon DEF AsAsked
<1>5. \A k \in 1..Len(items) : Encode(n[k]) \in Seq(Byte)
  BY <1>3, Coding, Codes
<1> HIDE DEF n, normal, U
<1>6. desc = FlattenSeq([k \in 1..Len(items) |-> Ahead(k) \o Encode(n[k])])
  <2>1. CASE "fix axes" \in asked
    <3>1. desc = FlattenSeq(Parts(n))
      BY <1>1, <2>1, Zenon DEF RewrittenItems, n
    <3>2. \A k \in 1..Len(items) : Sign(n, k) = Ahead(k)
      <4> TAKE k \in 1..Len(items)
      <4>1. Latest(n, Logical_Maximum, k) = Latest(items, Logical_Maximum, k)
        BY <1>4
      <4>2. CASE U # {} /\ k = Min(U)
        <5>1. Sign(n, k) = LogicalMinimum(-(CHOOSE max \in Latest(n, Logical_Maximum, k) : TRUE))
          <6>1. Unsigned(n) # {} /\ k = Min(Unsigned(n))
            BY <1>4, <4>2, Zenon
          <6> QED
            BY <6>1, Zenon DEF Sign
        <5>2. Ahead(k) = LogicalMinimum(-(CHOOSE max \in Latest(items, Logical_Maximum, k) : TRUE))
          BY <2>1, <4>2
        <5> HIDE DEF Ahead
        <5> QED
          BY <4>1, <5>1, <5>2, Zenon
      <4>3. CASE ~(U # {} /\ k = Min(U))
        <5>1. Sign(n, k) = <<>>
          <6>1. ~(Unsigned(n) # {} /\ k = Min(Unsigned(n)))
            BY <1>4, <4>3, Zenon
          <6> QED
            BY <6>1, Zenon DEF Sign
        <5>2. Ahead(k) = <<>>
          BY <4>3, Zenon
        <5> HIDE DEF Ahead
        <5> QED
          BY <5>1, <5>2, Zenon
      <4> QED
        BY <4>2, <4>3
    <3>3. Parts(n) = [k \in 1..Len(items) |-> Sign(n, k) \o Encode(n[k])]
      BY <1>3, Zenon DEF Parts
    <3> HIDE DEF Ahead
    <3>4. Parts(n) = [k \in 1..Len(items) |-> Ahead(k) \o Encode(n[k])]
      BY <3>2, <3>3
    <3> QED
      BY <3>1, <3>4, Zenon
  <2>2. CASE "fix axes" \notin asked
    <3>1. desc = Encoded(n)
      BY <1>1, <2>2, Zenon DEF RewrittenItems, n
    <3>2. \A k : Ahead(k) = <<>>
      BY <2>2, Zenon
    <3>3. \A k \in 1..Len(items) : <<>> \o Encode(n[k]) = Encode(n[k])
      BY <1>5, ConcatEmptySeq
    <3>4. Coded(n) = [k \in 1..Len(items) |-> Encode(n[k])]
      BY <1>3, Zenon DEF Coded
    <3> HIDE DEF Ahead
    <3>5. \A k \in 1..Len(items) : Ahead(k) \o Encode(n[k]) = Encode(n[k])
      BY <3>2, <3>3, Zenon
    <3>6. Coded(n) = [k \in 1..Len(items) |-> Ahead(k) \o Encode(n[k])]
      BY <3>4, <3>5
    <3> QED
      BY <3>1, <3>6, Zenon DEF Encoded
  <2> QED
    BY <2>1, <2>2
<1>7. DOMAIN normal = 1..Len(items)
  BY <1>2 DEF normal
<1>8. desc = FlattenSeq([k \in DOMAIN normal |-> Ahead(k) \o Encode(normal[k])])
  <2>1. [k \in DOMAIN normal |-> Ahead(k) \o Encode(normal[k])] = [k \in 1..Len(items) |-> Ahead(k) \o Encode(n[k])]
    <3> HIDE DEF Ahead
    <3> QED
      BY <1>3, <1>7
  <2> QED
    BY <1>6, <2>1, Zenon
<1> QED
  BY <1>8, Zenon DEF OnlyWhatWasAsked, normal, U

\* tools/hiditems.py, emu/gen_desc.py: for every vocabulary of items and every corpus entry
\* written with it, the rig's descriptor is the entry's, changed in what the flags ask for.
THEOREM RewritesAsAsked == DescSpec => []OnlyWhatWasAsked
<1>1. DescInit => DescInv
  BY DescStarts
<1>2. DescInv /\ [DescNext]_descVars => DescInv'
  BY DescStep
<1>3. DescInv => OnlyWhatWasAsked
  BY AskedTells
<1> QED
  BY <1>1, <1>2, <1>3, PTL DEF DescSpec

(***************************************************************************)
(* input_reports, run on the items themselves.                              *)
(***************************************************************************)
NowSet == [size : Nat, count : Nat, id : Nat]
BitSet == [id : Nat, n : Nat]
RepStates == [now : NowSet, stack : Seq(NowSet), bits : Seq(BitSet)]
RepStart == [now |-> [size |-> 0, count |-> 0, id |-> 0], stack |-> <<>>, bits |-> <<>>]

LEMMA RepTags ==
    /\ Report_Size \notin {Report_Count, Report_ID, Push, Pop, Input, LONG_ITEM, End_Collection, Logical_Minimum}
    /\ Report_Count \notin {Report_ID, Push, Pop, Input, LONG_ITEM, End_Collection, Logical_Minimum}
    /\ Report_ID \notin {Push, Pop, Input, LONG_ITEM, End_Collection, Logical_Minimum}
    /\ Push \notin {Pop, Input, LONG_ITEM, End_Collection, Logical_Minimum}
    /\ Pop \notin {Input, LONG_ITEM, End_Collection, Logical_Minimum}
    /\ Input \notin {LONG_ITEM, End_Collection, Logical_Minimum}
BY DEF Report_Size, Report_Count, Report_ID, Push, Pop, Input, LONG_ITEM, End_Collection, Logical_Minimum

\* The tags input_reports minds
Minded == {Report_Size, Report_Count, Report_ID, Push, Pop, Input}

LEMMA StepBy ==
  ASSUME NEW acc, NEW item
  PROVE  /\ item.tag = Report_Size => ReportStep(acc, item) = [acc EXCEPT !.now.size = item.value]
         /\ item.tag = Report_Count => ReportStep(acc, item) = [acc EXCEPT !.now.count = item.value]
         /\ item.tag = Report_ID => ReportStep(acc, item) = [acc EXCEPT !.now.id = item.value]
         /\ item.tag = Push => ReportStep(acc, item) = [acc EXCEPT !.stack = Append(@, acc.now)]
         /\ item.tag = Pop /\ acc.stack # <<>> =>
                ReportStep(acc, item) = [acc EXCEPT !.now = Last(acc.stack), !.stack = Front(@)]
         /\ item.tag = Input => ReportStep(acc, item) = [acc EXCEPT !.bits = Add(@, acc.now.id, acc.now.size * acc.now.count)]
         /\ item.tag \notin Minded \/ (item.tag = Pop /\ acc.stack = <<>>) => ReportStep(acc, item) = acc
<1> DEFINE t == item.tag
           r == ReportStep(acc, item)
<1>1. t = Report_Size => r = [acc EXCEPT !.now.size = item.value]
  BY RepTags DEF ReportStep
<1>2. t = Report_Count => r = [acc EXCEPT !.now.count = item.value]
  BY RepTags DEF ReportStep
<1>3. t = Report_ID => r = [acc EXCEPT !.now.id = item.value]
  BY RepTags DEF ReportStep
<1>4. t = Push => r = [acc EXCEPT !.stack = Append(@, acc.now)]
  BY RepTags DEF ReportStep
<1>5. t = Pop /\ acc.stack # <<>> => r = [acc EXCEPT !.now = Last(acc.stack), !.stack = Front(@)]
  BY RepTags DEF ReportStep
<1>6. t = Input => r = [acc EXCEPT !.bits = Add(@, acc.now.id, acc.now.size * acc.now.count)]
  BY RepTags DEF ReportStep
<1>7. t \notin Minded \/ (t = Pop /\ acc.stack = <<>>) => r = acc
  BY RepTags DEF ReportStep, Minded
<1> QED
  BY <1>1, <1>2, <1>3, <1>4, <1>5, <1>6, <1>7, Zenon

Globals == {Report_Size, Report_Count, Report_ID}
Field(tag, now) == IF tag = Report_Size THEN now.size ELSE IF tag = Report_Count THEN now.count ELSE now.id
Leaves(r, now, stack, bits) == r.now = now /\ r.stack = stack /\ r.bits = bits

LEMMA StepLeaves ==
  ASSUME NEW acc \in RepStates, NEW item
  PROVE  /\ item.tag \notin Minded \/ (item.tag = Pop /\ acc.stack = <<>>) => ReportStep(acc, item) = acc
         /\ item.tag = Report_Size => Leaves(ReportStep(acc, item), [acc.now EXCEPT !.size = item.value], acc.stack, acc.bits)
         /\ item.tag = Report_Count => Leaves(ReportStep(acc, item), [acc.now EXCEPT !.count = item.value], acc.stack, acc.bits)
         /\ item.tag = Report_ID => Leaves(ReportStep(acc, item), [acc.now EXCEPT !.id = item.value], acc.stack, acc.bits)
         /\ item.tag = Push => Leaves(ReportStep(acc, item), acc.now, Append(acc.stack, acc.now), acc.bits)
         /\ item.tag = Pop /\ acc.stack # <<>> => Leaves(ReportStep(acc, item), Last(acc.stack), Front(acc.stack), acc.bits)
         /\ item.tag = Input => Leaves(ReportStep(acc, item), acc.now, acc.stack, Add(acc.bits, acc.now.id, acc.now.size * acc.now.count))
<1>0. item.tag \notin Minded \/ (item.tag = Pop /\ acc.stack = <<>>) => ReportStep(acc, item) = acc
  BY StepBy, Zenon
<1>1. item.tag = Report_Size => Leaves(ReportStep(acc, item), [acc.now EXCEPT !.size = item.value], acc.stack, acc.bits)
  <2>1. item.tag = Report_Size => ReportStep(acc, item) = [acc EXCEPT !.now.size = item.value]
    BY StepBy, Zenon
  <2>2. Leaves([acc EXCEPT !.now.size = item.value], [acc.now EXCEPT !.size = item.value], acc.stack, acc.bits)
    BY DEF RepStates, Leaves
  <2> QED
    BY <2>1, <2>2, Zenon
<1>2. item.tag = Report_Count => Leaves(ReportStep(acc, item), [acc.now EXCEPT !.count = item.value], acc.stack, acc.bits)
  <2>1. item.tag = Report_Count => ReportStep(acc, item) = [acc EXCEPT !.now.count = item.value]
    BY StepBy, Zenon
  <2>2. Leaves([acc EXCEPT !.now.count = item.value], [acc.now EXCEPT !.count = item.value], acc.stack, acc.bits)
    BY DEF RepStates, Leaves
  <2> QED
    BY <2>1, <2>2, Zenon
<1>3. item.tag = Report_ID => Leaves(ReportStep(acc, item), [acc.now EXCEPT !.id = item.value], acc.stack, acc.bits)
  <2>1. item.tag = Report_ID => ReportStep(acc, item) = [acc EXCEPT !.now.id = item.value]
    BY StepBy, Zenon
  <2>2. Leaves([acc EXCEPT !.now.id = item.value], [acc.now EXCEPT !.id = item.value], acc.stack, acc.bits)
    BY DEF RepStates, Leaves
  <2> QED
    BY <2>1, <2>2, Zenon
<1>4. item.tag = Push => Leaves(ReportStep(acc, item), acc.now, Append(acc.stack, acc.now), acc.bits)
  <2>1. item.tag = Push => ReportStep(acc, item) = [acc EXCEPT !.stack = Append(@, acc.now)]
    BY StepBy, Zenon
  <2>2. Leaves([acc EXCEPT !.stack = Append(@, acc.now)], acc.now, Append(acc.stack, acc.now), acc.bits)
    BY DEF RepStates, Leaves
  <2> QED
    BY <2>1, <2>2, Zenon
<1>5. item.tag = Pop /\ acc.stack # <<>> => Leaves(ReportStep(acc, item), Last(acc.stack), Front(acc.stack), acc.bits)
  <2>1. item.tag = Pop /\ acc.stack # <<>> => ReportStep(acc, item) = [acc EXCEPT !.now = Last(acc.stack), !.stack = Front(@)]
    BY StepBy, Zenon
  <2>2. Leaves([acc EXCEPT !.now = Last(acc.stack), !.stack = Front(@)], Last(acc.stack), Front(acc.stack), acc.bits)
    BY DEF RepStates, Leaves
  <2> QED
    BY <2>1, <2>2, Zenon
<1>6. item.tag = Input => Leaves(ReportStep(acc, item), acc.now, acc.stack, Add(acc.bits, acc.now.id, acc.now.size * acc.now.count))
  <2>1. item.tag = Input => ReportStep(acc, item) = [acc EXCEPT !.bits = Add(@, acc.now.id, acc.now.size * acc.now.count)]
    BY StepBy, Zenon
  <2>2. Leaves([acc EXCEPT !.bits = Add(@, acc.now.id, acc.now.size * acc.now.count)], acc.now, acc.stack, Add(acc.bits, acc.now.id, acc.now.size * acc.now.count))
    BY DEF RepStates, Leaves
  <2> QED
    BY <2>1, <2>2, Zenon
<1> QED
  BY <1>0, <1>1, <1>2, <1>3, <1>4, <1>5, <1>6, Zenon

LEMMA StepStack ==
  ASSUME NEW acc \in RepStates, NEW item
  PROVE  /\ item.tag = Push => ReportStep(acc, item).stack = Append(acc.stack, acc.now)
         /\ item.tag = Pop /\ acc.stack # <<>> => ReportStep(acc, item).stack = Front(acc.stack)
         /\ item.tag # Push /\ ~(item.tag = Pop /\ acc.stack # <<>>) => ReportStep(acc, item).stack = acc.stack
<1>1. item.tag = Push => ReportStep(acc, item).stack = Append(acc.stack, acc.now)
  BY StepLeaves, Zenon DEF Leaves
<1>2. item.tag = Pop /\ acc.stack # <<>> => ReportStep(acc, item).stack = Front(acc.stack)
  BY StepLeaves, Zenon DEF Leaves
<1>3. item.tag # Push /\ ~(item.tag = Pop /\ acc.stack # <<>>) => ReportStep(acc, item).stack = acc.stack
  BY StepLeaves, Zenon DEF Leaves, Minded
<1> QED
  BY <1>1, <1>2, <1>3, Zenon

LEMMA StepBits ==
  ASSUME NEW acc \in RepStates, NEW item
  PROVE  /\ item.tag = Input => ReportStep(acc, item).bits = Add(acc.bits, acc.now.id, acc.now.size * acc.now.count)
         /\ item.tag # Input => ReportStep(acc, item).bits = acc.bits
<1>1. item.tag = Input => ReportStep(acc, item).bits = Add(acc.bits, acc.now.id, acc.now.size * acc.now.count)
  BY StepLeaves, Zenon DEF Leaves
<1>2. item.tag # Input => ReportStep(acc, item).bits = acc.bits
  BY StepLeaves, Zenon DEF Leaves, Minded
<1> QED
  BY <1>1, <1>2, Zenon

LEMMA StepNow ==
  ASSUME NEW acc \in RepStates, NEW item, NEW tag \in Globals
  PROVE  /\ item.tag = tag => Field(tag, ReportStep(acc, item).now) = item.value
         /\ item.tag = Pop /\ acc.stack # <<>> => ReportStep(acc, item).now = Last(acc.stack)
         /\ item.tag # tag /\ ~(item.tag = Pop /\ acc.stack # <<>>) =>
                Field(tag, ReportStep(acc, item).now) = Field(tag, acc.now)
<1> DEFINE r == ReportStep(acc, item)
           v == item.value
<1>1. /\ Field(tag, [acc.now EXCEPT !.size = v]) = IF tag = Report_Size THEN v ELSE Field(tag, acc.now)
      /\ Field(tag, [acc.now EXCEPT !.count = v]) = IF tag = Report_Count THEN v ELSE Field(tag, acc.now)
      /\ Field(tag, [acc.now EXCEPT !.id = v]) = IF tag = Report_ID THEN v ELSE Field(tag, acc.now)
  <2>1. acc.now \in NowSet
    BY DEF RepStates
  <2> DEFINE n == acc.now
  <2> HIDE DEF n
  <2>2. CASE tag = Report_Size
    BY <2>1, <2>2, RepTags DEF NowSet, Field, n
  <2>3. CASE tag = Report_Count
    BY <2>1, <2>3, RepTags DEF NowSet, Field, n
  <2>4. CASE tag = Report_ID
    BY <2>1, <2>4, RepTags DEF NowSet, Field, n
  <2> QED
    BY <2>2, <2>3, <2>4 DEF Globals
<1> DEFINE e(x) == Field(tag, x)
<1>2. item.tag = Report_Size => r.now = [acc.now EXCEPT !.size = v]
  BY StepLeaves, Zenon DEF Leaves
<1>3. item.tag = Report_Count => r.now = [acc.now EXCEPT !.count = v]
  BY StepLeaves, Zenon DEF Leaves
<1>4. item.tag = Report_ID => r.now = [acc.now EXCEPT !.id = v]
  BY StepLeaves, Zenon DEF Leaves
<1>5. item.tag = Pop /\ acc.stack # <<>> => r.now = Last(acc.stack)
  BY StepLeaves, Zenon DEF Leaves
<1>6. item.tag \notin Globals /\ ~(item.tag = Pop /\ acc.stack # <<>>) => r.now = acc.now
  BY StepLeaves, Zenon DEF Leaves, Minded, Globals
<1> HIDE DEF r, v
<1>7. item.tag = Report_Size => Field(tag, r.now) = IF tag = Report_Size THEN v ELSE Field(tag, acc.now)
  BY <1>1, <1>2, Zenon
<1>8. item.tag = Report_Count => Field(tag, r.now) = IF tag = Report_Count THEN v ELSE Field(tag, acc.now)
  BY <1>1, <1>3, Zenon
<1>9. item.tag = Report_ID => Field(tag, r.now) = IF tag = Report_ID THEN v ELSE Field(tag, acc.now)
  BY <1>1, <1>4, Zenon
<1>10. item.tag \notin Globals /\ ~(item.tag = Pop /\ acc.stack # <<>>) => Field(tag, r.now) = Field(tag, acc.now)
  BY <1>6, Zenon
<1> HIDE DEF Field
<1>11. item.tag = tag => Field(tag, r.now) = v
  BY <1>7, <1>8, <1>9 DEF Globals
<1>12. item.tag # tag /\ ~(item.tag = Pop /\ acc.stack # <<>>) => Field(tag, r.now) = Field(tag, acc.now)
  BY <1>7, <1>8, <1>9, <1>10, Zenon DEF Globals
<1> QED
  BY <1>5, <1>11, <1>12, Zenon DEF r, v

LEMMA FrontLast ==
  ASSUME NEW X, NEW s \in Seq(X), s # <<>>
  PROVE  /\ Front(s) \in Seq(X) /\ Len(s) \in Nat \ {0} /\ Len(Front(s)) = Len(s) - 1
         /\ \A i \in 1 .. Len(s) - 1 : Front(s)[i] = s[i]
         /\ Last(s) = s[Len(s)] /\ Last(s) \in X
<1>1. Len(s) \in Nat \ {0}
  BY EmptySeq
<1> DEFINE f == SubSeq(s, 1, Len(s) - 1)
<1>2. \A i \in 1 .. Len(s) - 1 : s[i] \in X
  <2> TAKE i \in 1 .. Len(s) - 1
  <2>1. i \in 1..Len(s)
    BY <1>1
  <2> QED
    BY <2>1, ElementOfSeq
<1>3. /\ f \in Seq(X) /\ Len(f) = IF 1 <= Len(s) - 1 THEN (Len(s) - 1) - 1 + 1 ELSE 0
      /\ \A i \in 1 .. (Len(s) - 1) - 1 + 1 : f[i] = s[1 + i - 1]
  <2>1. 1 \in Int /\ Len(s) - 1 \in Int
    BY <1>1
  <2> QED
    BY <1>1, <1>2, <2>1, SubSeqProperties
<1>4. f = Front(s)
  BY DEF Front
<1> HIDE DEF f
<1>5. Len(f) = Len(s) - 1
  <2> DEFINE l == Len(s)
             m == Len(f)
  <2>1. m = IF 1 <= l - 1 THEN (l - 1) - 1 + 1 ELSE 0
    BY <1>3, Zenon
  <2>2. l \in Nat \ {0}
    BY <1>1
  <2> HIDE DEF l, m
  <2>3. m = l - 1
    BY <2>1, <2>2
  <2> QED
    BY <2>3 DEF l, m
<1>6. \A i \in 1 .. Len(s) - 1 : f[i] = s[i]
  <2> TAKE i \in 1 .. Len(s) - 1
  <2>1. i \in 1 .. (Len(s) - 1) - 1 + 1 /\ 1 + i - 1 = i
    BY <1>1
  <2> QED
    BY <1>3, <2>1, Zenon
<1>7. Last(s) = s[Len(s)] /\ Last(s) \in X
  <2>1. Last(s) = s[Len(s)]
    BY DEF Last
  <2>2. Len(s) \in 1..Len(s)
    BY <1>1
  <2> QED
    BY <2>1, <2>2, ElementOfSeq
<1>8. Front(s) \in Seq(X)
  BY <1>3, <1>4, Zenon
<1>9. Len(Front(s)) = Len(s) - 1 /\ \A i \in 1 .. Len(s) - 1 : Front(s)[i] = s[i]
  BY <1>4, <1>5, <1>6, Zenon
<1> QED
  BY <1>1, <1>7, <1>8, <1>9

LEMMA AddType ==
  ASSUME NEW bits \in Seq(BitSet), NEW id \in Nat, NEW n \in Nat
  PROVE  Add(bits, id, n) \in Seq(BitSet)
<1>1. Len(bits) \in Nat /\ DOMAIN bits = 1..Len(bits) /\ \A k \in 1..Len(bits) : bits[k] \in BitSet
  BY LenProperties, ElementOfSeq
<1>2. CASE \E k \in DOMAIN bits : bits[k].id = id
  <2> DEFINE a == [k \in DOMAIN bits |-> IF bits[k].id = id THEN [bits[k] EXCEPT !.n = @ + n] ELSE bits[k]]
  <2>1. Add(bits, id, n) = a
    BY <1>2, Zenon DEF Add
  <2>2. \A k \in 1..Len(bits) : [bits[k] EXCEPT !.n = @ + n] \in BitSet
    <3>1. ASSUME NEW x \in BitSet, NEW m \in Nat PROVE [x EXCEPT !.n = m] \in BitSet
      BY DEF BitSet
    <3> TAKE k \in 1..Len(bits)
    <3> DEFINE x == bits[k]
               m == x.n + n
    <3>2. x \in BitSet
      BY <1>1
    <3> HIDE DEF x
    <3>3. m \in Nat
      BY <3>2 DEF BitSet
    <3> HIDE DEF m
    <3>4. [x EXCEPT !.n = m] \in BitSet
      BY <3>1, <3>2, <3>3
    <3> QED
      BY <3>4, Zenon DEF x, m
  <2>3. a \in [1..Len(bits) -> BitSet]
    <3> DEFINE more(k) == [bits[k] EXCEPT !.n = @ + n]
    <3>1. \A k \in 1..Len(bits) : more(k) \in BitSet
      BY <2>2
    <3>2. a = [k \in 1..Len(bits) |-> IF bits[k].id = id THEN more(k) ELSE bits[k]]
      BY <1>1
    <3> HIDE DEF more, a
    <3> QED
      BY <1>1, <3>1, <3>2
  <2> HIDE DEF a
  <2> QED
    BY <1>1, <2>1, <2>3, SeqDef
<1>3. CASE ~\E k \in DOMAIN bits : bits[k].id = id
  <2>1. Add(bits, id, n) = Append(bits, [id |-> id, n |-> n])
    BY <1>3, Zenon DEF Add
  <2>2. [id |-> id, n |-> n] \in BitSet
    BY DEF BitSet
  <2> QED
    BY <2>1, <2>2, AppendProperties
<1> QED
  BY <1>2, <1>3

LEMMA Products == \A a, b \in Nat : a * b \in Nat
OBVIOUS

LEMMA StepType ==
  ASSUME NEW acc \in RepStates, NEW item, item.tag # LONG_ITEM => item.value \in Nat
  PROVE  ReportStep(acc, item) \in RepStates
<1> DEFINE r == ReportStep(acc, item)
           n == acc.now
           s == acc.stack
           b == acc.bits
           t == item.tag
<1>1. /\ n \in NowSet /\ s \in Seq(NowSet) /\ b \in Seq(BitSet)
      /\ n.size \in Nat /\ n.count \in Nat /\ n.id \in Nat
  BY DEF RepStates, NowSet
<1>2. t \in {Report_Size, Report_Count, Report_ID} => item.value \in Nat
  BY RepTags
<1>3. CASE t \in {Report_Size, Report_Count, Report_ID}
  <2>1. \A v \in Nat : /\ [acc EXCEPT !.now.size = v] \in RepStates
                       /\ [acc EXCEPT !.now.count = v] \in RepStates
                       /\ [acc EXCEPT !.now.id = v] \in RepStates
    BY DEF RepStates, NowSet
  <2> QED
    BY <1>2, <1>3, <2>1, StepBy
<1>4. CASE t = Push
  <2>1. Append(s, n) \in Seq(NowSet)
    BY <1>1, AppendProperties
  <2>2. [acc EXCEPT !.stack = Append(@, acc.now)] \in RepStates
    BY <2>1 DEF RepStates
  <2> QED
    BY <1>4, <2>2, StepBy
<1>5. CASE t = Pop /\ s # <<>>
  <2>1. Front(s) \in Seq(NowSet) /\ Last(s) \in NowSet
    BY <1>1, <1>5, FrontLast
  <2>2. [acc EXCEPT !.now = Last(acc.stack), !.stack = Front(@)] \in RepStates
    BY <2>1 DEF RepStates
  <2> QED
    BY <1>5, <2>2, StepBy
<1>6. CASE t = Input
  <2>1. Add(b, n.id, n.size * n.count) \in Seq(BitSet)
    BY <1>1, AddType, Products
  <2>2. [acc EXCEPT !.bits = Add(@, acc.now.id, acc.now.size * acc.now.count)] \in RepStates
    BY <2>1 DEF RepStates
  <2> QED
    BY <1>6, <2>2, StepBy
<1>7. CASE t \notin Minded \/ (t = Pop /\ s = <<>>)
  BY <1>7, StepBy
<1> QED
  BY <1>3, <1>4, <1>5, <1>6, <1>7, Zenon DEF Minded

Ran(F, S) ==
    /\ F \in [0..Len(S) -> RepStates] /\ F[0] = RepStart
    /\ \A k \in 1..Len(S) : F[k] = ReportStep(F[k - 1], S[k])

LEMMA ItemValues == \A item \in AllItems : item.tag # LONG_ITEM => item.value \in Nat
BY DEF AllItems, ShortItems, LongItems

LEMMA RunsExist ==
  ASSUME NEW S \in Seq(AllItems)
  PROVE  \E F : Ran(F, S)
<1> DEFINE N == Len(S)
           G == [k \in 1..N |-> [acc \in RepStates |-> ReportStep(acc, S[k])]]
<1>1. N \in Nat /\ \A k \in 1..N : S[k] \in AllItems
  BY LenProperties, ElementOfSeq
<1>2. RepStart \in RepStates
  <2>1. <<>> \in Seq(NowSet) /\ <<>> \in Seq(BitSet)
    BY EmptySeq
  <2> QED
    BY <2>1 DEF RepStart, RepStates, NowSet
<1>3. \A k \in 1..N : \A acc \in RepStates : ReportStep(acc, S[k]) \in RepStates
  BY <1>1, ItemValues, StepType
<1> HIDE DEF N
<1>4. G \in [1..N -> [RepStates -> RepStates]] /\ \A k \in 1..N : \A acc \in RepStates : G[k][acc] = ReportStep(acc, S[k])
  BY <1>3
<1> HIDE DEF G
<1>5. PICK F : Recurs(F, RepStates, N, RepStart, G)
  BY <1>1, <1>2, <1>4, RecursionExists
<1>6. F \in [0..N -> RepStates] /\ F[0] = RepStart /\ \A k \in 1..N : F[k] = G[k][F[k - 1]]
  BY <1>5, Zenon DEF Recurs
<1>7. ASSUME NEW k \in 1..N PROVE F[k] = ReportStep(F[k - 1], S[k])
  <2>1. k - 1 \in 0..N
    BY <1>1
  <2>2. F[k - 1] \in RepStates
    BY <1>6, <2>1
  <2> QED
    BY <1>4, <1>6, <2>2, Zenon
<1> QED
  BY <1>6, <1>7, Zenon DEF Ran, N

\* The reports input_reports makes of the bits it has counted.
Whole(bits) == [k \in DOMAIN bits |-> [id |-> bits[k].id, bytes |-> (bits[k].n + 7) \div 8]]

Reporting(F, walked) == F = [k \in 0..Len(walked) |-> IF k = 0 THEN RepStart ELSE ReportStep(F[k - 1], walked[k])]

LEMMA ReportsIs == \A data : InputReports(data) = Whole((CHOOSE F : Reporting(F, Walk(data)))[Len(Walk(data))].bits)
BY Zenon DEF InputReports, Reporting, Whole, RepStart

\* Of an item the step looks at the tag and the value of those it minds.
LEMMA StepAlike ==
  ASSUME NEW acc, NEW x, NEW y, x.tag = y.tag, x.tag \in Minded => x.value = y.value
  PROVE  ReportStep(acc, x) = ReportStep(acc, y)
<1> DEFINE sized(v) == [acc EXCEPT !.now.size = v]
           counted(v) == [acc EXCEPT !.now.count = v]
           named(v) == [acc EXCEPT !.now.id = v]
           pushed == [acc EXCEPT !.stack = Append(@, acc.now)]
           popped == [acc EXCEPT !.now = Last(acc.stack), !.stack = Front(@)]
           added == [acc EXCEPT !.bits = Add(@, acc.now.id, acc.now.size * acc.now.count)]
           By(item, r) ==
               /\ item.tag = Report_Size => r = sized(item.value)
               /\ item.tag = Report_Count => r = counted(item.value)
               /\ item.tag = Report_ID => r = named(item.value)
               /\ item.tag = Push => r = pushed
               /\ item.tag = Pop /\ acc.stack # <<>> => r = popped
               /\ item.tag = Input => r = added
               /\ item.tag \notin Minded \/ (item.tag = Pop /\ acc.stack = <<>>) => r = acc
<1>1. By(x, ReportStep(acc, x)) /\ By(y, ReportStep(acc, y))
  BY StepBy
<1> HIDE DEF sized, counted, named, pushed, popped, added
<1> DEFINE p == ReportStep(acc, x)
           q == ReportStep(acc, y)
<1>2. By(x, p) /\ By(y, q)
  BY <1>1
<1> HIDE DEF p, q
<1>3. p = q
  BY <1>2 DEF Minded
<1> QED
  BY <1>3 DEF p, q

LEMMA ReportsRun ==
  ASSUME NEW S \in Seq(AllItems), NEW F, Ran(F, S)
  PROVE  InputReports(Encoded(S)) = Whole(F[Len(S)].bits)
<1> DEFINE data == Encoded(S)
           N == Len(S)
           walked == Read(S)
           C == CHOOSE H : Reporting(H, walked)
<1>1. N \in Nat /\ Len(walked) = N /\ Walk(data) = walked
  <2>1. N \in Nat
    BY Coding
  <2>2. Len(walked) = N
    BY <2>1 DEF Read
  <2> QED
    BY <2>1, <2>2, WalkReads
<1>2. \A k \in 1..N : \A acc : ReportStep(acc, walked[k]) = ReportStep(acc, S[k])
  <2> TAKE k \in 1..N
  <2>1. walked[k].tag = S[k].tag /\ (S[k].tag # LONG_ITEM => walked[k].value = S[k].value)
    BY DEF Read, Seen
  <2>2. LONG_ITEM \notin Minded
    BY RepTags DEF Minded
  <2>3. S[k].tag \in Minded => walked[k].value = S[k].value
    BY <2>1, <2>2, Zenon
  <2> HIDE DEF walked
  <2> QED
    BY <2>1, <2>3, StepAlike
<1>3. InputReports(data) = Whole(C[N].bits)
  BY <1>1, ReportsIs, Zenon
<1> HIDE DEF data, walked, N
<1>4. F \in [0..N -> RepStates] /\ F[0] = RepStart /\ \A k \in 1..N : F[k] = ReportStep(F[k - 1], S[k])
  BY Zenon DEF Ran, N
<1>5. \A k \in 0..N : F[k] = IF k = 0 THEN RepStart ELSE ReportStep(F[k - 1], walked[k])
  <2> TAKE k \in 0..N
  <2>1. CASE k = 0
    BY <1>4, <2>1
  <2>2. CASE k # 0
    <3>1. k \in 1..N
      BY <1>1, <2>2
    <3> QED
      BY <1>2, <1>4, <2>2, <3>1, Zenon
  <2> QED
    BY <2>1, <2>2
<1>6. Reporting(F, walked)
  <2>1. F = [k \in 0..N |-> F[k]]
    BY <1>4
  <2> QED
    BY <1>1, <1>5, <2>1, Zenon DEF Reporting
<1>7. Reporting(C, walked)
  BY <1>6, Zenon
<1> HIDE DEF C
<1>8. C[N] = F[N]
  <2>1. \A k \in 0..N : C[k] = IF k = 0 THEN RepStart ELSE ReportStep(C[k - 1], walked[k])
    BY <1>1, <1>7, Zenon DEF Reporting
  <2>2. C[0] = F[0]
    BY <1>1, <1>4, <2>1
  <2>3. ASSUME NEW k \in 1..N, C[k - 1] = F[k - 1] PROVE C[k] = F[k]
    <3>1. k \in 0..N /\ k # 0
      BY <1>1
    <3> QED
      BY <1>5, <2>1, <2>3, <3>1, Zenon
  <2>4. \A k \in 1..N : C[k - 1] = F[k - 1] => C[k] = F[k]
    BY <2>3
  <2>5. OneRecursion(C, F, N)
    BY <2>2, <2>4, Zenon DEF OneRecursion
  <2>6. Same(C, F, N)
    BY <1>1, <2>5, Alongside
  <2> QED
    BY <1>1, <2>6 DEF Same
<1> QED
  BY <1>3, <1>8, Zenon DEF data, N

Largest == 2147483647

LEMMA SignedRange ==
  ASSUME NEW v \in Nat, NEW z \in {0, 1, 2, 4}, v < Room(z)
  PROVE  Signed(v, z) \in Int /\ Signed(v, z) <= Largest
<1>1. CASE z = 0
  BY <1>1, Weights DEF Signed, Largest
<1>2. CASE z = 1
  BY <1>2, Weights DEF Signed, Largest
<1>3. CASE z = 2
  BY <1>3, Weights DEF Signed, Largest
<1>4. CASE z = 4
  BY <1>4, Weights DEF Signed, Largest
<1> QED
  BY <1>1, <1>2, <1>3, <1>4

InRange(M) == \A m \in M : m \in Int /\ m <= Largest

LEMMA LatestRange ==
  ASSUME NEW S \in Seq(AllItems)
  PROVE  \A n \in Nat : n <= Len(S) => InRange(Latest(S, Logical_Maximum, n))
<1> DEFINE L(n) == Latest(S, Logical_Maximum, n)
           T == { n \in Nat : n <= Len(S) => InRange(L(n)) }
<1>1. 0 \in T
  BY LatestNone DEF InRange
<1>2. ASSUME NEW n \in Nat, n \in T PROVE n + 1 \in T
  <2> SUFFICES ASSUME n + 1 <= Len(S) PROVE InRange(L(n + 1))
    OBVIOUS
  <2> DEFINE k == n + 1
  <2>1. n <= Len(S) /\ k \in 1..Len(S) /\ k - 1 = n
    BY LenProperties
  <2> HIDE DEF k
  <2>2. /\ S[k].tag = Logical_Maximum => L(k) = {Signed(S[k].value, S[k].size)}
        /\ S[k].tag # Logical_Maximum => L(k) = L(k - 1)
    BY <2>1, LatestStep
  <2>3. CASE S[k].tag = Logical_Maximum
    <3>1. S[k] \in ShortItems
      BY <2>1, <2>3, ReadFields, TagsDiffer
    <3>2. S[k].value \in Nat /\ S[k].size \in {0, 1, 2, 4} /\ S[k].value < Room(S[k].size)
      BY <3>1, ShortFields
    <3> DEFINE m == Signed(S[k].value, S[k].size)
    <3>3. m \in Int /\ m <= Largest
      BY <3>2, SignedRange
    <3>4. L(k) = {m}
      BY <2>2, <2>3, Zenon
    <3> HIDE DEF m, L
    <3>5. InRange(L(k))
      BY <3>3, <3>4 DEF InRange
    <3> QED
      BY <3>5 DEF k, L
  <2>4. CASE S[k].tag # Logical_Maximum
    <3>1. L(k) = L(n)
      BY <2>1, <2>2, <2>4, Zenon
    <3>2. InRange(L(n))
      BY <1>2, <2>1
    <3> HIDE DEF L
    <3>3. InRange(L(k))
      BY <3>1, <3>2, Zenon
    <3> QED
      BY <3>3 DEF k, L
  <2> QED
    BY <2>3, <2>4
<1>3. Nat \subseteq T
  <2> HIDE DEF T
  <2> QED
    BY <1>1, <1>2, SetInduction
<1> QED
  BY <1>3

\* What fix_signed_axes puts in is an item.
LEMMA MinimumIsItem ==
  ASSUME NEW v \in Int, v < 0, -v <= Largest
  PROVE  \E item \in ShortItems : item.tag = Logical_Minimum /\ LogicalMinimum(v) = Encode(item)
<1> DEFINE z == IF v >= -128 THEN 1 ELSE IF v >= -32768 THEN 2 ELSE 4
           u == v + Room(z)
           item == Item(Logical_Minimum, z, u)
<1>1. LogicalMinimum(v) = Encode(item)
  BY DEF LogicalMinimum
<1>2. z \in {0, 1, 2, 4} /\ u \in Nat /\ u < Room(z)
  <2>1. CASE v >= -128
    BY <2>1, Weights
  <2>2. CASE v < -128 /\ v >= -32768
    BY <2>2, Weights
  <2>3. CASE v < -32768
    BY <2>3, Weights DEF Largest
  <2> QED
    BY <2>1, <2>2, <2>3
<1>3. Logical_Minimum \in { 4 * n : n \in 0..62 }
  <2>1. 5 \in 0..62 /\ 4 * 5 = 20
    OBVIOUS
  <2> QED
    BY <2>1 DEF Logical_Minimum
<1> HIDE DEF z, u
<1>4. item \in ShortItems /\ item.tag = Logical_Minimum
  BY <1>2, <1>3 DEF Item, ShortItems
<1> QED
  BY <1>1, <1>4

LEMMA SignIsItem ==
  ASSUME NEW S \in Seq(AllItems), NEW k \in 1..Len(S), Unsigned(S) # {}, k = Min(Unsigned(S))
  PROVE  \E item \in ShortItems : item.tag = Logical_Minimum /\ Sign(S, k) = Encode(item)
<1> DEFINE L == Latest(S, Logical_Maximum, k)
           max == CHOOSE m \in L : TRUE
<1>1. k \in Unsigned(S)
  BY FirstUnsigned
<1>2. \E m \in L : m > 0
  BY <1>1 DEF Unsigned
<1>3. k \in Nat /\ k <= Len(S)
  BY LenProperties
<1>4. InRange(L)
  BY <1>3, LatestRange
<1>5. max \in L
  BY <1>2
<1>6. \A x, y \in L : x = y
  BY Zenon DEF Latest
<1> HIDE DEF L, max
<1>7. max \in Int /\ max > 0 /\ max <= Largest
  BY <1>2, <1>4, <1>5, <1>6 DEF InRange
<1>8. -max \in Int /\ -max < 0 /\ -(-max) <= Largest
  BY <1>7 DEF Largest
<1> DEFINE v == -max
<1>9. v \in Int /\ v < 0 /\ -v <= Largest
  BY <1>8
<1>10. Sign(S, k) = LogicalMinimum(v)
  BY Zenon DEF Sign, max, L
<1> HIDE DEF v
<1> QED
  BY <1>9, <1>10, MinimumIsItem, Zenon

\* S with the item l in front of its item a.
With(S, l, a) == [k \in 1 .. Len(S) + 1 |-> IF k < a THEN S[k] ELSE IF k = a THEN l ELSE S[k - 1]]

LEMMA WithItems ==
  ASSUME NEW S \in Seq(AllItems), NEW l \in AllItems, NEW a \in 1..Len(S)
  PROVE  /\ With(S, l, a) \in Seq(AllItems) /\ Len(With(S, l, a)) = Len(S) + 1 /\ Len(S) \in Nat
         /\ \A k \in 1..Len(S) : k < a => With(S, l, a)[k] = S[k]
         /\ With(S, l, a)[a] = l
         /\ \A k \in 1..Len(S) : k >= a => With(S, l, a)[k + 1] = S[k]
<1> DEFINE N == Len(S)
           T == With(S, l, a)
           point(k) == IF k < a THEN S[k] ELSE IF k = a THEN l ELSE S[k - 1]
<1>1. N \in Nat /\ \A k \in 1..N : S[k] \in AllItems
  BY Coding
<1>2. \A k \in 1 .. N + 1 : point(k) \in AllItems
  <2> TAKE k \in 1 .. N + 1
  <2>1. CASE k < a
    BY <1>1, <2>1
  <2>2. CASE k = a
    BY <2>2
  <2>3. CASE k > a
    <3>1. k - 1 \in 1..N
      BY <1>1, <2>3
    <3> QED
      BY <1>1, <2>3, <3>1
  <2> QED
    BY <1>1, <2>1, <2>2, <2>3
<1>3. T = [k \in 1 .. N + 1 |-> point(k)]
  BY DEF With
<1>4. \A k \in 1..N : k < a => point(k) = S[k]
  OBVIOUS
<1>5. point(a) = l
  OBVIOUS
<1>6. \A k \in 1..N : k >= a => point(k + 1) = S[k]
  <2> TAKE k \in 1..N
  <2> HAVE k >= a
  <2>1. ~(k + 1 < a) /\ k + 1 # a /\ (k + 1) - 1 = k
    BY <1>1
  <2> QED
    BY <2>1, Zenon
<1> HIDE DEF point, T
<1>7. T \in [1 .. N + 1 -> AllItems] /\ N + 1 \in Nat
  BY <1>1, <1>2, <1>3
<1>8. T \in Seq(AllItems) /\ Len(T) = N + 1
  BY <1>7, SeqDef, LenProperties
<1>9. \A k \in 1..N : k \in 1 .. N + 1 /\ k + 1 \in 1 .. N + 1
  BY <1>1
<1>10. a \in 1 .. N + 1
  BY <1>1
<1>11. (\A k \in 1..N : k < a => T[k] = S[k]) /\ T[a] = l /\ (\A k \in 1..N : k >= a => T[k + 1] = S[k])
  BY <1>3, <1>4, <1>5, <1>6, <1>9, <1>10
<1> QED
  BY <1>1, <1>8, <1>11 DEF T

\* What input_reports makes of T is what it makes of S.
Beside(S, T) == \A F : Ran(F, S) => \E G : Ran(G, T) /\ G[Len(T)] = F[Len(S)]

LEMMA WithRuns ==
  ASSUME NEW S \in Seq(AllItems), NEW l \in AllItems, NEW a \in 1..Len(S), l.tag \notin Minded
  PROVE  Beside(S, With(S, l, a))
<1> SUFFICES ASSUME NEW F, Ran(F, S) PROVE \E G : Ran(G, With(S, l, a)) /\ G[Len(With(S, l, a))] = F[Len(S)]
  BY Zenon DEF Beside
<1> DEFINE N == Len(S)
           T == With(S, l, a)
           point(k) == IF k < a THEN F[k] ELSE F[k - 1]
           G == [k \in 0 .. N + 1 |-> point(k)]
<1>1. /\ Len(T) = N + 1 /\ N \in Nat
      /\ \A k \in 1..N : k < a => T[k] = S[k]
      /\ T[a] = l
      /\ \A k \in 1..N : k >= a => T[k + 1] = S[k]
  BY WithItems
<1>2. F \in [0..N -> RepStates] /\ F[0] = RepStart /\ \A k \in 1..N : F[k] = ReportStep(F[k - 1], S[k])
  BY Zenon DEF Ran
<1>3. \A x : ReportStep(x, l) = x
  BY StepBy
<1>4. a \in 1..N
  OBVIOUS
<1> HIDE DEF N, T
<1>5. G \in [0 .. N + 1 -> RepStates]
  <2>1. \A k \in 0 .. N + 1 : point(k) \in RepStates
    <3> TAKE k \in 0 .. N + 1
    <3>1. CASE k < a
      <4>1. k \in 0..N
        BY <1>1, <1>4, <3>1
      <4> QED
        BY <1>2, <3>1, <4>1
    <3>2. CASE k >= a
      <4>1. k - 1 \in 0..N /\ ~(k < a)
        BY <1>1, <1>4, <3>2
      <4> QED
        BY <1>2, <4>1
    <3> QED
      BY <1>4, <3>1, <3>2
  <2> HIDE DEF point
  <2> QED
    BY <2>1
<1>6. \A k \in 0 .. N + 1 : G[k] = point(k)
  OBVIOUS
<1> HIDE DEF G
<1>7. \A k \in 0 .. N + 1 : (k < a => G[k] = F[k]) /\ (k >= a => G[k] = F[k - 1])
  BY <1>4, <1>6
<1> HIDE DEF point
<1>8. G[0] = RepStart
  <2>1. 0 \in 0 .. N + 1 /\ 0 < a
    BY <1>1, <1>4
  <2> QED
    BY <1>2, <1>7, <2>1, Zenon
<1>9. G[N + 1] = F[N]
  <2> DEFINE m == N + 1
  <2>1. m \in 0 .. N + 1 /\ m >= a /\ m - 1 = N
    BY <1>1, <1>4
  <2> HIDE DEF m
  <2>2. G[m] = F[N]
    BY <1>7, <2>1
  <2> QED
    BY <2>2 DEF m
<1>10. ASSUME NEW k \in 1 .. N + 1 PROVE G[k] = ReportStep(G[k - 1], T[k])
  <2> DEFINE j == k - 1
  <2>1. j \in 0 .. N + 1 /\ k \in 0 .. N + 1
    BY <1>1
  <2>2. CASE k < a
    <3>1. k \in 1..N /\ j < a
      BY <1>1, <1>4, <2>2
    <3>2. G[k] = F[k] /\ G[j] = F[j] /\ T[k] = S[k]
      BY <1>1, <1>7, <2>1, <2>2, <3>1
    <3>3. F[k] = ReportStep(F[j], S[k])
      BY <1>2, <3>1
    <3> HIDE DEF j
    <3>4. G[k] = ReportStep(G[j], T[k])
      BY <3>2, <3>3, Zenon
    <3> QED
      BY <3>4 DEF j
  <2>3. CASE k = a
    <3>1. j < a
      BY <1>4, <2>3
    <3>2. G[k] = F[j] /\ G[j] = F[j]
      BY <1>4, <1>7, <2>1, <2>3, <3>1
    <3>3. T[k] = l
      BY <1>1, <2>3
    <3> HIDE DEF j
    <3>4. G[k] = ReportStep(G[j], T[k])
      BY <1>3, <3>2, <3>3, Zenon
    <3> QED
      BY <3>4 DEF j
  <2>4. CASE k > a
    <3> DEFINE i == j - 1
    <3>1. j \in 1..N /\ j >= a /\ k >= a /\ j + 1 = k /\ j = k - 1
      BY <1>1, <1>4, <2>4
    <3> HIDE DEF j
    <3>2. G[k] = F[j]
      BY <1>7, <2>1, <3>1
    <3>3. G[j] = F[i]
      BY <1>7, <2>1, <3>1
    <3>4. T[k] = S[j]
      BY <1>1, <3>1
    <3>5. F[j] = ReportStep(F[i], S[j])
      BY <1>2, <3>1
    <3> HIDE DEF i
    <3>6. G[k] = ReportStep(G[j], T[k])
      BY <3>2, <3>3, <3>4, <3>5, Zenon
    <3> QED
      BY <3>6 DEF j
  <2> QED
    BY <1>1, <1>4, <2>2, <2>3, <2>4
<1>11. Ran(G, T)
  BY <1>1, <1>5, <1>8, <1>10, Zenon DEF Ran
<1>12. G[Len(T)] = F[N]
  BY <1>1, <1>9, Zenon
<1> QED
  BY <1>11, <1>12, Zenon DEF T, N

LEMMA WithCode ==
  ASSUME NEW S \in Seq(AllItems), NEW l \in AllItems, NEW a \in 1..Len(S), Unsigned(S) # {}, a = Min(Unsigned(S)),
         Sign(S, a) = Encode(l)
  PROVE  Encoded(With(S, l, a)) = FlattenSeq(Parts(S))
<1> DEFINE N == Len(S)
           T == With(S, l, a)
           c == Coded(T)
           p == Parts(S)
           e(k) == Encode(S[k])
           U(k) == Upto(c, k)
           V(k) == Upto(p, k)
<1>1. /\ T \in Seq(AllItems) /\ Len(T) = N + 1 /\ N \in Nat
      /\ \A k \in 1..N : k < a => T[k] = S[k]
      /\ T[a] = l
      /\ \A k \in 1..N : k >= a => T[k + 1] = S[k]
  BY WithItems
<1>2. c \in Seq(Seq(Byte)) /\ Len(c) = N + 1 /\ \A k \in 1 .. N + 1 : c[k] = Encode(T[k])
  <2>1. c \in Seq(Seq(Byte)) /\ Len(c) = Len(T) /\ \A k \in 1..Len(T) : c[k] = Encode(T[k])
    BY <1>1, Coding
  <2> QED
    BY <1>1, <2>1, Zenon
<1>3. \A k \in 1..N : e(k) \in Seq(Byte)
  BY Coding, Codes
<1>4. Encode(l) \in Seq(Byte)
  BY Codes
<1>5. \A k \in 1..N : p[k] = Sign(S, k) \o e(k) /\ Sign(S, k) \in Seq(Byte) /\ p[k] \in Seq(Byte)
  <2> TAKE k \in 1..N
  <2>1. p[k] = Sign(S, k) \o e(k)
    BY DEF Parts
  <2>2. Sign(S, k) \in Seq(Byte)
    BY SignType
  <2>3. Sign(S, k) \o e(k) \in Seq(Byte)
    BY <1>3, <2>2, ConcatProperties
  <2> QED
    BY <2>1, <2>2, <2>3, Zenon
<1>6. p \in Seq(Seq(Byte)) /\ Len(p) = N
  <2>1. \A k \in 1..Len(S) : Sign(S, k) \in Seq(Byte)
    BY SignType
  <2> QED
    BY <2>1, PiecesType
<1>7. \A k \in 1..N : k # a => Sign(S, k) = <<>>
  BY Zenon DEF Sign
<1>8. a \in 1..N
  OBVIOUS
<1>9. \A k \in 1..N : k # a => p[k] = e(k)
  <2> TAKE k \in 1..N
  <2> HAVE k # a
  <2>1. <<>> \o e(k) = e(k)
    BY <1>3, ConcatEmptySeq
  <2> QED
    BY <1>5, <1>7, <2>1, Zenon
<1>10. p[a] = Encode(l) \o e(a)
  BY <1>5, <1>8, Zenon
<1>11. \A k \in 1..N : /\ k < a => c[k] = e(k)
                       /\ k >= a => c[k + 1] = e(k)
  <2> TAKE k \in 1..N
  <2>1. k \in 1 .. N + 1 /\ k + 1 \in 1 .. N + 1
    BY <1>1
  <2>2. c[k] = Encode(T[k]) /\ c[k + 1] = Encode(T[k + 1])
    BY <1>2, <2>1
  <2>3. (k < a => T[k] = S[k]) /\ (k >= a => T[k + 1] = S[k])
    BY <1>1
  <2> HIDE DEF c, T
  <2> QED
    BY <2>2, <2>3, Zenon
<1>12. c[a] = Encode(l)
  <2>1. a \in 1 .. N + 1
    BY <1>1, <1>8
  <2> QED
    BY <1>1, <1>2, <2>1, Zenon
<1> HIDE DEF T, c, p, N, e
<1>13. ASSUME NEW k \in Nat, k < N + 1 PROVE U(k + 1) = U(k) \o c[k + 1] /\ U(k) \in Seq(Byte)
  <2>1. k < Len(c) /\ k <= Len(c)
    BY <1>1, <1>2, <1>13
  <2> QED
    BY <1>2, <2>1, UptoStep, UptoType
<1>14. ASSUME NEW k \in Nat, k < N PROVE V(k + 1) = V(k) \o p[k + 1]
  <2>1. k < Len(p)
    BY <1>6, <1>14
  <2> QED
    BY <1>6, <2>1, UptoStep
<1> HIDE DEF U, V
<1> DEFINE Level(k) == (k < a => U(k) = V(k)) /\ (k >= a => U(k + 1) = V(k))
           I == { k \in Nat : k <= N => Level(k) }
<1>15. 0 \in I
  <2>1. U(0) = <<>> /\ V(0) = <<>>
    BY UptoNone, Zenon DEF U, V
  <2>2. 0 < a /\ ~(0 >= a)
    BY <1>1, <1>8
  <2> QED
    BY <2>1, <2>2
<1>16. ASSUME NEW n \in Nat, n \in I PROVE n + 1 \in I
  <2> SUFFICES ASSUME n + 1 <= N PROVE Level(n + 1)
    OBVIOUS
  <2> DEFINE k == n + 1
  <2>1. k \in 1..N /\ k \in Nat /\ n <= N /\ n < N /\ n < N + 1 /\ k < N + 1
    BY <1>1
  <2>2. Level(n)
    BY <1>16, <2>1
  <2>3. V(k) = V(n) \o p[k]
    BY <1>14, <2>1
  <2>4. CASE k < a
    <3>1. n < a
      BY <2>1, <2>4
    <3>2. U(k) = U(n) \o c[k]
      BY <1>13, <2>1
    <3>3. p[k] = c[k] /\ k # a
      <4>1. k # a
        BY <2>4
      <4> HIDE DEF k
      <4> QED
        BY <1>9, <1>11, <2>1, <2>4, <4>1, Zenon
    <3>4. U(n) = V(n)
      BY <2>2, <3>1
    <3>5. U(k) = V(k)
      <4> HIDE DEF k
      <4> QED
        BY <2>3, <3>2, <3>3, <3>4, Zenon
    <3> QED
      BY <2>4, <3>5
  <2>5. CASE k = a
    <3>1. n < a
      BY <2>1, <2>5
    <3>2. U(k) = U(n) \o c[k] /\ U(n) \in Seq(Byte)
      BY <1>13, <2>1
    <3>3. U(k + 1) = U(k) \o c[k + 1]
      <4> HIDE DEF k
      <4> QED
        BY <1>13, <2>1
    <3>4. U(n) = V(n)
      BY <2>2, <3>1
    <3> HIDE DEF k
    <3>5. c[k] = Encode(l) /\ c[k + 1] = e(k) /\ p[k] = Encode(l) \o e(k) /\ e(k) \in Seq(Byte)
      <4>1. k >= a
        BY <2>1, <2>5
      <4>2. c[k + 1] = e(k) /\ e(k) \in Seq(Byte)
        BY <1>3, <1>11, <2>1, <4>1, Zenon
      <4> QED
        BY <1>10, <1>12, <2>5, <4>2, Zenon
    <3> DEFINE x == U(n)
               y == Encode(l)
               z == e(k)
    <3> HIDE DEF x, y, z
    <3>6. (x \o y) \o z = x \o (y \o z)
      <4>1. x \in Seq(Byte) /\ y \in Seq(Byte) /\ z \in Seq(Byte)
        BY <1>4, <3>2, <3>5, Zenon DEF x, y, z
      <4> QED
        BY <4>1, ConcatAssociative
    <3>7. U(k + 1) = (x \o y) \o z
      BY <3>2, <3>3, <3>5, Zenon DEF x, y, z
    <3>8. V(k) = x \o (y \o z)
      BY <2>3, <3>4, <3>5, Zenon DEF x, y, z
    <3>9. U(k + 1) = V(k)
      BY <3>6, <3>7, <3>8, Zenon
    <3> QED
      BY <2>1, <2>5, <3>9 DEF k
  <2>6. CASE k > a
    <3>1. n >= a /\ k >= a /\ ~(k < a) /\ k # a
      BY <1>8, <2>1, <2>6
    <3>2. U(k + 1) = U(k) \o c[k + 1]
      <4> HIDE DEF k
      <4> QED
        BY <1>13, <2>1
    <3>3. U(k) = V(n)
      BY <2>2, <3>1
    <3> HIDE DEF k
    <3>4. c[k + 1] = p[k]
      BY <1>9, <1>11, <2>1, <3>1, Zenon
    <3>5. U(k + 1) = V(k)
      BY <2>3, <3>2, <3>3, <3>4, Zenon
    <3> QED
      BY <3>1, <3>5 DEF k
  <2> QED
    BY <1>1, <1>8, <2>1, <2>4, <2>5, <2>6
<1>17. U(N + 1) = V(N)
  <2>1. Nat \subseteq I
    <3> HIDE DEF I
    <3> QED
      BY <1>15, <1>16, SetInduction
  <2>2. N \in Nat /\ N <= N /\ N >= a
    BY <1>1, <1>8
  <2> QED
    BY <2>1, <2>2
<1>18. U(N + 1) = FlattenSeq(c) /\ V(N) = FlattenSeq(p)
  BY <1>2, <1>6, UptoAll DEF U, V
<1> QED
  BY <1>17, <1>18, Zenon DEF c, p, T, Encoded

LEMMA FixedAs ==
  ASSUME NEW S \in Seq(AllItems)
  PROVE  \E T \in Seq(AllItems) : Encoded(T) = FlattenSeq(Parts(S)) /\ Beside(S, T)
<1>1. CASE Unsigned(S) = {}
  <2>1. \A k \in 1..Len(S) : Sign(S, k) = <<>> /\ Encode(S[k]) \in Seq(Byte)
    <3>1. \A k \in 1..Len(S) : Sign(S, k) = <<>>
      BY <1>1, Zenon DEF Sign
    <3>2. \A k \in 1..Len(S) : Encode(S[k]) \in Seq(Byte)
      <4>1. \A k \in 1..Len(S) : S[k] \in AllItems
        BY Coding
      <4> QED
        BY <4>1, Codes
    <3> QED
      BY <3>1, <3>2, Zenon
  <2>2. \A k \in 1..Len(S) : Sign(S, k) \o Encode(S[k]) = Encode(S[k])
    <3> TAKE k \in 1..Len(S)
    <3>1. <<>> \o Encode(S[k]) = Encode(S[k])
      BY <2>1, ConcatEmptySeq
    <3> QED
      BY <2>1, <3>1, Zenon
  <2>3. Parts(S) = Coded(S)
    BY <2>2 DEF Parts, Coded
  <2>4. Beside(S, S)
    BY Zenon DEF Beside
  <2> QED
    BY <2>3, <2>4, Zenon DEF Encoded
<1>2. CASE Unsigned(S) # {}
  <2> DEFINE a == Min(Unsigned(S))
  <2>1. a \in 1..Len(S)
    <3>1. Unsigned(S) \subseteq 1..Len(S) /\ Unsigned(S) \subseteq Nat
      BY LenProperties DEF Unsigned
    <3> QED
      BY <1>2, <3>1, SmallestIs
  <2> HIDE DEF a
  <2>2. a = Min(Unsigned(S))
    BY DEF a
  <2>3. PICK l \in ShortItems : l.tag = Logical_Minimum /\ Sign(S, a) = Encode(l)
    BY <1>2, <2>1, <2>2, SignIsItem
  <2>4. l \in AllItems /\ l.tag \notin Minded
    BY <2>3, RepTags DEF AllItems, Minded
  <2>5. Encoded(With(S, l, a)) = FlattenSeq(Parts(S))
    BY <1>2, <2>1, <2>2, <2>3, <2>4, WithCode
  <2>6. Beside(S, With(S, l, a)) /\ With(S, l, a) \in Seq(AllItems)
    BY <2>1, <2>4, WithRuns, WithItems
  <2> QED
    BY <2>5, <2>6, Zenon
<1> QED
  BY <1>1, <1>2

LEMMA NormalRuns ==
  ASSUME NEW S \in Seq(AllItems), NEW F, Ran(F, S)
  PROVE  Ran(F, Normal(S))
<1> DEFINE n == Normal(S)
<1>1. n \in Seq(AllItems) /\ Len(n) = Len(S)
  BY NormalItems
<1>2. ASSUME NEW k \in 1..Len(S), NEW acc PROVE ReportStep(acc, n[k]) = ReportStep(acc, S[k])
  <2>1. n[k] = IF S[k].tag = End_Collection THEN EndItem ELSE S[k]
    BY DEF Normal
  <2>2. n[k].tag = S[k].tag
    BY <2>1, EndCode
  <2>3. S[k].tag \in Minded => n[k].value = S[k].value
    BY <2>1, RepTags DEF Minded
  <2> HIDE DEF n
  <2>4. n[k].tag \in Minded => n[k].value = S[k].value
    BY <2>2, <2>3, Zenon
  <2> QED
    BY <2>2, <2>4, StepAlike
<1> HIDE DEF n
<1>3. F \in [0..Len(S) -> RepStates] /\ F[0] = RepStart /\ \A k \in 1..Len(S) : F[k] = ReportStep(F[k - 1], S[k])
  BY Zenon DEF Ran
<1>4. \A k \in 1..Len(S) : F[k] = ReportStep(F[k - 1], n[k])
  BY <1>2, <1>3, Zenon
<1> QED
  BY <1>1, <1>3, <1>4, Zenon DEF Ran, n

\* Whatever is rewritten, the reports are those of the items of the corpus.
LEMMA ReportsOfRig ==
  ASSUME NEW S \in Seq(AllItems), NEW F, Ran(F, S), NEW flags
  PROVE  InputReports(RewrittenItems(S, flags)) = Whole(F[Len(S)].bits)
<1> DEFINE n == AsAsked(S, flags)
<1>1. n \in Seq(AllItems) /\ Len(n) = Len(S) /\ Ran(F, n)
  BY NormalItems, NormalRuns, Zenon DEF AsAsked
<1> HIDE DEF n
<1>2. CASE "fix axes" \in flags
  <2>1. RewrittenItems(S, flags) = FlattenSeq(Parts(n))
    BY <1>2, Zenon DEF RewrittenItems, n
  <2>2. PICK T \in Seq(AllItems) : Encoded(T) = FlattenSeq(Parts(n)) /\ Beside(n, T)
    BY <1>1, FixedAs
  <2>3. PICK G : Ran(G, T) /\ G[Len(T)] = F[Len(n)]
    BY <1>1, <2>2, Zenon DEF Beside
  <2>4. InputReports(Encoded(T)) = Whole(G[Len(T)].bits)
    BY <2>3, ReportsRun
  <2> QED
    BY <1>1, <2>1, <2>2, <2>3, <2>4, Zenon
<1>3. CASE "fix axes" \notin flags
  <2>1. RewrittenItems(S, flags) = Encoded(n)
    BY <1>3, Zenon DEF RewrittenItems, n
  <2>2. InputReports(Encoded(n)) = Whole(F[Len(n)].bits)
    BY <1>1, ReportsRun
  <2> QED
    BY <1>1, <2>1, <2>2, Zenon
<1> QED
  BY <1>2, <1>3

(***************************************************************************)
(* The stack holds the settings before the Pushes no Pop has undone.        *)
(***************************************************************************)
Deepens(d, S) ==
    d = [k \in 0..Len(S) |->
            IF k = 0 THEN 0
            ELSE CASE S[k].tag = Push -> d[k - 1] + 1
                   [] S[k].tag = Pop /\ d[k - 1] > 0 -> d[k - 1] - 1
                   [] OTHER -> d[k - 1]]

LEMMA DepthIs == Depth = CHOOSE d : Deepens(d, items)
BY Zenon DEF Depth, Deepens

\* How deep the stack is after an item.
LEMMA DepthStep ==
  ASSUME NEW acc \in RepStates, NEW item
  PROVE  LET d == Len(acc.stack)
         IN  /\ d \in Nat /\ (d > 0 <=> acc.stack # <<>>)
             /\ item.tag = Push => Len(ReportStep(acc, item).stack) = d + 1
             /\ item.tag = Pop /\ d > 0 => Len(ReportStep(acc, item).stack) = d - 1
             /\ item.tag # Push /\ ~(item.tag = Pop /\ d > 0) => Len(ReportStep(acc, item).stack) = d
<1> DEFINE s == acc.stack
           d == Len(s)
           r == ReportStep(acc, item).stack
<1>1. s \in Seq(NowSet) /\ acc.now \in NowSet
  BY DEF RepStates
<1> HIDE DEF s
<1>2. d \in Nat /\ (d > 0 <=> s # <<>>)
  BY <1>1, EmptySeq
<1>3. /\ item.tag = Push => r = Append(s, acc.now)
      /\ item.tag = Pop /\ s # <<>> => r = Front(s)
      /\ item.tag # Push /\ ~(item.tag = Pop /\ s # <<>>) => r = s
  BY StepStack DEF s
<1>4. Len(Append(s, acc.now)) = d + 1
  BY <1>1, AppendProperties
<1>5. s # <<>> => Len(Front(s)) = d - 1
  BY <1>1, FrontLast
<1> HIDE DEF r, d
<1>6. /\ item.tag = Push => Len(r) = d + 1
      /\ item.tag = Pop /\ d > 0 => Len(r) = d - 1
      /\ item.tag # Push /\ ~(item.tag = Pop /\ d > 0) => Len(r) = d
  <2>1. item.tag = Push => Len(r) = d + 1
    BY <1>3, <1>4, Zenon
  <2>2. item.tag = Pop /\ d > 0 => Len(r) = d - 1
    BY <1>2, <1>3, <1>5, Zenon
  <2>3. item.tag # Push /\ ~(item.tag = Pop /\ d > 0) => Len(r) = d
    BY <1>2, <1>3, Zenon DEF d
  <2> QED
    BY <2>1, <2>2, <2>3, Zenon
<1> QED
  BY <1>2, <1>6, Zenon DEF r, d, s

Rises(d, S) ==
    /\ d[0] = 0
    /\ \A k \in 1..Len(S) : /\ S[k].tag = Push => d[k] = d[k - 1] + 1
                            /\ S[k].tag = Pop /\ d[k - 1] > 0 => d[k] = d[k - 1] - 1
                            /\ S[k].tag # Push /\ ~(S[k].tag = Pop /\ d[k - 1] > 0) => d[k] = d[k - 1]

LEMMA DeepensIs ==
  ASSUME NEW S \in Seq(AllItems), NEW d, d = [k \in 0..Len(S) |-> d[k]]
  PROVE  Deepens(d, S) <=> Rises(d, S)
<1> DEFINE N == Len(S)
           after(k) == CASE S[k].tag = Push -> d[k - 1] + 1
                   [] S[k].tag = Pop /\ d[k - 1] > 0 -> d[k - 1] - 1
                   [] OTHER -> d[k - 1]
           at0(k) == IF k = 0 THEN 0 ELSE after(k)
<1>1. N \in Nat
  BY LenProperties
<1>2. \A k : /\ S[k].tag = Push => after(k) = d[k - 1] + 1
             /\ S[k].tag = Pop /\ d[k - 1] > 0 => after(k) = d[k - 1] - 1
             /\ S[k].tag # Push /\ ~(S[k].tag = Pop /\ d[k - 1] > 0) => after(k) = d[k - 1]
  BY RepTags
<1>3. Deepens(d, S) <=> d = [k \in 0..N |-> at0(k)]
  BY Zenon DEF Deepens
<1> HIDE DEF after, N
<1>4. d = [k \in 0..N |-> at0(k)] <=> \A k \in 0..N : d[k] = at0(k)
  <2>1. d = [k \in 0..N |-> d[k]]
    BY DEF N
  <2> HIDE DEF at0
  <2> QED
    BY <2>1
<1>5. (\A k \in 0..N : d[k] = at0(k)) <=> d[0] = 0 /\ \A k \in 1..N : d[k] = after(k)
  <2>1. \A k : k \in 0..N <=> k = 0 \/ k \in 1..N
    BY <1>1
  <2>2. \A k \in 1..N : k # 0
    OBVIOUS
  <2> QED
    BY <2>1, <2>2, Zenon
<1>6. (\A k \in 1..N : d[k] = after(k)) <=>
          \A k \in 1..N : /\ S[k].tag = Push => d[k] = d[k - 1] + 1
                          /\ S[k].tag = Pop /\ d[k - 1] > 0 => d[k] = d[k - 1] - 1
                          /\ S[k].tag # Push /\ ~(S[k].tag = Pop /\ d[k - 1] > 0) => d[k] = d[k - 1]
  BY <1>2, Zenon
<1> QED
  BY <1>3, <1>4, <1>5, <1>6, Zenon DEF Rises, N

\* The run of the corpus entry's own items.
Runs(F) == items \in Seq(AllItems) /\ Ran(F, items)

LEMMA RunStep ==
  ASSUME NEW F, Runs(F)
  PROVE  /\ Len(items) \in Nat /\ F[0] = RepStart /\ DOMAIN items = 1..Len(items)
         /\ \A k \in 0..Len(items) : F[k] \in RepStates
         /\ \A k \in 1..Len(items) : /\ items[k] \in AllItems /\ F[k - 1] \in RepStates
                                     /\ F[k] = ReportStep(F[k - 1], items[k])
<1> DEFINE N == Len(items)
<1>1. N \in Nat /\ DOMAIN items = 1..N /\ \A k \in 1..N : items[k] \in AllItems
  BY LenProperties, ElementOfSeq DEF Runs
<1>2. F \in [0..N -> RepStates] /\ F[0] = RepStart /\ \A k \in 1..N : F[k] = ReportStep(F[k - 1], items[k])
  BY Zenon DEF Runs, Ran
<1> HIDE DEF N
<1>3. \A k \in 0..N : F[k] \in RepStates
  BY <1>2
<1>4. \A k \in 1..N : k - 1 \in 0..N
  BY <1>1
<1> QED
  BY <1>1, <1>2, <1>3, <1>4, Zenon DEF N

Deep(F, k) == Len(F[k].stack)

LEMMA DeepRises ==
  ASSUME NEW F, Runs(F), NEW k \in 1..Len(items)
  PROVE  /\ Deep(F, k - 1) \in Nat /\ (Deep(F, k - 1) > 0 <=> F[k - 1].stack # <<>>)
         /\ items[k].tag = Push => Deep(F, k) = Deep(F, k - 1) + 1
         /\ items[k].tag = Pop /\ Deep(F, k - 1) > 0 => Deep(F, k) = Deep(F, k - 1) - 1
         /\ items[k].tag # Push /\ ~(items[k].tag = Pop /\ Deep(F, k - 1) > 0) => Deep(F, k) = Deep(F, k - 1)
<1>1. F[k - 1] \in RepStates /\ F[k] = ReportStep(F[k - 1], items[k])
  BY RunStep
<1> DEFINE acc == F[k - 1]
           item == items[k]
           r == ReportStep(acc, item)
           d == Len(acc.stack)
<1>2. acc \in RepStates
  BY <1>1
<1> HIDE DEF acc, item
<1>3. /\ d \in Nat /\ (d > 0 <=> acc.stack # <<>>)
      /\ item.tag = Push => Len(r.stack) = d + 1
      /\ item.tag = Pop /\ d > 0 => Len(r.stack) = d - 1
      /\ item.tag # Push /\ ~(item.tag = Pop /\ d > 0) => Len(r.stack) = d
  BY <1>2, DepthStep
<1>4. Deep(F, k) = Len(r.stack) /\ Deep(F, k - 1) = d
  BY <1>1, Zenon DEF Deep, acc, item
<1> QED
  BY <1>3, <1>4, Zenon DEF acc, item

LEMMA DepthTells ==
  ASSUME NEW F, Runs(F)
  PROVE  \A k \in 0..Len(items) : Depth[k] = Deep(F, k)
<1> DEFINE N == Len(items)
           D == [k \in 0..N |-> Deep(F, k)]
           C == CHOOSE d : Deepens(d, items)
<1>1. N \in Nat /\ items \in Seq(AllItems) /\ F[0] = RepStart
  BY RunStep DEF Runs
<1>2. \A k \in 0..N : D[k] = Deep(F, k)
  OBVIOUS
<1>3. D = [k \in 0..N |-> D[k]]
  OBVIOUS
<1> HIDE DEF D
<1>4. Rises(D, items)
  <2>1. 0 \in 0..N /\ \A k \in 1..N : k \in 0..N /\ k - 1 \in 0..N
    BY <1>1
  <2>2. D[0] = 0
    <3>1. Deep(F, 0) = Len(<<>>)
      <4>1. RepStart.stack = <<>>
        BY DEF RepStart
      <4> QED
        BY <1>1, <4>1, Zenon DEF Deep
    <3>2. Len(<<>>) = 0
      OBVIOUS
    <3> QED
      BY <1>2, <2>1, <3>1, <3>2, Zenon
  <2>3. ASSUME NEW k \in 1..N
        PROVE  /\ items[k].tag = Push => D[k] = D[k - 1] + 1
               /\ items[k].tag = Pop /\ D[k - 1] > 0 => D[k] = D[k - 1] - 1
               /\ items[k].tag # Push /\ ~(items[k].tag = Pop /\ D[k - 1] > 0) => D[k] = D[k - 1]
    <3>1. D[k] = Deep(F, k) /\ D[k - 1] = Deep(F, k - 1)
      BY <1>2, <2>1
    <3> QED
      BY <3>1, DeepRises, Zenon
  <2> QED
    BY <2>2, <2>3, Zenon DEF Rises
<1>5. Deepens(D, items)
  BY <1>1, <1>3, <1>4, DeepensIs
<1>6. Deepens(C, items)
  BY <1>5, Zenon
<1>7. Depth = C
  BY DepthIs, Zenon
<1> HIDE DEF C
<1>8. C = [k \in 0..N |-> C[k]]
  BY <1>6 DEF Deepens
<1>9. Rises(C, items)
  BY <1>1, <1>6, <1>8, DeepensIs
<1>10. OneRecursion(C, D, N)
  <2>1. C[0] = D[0]
    BY <1>4, <1>9, Zenon DEF Rises
  <2>2. ASSUME NEW k \in 1..N, C[k - 1] = D[k - 1] PROVE C[k] = D[k]
    BY <1>4, <1>9, <2>2, Zenon DEF Rises
  <2> QED
    BY <2>1, <2>2, Zenon DEF OneRecursion
<1>11. Same(C, D, N)
  BY <1>1, <1>10, Alongside
<1> QED
  BY <1>2, <1>7, <1>11, Zenon DEF Same

\* p is the Push that opened level d of the stack after item k.
Opens(F, p, d) == items[p].tag = Push /\ Deep(F, p - 1) = d - 1
Opener(F, p, d, k) == p \in 1..k /\ Opens(F, p, d) /\ \A m \in 1..k : m > p => ~Opens(F, m, d)
StackTold(F, k) == \A d \in 1..Deep(F, k) : \E p \in 1..k : Opener(F, p, d, k) /\ F[k].stack[d] = F[p - 1].now

LEMMA StackSteps ==
  ASSUME NEW F, Runs(F), NEW k \in 1..Len(items), StackTold(F, k - 1)
  PROVE  StackTold(F, k)
<1> DEFINE j == k - 1
           s == F[j].stack
           t == F[k].stack
           l == Deep(F, j)
<1>1. /\ k \in Nat /\ j \in Nat /\ k = j + 1 /\ 1..j \subseteq 1..k
  BY RunStep
<1>2. /\ items[k].tag = Push => t = Append(s, F[j].now)
      /\ items[k].tag = Pop /\ s # <<>> => t = Front(s)
      /\ items[k].tag # Push /\ ~(items[k].tag = Pop /\ s # <<>>) => t = s
  <2>1. F[j] \in RepStates /\ F[k] = ReportStep(F[j], items[k])
    BY RunStep
  <2> QED
    BY <2>1, StepStack
<1>3. /\ l \in Nat /\ (l > 0 <=> s # <<>>)
      /\ items[k].tag = Push => Deep(F, k) = l + 1
      /\ items[k].tag = Pop /\ l > 0 => Deep(F, k) = l - 1
      /\ items[k].tag # Push /\ ~(items[k].tag = Pop /\ l > 0) => Deep(F, k) = l
  BY DeepRises
<1>4. s \in Seq(NowSet) /\ Len(s) = l /\ F[j].now \in NowSet
  <2>1. F[j] \in RepStates
    BY RunStep
  <2> QED
    BY <2>1 DEF RepStates, Deep
<1>5. \A d \in 1..l : \E p \in 1..j : Opener(F, p, d, j) /\ s[d] = F[p - 1].now
  BY Zenon DEF StackTold
<1> HIDE DEF s, t, l
<1>6. ASSUME NEW d \in 1..l, ~Opens(F, k, d), t[d] = s[d]
      PROVE  \E p \in 1..k : Opener(F, p, d, k) /\ t[d] = F[p - 1].now
  <2>1. PICK p \in 1..j : Opener(F, p, d, j) /\ s[d] = F[p - 1].now
    BY <1>5
  <2>2. p \in 1..k
    BY <1>1, <2>1
  <2>3. \A m \in 1..k : m > p => ~Opens(F, m, d)
    <3>1. \A m \in 1..k : m = k \/ m \in 1..j
      BY <1>1
    <3>2. \A m \in 1..j : m > p => ~Opens(F, m, d)
      BY <2>1, Zenon DEF Opener
    <3> QED
      BY <1>6, <3>1, <3>2, Zenon
  <2>4. Opener(F, p, d, k)
    BY <2>1, <2>2, <2>3, Zenon DEF Opener
  <2> QED
    BY <1>6, <2>1, <2>2, <2>4, Zenon
<1> HIDE DEF j
<1>7. \A d \in 1..Deep(F, k) : \E p \in 1..k : Opener(F, p, d, k) /\ t[d] = F[p - 1].now
  <2> TAKE d \in 1..Deep(F, k)
  <2>1. CASE items[k].tag = Push
    <3>1. t = Append(s, F[j].now) /\ Deep(F, k) = l + 1
      BY <1>2, <1>3, <2>1
    <3>2. (\A i \in 1..l : t[i] = s[i]) /\ t[l + 1] = F[j].now
      BY <1>4, <3>1, AppendProperties
    <3>3. CASE d = l + 1
      <4>1. k \in 1..k /\ k - 1 = j /\ d - 1 = l
        BY <1>1, <1>3, <3>3
      <4>2. Deep(F, j) = l
        BY DEF l, j
      <4>3. Opens(F, k, d)
        BY <2>1, <4>1, <4>2, Zenon DEF Opens
      <4>4. \A m \in 1..k : ~(m > k)
        BY <1>1
      <4>5. Opener(F, k, d, k)
        BY <4>1, <4>3, <4>4, Zenon DEF Opener
      <4>6. t[d] = F[k - 1].now
        BY <3>2, <3>3, <4>1, Zenon
      <4> QED
        BY <4>1, <4>5, <4>6, Zenon
    <3>4. CASE d # l + 1
      <4>1. d \in 1..l /\ d - 1 # l
        BY <1>3, <3>1, <3>4
      <4>2. Deep(F, k - 1) = l
        BY DEF l, j
      <4>3. ~Opens(F, k, d)
        BY <4>1, <4>2, Zenon DEF Opens
      <4> QED
        BY <1>6, <3>2, <4>1, <4>3
    <3> QED
      BY <3>3, <3>4
  <2>2. CASE items[k].tag = Pop /\ s # <<>>
    <3>1. t = Front(s) /\ Deep(F, k) = l - 1
      BY <1>2, <1>3, <2>2
    <3>2. \A i \in 1 .. l - 1 : t[i] = s[i]
      BY <1>4, <2>2, <3>1, FrontLast
    <3>3. d \in 1..l /\ d \in 1 .. l - 1
      BY <1>3, <3>1
    <3>4. ~Opens(F, k, d)
      BY <2>2, RepTags DEF Opens
    <3> QED
      BY <1>6, <3>2, <3>3, <3>4
  <2>3. CASE items[k].tag # Push /\ ~(items[k].tag = Pop /\ s # <<>>)
    <3>1. t = s /\ Deep(F, k) = l
      BY <1>2, <1>3, <2>3, Zenon
    <3>2. ~Opens(F, k, d) /\ d \in 1..l
      BY <2>3, <3>1, Zenon DEF Opens
    <3> QED
      BY <1>6, <3>1, <3>2
  <2> QED
    BY <2>1, <2>2, <2>3, Zenon
<1> QED
  BY <1>7, Zenon DEF StackTold, t

LEMMA StackHolds ==
  ASSUME NEW F, Runs(F)
  PROVE  \A k \in 0..Len(items) : StackTold(F, k)
<1> DEFINE N == Len(items)
           T == { n \in Nat : n <= N => StackTold(F, n) }
<1>1. N \in Nat /\ F[0] = RepStart
  BY RunStep
<1>2. 0 \in T
  <2>1. Deep(F, 0) = 0
    <3>1. RepStart.stack = <<>> /\ Len(<<>>) = 0
      BY DEF RepStart
    <3> QED
      BY <1>1, <3>1, Zenon DEF Deep
  <2>2. StackTold(F, 0)
    BY <2>1 DEF StackTold
  <2> QED
    BY <2>2
<1>3. ASSUME NEW n \in Nat, n \in T PROVE n + 1 \in T
  <2> SUFFICES ASSUME n + 1 <= N PROVE StackTold(F, n + 1)
    OBVIOUS
  <2> DEFINE k == n + 1
  <2>1. k \in 1..N /\ k - 1 = n /\ n <= N
    BY <1>1
  <2> HIDE DEF k
  <2>2. StackTold(F, k - 1)
    BY <1>3, <2>1
  <2>3. StackTold(F, k)
    BY <2>1, <2>2, StackSteps
  <2> QED
    BY <2>3 DEF k
<1>4. Nat \subseteq T
  <2> HIDE DEF T
  <2> QED
    BY <1>2, <1>3, SetInduction
<1> QED
  BY <1>1, <1>4

LEMMA GreatestIs ==
  ASSUME NEW S, S \subseteq Int, NEW m \in S, \A y \in S : y <= m
  PROVE  Max(S) = m
<1>1. \A y \in S : m >= y
  OBVIOUS
<1>2. \A x \in S : (\A y \in S : x >= y) => x = m
  OBVIOUS
<1> QED
  BY <1>1, <1>2 DEF Max

\* A Pop brings back the settings before the Push it undoes.
LEMMA UndoneTells ==
  ASSUME NEW F, Runs(F), NEW k \in 1..Len(items), items[k].tag = Pop
  PROVE  /\ F[k - 1].stack = <<>> => Undone(k) = 0
         /\ F[k - 1].stack # <<>> => Undone(k) \in 1 .. k - 1 /\ Last(F[k - 1].stack) = F[Undone(k) - 1].now
<1> DEFINE j == k - 1
           s == F[j].stack
           l == Deep(F, j)
           M == { m \in 1 .. k - 1 : items[m].tag = Push /\ Depth[m - 1] = Depth[k] }
<1>1. /\ l \in Nat /\ (l > 0 <=> s # <<>>) /\ (l > 0 => Deep(F, k) = l - 1)
  BY DeepRises
<1>2. k \in Nat /\ j \in Nat /\ k = j + 1 /\ Len(items) \in Nat
  BY RunStep
<1>3. j \in 0..Len(items) /\ k \in 0..Len(items) /\ \A m \in 1..j : m - 1 \in 0..Len(items)
  BY <1>2
<1>4. Depth[k] = Deep(F, k) /\ Depth[j] = l /\ \A m \in 1..j : Depth[m - 1] = Deep(F, m - 1)
  BY <1>3, DepthTells
<1>5. s \in Seq(NowSet) /\ Len(s) = l
  <2>1. F[j] \in RepStates
    BY RunStep
  <2> QED
    BY <2>1 DEF RepStates, Deep
<1>6. Undone(k) = IF l = 0 THEN 0 ELSE Max(M)
  BY <1>4, Zenon DEF Undone
<1>7. s = <<>> => Undone(k) = 0
  <2> HIDE DEF M, s, l
  <2> QED
    BY <1>1, <1>6
<1>8. ASSUME s # <<>> PROVE Undone(k) \in 1..j /\ Last(s) = F[Undone(k) - 1].now
  <2>1. l > 0 /\ l \in 1..l /\ Deep(F, k) = l - 1
    BY <1>1, <1>8
  <2>2. Last(s) = s[l]
    BY <1>5, <1>8, FrontLast
  <2>3. StackTold(F, j)
    BY <1>3, StackHolds
  <2> HIDE DEF s, l, j
  <2>4. l \in 1..Deep(F, j)
    BY <2>1 DEF l
  <2>5. PICK p \in 1..j : Opener(F, p, l, j) /\ F[j].stack[l] = F[p - 1].now
    BY <2>3, <2>4, Zenon DEF StackTold
  <2>6. M = { m \in 1..j : Opens(F, m, l) }
    <3>1. M = { m \in 1..j : items[m].tag = Push /\ Depth[m - 1] = Depth[k] }
      BY DEF j
    <3>2. \A m \in 1..j : Depth[m - 1] = Depth[k] <=> Deep(F, m - 1) = l - 1
      BY <1>4, <2>1, Zenon
    <3> HIDE DEF M
    <3> QED
      BY <3>1, <3>2 DEF Opens
  <2>7. p \in M /\ M \subseteq Int
    <3>1. Opens(F, p, l)
      BY <2>5, Zenon DEF Opener
    <3> QED
      BY <2>5, <2>6, <3>1
  <2>8. \A y \in M : y <= p
    <3>1. \A m \in 1..j : m > p => ~Opens(F, m, l)
      BY <2>5, Zenon DEF Opener
    <3> HIDE DEF M
    <3> QED
      BY <2>5, <2>6, <3>1
  <2> HIDE DEF M
  <2>9. Max(M) = p
    BY <2>7, <2>8, GreatestIs
  <2>10. Undone(k) = p
    BY <1>6, <2>1, <2>9
  <2> QED
    BY <2>2, <2>5, <2>10, Zenon DEF s
<1> QED
  BY <1>7, <1>8

Sets(s, tag) ==
    s = [k \in 0..Len(items) |->
            IF k = 0 THEN 0
            ELSE IF items[k].tag = tag THEN items[k].value
            ELSE IF items[k].tag = Pop /\ Undone(k) > 0 THEN s[Undone(k) - 1] ELSE s[k - 1]]

LEMMA SettingIs == \A tag : Setting(tag) = CHOOSE s : Sets(s, tag)
BY Zenon DEF Setting, Sets

\* What it was set to, stack or no stack: where a Pop undoes a Push, what it was before that.
LEMMA FieldSteps ==
  ASSUME NEW F, Runs(F), NEW tag \in Globals, NEW k \in 1..Len(items)
  PROVE  /\ items[k].tag = tag => Field(tag, F[k].now) = items[k].value
         /\ items[k].tag # tag /\ items[k].tag = Pop /\ Undone(k) > 0 =>
                Field(tag, F[k].now) = Field(tag, F[Undone(k) - 1].now)
         /\ items[k].tag # tag /\ ~(items[k].tag = Pop /\ Undone(k) > 0) =>
                Field(tag, F[k].now) = Field(tag, F[k - 1].now)
         /\ items[k].tag = Pop /\ Undone(k) > 0 => Undone(k) \in 1 .. k - 1
<1> DEFINE acc == F[k - 1]
           item == items[k]
           r == ReportStep(acc, item)
           u == Undone(k)
<1>1. acc \in RepStates /\ F[k] = r
  BY RunStep
<1> HIDE DEF acc
<1>2. /\ item.tag = tag => Field(tag, r.now) = item.value
      /\ item.tag = Pop /\ acc.stack # <<>> => r.now = Last(acc.stack)
      /\ item.tag # tag /\ ~(item.tag = Pop /\ acc.stack # <<>>) => Field(tag, r.now) = Field(tag, acc.now)
  BY <1>1, StepNow
<1>3. item.tag = Pop => /\ acc.stack = <<>> => u = 0
                        /\ acc.stack # <<>> => u \in 1 .. k - 1 /\ Last(acc.stack) = F[u - 1].now
  BY UndoneTells DEF acc
<1> HIDE DEF u, r, item
<1>4. item.tag = Pop => (u > 0 <=> acc.stack # <<>>)
  BY <1>3
<1>5. item.tag = tag => Field(tag, F[k].now) = item.value
  BY <1>1, <1>2, Zenon
<1>6. item.tag # tag /\ item.tag = Pop /\ u > 0 => Field(tag, F[k].now) = Field(tag, F[u - 1].now)
  BY <1>1, <1>2, <1>3, <1>4, Zenon
<1>7. item.tag # tag /\ ~(item.tag = Pop /\ u > 0) => Field(tag, F[k].now) = Field(tag, acc.now)
  BY <1>1, <1>2, <1>4, Zenon
<1>8. item.tag = Pop /\ u > 0 => u \in 1 .. k - 1
  BY <1>3, <1>4, Zenon
<1> QED
  BY <1>5, <1>6, <1>7, <1>8, Zenon DEF u, item, acc

LEMMA SettingTells ==
  ASSUME NEW F, Runs(F), NEW tag \in Globals
  PROVE  \A k \in 0..Len(items) : Setting(tag)[k] = Field(tag, F[k].now)
<1> DEFINE N == Len(items)
           W == [k \in 0..N |-> Field(tag, F[k].now)]
           C == CHOOSE s : Sets(s, tag)
           Recalled(s, k) == IF k = 0 THEN 0
                         ELSE IF items[k].tag = tag THEN items[k].value
                         ELSE IF items[k].tag = Pop /\ Undone(k) > 0 THEN s[Undone(k) - 1] ELSE s[k - 1]
<1>1. N \in Nat /\ F[0] = RepStart
  BY RunStep
<1>2. \A k \in 0..N : W[k] = Field(tag, F[k].now)
  OBVIOUS
<1>3. W = [k \in 0..N |-> W[k]]
  OBVIOUS
<1> HIDE DEF W
<1>4. \A k \in 0..N : W[k] = Recalled(W, k)
  <2> TAKE k \in 0..N
  <2>1. CASE k = 0
    <3>1. Field(tag, RepStart.now) = 0
      BY DEF Field, RepStart
    <3>2. W[k] = 0
      BY <1>1, <1>2, <2>1, <3>1, Zenon
    <3> QED
      BY <2>1, <3>2, Zenon
  <2>2. CASE k # 0
    <3>1. k \in 1..N /\ k - 1 \in 0..N
      BY <1>1, <2>2
    <3> DEFINE u == Undone(k)
    <3>2. /\ items[k].tag = tag => Field(tag, F[k].now) = items[k].value
          /\ items[k].tag # tag /\ items[k].tag = Pop /\ u > 0 => Field(tag, F[k].now) = Field(tag, F[u - 1].now)
          /\ items[k].tag # tag /\ ~(items[k].tag = Pop /\ u > 0) => Field(tag, F[k].now) = Field(tag, F[k - 1].now)
          /\ items[k].tag = Pop /\ u > 0 => u \in 1 .. k - 1
      BY <3>1, FieldSteps
    <3> HIDE DEF u
    <3>3. u \in 1 .. k - 1 => u - 1 \in 0..N
      BY <3>1
    <3>4. items[k].tag = Pop /\ u > 0 => W[u - 1] = Field(tag, F[u - 1].now)
      BY <1>2, <3>2, <3>3, Zenon
    <3>5. W[k] = Field(tag, F[k].now) /\ W[k - 1] = Field(tag, F[k - 1].now)
      BY <1>2, <3>1, Zenon
    <3>6. /\ items[k].tag = tag => W[k] = items[k].value
          /\ items[k].tag # tag /\ items[k].tag = Pop /\ u > 0 => W[k] = W[u - 1]
          /\ items[k].tag # tag /\ ~(items[k].tag = Pop /\ u > 0) => W[k] = W[k - 1]
      BY <3>2, <3>4, <3>5, Zenon
    <3> QED
      BY <2>2, <3>6, Zenon DEF u
  <2> QED
    BY <2>1, <2>2
<1>5. Sets(W, tag)
  BY <1>3, <1>4, Zenon DEF Sets
<1>6. Sets(C, tag) /\ Setting(tag) = C
  BY <1>5, SettingIs, Zenon
<1> HIDE DEF C
<1>7. \A k \in 0..N : C[k] = Recalled(C, k)
  BY <1>6, Zenon DEF Sets
<1> DEFINE T == { n \in Nat : \A k \in 0..n : k <= N => C[k] = W[k] }
<1>8. 0 \in T
  <2>1. 0 \in 0..N
    BY <1>1
  <2>2. C[0] = 0 /\ W[0] = 0
    BY <1>4, <1>7, <2>1, Zenon
  <2>3. \A k \in 0..0 : k = 0
    OBVIOUS
  <2> HIDE DEF Recalled
  <2> QED
    BY <2>2, <2>3
<1>9. ASSUME NEW n \in Nat, n \in T PROVE n + 1 \in T
  <2>1. \A k \in 0..n : k <= N => C[k] = W[k]
    BY <1>9
  <2>2. ASSUME NEW k \in 0 .. n + 1, k <= N PROVE C[k] = W[k]
    <3>1. CASE k \in 0..n
      BY <2>1, <2>2, <3>1
    <3>2. CASE k = n + 1
      <4>1. k \in 0..N /\ k # 0 /\ k \in 1..N
        BY <1>1, <2>2, <3>2
      <4>2. k - 1 \in 0..n /\ k - 1 <= N
        BY <1>1, <2>2, <3>2
      <4>3. C[k - 1] = W[k - 1]
        BY <2>1, <4>2
      <4> DEFINE u == Undone(k)
      <4>4. items[k].tag = Pop /\ u > 0 => u \in 1 .. k - 1
        BY <4>1, FieldSteps
      <4> HIDE DEF u
      <4>5. u \in 1 .. k - 1 => u - 1 \in 0..n /\ u - 1 <= N
        BY <1>1, <3>2, <2>2
      <4>6. items[k].tag = Pop /\ u > 0 => C[u - 1] = W[u - 1]
        BY <2>1, <4>4, <4>5, Zenon
      <4>7. Recalled(C, k) = Recalled(W, k)
        BY <4>3, <4>6, Zenon DEF u
      <4> HIDE DEF Recalled
      <4> QED
        BY <1>4, <1>7, <4>1, <4>7, Zenon
    <3> QED
      BY <3>1, <3>2
  <2> QED
    BY <2>2
<1>10. Nat \subseteq T
  <2> HIDE DEF T
  <2> QED
    BY <1>8, <1>9, SetInduction
<1>11. \A k \in 0..N : C[k] = W[k]
  <2>1. N \in 0..N
    BY <1>1
  <2> HIDE DEF Recalled
  <2> QED
    BY <1>1, <1>10, <2>1
<1> QED
  BY <1>2, <1>6, <1>11, Zenon

(***************************************************************************)
(* The bits of a report are those of the inputs made under its ID.          *)
(***************************************************************************)
Bits(F, n) == [j \in 1..n |-> F[j].now.size * F[j].now.count]
Under(F, id, k) == { j \in 1..k : items[j].tag = Input /\ F[j].now.id = id }

LEMMA Adding ==
  ASSUME NEW bits \in Seq(BitSet), NEW id \in Nat, NEW n \in Nat
  PROVE  LET r == Add(bits, id, n)
         IN  /\ (\E i \in DOMAIN bits : bits[i].id = id) =>
                   /\ DOMAIN r = DOMAIN bits
                   /\ \A i \in DOMAIN bits : /\ r[i].id = bits[i].id
                                             /\ bits[i].id = id => r[i].n = n + bits[i].n
                                             /\ bits[i].id # id => r[i].n = bits[i].n
             /\ ~(\E i \in DOMAIN bits : bits[i].id = id) =>
                   /\ DOMAIN r = 1 .. Len(bits) + 1
                   /\ \A i \in DOMAIN bits : r[i] = bits[i]
                   /\ r[Len(bits) + 1].id = id /\ r[Len(bits) + 1].n = n
<1> DEFINE r == Add(bits, id, n)
           a == [i \in DOMAIN bits |-> IF bits[i].id = id THEN [bits[i] EXCEPT !.n = @ + n] ELSE bits[i]]
           e == [id |-> id, n |-> n]
<1>1. Len(bits) \in Nat /\ DOMAIN bits = 1..Len(bits) /\ \A k \in 1..Len(bits) : bits[k] \in BitSet
  BY LenProperties, ElementOfSeq
<1>2. ASSUME \E i \in DOMAIN bits : bits[i].id = id
      PROVE  /\ DOMAIN r = DOMAIN bits
             /\ \A i \in DOMAIN bits : /\ r[i].id = bits[i].id
                                       /\ bits[i].id = id => r[i].n = n + bits[i].n
                                       /\ bits[i].id # id => r[i].n = bits[i].n
  <2>1. r = a
    BY <1>2, Zenon DEF Add
  <2>2. \A x \in BitSet : [x EXCEPT !.n = @ + n].id = x.id /\ [x EXCEPT !.n = @ + n].n = n + x.n
    BY DEF BitSet
  <2> DEFINE more(x) == [x EXCEPT !.n = @ + n]
  <2>3. \A x \in BitSet : more(x).id = x.id /\ more(x).n = n + x.n
    BY <2>2
  <2>4. DOMAIN a = DOMAIN bits /\ \A i \in DOMAIN bits : a[i] = IF bits[i].id = id THEN more(bits[i]) ELSE bits[i]
    OBVIOUS
  <2> HIDE DEF a, r, more
  <2>5. ASSUME NEW i \in DOMAIN bits
        PROVE  /\ r[i].id = bits[i].id
               /\ bits[i].id = id => r[i].n = n + bits[i].n
               /\ bits[i].id # id => r[i].n = bits[i].n
    <3>1. bits[i] \in BitSet /\ r[i] = IF bits[i].id = id THEN more(bits[i]) ELSE bits[i]
      BY <1>1, <2>1, <2>4, Zenon
    <3> QED
      BY <2>3, <3>1, Zenon
  <2> QED
    BY <2>1, <2>4, <2>5, Zenon
<1>3. ASSUME ~\E i \in DOMAIN bits : bits[i].id = id
      PROVE  /\ DOMAIN r = 1 .. Len(bits) + 1
             /\ \A i \in DOMAIN bits : r[i] = bits[i]
             /\ r[Len(bits) + 1].id = id /\ r[Len(bits) + 1].n = n
  <2>1. r = Append(bits, e)
    BY <1>3, Zenon DEF Add
  <2>2. e \in BitSet /\ e.id = id /\ e.n = n
    BY DEF BitSet
  <2> HIDE DEF r, e
  <2>3. /\ r \in Seq(BitSet) /\ Len(r) = Len(bits) + 1
        /\ \A i \in 1..Len(bits) : r[i] = bits[i]
        /\ r[Len(bits) + 1] = e
    BY <2>1, <2>2, AppendProperties
  <2>4. DOMAIN r = 1..Len(r)
    BY <2>3, LenProperties
  <2> QED
    BY <1>1, <2>2, <2>3, <2>4, Zenon
<1> QED
  BY <1>2, <1>3

Gathers(F, bits, k) ==
    \A i \in DOMAIN bits : /\ Under(F, bits[i].id, k) # {}
                           /\ bits[i].n = Summed(Bits(F, Len(items)), Under(F, bits[i].id, k))
Covers(F, bits, k) == \A id : Under(F, id, k) # {} => \E i \in DOMAIN bits : bits[i].id = id
Apart(bits) == \A i, j \in DOMAIN bits : bits[i].id = bits[j].id => i = j
IsFirst(m) == items[m].tag = Input /\ \A j \in 1 .. m - 1 : items[j].tag # Input
Leads(F, bits, k) == bits # <<>> => \E m \in 1..k : IsFirst(m) /\ bits[1].id = F[m].now.id
BitsTold(F, k) ==
    /\ Gathers(F, F[k].bits, k) /\ Covers(F, F[k].bits, k) /\ Apart(F[k].bits) /\ Leads(F, F[k].bits, k)
    /\ F[k].bits = <<>> => \A j \in 1..k : items[j].tag # Input

LEMMA SameSets == ASSUME NEW A, NEW B, \A j : j \in A <=> j \in B PROVE A = B
OBVIOUS

\* An item under whose ID there is no report yet, or not that report's, changes nothing in it.
LEMMA UnderStep ==
  ASSUME NEW F, NEW k \in Nat \ {0}
  PROVE  /\ items[k].tag # Input => \A id : Under(F, id, k) = Under(F, id, k - 1)
         /\ \A id : F[k].now.id # id => Under(F, id, k) = Under(F, id, k - 1)
         /\ items[k].tag = Input => Under(F, F[k].now.id, k) = Under(F, F[k].now.id, k - 1) \cup {k}
         /\ \A id : k \notin Under(F, id, k - 1)
<1>1. \A j : j \in 1..k <=> j = k \/ j \in 1 .. k - 1
  OBVIOUS
<1>2. k \notin 1 .. k - 1
  OBVIOUS
<1> DEFINE In(id, j) == items[j].tag = Input /\ F[j].now.id = id
<1>3. \A id, j : j \in Under(F, id, k) <=> j \in 1..k /\ In(id, j)
  BY DEF Under
<1>4. \A id, j : j \in Under(F, id, k - 1) <=> j \in 1 .. k - 1 /\ In(id, j)
  BY DEF Under
<1> HIDE DEF In
<1>5. ASSUME NEW id, ~In(id, k) PROVE Under(F, id, k) = Under(F, id, k - 1)
  <2>1. ASSUME NEW j PROVE j \in Under(F, id, k) <=> j \in Under(F, id, k - 1)
    <3>1. CASE j = k
      BY <1>1, <1>2, <1>3, <1>4, <1>5, <3>1, Zenon
    <3>2. CASE j # k
      <4>1. j \in 1..k <=> j \in 1 .. k - 1
        BY <1>1, <3>2, Zenon
      <4> QED
        BY <1>3, <1>4, <4>1, Zenon
    <3> QED
      BY <3>1, <3>2
  <2> QED
    BY <2>1, SameSets
<1>6. ASSUME NEW id, In(id, k) PROVE Under(F, id, k) = Under(F, id, k - 1) \cup {k}
  <2> DEFINE A == Under(F, id, k)
             B == Under(F, id, k - 1)
  <2>1. ASSUME NEW j PROVE j \in A <=> j \in B \/ j = k
    <3>1. CASE j = k
      BY <1>1, <1>3, <1>6, <3>1, Zenon
    <3>2. CASE j # k
      <4>1. j \in 1..k <=> j \in 1 .. k - 1
        BY <1>1, <3>2, Zenon
      <4> QED
        BY <1>3, <1>4, <3>2, <4>1, Zenon
    <3> QED
      BY <3>1, <3>2
  <2> HIDE DEF A, B
  <2>2. \A j : j \in A <=> j \in B \cup {k}
    BY <2>1
  <2>3. A = B \cup {k}
    BY <2>2, SameSets, Zenon
  <2> QED
    BY <2>3 DEF A, B
<1>7. \A id : k \notin Under(F, id, k - 1)
  BY <1>2, <1>4, Zenon
<1>8. (items[k].tag # Input => \A id : ~In(id, k)) /\ (\A id : F[k].now.id # id => ~In(id, k))
      /\ (items[k].tag = Input => In(F[k].now.id, k))
  BY Zenon DEF In
<1>9. items[k].tag = Input => Under(F, F[k].now.id, k) = Under(F, F[k].now.id, k - 1) \cup {k}
  BY <1>6, <1>8, Zenon
<1> QED
  BY <1>5, <1>7, <1>8, <1>9, Zenon

LEMMA UnderCounts ==
  ASSUME NEW F, Runs(F), NEW id, NEW k \in 0..Len(items)
  PROVE  Countable(Bits(F, Len(items)), Under(F, id, k))
<1>1. Len(items) \in Nat /\ \A j \in 1..Len(items) : F[j] \in RepStates
  <2>1. Len(items) \in Nat /\ \A j \in 0..Len(items) : F[j] \in RepStates
    BY RunStep
  <2>2. \A j \in 1..Len(items) : j \in 0..Len(items)
    BY <2>1
  <2> QED
    BY <2>1, <2>2, Zenon
<1>2. Under(F, id, k) \subseteq 1..Len(items)
  BY <1>1 DEF Under
<1>3. IsFiniteSet(Under(F, id, k))
  <2>1. IsFiniteSet(1..Len(items))
    BY <1>1, FS_Interval
  <2> QED
    BY <1>2, <2>1, FS_Subset
<1>4. ASSUME NEW j \in 1..Len(items) PROVE Bits(F, Len(items))[j] \in Nat
  <2>1. F[j].now.size \in Nat /\ F[j].now.count \in Nat
    <3>1. F[j] \in RepStates
      BY <1>1
    <3> QED
      BY <3>1 DEF RepStates, NowSet
  <2>2. F[j].now.size * F[j].now.count \in Nat
    BY <2>1, Products
  <2> QED
    BY <2>2, Zenon DEF Bits
<1> QED
  BY <1>2, <1>3, <1>4, Zenon DEF Countable

LEMMA SumTakesOne ==
  ASSUME NEW f, NEW A, NEW B, NEW x, A = B \cup {x}, x \notin B, Countable(f, A)
  PROVE  Summed(f, A) = f[x] + Summed(f, B)
<1>1. Countable(f, B \cup {x})
  BY Zenon
<1>2. Summed(f, B \cup {x}) = f[x] + Summed(f, B)
  BY <1>1, SumAdds
<1> QED
  BY <1>2, Zenon

LEMMA InputStep ==
  ASSUME NEW F, Runs(F), NEW k \in 1..Len(items)
  PROVE  /\ F[k - 1].bits \in Seq(BitSet)
         /\ items[k].tag # Input => F[k].bits = F[k - 1].bits
         /\ items[k].tag = Input =>
                /\ F[k].bits = Add(F[k - 1].bits, F[k].now.id, Bits(F, Len(items))[k])
                /\ F[k].now.id \in Nat /\ Bits(F, Len(items))[k] \in Nat
<1> DEFINE acc == F[k - 1]
           item == items[k]
<1>1. acc \in RepStates /\ F[k] = ReportStep(acc, item)
  BY RunStep
<1>2. acc.bits \in Seq(BitSet) /\ acc.now.id \in Nat /\ acc.now.size \in Nat /\ acc.now.count \in Nat
  BY <1>1 DEF RepStates, NowSet
<1>3. Bits(F, Len(items))[k] = F[k].now.size * F[k].now.count
  BY DEF Bits
<1> HIDE DEF acc, item
<1>4. item.tag # Input => F[k].bits = acc.bits
  BY <1>1, StepBits, Zenon
<1>5. ASSUME item.tag = Input
      PROVE  /\ F[k].bits = Add(acc.bits, F[k].now.id, Bits(F, Len(items))[k])
             /\ F[k].now.id \in Nat /\ Bits(F, Len(items))[k] \in Nat
  <2>1. F[k].now = acc.now /\ F[k].bits = Add(acc.bits, acc.now.id, acc.now.size * acc.now.count)
    <3>1. Leaves(ReportStep(acc, item), acc.now, acc.stack, Add(acc.bits, acc.now.id, acc.now.size * acc.now.count))
      BY <1>1, <1>5, StepLeaves
    <3>2. Leaves(F[k], acc.now, acc.stack, Add(acc.bits, acc.now.id, acc.now.size * acc.now.count))
      BY <1>1, <3>1, Zenon
    <3> QED
      BY <3>2, Zenon DEF Leaves
  <2>2. acc.now.size * acc.now.count \in Nat
    BY <1>2, Products
  <2> QED
    BY <1>2, <1>3, <2>1, <2>2, Zenon
<1> QED
  BY <1>2, <1>4, <1>5, Zenon DEF acc, item

LEMMA PlainStep ==
  ASSUME NEW F, Runs(F), NEW k \in 1..Len(items), BitsTold(F, k - 1), items[k].tag # Input
  PROVE  BitsTold(F, k)
<1>1. F[k].bits = F[k - 1].bits
  BY InputStep
<1>2. k \in Nat \ {0} /\ \A j : j \in 1..k <=> j = k \/ j \in 1 .. k - 1
  BY RunStep
<1>3. \A id : Under(F, id, k) = Under(F, id, k - 1)
  BY <1>2, UnderStep
<1> DEFINE b == F[k].bits
<1>4. Gathers(F, b, k - 1) /\ Covers(F, b, k - 1) /\ Apart(b) /\ Leads(F, b, k - 1)
      /\ (b = <<>> => \A j \in 1 .. k - 1 : items[j].tag # Input)
  BY <1>1, Zenon DEF BitsTold
<1> HIDE DEF b
<1>5. Gathers(F, b, k)
  BY <1>3, <1>4, Zenon DEF Gathers
<1>6. Covers(F, b, k)
  BY <1>3, <1>4, Zenon DEF Covers
<1>7. Leads(F, b, k)
  BY <1>2, <1>4, Zenon DEF Leads
<1>8. b = <<>> => \A j \in 1..k : items[j].tag # Input
  BY <1>2, <1>4, Zenon
<1> QED
  BY <1>4, <1>5, <1>6, <1>7, <1>8, Zenon DEF BitsTold, b

\* An input under an ID that has bits already.
LEMMA MoreStep ==
  ASSUME NEW F, Runs(F), NEW k \in 1..Len(items), BitsTold(F, k - 1), items[k].tag = Input,
         \E i \in DOMAIN F[k - 1].bits : F[k - 1].bits[i].id = F[k].now.id
  PROVE  BitsTold(F, k)
<1> DEFINE b == F[k - 1].bits
           r == F[k].bits
           id == F[k].now.id
           P == Bits(F, Len(items))
           n == P[k]
<1>1. b \in Seq(BitSet) /\ r = Add(b, id, n) /\ id \in Nat /\ n \in Nat
  BY InputStep
<1>2. k \in Nat \ {0} /\ Len(items) \in Nat /\ \A j : j \in 1..k <=> j = k \/ j \in 1 .. k - 1
  BY RunStep
<1>3. k \in 0..Len(items)
  BY <1>2
<1>4. /\ \A x : x # id => Under(F, x, k) = Under(F, x, k - 1)
      /\ Under(F, id, k) = Under(F, id, k - 1) \cup {k}
      /\ k \notin Under(F, id, k - 1)
  <2>1. /\ \A x : F[k].now.id # x => Under(F, x, k) = Under(F, x, k - 1)
        /\ Under(F, F[k].now.id, k) = Under(F, F[k].now.id, k - 1) \cup {k}
        /\ \A x : k \notin Under(F, x, k - 1)
    BY <1>2, UnderStep
  <2> QED
    BY <2>1, Zenon
<1>5. Countable(P, Under(F, id, k))
  BY <1>3, UnderCounts
<1>6. Gathers(F, b, k - 1) /\ Covers(F, b, k - 1) /\ Apart(b) /\ Leads(F, b, k - 1)
  BY Zenon DEF BitsTold
<1> HIDE DEF P
<1>7. Summed(P, Under(F, id, k)) = n + Summed(P, Under(F, id, k - 1))
  <2> DEFINE A == Under(F, id, k)
             B == Under(F, id, k - 1)
  <2>1. A = B \cup {k} /\ k \notin B /\ Countable(P, A)
    BY <1>4, <1>5
  <2> HIDE DEF A, B
  <2>2. Summed(P, A) = P[k] + Summed(P, B)
    BY <2>1, SumTakesOne
  <2> QED
    BY <2>2 DEF A, B
<1> HIDE DEF b, r, id, n
<1>8. \E i \in DOMAIN b : b[i].id = id
  BY DEF b, id
<1>9. /\ DOMAIN r = DOMAIN b
      /\ \A i \in DOMAIN b : /\ r[i].id = b[i].id
                             /\ b[i].id = id => r[i].n = n + b[i].n
                             /\ b[i].id # id => r[i].n = b[i].n
  BY <1>1, <1>8, Adding
<1>10. Gathers(F, r, k)
  <2>1. ASSUME NEW i \in DOMAIN r
        PROVE  Under(F, r[i].id, k) # {} /\ r[i].n = Summed(P, Under(F, r[i].id, k))
    <3>1. i \in DOMAIN b /\ r[i].id = b[i].id
      BY <1>9
    <3>2. Under(F, b[i].id, k - 1) # {} /\ b[i].n = Summed(P, Under(F, b[i].id, k - 1))
      BY <1>6, <3>1, Zenon DEF Gathers, P
    <3>3. CASE b[i].id = id
      <4>1. r[i].n = n + b[i].n
        BY <1>9, <3>1, <3>3, Zenon
      <4>2. r[i].n = Summed(P, Under(F, id, k))
        BY <1>7, <3>2, <3>3, <4>1, Zenon
      <4>3. Under(F, id, k) # {}
        BY <1>4
      <4> QED
        BY <3>1, <3>3, <4>2, <4>3, Zenon
    <3>4. CASE b[i].id # id
      BY <1>4, <1>9, <3>1, <3>2, <3>4, Zenon
    <3> QED
      BY <3>3, <3>4
  <2> QED
    BY <2>1, Zenon DEF Gathers, P
<1>11. Covers(F, r, k)
  <2>1. ASSUME NEW x, Under(F, x, k) # {} PROVE \E i \in DOMAIN r : r[i].id = x
    <3>1. CASE x = id
      BY <1>8, <1>9, <3>1, Zenon
    <3>2. CASE x # id
      <4>1. Under(F, x, k - 1) # {}
        BY <1>4, <2>1, <3>2, Zenon
      <4>2. \E i \in DOMAIN b : b[i].id = x
        BY <1>6, <4>1, Zenon DEF Covers
      <4> QED
        BY <1>9, <4>2, Zenon
    <3> QED
      BY <3>1, <3>2
  <2> QED
    BY <2>1, Zenon DEF Covers
<1>12. Apart(r)
  BY <1>6, <1>9, Zenon DEF Apart
<1>13. b # <<>> /\ r # <<>> /\ 1 \in DOMAIN b
  <2>1. DOMAIN b = 1..Len(b) /\ Len(b) \in Nat
    BY <1>1, LenProperties
  <2>2. DOMAIN b # {}
    BY <1>8
  <2>3. 1 \in DOMAIN b
    BY <2>1, <2>2
  <2>4. DOMAIN <<>> = {}
    OBVIOUS
  <2> QED
    BY <1>9, <2>2, <2>3, <2>4
<1>14. Leads(F, r, k)
  <2>1. PICK m \in 1 .. k - 1 : IsFirst(m) /\ b[1].id = F[m].now.id
    BY <1>6, <1>13, Zenon DEF Leads
  <2>2. m \in 1..k /\ r[1].id = F[m].now.id
    BY <1>2, <1>9, <1>13, <2>1, Zenon
  <2> QED
    BY <2>1, <2>2, Zenon DEF Leads
<1> QED
  BY <1>10, <1>11, <1>12, <1>13, <1>14, Zenon DEF BitsTold, r

\* The first input under its ID.
LEMMA NewStep ==
  ASSUME NEW F, Runs(F), NEW k \in 1..Len(items), BitsTold(F, k - 1), items[k].tag = Input,
         ~\E i \in DOMAIN F[k - 1].bits : F[k - 1].bits[i].id = F[k].now.id
  PROVE  BitsTold(F, k)
<1> DEFINE b == F[k - 1].bits
           r == F[k].bits
           id == F[k].now.id
           P == Bits(F, Len(items))
           n == P[k]
           l == Len(b) + 1
<1>1. b \in Seq(BitSet) /\ r = Add(b, id, n) /\ id \in Nat /\ n \in Nat
  BY InputStep
<1>2. k \in Nat \ {0} /\ Len(items) \in Nat /\ \A j : j \in 1..k <=> j = k \/ j \in 1 .. k - 1
  BY RunStep
<1>3. k \in 0..Len(items)
  BY <1>2
<1>4. /\ \A x : x # id => Under(F, x, k) = Under(F, x, k - 1)
      /\ Under(F, id, k) = Under(F, id, k - 1) \cup {k}
      /\ k \notin Under(F, id, k - 1)
  <2>1. /\ \A x : F[k].now.id # x => Under(F, x, k) = Under(F, x, k - 1)
        /\ Under(F, F[k].now.id, k) = Under(F, F[k].now.id, k - 1) \cup {k}
        /\ \A x : k \notin Under(F, x, k - 1)
    BY <1>2, UnderStep
  <2> QED
    BY <2>1, Zenon
<1>5. Countable(P, Under(F, id, k))
  BY <1>3, UnderCounts
<1>6. Gathers(F, b, k - 1) /\ Covers(F, b, k - 1) /\ Apart(b) /\ Leads(F, b, k - 1)
      /\ (b = <<>> => \A j \in 1 .. k - 1 : items[j].tag # Input)
  BY Zenon DEF BitsTold
<1> HIDE DEF b, r, id, l
<1>7. ~\E i \in DOMAIN b : b[i].id = id
  BY DEF b, id
<1>8. Under(F, id, k - 1) = {} /\ Under(F, id, k) = {k}
  <2>1. Under(F, id, k - 1) = {}
    BY <1>6, <1>7, Zenon DEF Covers
  <2> QED
    BY <1>4, <2>1
<1> HIDE DEF P
<1>0. Summed(P, Under(F, id, k)) = n + Summed(P, Under(F, id, k - 1))
  <2> DEFINE A == Under(F, id, k)
             B == Under(F, id, k - 1)
  <2>1. A = B \cup {k} /\ k \notin B /\ Countable(P, A)
    BY <1>4, <1>5
  <2> HIDE DEF A, B
  <2>2. Summed(P, A) = P[k] + Summed(P, B)
    BY <2>1, SumTakesOne
  <2> QED
    BY <2>2 DEF A, B
<1> HIDE DEF n
<1>9. Summed(P, Under(F, id, k)) = n
  <2>1. Summed(P, {}) = 0
    BY SumOfNone
  <2>2. Summed(P, Under(F, id, k - 1)) = 0
    BY <1>8, <2>1, Zenon
  <2>3. n + 0 = n
    BY <1>1
  <2> QED
    BY <1>0, <2>2, <2>3, Zenon
<1>10. /\ DOMAIN r = 1..l /\ l \in Nat /\ DOMAIN b = 1 .. l - 1
       /\ \A i \in DOMAIN b : r[i] = b[i]
       /\ r[l].id = id /\ r[l].n = n
  <2>1. /\ DOMAIN r = 1 .. Len(b) + 1
        /\ \A i \in DOMAIN b : r[i] = b[i]
        /\ r[Len(b) + 1].id = id /\ r[Len(b) + 1].n = n
    BY <1>1, <1>7, Adding
  <2>2. DOMAIN b = 1..Len(b) /\ Len(b) \in Nat
    BY <1>1, LenProperties
  <2>3. l \in Nat /\ l - 1 = Len(b)
    BY <2>2 DEF l
  <2> QED
    BY <2>1, <2>2, <2>3, Zenon DEF l
<1>11. \A i : i \in DOMAIN r <=> i = l \/ i \in DOMAIN b
  <2>1. l >= 1
    <3>1. Len(b) \in Nat
      BY <1>1, LenProperties
    <3> QED
      BY <3>1 DEF l
  <2> QED
    BY <1>10, <2>1
<1>12. l \notin DOMAIN b
  BY <1>10
<1>13. Gathers(F, r, k)
  <2>1. ASSUME NEW i \in DOMAIN r
        PROVE  Under(F, r[i].id, k) # {} /\ r[i].n = Summed(P, Under(F, r[i].id, k))
    <3>1. CASE i = l
      <4>1. Under(F, id, k) # {}
        BY <1>8
      <4> QED
        BY <1>9, <1>10, <3>1, <4>1, Zenon
    <3>2. CASE i # l
      <4>1. i \in DOMAIN b /\ r[i] = b[i]
        BY <1>10, <1>11, <3>2, Zenon
      <4>2. Under(F, b[i].id, k - 1) # {} /\ b[i].n = Summed(P, Under(F, b[i].id, k - 1))
        BY <1>6, <4>1, Zenon DEF Gathers, P
      <4>3. b[i].id # id
        BY <1>7, <4>1, Zenon
      <4> QED
        BY <1>4, <4>1, <4>2, <4>3, Zenon
    <3> QED
      BY <3>1, <3>2
  <2> QED
    BY <2>1, Zenon DEF Gathers, P
<1>14. Covers(F, r, k)
  <2>1. ASSUME NEW x, Under(F, x, k) # {} PROVE \E i \in DOMAIN r : r[i].id = x
    <3>1. CASE x = id
      BY <1>10, <1>11, <3>1, Zenon
    <3>2. CASE x # id
      <4>1. Under(F, x, k - 1) # {}
        BY <1>4, <2>1, <3>2, Zenon
      <4>2. \E i \in DOMAIN b : b[i].id = x
        BY <1>6, <4>1, Zenon DEF Covers
      <4> QED
        BY <1>10, <1>11, <4>2, Zenon
    <3> QED
      BY <3>1, <3>2
  <2> QED
    BY <2>1, Zenon DEF Covers
<1>15. Apart(r)
  <2>1. ASSUME NEW i \in DOMAIN r, NEW j \in DOMAIN r, r[i].id = r[j].id PROVE i = j
    <3>1. CASE i = l /\ j = l
      BY <3>1
    <3>2. CASE i # l /\ j # l
      <4>1. i \in DOMAIN b /\ j \in DOMAIN b
        BY <1>11, <3>2, Zenon
      <4>2. r[i] = b[i] /\ r[j] = b[j]
        BY <1>10, <4>1, Zenon
      <4>3. b[i].id = b[j].id
        BY <2>1, <4>2, Zenon
      <4> QED
        BY <1>6, <4>1, <4>3, Zenon DEF Apart
    <3>3. CASE i = l /\ j # l
      BY <1>7, <1>10, <1>11, <2>1, <3>3, Zenon
    <3>4. CASE i # l /\ j = l
      BY <1>7, <1>10, <1>11, <2>1, <3>4, Zenon
    <3> QED
      BY <3>1, <3>2, <3>3, <3>4, Zenon
  <2> QED
    BY <2>1, Zenon DEF Apart
<1>16. r # <<>>
  <2>1. DOMAIN r # {}
    BY <1>11
  <2>2. DOMAIN <<>> = {}
    OBVIOUS
  <2> QED
    BY <2>1, <2>2
<1>17. Leads(F, r, k)
  <2>1. CASE b = <<>>
    <3>1. \A j \in 1 .. k - 1 : items[j].tag # Input
      BY <1>6, <2>1, Zenon
    <3>2. l = 1 /\ k \in 1..k
      BY <1>2, <2>1 DEF l
    <3>3. IsFirst(k)
      BY <3>1, Zenon DEF IsFirst
    <3>4. r[1].id = F[k].now.id
      BY <1>10, <3>2, Zenon DEF id
    <3> QED
      BY <3>2, <3>3, <3>4, Zenon DEF Leads
  <2>2. CASE b # <<>>
    <3>1. PICK m \in 1 .. k - 1 : IsFirst(m) /\ b[1].id = F[m].now.id
      BY <1>6, <2>2, Zenon DEF Leads
    <3>2. 1 \in DOMAIN b
      <4>1. Len(b) \in Nat \ {0} /\ DOMAIN b = 1..Len(b)
        BY <1>1, <2>2, EmptySeq, LenProperties
      <4> QED
        BY <4>1
    <3>3. m \in 1..k /\ r[1].id = F[m].now.id
      BY <1>2, <1>10, <3>1, <3>2, Zenon
    <3> QED
      BY <3>1, <3>3, Zenon DEF Leads
  <2> QED
    BY <2>1, <2>2
<1> QED
  BY <1>13, <1>14, <1>15, <1>16, <1>17, Zenon DEF BitsTold, r

LEMMA BitsHold ==
  ASSUME NEW F, Runs(F)
  PROVE  \A k \in 0..Len(items) : BitsTold(F, k)
<1> DEFINE N == Len(items)
           T == { n \in Nat : n <= N => BitsTold(F, n) }
<1>1. N \in Nat /\ F[0] = RepStart
  BY RunStep
<1>2. 0 \in T
  <2>1. F[0].bits = <<>>
    <3>1. RepStart.bits = <<>>
      BY DEF RepStart
    <3> QED
      BY <1>1, <3>1, Zenon
  <2> DEFINE b == F[0].bits
  <2>2. b = <<>> /\ DOMAIN b = {}
    BY <2>1
  <2>3. \A j : j \notin 1..0
    OBVIOUS
  <2>4. \A id : Under(F, id, 0) = {}
    BY <2>3, Zenon DEF Under
  <2> HIDE DEF b
  <2>5. Gathers(F, b, 0) /\ Apart(b)
    BY <2>2, Zenon DEF Gathers, Apart
  <2>6. Covers(F, b, 0)
    BY <2>4, Zenon DEF Covers
  <2>7. Leads(F, b, 0)
    BY <2>2, Zenon DEF Leads
  <2>8. BitsTold(F, 0)
    BY <2>3, <2>5, <2>6, <2>7, Zenon DEF BitsTold, b
  <2> QED
    BY <2>8
<1>3. ASSUME NEW n \in Nat, n \in T PROVE n + 1 \in T
  <2> SUFFICES ASSUME n + 1 <= N PROVE BitsTold(F, n + 1)
    OBVIOUS
  <2> DEFINE k == n + 1
  <2>1. k \in 1..N /\ k - 1 = n /\ n <= N
    BY <1>1
  <2> HIDE DEF k
  <2>2. BitsTold(F, k - 1)
    BY <1>3, <2>1
  <2>3. BitsTold(F, k)
    BY <2>1, <2>2, PlainStep, MoreStep, NewStep
  <2> QED
    BY <2>3 DEF k
<1>4. Nat \subseteq T
  <2> HIDE DEF T
  <2> QED
    BY <1>2, <1>3, SetInduction
<1> QED
  BY <1>1, <1>4

(***************************************************************************)
(* What the items declare, told by a run of the generator over them.        *)
(***************************************************************************)
LEMMA InputsTold ==
  ASSUME NEW F, Runs(F)
  PROVE  \A id : InputsOf(id) = Under(F, id, Len(items))
<1>1. DOMAIN items = 1..Len(items) /\ Len(items) \in Nat
  BY RunStep
<1>2. \A k \in 1..Len(items) : Setting(Report_ID)[k] = F[k].now.id
  <2>1. \A k \in 0..Len(items) : Setting(Report_ID)[k] = Field(Report_ID, F[k].now)
    BY SettingTells, Zenon DEF Globals
  <2>2. \A now : Field(Report_ID, now) = now.id
    BY RepTags, Zenon DEF Field
  <2>3. \A k \in 1..Len(items) : k \in 0..Len(items)
    BY <1>1
  <2> QED
    BY <2>1, <2>2, <2>3, Zenon
<1> TAKE id
<1> DEFINE A == InputsOf(id)
           B == Under(F, id, Len(items))
<1>3. \A k : k \in A <=> k \in DOMAIN items /\ items[k].tag = Input /\ Setting(Report_ID)[k] = id
  BY Zenon DEF InputsOf
<1>4. \A k : k \in B <=> k \in 1..Len(items) /\ items[k].tag = Input /\ F[k].now.id = id
  BY Zenon DEF Under
<1> HIDE DEF A, B
<1>5. \A k : k \in A <=> k \in B
  BY <1>1, <1>2, <1>3, <1>4, Zenon
<1>6. A = B
  BY <1>5, SameSets, Zenon
<1> QED
  BY <1>6 DEF A, B

LEMMA BytesTold ==
  ASSUME NEW F, Runs(F), NEW id
  PROVE  /\ Summed(Bits(F, Len(items)), Under(F, id, Len(items))) \in Nat
         /\ DeclaredBytes(id) = (Summed(Bits(F, Len(items)), Under(F, id, Len(items))) + 7) \div 8
<1> DEFINE N == Len(items)
           P == Bits(F, N)
           D == InputsOf(id)
           G == [k \in D |-> Setting(Report_Size)[k] * Setting(Report_Count)[k]]
<1>1. N \in Nat /\ N \in 0..N
  BY RunStep
<1>2. \A k \in 1..N : Setting(Report_Size)[k] = F[k].now.size /\ Setting(Report_Count)[k] = F[k].now.count
  <2>1. \A k \in 0..N : Setting(Report_Size)[k] = Field(Report_Size, F[k].now)
    BY SettingTells, Zenon DEF Globals
  <2>2. \A k \in 0..N : Setting(Report_Count)[k] = Field(Report_Count, F[k].now)
    BY SettingTells, Zenon DEF Globals
  <2>3. \A now : Field(Report_Size, now) = now.size /\ Field(Report_Count, now) = now.count
    BY RepTags, Zenon DEF Field
  <2>4. \A k \in 1..N : k \in 0..N
    BY <1>1
  <2> QED
    BY <2>1, <2>2, <2>3, <2>4, Zenon
<1>3. D = Under(F, id, N)
  BY InputsTold, Zenon
<1>4. Countable(P, D)
  BY <1>1, <1>3, UnderCounts, Zenon
<1>5. \A k \in D : k \in 1..N
  BY <1>3, Zenon DEF Under
<1>6. \A k \in D : P[k] = G[k]
  BY <1>2, <1>5 DEF Bits
<1>7. DOMAIN G = D
  BY Zenon
<1>8. DeclaredBytes(id) = (SumFunction(G) + 7) \div 8
  BY Zenon DEF DeclaredBytes
<1> HIDE DEF N, P, D, G
<1>9. Summed(P, D) = Summed(G, D)
  BY <1>4, <1>6, CountsAreNumbers, SumSame
<1>10. SumFunction(G) = Summed(G, D)
  BY <1>7, SumFunctionIs
<1>11. Summed(P, D) \in Nat
  BY <1>4, SumType
<1> QED
  BY <1>3, <1>8, <1>9, <1>10, <1>11, Zenon DEF N, P

LEMMA FirstTold ==
  ASSUME NEW F, Runs(F), F[Len(items)].bits # <<>>
  PROVE  Setting(Report_ID)[FirstInput] = F[Len(items)].bits[1].id
<1> DEFINE N == Len(items)
           S == { k \in DOMAIN items : items[k].tag = Input }
<1>1. N \in Nat /\ DOMAIN items = 1..N /\ N \in 0..N
  BY RunStep
<1>2. PICK m \in 1..N : IsFirst(m) /\ F[N].bits[1].id = F[m].now.id
  <2>1. Leads(F, F[N].bits, N)
    BY <1>1, BitsHold, Zenon DEF BitsTold
  <2> QED
    BY <2>1, Zenon DEF Leads
<1>3. m \in S /\ S \subseteq Nat /\ \A k \in S : k \in 1..N /\ items[k].tag = Input
  BY <1>1, <1>2 DEF IsFirst
<1>4. FirstInput = Min(S)
  BY Zenon DEF FirstInput
<1> HIDE DEF S
<1>5. Min(S) \in S /\ \A y \in S : Min(S) <= y
  BY <1>3, SmallestIs
<1> DEFINE f == Min(S)
<1> HIDE DEF f
<1>6. f \in S /\ f <= m
  BY <1>3, <1>5 DEF f
<1>7. f = m
  <2>1. f \notin 1 .. m - 1
    BY <1>2, <1>3, <1>6, Zenon DEF IsFirst
  <2>2. f \in 1..N
    BY <1>3, <1>6
  <2> QED
    BY <1>1, <1>2, <1>6, <2>1, <2>2
<1>8. Setting(Report_ID)[m] = F[m].now.id
  <2>1. \A k \in 0..N : Setting(Report_ID)[k] = Field(Report_ID, F[k].now)
    BY SettingTells, Zenon DEF Globals
  <2>2. \A now : Field(Report_ID, now) = now.id
    BY RepTags, Zenon DEF Field
  <2>3. m \in 0..N
    BY <1>1, <1>2
  <2> QED
    BY <2>1, <2>2, <2>3, Zenon
<1> QED
  BY <1>2, <1>4, <1>7, <1>8, Zenon DEF f

\* The length of a report in a list of them
LengthIn(ins, id) == IF \E k \in DOMAIN ins : ins[k].id = id
                     THEN (CHOOSE r \in ToSet(ins) : r.id = id).bytes ELSE 0

\* The length measured for a report that the items declare, and the ID of the first.
LEMMA LengthTold ==
  ASSUME NEW F, Runs(F), inputs = Whole(F[Len(items)].bits), NEW id, InputsOf(id) # {}
  PROVE  LengthIn(inputs, id) = DeclaredBytes(id) /\ DeclaredBytes(id) \in Nat
<1> DEFINE N == Len(items)
           b == F[N].bits
           total == Summed(Bits(F, N), Under(F, id, N))
<1>1. N \in Nat /\ N \in 0..N
  BY RunStep
<1>2. Gathers(F, b, N) /\ Covers(F, b, N) /\ Apart(b)
  BY <1>1, BitsHold, Zenon DEF BitsTold
<1>3. Under(F, id, N) # {}
  BY InputsTold, Zenon
<1>4. PICK i \in DOMAIN b : b[i].id = id
  BY <1>2, <1>3, Zenon DEF Covers
<1>5. b[i].n = total
  BY <1>2, <1>4, Zenon DEF Gathers
<1>6. total \in Nat /\ DeclaredBytes(id) = (total + 7) \div 8
  BY BytesTold
<1> HIDE DEF total
<1>7. DeclaredBytes(id) \in Nat
  BY <1>6
<1> HIDE DEF b
<1>8. inputs = Whole(b)
  BY DEF b
<1>9. DOMAIN inputs = DOMAIN b
      /\ \A k \in DOMAIN b : inputs[k].id = b[k].id /\ inputs[k].bytes = (b[k].n + 7) \div 8
  BY <1>8 DEF Whole
<1>10. inputs[i] \in ToSet(inputs) /\ inputs[i].id = id
  BY <1>4, <1>9, Zenon DEF ToSet
<1>11. \A r \in ToSet(inputs) : r.id = id => r = inputs[i]
  <2> TAKE r \in ToSet(inputs)
  <2>1. PICK k \in DOMAIN inputs : r = inputs[k]
    BY Zenon DEF ToSet
  <2> HAVE r.id = id
  <2>2. k \in DOMAIN b /\ b[k].id = id
    BY <1>9, <2>1, Zenon
  <2>3. k = i
    BY <1>2, <1>4, <2>2, Zenon DEF Apart
  <2> QED
    BY <2>1, <2>3, Zenon
<1>12. (CHOOSE r \in ToSet(inputs) : r.id = id) = inputs[i]
  BY <1>10, <1>11
<1>13. LengthIn(inputs, id) = inputs[i].bytes
  <2>1. \E k \in DOMAIN inputs : inputs[k].id = id
    BY <1>4, <1>9, <1>10, Zenon
  <2> QED
    BY <1>12, <2>1, Zenon DEF LengthIn
<1>14. inputs[i].bytes = DeclaredBytes(id)
  BY <1>4, <1>5, <1>6, <1>9, Zenon
<1> QED
  BY <1>7, <1>13, <1>14, Zenon

LEMMA FirstReport ==
  ASSUME NEW F, Runs(F), inputs = Whole(F[Len(items)].bits), inputs # <<>>
  PROVE  inputs[1].id = Setting(Report_ID)[FirstInput] /\ inputs[1].id \in Nat
<1> DEFINE b == F[Len(items)].bits
<1>1. b \in Seq(BitSet)
  <2>1. Len(items) \in 0..Len(items) /\ \A k \in 0..Len(items) : F[k] \in RepStates
    BY RunStep
  <2>2. F[Len(items)] \in RepStates
    BY <2>1
  <2> QED
    BY <2>2 DEF RepStates
<1>2. inputs = Whole(b)
  OBVIOUS
<1> HIDE DEF b
<1>3. DOMAIN b = 1..Len(b) /\ Len(b) \in Nat
  BY <1>1, LenProperties
<1>4. b # <<>>
  <2> SUFFICES ASSUME b = <<>> PROVE FALSE
    OBVIOUS
  <2>1. DOMAIN b = {}
    OBVIOUS
  <2>2. inputs = <<>>
    BY <1>2, <2>1 DEF Whole
  <2> QED
    BY <2>2
<1>5. 1 \in DOMAIN b
  <2>1. Len(b) \in Nat \ {0}
    BY <1>1, <1>4, EmptySeq
  <2> QED
    BY <1>3, <2>1
<1>6. inputs[1].id = b[1].id
  BY <1>2, <1>5 DEF Whole
<1>7. b[1].id \in Nat
  <2>1. b[1] \in BitSet
    BY <1>1, <1>3, <1>5, ElementOfSeq
  <2> QED
    BY <2>1 DEF BitSet
<1>8. Setting(Report_ID)[FirstInput] = b[1].id
  BY <1>4, FirstTold, Zenon DEF b
<1> QED
  BY <1>6, <1>7, <1>8, Zenon

(***************************************************************************)
(* What goes over the wire.                                                *)
(***************************************************************************)
LEMMA ZerosType ==
  \A n \in Nat : Zeros(n) \in Seq(Nat) /\ Len(Zeros(n)) = n /\ \A k \in 1..n : Zeros(n)[k] = 0
BY DEF Zeros

Trimmed(r, n) == SubSeq(r, 1, Min({Len(r), n}))

LEMMA Trims ==
  ASSUME NEW r \in Seq(Nat), NEW n \in Nat
  PROVE  /\ Trimmed(r, n) \in Seq(Nat)
         /\ Len(Trimmed(r, n)) = (IF Len(r) <= n THEN Len(r) ELSE n)
         /\ \A k \in 1..Len(Trimmed(r, n)) : Trimmed(r, n)[k] = r[k]
<1> DEFINE m == Min({Len(r), n})
<1>1. Len(r) \in Nat
  BY LenProperties
<1>2. m = (IF Len(r) <= n THEN Len(r) ELSE n) /\ m \in Nat
  <2>1. Len(r) \in Int /\ n \in Int
    BY <1>1
  <2>2. m = IF Len(r) <= n THEN Len(r) ELSE n
    BY <2>1, LesserOf
  <2> HIDE DEF m
  <2> QED
    BY <1>1, <2>2
<1>3. Trimmed(r, n) = SubSeq(r, 1, m)
  BY Zenon DEF Trimmed
<1> HIDE DEF m
<1>4. \A i \in 1..m : r[i] \in Nat
  BY <1>1, <1>2, ElementOfSeq
<1> DEFINE c == SubSeq(r, 1, m)
<1>5. /\ c \in Seq(Nat) /\ Len(c) = (IF 1 <= m THEN m - 1 + 1 ELSE 0)
      /\ \A i \in 1 .. m - 1 + 1 : c[i] = r[1 + i - 1]
  BY <1>2, <1>4, SubSeqProperties
<1> HIDE DEF c
<1>6. c \in Seq(Nat) /\ Len(c) = m /\ \A i \in 1..m : c[i] = r[i]
  BY <1>2, <1>5
<1> QED
  BY <1>2, <1>3, <1>6, Zenon DEF c

LEMMA Fronted ==
  ASSUME NEW id \in Nat, NEW z \in Seq(Nat)
  PROVE  /\ <<id>> \o z \in Seq(Nat) /\ Len(<<id>> \o z) = 1 + Len(z)
         /\ (<<id>> \o z)[1] = id
         /\ \A i \in 1 .. 1 + Len(z) : i > 1 => i - 1 \in 1..Len(z) /\ (<<id>> \o z)[i] = z[i - 1]
<1> DEFINE f == <<id>>
           w == f \o z
<1>1. f \in Seq(Nat) /\ Len(f) = 1 /\ f[1] = id
  OBVIOUS
<1>2. Len(z) \in Nat
  BY LenProperties
<1> HIDE DEF f
<1>3. /\ w \in Seq(Nat) /\ Len(w) = Len(f) + Len(z)
      /\ \A i \in 1 .. Len(f) + Len(z) : w[i] = IF i <= Len(f) THEN f[i] ELSE z[i - Len(f)]
  <2>1. /\ f \o z \in Seq(Nat) /\ Len(f \o z) = Len(f) + Len(z)
        /\ \A i \in 1 .. Len(f) + Len(z) : (f \o z)[i] = IF i <= Len(f) THEN f[i] ELSE z[i - Len(f)]
    BY <1>1, ConcatProperties
  <2> QED
    BY <2>1
<1> HIDE DEF w
<1>4. w[1] = id
  <2>1. 1 \in 1 .. Len(f) + Len(z)
    BY <1>1, <1>2
  <2> QED
    BY <1>1, <1>3, <2>1
<1>5. ASSUME NEW i \in 1 .. 1 + Len(z), i > 1 PROVE i - 1 \in 1..Len(z) /\ w[i] = z[i - 1]
  BY <1>1, <1>2, <1>3, <1>5
<1>6. w \in Seq(Nat) /\ Len(w) = 1 + Len(z)
  BY <1>1, <1>3
<1> QED
  BY <1>4, <1>5, <1>6 DEF w, f

\* The ID put in front of what a buffer one byte shorter took is the whole report, trimmed.
LEMMA FrontedTrims ==
  ASSUME NEW id \in Nat, NEW z \in Seq(Nat), NEW n \in Nat \ {0}
  PROVE  <<id>> \o Trimmed(z, n - 1) = Trimmed(<<id>> \o z, n)
<1> DEFINE w == <<id>> \o z
           c == Trimmed(z, n - 1)
           d == Trimmed(w, n)
           a == <<id>> \o c
<1>2. Len(z) \in Nat /\ n - 1 \in Nat /\ n \in Nat
  BY LenProperties
<1>3. /\ w \in Seq(Nat) /\ Len(w) = 1 + Len(z) /\ w[1] = id
      /\ \A i \in 1 .. 1 + Len(z) : i > 1 => i - 1 \in 1..Len(z) /\ w[i] = z[i - 1]
  BY Fronted
<1> HIDE DEF w
<1>4. c \in Seq(Nat) /\ Len(c) = (IF Len(z) <= n - 1 THEN Len(z) ELSE n - 1) /\ \A k \in 1..Len(c) : c[k] = z[k]
  BY <1>2, Trims
<1>5. d \in Seq(Nat) /\ Len(d) = (IF Len(w) <= n THEN Len(w) ELSE n) /\ \A k \in 1..Len(d) : d[k] = w[k]
  BY <1>2, <1>3, Trims
<1> HIDE DEF c, d
<1>6. /\ a \in Seq(Nat) /\ Len(a) = 1 + Len(c) /\ a[1] = id
      /\ \A i \in 1 .. 1 + Len(c) : i > 1 => i - 1 \in 1..Len(c) /\ a[i] = c[i - 1]
  BY <1>4, Fronted
<1> HIDE DEF a
<1>7. Len(a) = Len(d) /\ Len(c) \in Nat /\ Len(c) <= Len(z)
  BY <1>2, <1>3, <1>4, <1>5, <1>6
<1>8. \A i \in 1..Len(a) : a[i] = d[i]
  <2> TAKE i \in 1..Len(a)
  <2>1. i \in 1 .. 1 + Len(c) /\ i \in 1..Len(d) /\ i \in 1 .. 1 + Len(z)
    BY <1>2, <1>6, <1>7
  <2>2. d[i] = w[i]
    BY <1>5, <2>1
  <2>3. CASE i = 1
    BY <1>3, <1>6, <2>2, <2>3
  <2>4. CASE i > 1
    <3>1. i - 1 \in 1..Len(c) /\ a[i] = c[i - 1]
      BY <1>6, <2>1, <2>4
    <3>2. c[i - 1] = z[i - 1]
      BY <1>4, <3>1
    <3>3. w[i] = z[i - 1]
      BY <1>3, <2>1, <2>4
    <3> QED
      BY <2>2, <3>1, <3>2, <3>3, Zenon
  <2> QED
    BY <2>1, <2>3, <2>4
<1>9. a = d
  BY <1>5, <1>6, <1>7, <1>8, SeqEqual
<1> QED
  BY <1>9, Zenon DEF a, c, d, w

\* What a request gets back, from the reports the build emitted.
InFront(id) == IF id # 0 THEN <<id>> ELSE <<>>
Buffer(ins, report_id, reqlen) ==
    LET id == IF report_id # 0 THEN report_id ELSE ins[1].id
    IN  Trimmed((IF report_id = 0 /\ id # 0 THEN <<id>> ELSE <<>>) \o Zeros(LengthIn(ins, id)), reqlen)
Sent(ins, report_id, reqlen) == InFront(report_id) \o Buffer(ins, report_id, reqlen - Len(InFront(report_id)))

\* The same, as the widths of the code's lengths and IDs leave it.
NarrowBuffer(ins, report_id, reqlen) ==
    LET id == IF report_id # 0 THEN report_id ELSE ins[1].id % 256
    IN  ZeroFilled(IF report_id = 0 /\ id # 0 THEN <<id>> ELSE <<>>, Narrow(LengthIn(ins, id)), reqlen)
NarrowSent(ins, report_id, reqlen) ==
    InFront(report_id) \o NarrowBuffer(ins, report_id, reqlen - Len(InFront(report_id)))

LEMMA GetReportIs == \A report_id, reqlen : GetReport(report_id, reqlen) = NarrowBuffer(inputs, report_id, reqlen)
BY Zenon DEF GetReport, NarrowBuffer, LengthIn, InputLen, FirstId

\* What fits is not narrowed.
LEMMA NarrowFits == \A n \in Nat : n < Width16 => Narrow(n) = n
BY DEF Narrow, Width16

LEMMA ByteFits == \A b \in Byte : b % 256 = b
BY DEF Byte

LEMMA ZeroFilledFits ==
  ASSUME NEW own \in Seq(Nat), NEW bytes \in Nat, Len(own) + bytes < Width16, NEW n
  PROVE  ZeroFilled(own, Narrow(bytes), n) = Trimmed(own \o Zeros(bytes), n)
<1>1. Len(own) \in Nat /\ Len(own) + bytes \in Nat /\ Width16 \in Nat /\ bytes < Width16
  BY LenProperties DEF Width16
<1>2. Narrow(bytes) = bytes /\ Narrow(Len(own) + bytes) = Len(own) + bytes
  BY <1>1, NarrowFits
<1>3. Zeros(bytes) \in Seq(Nat) /\ Len(Zeros(bytes)) = bytes
  BY ZerosType
<1>4. Len(own \o Zeros(bytes)) = Len(own) + bytes
  BY <1>3, ConcatProperties
<1> QED
  BY <1>2, <1>4, Zenon DEF ZeroFilled, Trimmed

LEMMA SentFits ==
  ASSUME NEW ins, NEW rid \in Nat, NEW n, NEW id \in Byte,
         id = IF rid # 0 THEN rid ELSE ins[1].id, ins[1].id \in Nat,
         LengthIn(ins, id) \in Nat, Len(InFront(id)) + LengthIn(ins, id) < Width16
  PROVE  NarrowSent(ins, rid, n) = Sent(ins, rid, n)
<1> DEFINE own == IF rid = 0 /\ id # 0 THEN <<id>> ELSE <<>>
           bytes == LengthIn(ins, id)
           m == n - Len(InFront(rid))
<1>1. id = IF rid # 0 THEN rid ELSE ins[1].id % 256
  <2>1. id % 256 = id
    BY ByteFits
  <2>2. CASE rid # 0
    BY <2>2, Zenon
  <2>3. CASE rid = 0
    <3>1. id = ins[1].id /\ rid = 0
      BY <2>3
    <3>2. id = ins[1].id % 256
      BY <2>1, <3>1
    <3> QED
      BY <3>1, <3>2
  <2> QED
    BY <2>2, <2>3
<1>2. own \in Seq(Nat) /\ Len(own) <= Len(InFront(id)) /\ Len(own) \in Nat /\ Len(InFront(id)) \in Nat
  <2>1. <<id>> \in Seq(Nat) /\ Len(<<id>>) = 1 /\ <<>> \in Seq(Nat) /\ Len(<<>>) = 0
    BY DEF Byte
  <2>2. CASE id = 0
    <3>1. ~(id # 0)
      BY <2>2
    <3>2. own = <<>>
      BY <3>1, Zenon
    <3>3. InFront(id) = <<>>
      BY <3>1, Zenon DEF InFront
    <3> HIDE DEF own
    <3> QED
      BY <2>1, <3>2, <3>3
  <2>3. CASE id # 0 /\ rid = 0
    <3>1. own = <<id>> /\ InFront(id) = <<id>>
      BY <2>3, Zenon DEF InFront
    <3>2. Len(<<id>>) \in Nat /\ Len(<<id>>) <= Len(<<id>>)
      BY <2>1
    <3> HIDE DEF own
    <3> QED
      BY <2>1, <3>1, <3>2, Zenon
  <2>4. CASE id # 0 /\ rid # 0
    <3>1. ~(rid = 0) /\ id # 0
      BY <2>4
    <3>2. own = <<>>
      BY <3>1, Zenon
    <3>3. InFront(id) = <<id>>
      BY <3>1, Zenon DEF InFront
    <3> HIDE DEF own
    <3> QED
      BY <2>1, <3>2, <3>3
  <2> QED
    BY <2>2, <2>3, <2>4
<1> HIDE DEF own
<1>3. bytes \in Nat /\ Len(own) + bytes < Width16
  BY <1>2 DEF Width16
<1> HIDE DEF bytes, m
<1>4. ZeroFilled(own, Narrow(bytes), m) = Trimmed(own \o Zeros(bytes), m)
  BY <1>2, <1>3, ZeroFilledFits
<1>5. NarrowBuffer(ins, rid, m) = ZeroFilled(own, Narrow(bytes), m)
  BY <1>1, Zenon DEF NarrowBuffer, own, bytes
<1>6. Buffer(ins, rid, m) = Trimmed(own \o Zeros(bytes), m)
  BY Zenon DEF Buffer, own, bytes
<1> QED
  BY <1>4, <1>5, <1>6, Zenon DEF NarrowSent, Sent, m

ReplyInv ==
    /\ DescInv
    /\ stage \in {"built", "answered"} => inputs = InputReports(desc) /\ inputs # <<>>
    /\ stage = "answered" /\ request.input => /\ request.id \in Nat /\ request.len \in Nat \ {0}
                                              /\ wire = NarrowSent(inputs, request.id, request.len)

LEMMA ReplyStarts == DescInit => ReplyInv
<1> SUFFICES ASSUME DescInit PROVE ReplyInv
  OBVIOUS
<1>1. stage = "corpus"
  BY Zenon DEF DescInit
<1>2. stage \notin {"built", "answered"} /\ stage # "answered"
  BY <1>1
<1> QED
  BY <1>2, DescStarts, Zenon DEF ReplyInv

LEMMA AskedSends == Asked => (request'.input => /\ request'.id \in Nat /\ request'.len \in Nat \ {0}
                                                /\ wire' = NarrowSent(inputs, request'.id, request'.len))
<1> SUFFICES ASSUME Asked, request'.input
             PROVE  /\ request'.id \in Nat /\ request'.len \in Nat \ {0}
                    /\ wire' = NarrowSent(inputs, request'.id, request'.len)
  OBVIOUS
<1>1. request' # Other
  <2>1. ~Other.input
    BY DEF Other
  <2> SUFFICES ASSUME request' = Other PROVE FALSE
    OBVIOUS
  <2>2. ~request'.input
    BY <2>1, Zenon
  <2> QED
    BY <2>2
<1>2. request' \in [id : Ids, len : ReqLens, input : {TRUE}]
  BY <1>1, Zenon DEF Asked
<1>3. request'.id \in Nat /\ request'.len \in Nat \ {0}
  <2>1. Ids \subseteq Byte /\ ReqLens \subseteq Nat \ {0}
    BY DescriptorAssumption, Zenon
  <2>2. request'.id \in Byte /\ request'.len \in Nat \ {0}
    BY <1>2, <2>1
  <2> QED
    BY <2>2 DEF Byte
<1>4. wire' = InFront(request'.id) \o GetReport(request'.id, request'.len - Len(InFront(request'.id)))
  BY <1>1, Zenon DEF Asked, InFront
<1>5. wire' = NarrowSent(inputs, request'.id, request'.len)
  BY <1>4, GetReportIs, Zenon DEF NarrowSent
<1> QED
  BY <1>3, <1>5

LEMMA ReplyStep == ReplyInv /\ [DescNext]_descVars => ReplyInv'
<1> SUFFICES ASSUME ReplyInv, [DescNext]_descVars PROVE ReplyInv'
  OBVIOUS
<1>1. DescInv /\ DescInv'
  BY DescStep, Zenon DEF ReplyInv
<1>2. CASE Write
  <2>1. stage' = "corpus"
    BY <1>2, Zenon DEF Write
  <2>2. stage' \notin {"built", "answered"} /\ stage' # "answered"
    BY <2>1
  <2> QED
    BY <1>1, <2>2, Zenon DEF ReplyInv
<1>3. CASE Generate
  <2>1. inputs' = InputReports(desc') /\ stage' = IF inputs' = <<>> THEN "refused" ELSE "built"
    BY <1>3, Zenon DEF Generate
  <2>2. stage' # "answered"
    BY <2>1
  <2>3. stage' \in {"built", "answered"} => inputs' # <<>>
    BY <2>1
  <2> QED
    BY <1>1, <2>1, <2>2, <2>3, Zenon DEF ReplyInv
<1>4. CASE Asked
  <2>1. stage = "built" /\ UNCHANGED <<desc, inputs>>
    BY <1>4, Zenon DEF Asked
  <2>2. stage \in {"built", "answered"}
    BY <2>1
  <2>3. inputs' = InputReports(desc') /\ inputs' # <<>>
    BY <2>1, <2>2, Zenon DEF ReplyInv
  <2>4. request'.input => /\ request'.id \in Nat /\ request'.len \in Nat \ {0}
                          /\ wire' = NarrowSent(inputs', request'.id, request'.len)
    BY <1>4, <2>1, AskedSends, Zenon
  <2> QED
    BY <1>1, <2>3, <2>4, Zenon DEF ReplyInv
<1>5. CASE UNCHANGED descVars
  <2>1. stage' = stage /\ desc' = desc /\ inputs' = inputs /\ request' = request /\ wire' = wire
    BY <1>5 DEF descVars
  <2> QED
    BY <1>1, <2>1, Zenon DEF ReplyInv
<1> QED
  BY <1>2, <1>3, <1>4, <1>5 DEF DescNext

\* A buffer for a request that names a report, and for one that names none.
LEMMA NamedSent ==
  ASSUME NEW id \in Nat \ {0}, NEW n \in Nat \ {0}, NEW ins, LengthIn(ins, id) \in Nat
  PROVE  Sent(ins, id, n) = Trimmed(InFront(id) \o Zeros(LengthIn(ins, id)), n)
<1> DEFINE z == Zeros(LengthIn(ins, id))
<1>1. z \in Seq(Nat)
  BY ZerosType
<1>2. id # 0 /\ InFront(id) = <<id>>
  BY DEF InFront
<1>3. <<>> \o z = z
  BY <1>1, ConcatEmptySeq
<1>4. Len(InFront(id)) = 1
  BY <1>2
<1>5. Buffer(ins, id, n - 1) = Trimmed(<<>> \o z, n - 1)
  BY <1>2, Zenon DEF Buffer
<1>6. Sent(ins, id, n) = <<id>> \o Trimmed(z, n - 1)
  BY <1>2, <1>3, <1>4, <1>5, Zenon DEF Sent
<1>7. id \in Nat
  OBVIOUS
<1> HIDE DEF z
<1>8. <<id>> \o Trimmed(z, n - 1) = Trimmed(<<id>> \o z, n)
  BY <1>1, <1>7, FrontedTrims
<1> QED
  BY <1>2, <1>6, <1>8, Zenon DEF z

LEMMA UnnamedSent ==
  ASSUME NEW n \in Nat \ {0}, NEW ins, NEW id \in Nat, ins[1].id = id, LengthIn(ins, id) \in Nat
  PROVE  Sent(ins, 0, n) = Trimmed(InFront(id) \o Zeros(LengthIn(ins, id)), n)
<1> DEFINE z == Zeros(LengthIn(ins, id))
           f == InFront(id)
           r == f \o z
<1>1. z \in Seq(Nat)
  BY ZerosType
<1>2. f \in Seq(Nat)
  BY DEF InFront
<1>3. InFront(0) = <<>> /\ Len(<<>>) = 0 /\ n - 0 = n /\ n \in Nat
  BY DEF InFront
<1>4. Buffer(ins, 0, n) = Trimmed(r, n)
  BY Zenon DEF Buffer, InFront
<1> HIDE DEF z, f
<1>5. r \in Seq(Nat)
  BY <1>1, <1>2, ConcatProperties
<1> HIDE DEF r
<1>6. Trimmed(r, n) \in Seq(Nat)
  BY <1>3, <1>5, Trims
<1>7. <<>> \o Trimmed(r, n) = Trimmed(r, n)
  BY <1>6, ConcatEmptySeq
<1>8. Sent(ins, 0, n) = <<>> \o Trimmed(r, n)
  BY <1>3, <1>4, Zenon DEF Sent
<1> QED
  BY <1>7, <1>8, Zenon DEF r, f, z

LEMMA ReplyTells == ReplyInv => ReplyAsDeclared
<1> DEFINE id == IF request.id # 0 THEN request.id ELSE Setting(Report_ID)[FirstInput]
           report == InFront(id) \o Zeros(DeclaredBytes(id))
<1> SUFFICES ASSUME ReplyInv, stage = "answered", request.input, InputsOf(id) # {},
                    id \in Byte, Len(report) < Width16
             PROVE  wire = Trimmed(report, request.len)
  BY Zenon DEF ReplyAsDeclared, InFront, Trimmed
<1> HIDE DEF id
<1>1. /\ items \in Seq(AllItems) /\ desc = RewrittenItems(items, asked)
      /\ inputs = InputReports(desc) /\ inputs # <<>>
      /\ request.id \in Nat /\ request.len \in Nat \ {0}
      /\ wire = NarrowSent(inputs, request.id, request.len)
  <2>1. "answered" # "corpus" /\ "answered" \in {"built", "answered"}
    OBVIOUS
  <2> QED
    BY <2>1, Zenon DEF ReplyInv, DescInv
<1>2. PICK F : Ran(F, items)
  BY <1>1, RunsExist
<1>3. Runs(F)
  BY <1>1, <1>2, Zenon DEF Runs
<1>4. inputs = Whole(F[Len(items)].bits)
  <2>1. InputReports(RewrittenItems(items, asked)) = Whole(F[Len(items)].bits)
    BY <1>1, <1>2, ReportsOfRig
  <2> QED
    BY <1>1, <2>1, Zenon
<1>5. inputs[1].id = Setting(Report_ID)[FirstInput] /\ inputs[1].id \in Nat
  BY <1>1, <1>3, <1>4, FirstReport
<1>6. LengthIn(inputs, id) = DeclaredBytes(id) /\ LengthIn(inputs, id) \in Nat
  BY <1>3, <1>4, LengthTold
<1>7. Sent(inputs, request.id, request.len) = Trimmed(InFront(id) \o Zeros(LengthIn(inputs, id)), request.len)
  <2> DEFINE rid == request.id
             n == request.len
  <2>1. rid \in Nat /\ n \in Nat \ {0}
    BY <1>1
  <2>2. id = IF rid # 0 THEN rid ELSE inputs[1].id
    BY <1>5, Zenon DEF id
  <2> HIDE DEF rid, n
  <2>3. CASE rid # 0
    <3>1. id = rid /\ id \in Nat \ {0}
      BY <2>1, <2>2, <2>3
    <3>2. Sent(inputs, id, n) = Trimmed(InFront(id) \o Zeros(LengthIn(inputs, id)), n)
      BY <1>6, <2>1, <3>1, NamedSent
    <3> QED
      BY <3>1, <3>2, Zenon DEF rid, n
  <2>4. CASE rid = 0
    <3>1. inputs[1].id = id /\ id \in Nat
      BY <1>5, <2>2, <2>4, Zenon
    <3>2. Sent(inputs, 0, n) = Trimmed(InFront(id) \o Zeros(LengthIn(inputs, id)), n)
      BY <1>6, <2>1, <3>1, UnnamedSent
    <3> QED
      BY <2>4, <3>2, Zenon DEF rid, n
  <2> QED
    BY <2>3, <2>4
<1>8. NarrowSent(inputs, request.id, request.len) = Sent(inputs, request.id, request.len)
  <2> DEFINE rid == request.id
             n == request.len
             bytes == LengthIn(inputs, id)
  <2>1. id = IF rid # 0 THEN rid ELSE inputs[1].id
    BY <1>5, Zenon DEF id
  <2>2. bytes \in Nat /\ report = InFront(id) \o Zeros(bytes)
    BY <1>6, Zenon
  <2> HIDE DEF bytes
  <2>3. InFront(id) \in Seq(Nat)
    BY DEF InFront, Byte
  <2>4. Len(report) = Len(InFront(id)) + bytes
    <3>1. Zeros(bytes) \in Seq(Nat) /\ Len(Zeros(bytes)) = bytes
      BY <2>2, ZerosType
    <3> HIDE DEF report
    <3> QED
      BY <2>2, <2>3, <3>1, ConcatProperties
  <2> HIDE DEF report
  <2>5. rid \in Nat /\ inputs[1].id \in Nat
    BY <1>1, <1>5, Zenon
  <2>6. LengthIn(inputs, id) \in Nat /\ Len(InFront(id)) + LengthIn(inputs, id) < Width16
    BY <1>6, <2>4, Zenon DEF bytes
  <2> HIDE DEF rid, n
  <2>7. NarrowSent(inputs, rid, n) = Sent(inputs, rid, n)
    BY <2>1, <2>5, <2>6, SentFits
  <2> QED
    BY <2>7, Zenon DEF rid, n
<1> QED
  BY <1>1, <1>6, <1>7, <1>8, Zenon

\* emu/gen_desc.py, emu/usb_descriptors.c: for every corpus entry, whatever its Push and Pop
\* items save and restore and whatever flags it is generated with, the rig answers GET_REPORT
\* with the report the entry's items declare, its ID once in front, trimmed to the request, as
\* long as the ID is a byte and the report one a 16-bit length can tell.
THEOREM RepliesAsDeclared == DescSpec => []ReplyAsDeclared
<1>1. DescInit => ReplyInv
  BY ReplyStarts
<1>2. ReplyInv /\ [DescNext]_descVars => ReplyInv'
  BY ReplyStep
<1>3. ReplyInv => ReplyAsDeclared
  BY ReplyTells
<1> QED
  BY <1>1, <1>2, <1>3, PTL DEF DescSpec
=============================================================================
