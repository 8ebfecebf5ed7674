--------------------------- MODULE SleepWakeProofs ---------------------------
(***************************************************************************)
(* What holds of the Sleep/Wake rig for every queue size, timing and host. *)
(***************************************************************************)
EXTENDS SleepWakeHistory, SequenceTheorems, TLAPS

(***************************************************************************)
(* Arithmetic of the ring.                                                 *)
(***************************************************************************)

(* One lap round the ring: the slot i places after the head. *)
LEMMA OneLap ==
  ASSUME NEW h \in 0 .. QueueSize - 1, NEW i \in 0 .. QueueSize - 1
  PROVE  /\ h + i < QueueSize => (h + i) % QueueSize = h + i
         /\ h + i >= QueueSize => (h + i) % QueueSize = h + i - QueueSize
<1>1. CASE h + i < QueueSize
  BY <1>1, QueueAssumption
<1>2. CASE h + i >= QueueSize
  BY <1>2, QueueAssumption
<1> QED
  BY <1>1, <1>2, QueueAssumption

(* A ring of even size keeps the parity of an index. *)
LEMMA SlotOf ==
  ASSUME NEW s \in ControlState, NEW i \in 0 .. QueueSize - 1
  PROVE  /\ Slot(s, i) \in Slots
         /\ Slot(s, i) = IF s.head + i < QueueSize THEN s.head + i
                                                   ELSE s.head + i - QueueSize
         /\ Slot(s, i) % 2 = (s.head + i) % 2
<1>1. s.head \in 0 .. QueueSize - 1
  BY DEF ControlState, Slots
<1>2. Slot(s, i) = (s.head + i) % QueueSize
  BY DEF Slot
<1>3. CASE s.head + i < QueueSize
  <2>1. Slot(s, i) = s.head + i
    BY <1>1, <1>2, <1>3, OneLap
  <2> QED
    BY <1>1, <1>3, <2>1, QueueAssumption DEF Slots
<1>4. CASE s.head + i >= QueueSize
  <2>1. Slot(s, i) = s.head + i - QueueSize
    BY <1>1, <1>2, <1>4, OneLap
  <2> QED
    BY <1>1, <1>4, <2>1, QueueAssumption DEF Slots
<1> QED
  BY <1>1, <1>3, <1>4, QueueAssumption
-----------------------------------------------------------------------------
(***************************************************************************)
(* What each piece of sleepwake_task does to the record.                   *)
(***************************************************************************)

(* The fields the endpoint depends on are as they were, and so is the      *)
(* report at the head of the queue if there was one.                       *)
KeepsHead(r, s) ==
  /\ r.head = s.head
  /\ r.current = s.current
  /\ r.in_flight = s.in_flight
  /\ r.count >= s.count
  /\ s.count > 0 => r.queue[r.head] = s.queue[s.head]

(* Nothing about the queue has changed. *)
SameQueue(r, s) ==
  /\ r.queue = s.queue
  /\ r.head = s.head
  /\ r.count = s.count
  /\ r.current = s.current
  /\ r.in_flight = s.in_flight

LEMMA SinceType ==
  ASSUME NEW t \in Times, NEW then \in Times
  PROVE  Since(t, then) \in Times
BY TimeAssumption DEF Since, Times

LEMMA SameQueueKeeps ==
  ASSUME NEW s \in ControlState, NEW r \in ControlState, SameQueue(r, s), Paired(s)
  PROVE  Paired(r) /\ KeepsHead(r, s)
BY DEF SameQueue, Paired, KeepsHead, Slot, ControlState

LEMMA ResetPaired ==
  ASSUME NEW t \in Times
  PROVE  Reset(t) \in ControlState /\ Paired(Reset(t))
<1>1. Reset(t) \in ControlState
  BY QueueAssumption, TimeAssumption
     DEF Reset, ControlState, Slots, Times, Usages, Presses, Release
<1>2. Paired(Reset(t))
  BY QueueAssumption
     DEF Reset, Paired, Slots, Presses, Release, SystemSleep, SystemWake
<1> QED
  BY <1>1, <1>2

(* A gesture's two reports go behind everything already queued. *)
LEMMA EnqueuePaired ==
  ASSUME NEW s \in ControlState, Paired(s), NEW usage \in Presses
  PROVE  /\ Enqueue(s, usage) \in ControlState
         /\ Paired(Enqueue(s, usage))
         /\ KeepsHead(Enqueue(s, usage), s)
<1> DEFINE r == Enqueue(s, usage)
<1>1. CASE s.count > QueueSize - 2
  BY <1>1, QueueAssumption DEF Enqueue, KeepsHead, ControlState
<1>2. CASE s.count <= QueueSize - 2
  <2> DEFINE a == Slot(s, s.count)
             b == Slot(s, s.count + 1)
  <2>1. s.head \in 0 .. QueueSize - 1 /\ s.count \in 0 .. QueueSize
    BY DEF ControlState, Slots
  <2>2. /\ s.count \in 0 .. QueueSize - 1
        /\ s.count + 1 \in 0 .. QueueSize - 1
    BY <1>2, <2>1, QueueAssumption
  <2>3. /\ a \in Slots /\ a % 2 = 0
        /\ a = IF s.head + s.count < QueueSize THEN s.head + s.count
                                               ELSE s.head + s.count - QueueSize
    BY <2>2, SlotOf DEF Paired
  <2>4. /\ b \in Slots /\ b % 2 = 1
        /\ b = IF s.head + s.count + 1 < QueueSize
               THEN s.head + s.count + 1
               ELSE s.head + s.count + 1 - QueueSize
    <3>1. /\ b \in Slots /\ b % 2 = (s.head + (s.count + 1)) % 2
          /\ b = IF s.head + (s.count + 1) < QueueSize
                 THEN s.head + (s.count + 1)
                 ELSE s.head + (s.count + 1) - QueueSize
      BY <2>2, SlotOf
    <3>2. (s.head + s.count) % 2 = 0
      BY DEF Paired
    <3> QED
      BY <2>1, <3>1, <3>2, QueueAssumption
  <2>5. a # b
    BY <2>3, <2>4
  <2> HIDE DEF a, b
  <2> DEFINE q == [s.queue EXCEPT ![a] = usage, ![b] = Release]
  <2>6. r = [s EXCEPT !.queue = q, !.count = @ + 2,
                      !.wake_attempted = @ /\ usage # SystemWake]
    BY <1>2, <2>1, QueueAssumption DEF Enqueue, a, b
  <2>7. q \in [Slots -> Usages]
    BY <2>3, <2>4 DEF ControlState, Usages
  <2> HIDE DEF r
  <2> HIDE DEF q
  <2>8. /\ r.queue = q
        /\ r.count = s.count + 2
        /\ r.head = s.head /\ r.current = s.current /\ r.in_flight = s.in_flight
    BY <2>6 DEF ControlState
  <2>9. r \in ControlState
    <3>1. s.count + 2 \in 0 .. QueueSize
      BY <1>2, <2>1, QueueAssumption
    <3> QED
      BY <2>6, <2>7, <3>1 DEF ControlState
  <2> USE DEF q
  <2>10. Paired(r)
    <3>1. (r.head + r.count) % 2 = 0
      BY <2>1, <2>8 DEF Paired
    <3>2. ASSUME NEW slot \in Slots, slot % 2 = 1
          PROVE  r.queue[slot] = Release
      BY <2>3, <2>4, <2>8, <3>2 DEF Paired, ControlState
    <3>3. ASSUME NEW i \in 0 .. r.count - 1, Slot(r, i) % 2 = 0
          PROVE  r.queue[Slot(r, i)] \in Presses
      <4>1. Slot(r, i) = Slot(s, i)
        BY <2>8 DEF Slot
      <4>2. CASE i < s.count
        <5>1. i \in 0 .. s.count - 1 /\ i \in 0 .. QueueSize - 1
          BY <2>1, <2>8, <3>3, <4>2, QueueAssumption
        <5>2. s.queue[Slot(s, i)] \in Presses
          BY <3>3, <4>1, <5>1 DEF Paired
        <5>3. Slot(s, i) # b /\ Slot(s, i) \in Slots
          BY <2>4, <3>3, <4>1, <5>1, SlotOf
        <5> QED
          BY <2>3, <2>8, <4>1, <5>2, <5>3 DEF ControlState
      <4>3. CASE i = s.count
        BY <2>3, <2>4, <2>5, <2>8, <4>1, <4>3 DEF a, ControlState
      <4>4. CASE i = s.count + 1
        BY <2>4, <3>3, <4>1, <4>4 DEF b
      <4> QED
        BY <2>1, <2>8, <4>2, <4>3, <4>4
    <3>4. r.current \in Presses <=> r.head % 2 = 1
      BY <2>8 DEF Paired
    <3> QED
      BY <3>1, <3>2, <3>3, <3>4 DEF Paired
  <2>11. KeepsHead(r, s)
    <3>1. ASSUME s.count > 0
          PROVE  r.queue[r.head] = s.queue[s.head]
      <4>1. s.head # a /\ s.head # b
        BY <1>2, <2>1, <2>3, <2>4, <3>1, QueueAssumption
      <4> QED
        BY <2>1, <2>8, <4>1 DEF ControlState, Slots
    <3> QED
      BY <2>1, <2>8, <3>1 DEF KeepsHead
  <2> QED
    BY <2>9, <2>10, <2>11 DEF r
<1>3. s.count > QueueSize - 2 \/ s.count <= QueueSize - 2
  BY QueueAssumption DEF ControlState
<1> QED
  BY <1>1, <1>2, <1>3

LEMMA KeepsHeadTrans ==
  ASSUME NEW r \in ControlState, NEW s \in ControlState, NEW u \in ControlState,
         KeepsHead(r, s), KeepsHead(s, u)
  PROVE  KeepsHead(r, u)
BY QueueAssumption DEF KeepsHead, ControlState

LEMMA SuspendEdgePaired ==
  ASSUME NEW s \in ControlState, Paired(s), NEW t \in Times, NEW susp \in BOOLEAN
  PROVE  /\ SuspendEdge(s, t, susp) \in ControlState
         /\ Paired(SuspendEdge(s, t, susp))
         /\ KeepsHead(SuspendEdge(s, t, susp), s)
<1>1. SuspendEdge(s, t, susp) \in ControlState
  BY DEF SuspendEdge, ControlState
<1>2. SameQueue(SuspendEdge(s, t, susp), s)
  BY DEF SuspendEdge, SameQueue, ControlState
<1> QED
  BY <1>1, <1>2, SameQueueKeeps

LEMMA SamplePaired ==
  ASSUME NEW s \in ControlState, Paired(s), NEW t \in Times, NEW pressed \in BOOLEAN
  PROVE  /\ Sample(s, t, pressed) \in ControlState
         /\ Paired(Sample(s, t, pressed))
         /\ KeepsHead(Sample(s, t, pressed), s)
<1>1. Sample(s, t, pressed) \in ControlState
  BY DEF Sample, ControlState
<1>2. SameQueue(Sample(s, t, pressed), s)
  BY DEF Sample, SameQueue, ControlState
<1> QED
  BY <1>1, <1>2, SameQueueKeeps

LEMMA LetGoPaired ==
  ASSUME NEW s \in ControlState, Paired(s), NEW susp \in BOOLEAN
  PROVE  /\ LetGo(s, susp) \in ControlState
         /\ Paired(LetGo(s, susp))
         /\ KeepsHead(LetGo(s, susp), s)
<1> DEFINE usage  == GestureUsage(s)
           wanted == s.tracking /\ (usage = SystemWake \/ ~susp)
           retry  == s.tracking /\ usage = SystemWake /\ susp
           e == IF wanted THEN Enqueue(s, usage) ELSE s
           r == LetGo(s, susp)
<1>1. usage \in Presses
  BY DEF GestureUsage, Presses
<1>2. e \in ControlState /\ Paired(e) /\ KeepsHead(e, s)
  <2>1. KeepsHead(s, s)
    BY QueueAssumption DEF KeepsHead, ControlState
  <2> QED
    BY <1>1, <2>1, EnqueuePaired
<1> DEFINE tried == e.wake_attempted /\ ~retry
<1>a. tried \in BOOLEAN
  OBVIOUS
<1>3. r = [e EXCEPT !.wake_attempted = tried, !.stable = FALSE, !.tracking = FALSE, !.armed = TRUE]
  BY DEF LetGo
<1> HIDE DEF e, r, retry, tried
<1>4. r \in ControlState
  BY <1>a, <1>2, <1>3 DEF ControlState
<1>5. SameQueue(r, e)
  BY <1>2, <1>3 DEF SameQueue, ControlState
<1>6. Paired(r) /\ KeepsHead(r, e)
  BY <1>2, <1>4, <1>5, SameQueueKeeps
<1>7. KeepsHead(r, s)
  BY <1>2, <1>4, <1>6, KeepsHeadTrans
<1> QED
  BY <1>4, <1>6, <1>7 DEF r

LEMMA SettlePaired ==
  ASSUME NEW s \in ControlState, Paired(s), NEW t \in Times, NEW susp \in BOOLEAN
  PROVE  /\ Settle(s, t, susp) \in ControlState
         /\ Paired(Settle(s, t, susp))
         /\ KeepsHead(Settle(s, t, susp), s)
<1> DEFINE arm == [s EXCEPT !.armed = @ \/ ~s.stable]
<1>1. /\ s.candidate \in BOOLEAN /\ s.stable \in BOOLEAN /\ s.armed \in BOOLEAN
      /\ s.changed_at \in Times
  BY DEF ControlState
<1>2. Settle(s, t, susp) \in {s, arm, Press(s), LetGo(s, susp)}
  BY DEF Settle
<1>3. arm \in ControlState /\ SameQueue(arm, s)
  BY <1>1 DEF SameQueue, ControlState
<1>4. Press(s) \in ControlState /\ SameQueue(Press(s), s)
  BY DEF Press, SameQueue, ControlState
<1>5. s \in ControlState /\ SameQueue(s, s)
  BY DEF SameQueue
<1>6. \A r \in {s, arm, Press(s)} :
        r \in ControlState /\ Paired(r) /\ KeepsHead(r, s)
  BY <1>3, <1>4, <1>5, SameQueueKeeps
<1> QED
  BY <1>2, <1>6, LetGoPaired

(* sleepwake_task up to the point where it sends: the queue keeps its      *)
(* layout, and what may be in flight is not disturbed.                     *)
LEMMA ObservePaired ==
  ASSUME NEW s \in ControlState, Paired(s), NEW t \in Times,
         NEW pressed \in BOOLEAN, NEW susp \in BOOLEAN
  PROVE  /\ Observe(s, t, pressed, susp) \in ControlState
         /\ Paired(Observe(s, t, pressed, susp))
         /\ KeepsHead(Observe(s, t, pressed, susp), s)
<1> DEFINE e == SuspendEdge(s, t, susp)
           p == Sample(e, t, pressed)
           r == Settle(p, t, susp)
<1>1. e \in ControlState /\ Paired(e) /\ KeepsHead(e, s)
  BY SuspendEdgePaired
<1> HIDE DEF e
<1>2. p \in ControlState /\ Paired(p) /\ KeepsHead(p, e)
  BY <1>1, SamplePaired
<1> HIDE DEF p
<1>3. r \in ControlState /\ Paired(r) /\ KeepsHead(r, p)
  BY <1>2, SettlePaired
<1> HIDE DEF r
<1>4. KeepsHead(r, s)
  BY <1>1, <1>2, <1>3, KeepsHeadTrans
<1>5. Observe(s, t, pressed, susp) = r
  BY DEF Observe, e, p, r
<1> QED
  BY <1>3, <1>4, <1>5

(* Retiring the head moves on from a press to its release, or from a       *)
(* release to the next gesture.                                            *)
LEMMA CompletePaired ==
  ASSUME NEW s \in ControlState, Paired(s), s.in_flight, s.count > 0
  PROVE  LET r == Complete(s, s.queue[s.head])
         IN  /\ r \in ControlState
             /\ Paired(r)
             /\ r.current = s.queue[s.head]
             /\ ~r.in_flight
<1> DEFINE r == Complete(s, s.queue[s.head])
<1>1. s.head \in 0 .. QueueSize - 1 /\ s.count \in 1 .. QueueSize
  BY QueueAssumption DEF ControlState, Slots
<1>2. s.queue[s.head] \in Usages
  BY DEF ControlState
<1>3. 1 \in 0 .. QueueSize - 1
  BY QueueAssumption
<1>4. /\ Slot(s, 1) \in Slots
      /\ Slot(s, 1) = IF s.head + 1 < QueueSize THEN s.head + 1
                                                ELSE s.head + 1 - QueueSize
      /\ Slot(s, 1) % 2 = (s.head + 1) % 2
  BY <1>3, SlotOf
<1>5. r = [s EXCEPT !.current = s.queue[s.head], !.head = Slot(s, 1),
                    !.count = @ - 1, !.in_flight = FALSE]
  BY <1>1 DEF Complete
<1> HIDE DEF r
<1>6. r \in ControlState
  <2>1. s.count - 1 \in 0 .. QueueSize
    BY <1>1, QueueAssumption
  <2> QED
    BY <1>2, <1>4, <1>5, <2>1 DEF ControlState
<1>7. /\ r.queue = s.queue /\ r.head = Slot(s, 1) /\ r.count = s.count - 1
      /\ r.current = s.queue[s.head] /\ r.in_flight = FALSE
  BY <1>5 DEF ControlState
<1>8. Slot(s, 0) = s.head
  BY <1>1, SlotOf, QueueAssumption
<1>9. Paired(r)
  <2>1. (r.head + r.count) % 2 = 0
    <3>1. (s.head + s.count) % 2 = 0
      BY DEF Paired
    <3>2. (s.head + 1 + s.count - 1) % 2 = 0
      BY <1>1, <3>1
    <3> QED
      BY <1>1, <1>4, <1>7, <3>2, QueueAssumption
  <2>2. \A slot \in Slots : slot % 2 = 1 => r.queue[slot] = Release
    BY <1>7 DEF Paired
  <2>3. ASSUME NEW i \in 0 .. r.count - 1, Slot(r, i) % 2 = 0
        PROVE  r.queue[Slot(r, i)] \in Presses
    <3>1. /\ i \in 0 .. QueueSize - 1 /\ i + 1 \in 0 .. QueueSize - 1
          /\ i + 1 \in 0 .. s.count - 1
      BY <1>1, <1>7, QueueAssumption
    <3>2. Slot(r, i) = IF r.head + i < QueueSize THEN r.head + i
                                                ELSE r.head + i - QueueSize
      BY <1>6, <3>1, SlotOf
    <3>3. Slot(s, i + 1) = IF s.head + (i + 1) < QueueSize
                           THEN s.head + (i + 1)
                           ELSE s.head + (i + 1) - QueueSize
      BY <3>1, SlotOf
    <3>4. Slot(r, i) = Slot(s, i + 1)
      BY <1>1, <1>4, <1>7, <3>1, <3>2, <3>3, QueueAssumption
    <3> QED
      BY <1>7, <2>3, <3>1, <3>4 DEF Paired
  <2>4. r.current \in Presses <=> r.head % 2 = 1
    <3>1. CASE s.head % 2 = 0
      <4>1. s.queue[s.head] \in Presses
        BY <1>1, <1>8, <3>1 DEF Paired
      <4> QED
        BY <1>1, <1>4, <1>7, <3>1, <4>1
    <3>2. CASE s.head % 2 = 1
      <4>1. s.queue[s.head] = Release
        BY <1>1, <3>2 DEF Paired, Slots
      <4> QED
        BY <1>1, <1>4, <1>7, <3>2, <4>1
           DEF Presses, Release, SystemSleep, SystemWake
    <3> QED
      BY <1>1, <3>1, <3>2
  <2> QED
    BY <2>1, <2>2, <2>3, <2>4 DEF Paired
<1> QED
  BY <1>6, <1>7, <1>9 DEF r

-----------------------------------------------------------------------------
(***************************************************************************)
(* The rig, its endpoint and its host.                                     *)
(***************************************************************************)

(* The host holds down the last report it read: the one GET_REPORT gives,  *)
(* or the one whose completion is still to come.                           *)
HostMatchesReports ==
  mounted => host = IF endpoint.phase = "read" THEN endpoint.usage ELSE state.current

(* The inductive invariant: the type, the queue's layout, and the coupling *)
(* of the three places a report passes through.                            *)
Inv ==
  /\ TypeOK
  /\ QueuePaired
  /\ InFlightMatchesEndpoint
  /\ HostMatchesReports

LEMMA ClockType ==
  ASSUME now \in Times
  PROVE  (now + 1) % TimeMod \in Times
BY TimeAssumption DEF Times

LEMMA InitInv == Init => Inv
<1> SUFFICES ASSUME Init PROVE Inv
  OBVIOUS
<1>1. now \in Times
  BY TimeAssumption DEF Init, Times
<1>2. state = Reset(now) /\ state \in ControlState /\ Paired(state)
  BY <1>1, ResetPaired DEF Init
<1>3. TypeOK
  BY <1>1, <1>2 DEF Init, TypeOK, Idle, Usages, Presses
<1>4. InFlightMatchesEndpoint /\ HostMatchesReports
  BY DEF Init, InFlightMatchesEndpoint, HostMatchesReports, Idle
<1> QED
  BY <1>2, <1>3, <1>4 DEF Inv, QueuePaired

(* A poll's task leaves the coupling as it found it. *)
LEMMA ObserveCoupled ==
  ASSUME Inv, mounted, NEW pressed \in BOOLEAN
  PROVE  LET s == Observe(state, now, pressed, suspended)
         IN  /\ s \in ControlState
             /\ Paired(s)
             /\ s.in_flight <=> endpoint.phase # "idle"
             /\ s.current = state.current
             /\ endpoint.phase # "idle" =>
                  s.count > 0 /\ endpoint.usage = s.queue[s.head]
<1> DEFINE s == Observe(state, now, pressed, suspended)
<1>1. state \in ControlState /\ now \in Times /\ suspended \in BOOLEAN /\ Paired(state)
  BY DEF Inv, TypeOK, QueuePaired
<1>2. s \in ControlState /\ Paired(s) /\ KeepsHead(s, state)
  BY <1>1, ObservePaired
<1> HIDE DEF s
<1>3. s.count >= state.count /\ state.count > 0 => s.count > 0
  BY <1>1, <1>2, QueueAssumption DEF ControlState
<1> QED
  BY <1>2, <1>3 DEF KeepsHead, Inv, InFlightMatchesEndpoint, s

LEMMA NextInv == Inv /\ [Next]_vars => Inv'
<1> SUFFICES ASSUME Inv, [Next]_vars PROVE Inv'
  OBVIOUS
<1> USE DEF Inv
<1>1. CASE Tick
  BY <1>1, ClockType
     DEF Tick, usb, TypeOK, QueuePaired, InFlightMatchesEndpoint, HostMatchesReports
<1>2. CASE PollOffline
  <2>1. state' = Reset(now) /\ state' \in ControlState /\ Paired(state')
    BY <1>2, ResetPaired DEF PollOffline, TypeOK
  <2> QED
    BY <1>2, <2>1
       DEF PollOffline, Due, usb, TypeOK, QueuePaired, InFlightMatchesEndpoint,
           HostMatchesReports, Idle
<1>3. ASSUME NEW pressed \in BOOLEAN, PollWakes(pressed)
      PROVE  Inv'
  <2> DEFINE s == Observe(state, now, pressed, suspended)
  <2>1. mounted
    BY <1>3 DEF PollWakes
  <2>2. /\ s \in ControlState /\ Paired(s)
        /\ s.in_flight <=> endpoint.phase # "idle"
        /\ s.current = state.current
        /\ endpoint.phase # "idle" =>
             s.count > 0 /\ endpoint.usage = s.queue[s.head]
    BY <2>1, ObserveCoupled
  <2>3. /\ state' = [s EXCEPT !.wake_attempted = TRUE]
        /\ signalled' = TRUE \/ signalled' = signalled
        /\ UNCHANGED <<mounted, suspended, endpoint, host, now>>
        /\ last_sample' = now
    BY <1>3 DEF PollWakes, Due
  <2> HIDE DEF s
  <2>4. state' \in ControlState /\ SameQueue(state', s)
    BY <2>2, <2>3 DEF ControlState, SameQueue
  <2>5. Paired(state')
    BY <2>2, <2>4, SameQueueKeeps
  <2> QED
    BY <2>1, <2>2, <2>3, <2>4, <2>5
       DEF SameQueue, TypeOK, QueuePaired, InFlightMatchesEndpoint, HostMatchesReports
<1>4. ASSUME NEW pressed \in BOOLEAN, PollSubmits(pressed)
      PROVE  Inv'
  <2> DEFINE s == Observe(state, now, pressed, suspended)
  <2>1. mounted
    BY <1>4 DEF PollSubmits
  <2>2. s \in ControlState /\ Paired(s) /\ s.current = state.current
    BY <2>1, ObserveCoupled
  <2>3. /\ s.count # 0 /\ endpoint.phase = "idle"
        /\ state' = [s EXCEPT !.in_flight = TRUE]
        /\ endpoint' = [phase |-> "armed", usage |-> s.queue[s.head]]
        /\ UNCHANGED <<mounted, suspended, host, signalled, now>>
        /\ last_sample' = now
    BY <1>4 DEF PollSubmits, CanSubmit, Busy, Due
  <2> HIDE DEF s
  <2>4. /\ s.count \in 0 .. QueueSize /\ s.head \in Slots
        /\ s.queue[s.head] \in Usages
    BY <2>2 DEF ControlState
  <2>5. /\ state' \in ControlState
        /\ state'.queue = s.queue /\ state'.head = s.head /\ state'.count = s.count
        /\ state'.current = s.current /\ state'.in_flight = TRUE
    BY <2>2, <2>3 DEF ControlState
  <2>6. Paired(state')
    BY <2>2, <2>5 DEF Paired, Slot
  <2>7. state'.count > 0
    BY <2>3, <2>4, <2>5, QueueAssumption
  <2>8. TypeOK'
    BY <2>3, <2>4, <2>5 DEF TypeOK
  <2>9. InFlightMatchesEndpoint'
    BY <2>1, <2>3, <2>5, <2>7 DEF InFlightMatchesEndpoint
  <2>10. HostMatchesReports'
    BY <2>1, <2>2, <2>3, <2>5 DEF HostMatchesReports
  <2> QED
    BY <2>6, <2>8, <2>9, <2>10 DEF QueuePaired
<1>5. ASSUME NEW pressed \in BOOLEAN, PollQuiet(pressed)
      PROVE  Inv'
  <2> DEFINE s == Observe(state, now, pressed, suspended)
  <2>1. mounted
    BY <1>5 DEF PollQuiet
  <2>2. /\ s \in ControlState /\ Paired(s)
        /\ s.in_flight <=> endpoint.phase # "idle"
        /\ s.current = state.current
        /\ endpoint.phase # "idle" =>
             s.count > 0 /\ endpoint.usage = s.queue[s.head]
    BY <2>1, ObserveCoupled
  <2>3. state' = s /\ last_sample' = now /\ now' = now /\ UNCHANGED usb
    BY <1>5 DEF PollQuiet, Due
  <2> HIDE DEF s
  <2> QED
    BY <2>1, <2>2, <2>3
       DEF usb, TypeOK, QueuePaired, InFlightMatchesEndpoint, HostMatchesReports
<1>6. CASE Mount
  <2>1. state' = Reset(now) /\ state' \in ControlState /\ Paired(state')
    BY <1>6, ResetPaired DEF Mount, TypeOK
  <2>2. state'.in_flight = FALSE /\ state'.current = Release
    BY <2>1 DEF Reset
  <2> QED
    BY <1>6, <2>1, <2>2
       DEF Mount, TypeOK, QueuePaired, InFlightMatchesEndpoint, HostMatchesReports, Idle
<1>7. CASE ReportComplete
  <2>1. /\ endpoint.phase = "read" /\ endpoint.usage = state.queue[state.head]
        /\ state.count > 0 /\ mounted /\ state.in_flight
    BY <1>7 DEF ReportComplete, InFlightMatchesEndpoint, Idle
  <2>2. /\ state' \in ControlState /\ Paired(state')
        /\ state'.current = endpoint.usage /\ ~state'.in_flight
    BY <1>7, <2>1, CompletePaired DEF ReportComplete, TypeOK, QueuePaired
  <2> QED
    BY <1>7, <2>1, <2>2
       DEF ReportComplete, TypeOK, QueuePaired, InFlightMatchesEndpoint,
           HostMatchesReports, Idle, Usages
<1>8. CASE ReportFails
  <2>1. endpoint.phase = "armed" /\ mounted
    BY <1>8 DEF ReportFails, InFlightMatchesEndpoint, Idle
  <2>2. /\ state' \in ControlState
        /\ state'.queue = state.queue /\ state'.head = state.head
        /\ state'.count = state.count
        /\ state'.current = state.current /\ state'.in_flight = FALSE
    BY <1>8 DEF ReportFails, Fail, TypeOK, ControlState
  <2>3. Paired(state')
    BY <2>2 DEF Paired, Slot, QueuePaired
  <2> QED
    BY <1>8, <2>1, <2>2, <2>3
       DEF ReportFails, TypeOK, QueuePaired, InFlightMatchesEndpoint,
           HostMatchesReports, Idle, Usages
<1>9. CASE HostReads
  <2>1. endpoint.phase = "armed" /\ mounted
    BY <1>9 DEF HostReads, InFlightMatchesEndpoint, Idle
  <2> QED
    BY <1>9, <2>1
       DEF HostReads, TypeOK, QueuePaired, InFlightMatchesEndpoint, HostMatchesReports
<1>10. CASE Suspend
  BY <1>10
     DEF Suspend, TypeOK, QueuePaired, InFlightMatchesEndpoint, HostMatchesReports
<1>11. CASE Resume
  BY <1>11
     DEF Resume, TypeOK, QueuePaired, InFlightMatchesEndpoint, HostMatchesReports
<1>12. CASE BusReset
  BY <1>12
     DEF BusReset, LeaveBus, TypeOK, QueuePaired, InFlightMatchesEndpoint,
         HostMatchesReports, Idle, Usages
<1>13. CASE Unplug
  <2>1. state' = Reset(now) /\ state' \in ControlState /\ Paired(state')
    BY <1>13, ResetPaired DEF Unplug, TypeOK
  <2> QED
    BY <1>13, <2>1
       DEF Unplug, LeaveBus, TypeOK, QueuePaired, InFlightMatchesEndpoint,
           HostMatchesReports, Idle, Usages
<1>14. CASE UNCHANGED vars
  BY <1>14
     DEF vars, TypeOK, QueuePaired, InFlightMatchesEndpoint, HostMatchesReports
<1> QED
  BY <1>1, <1>2, <1>3, <1>4, <1>5, <1>6, <1>7, <1>8, <1>9, <1>10, <1>11, <1>12,
     <1>13, <1>14
     DEF Next, Poll

LEMMA Invariance == Spec => []Inv
<1>1. Init => Inv
  BY InitInv
<1>2. Inv /\ [Next]_vars => Inv'
  BY NextInv
<1> QED
  BY <1>1, <1>2, PTL DEF Spec

(* Every variable of the rig keeps its type: no index leaves the ring and  *)
(* the count never passes QUEUE_SIZE.                                      *)
THEOREM TypeCorrect == Spec => []TypeOK
<1>1. Inv => TypeOK
  BY DEF Inv
<1> QED
  BY <1>1, Invariance, PTL

(* For every even queue size, presses and releases alternate in the ring   *)
(* however enqueue, completion, failure and reset interleave.              *)
THEOREM QueueStaysPaired == Spec => []QueuePaired
<1>1. Inv => QueuePaired
  BY DEF Inv
<1> QED
  BY <1>1, Invariance, PTL

(* control.c's in_flight and TinyUSB's endpoint never come apart.          *)
THEOREM EndpointCoupled == Spec => []InFlightMatchesEndpoint
<1>1. Inv => InFlightMatchesEndpoint
  BY DEF Inv
<1> QED
  BY <1>1, Invariance, PTL

(* The host never holds a key down whose release is not the next report.   *)
THEOREM ReleaseAlwaysFollows == Spec => []NoStuckKey
<1>1. Inv => NoStuckKey
  <2> SUFFICES ASSUME Inv, mounted, host # Release
               PROVE  LET next == IF endpoint.phase = "read" THEN 1 ELSE 0
                      IN  /\ next < state.count
                          /\ state.queue[Slot(state, next)] = Release
    BY DEF NoStuckKey
  <2>1. /\ state \in ControlState /\ host \in Presses
        /\ state.head \in 0 .. QueueSize - 1 /\ state.count \in 0 .. QueueSize
    BY DEF Inv, TypeOK, ControlState, Slots, Usages
  <2>2. /\ (state.head + state.count) % 2 = 0
        /\ \A slot \in Slots : slot % 2 = 1 => state.queue[slot] = Release
        /\ state.current \in Presses <=> state.head % 2 = 1
    BY DEF Inv, QueuePaired, Paired
  <2>3. 1 \in 0 .. QueueSize - 1 /\ 0 \in 0 .. QueueSize - 1
    BY QueueAssumption
  <2>4. CASE endpoint.phase = "read"
    <3>1. host = state.queue[state.head] /\ state.count > 0
      BY <2>4 DEF Inv, InFlightMatchesEndpoint, HostMatchesReports
    <3>2. state.head % 2 = 0
      BY <2>1, <2>2, <3>1 DEF Slots, Presses, Release, SystemSleep, SystemWake
    <3>3. state.count > 1
      BY <2>1, <2>2, <3>1, <3>2, QueueAssumption
    <3>4. Slot(state, 1) \in Slots /\ Slot(state, 1) % 2 = (state.head + 1) % 2
      BY <2>1, <2>3, SlotOf
    <3>5. Slot(state, 1) % 2 = 1
      BY <2>1, <3>2, <3>4
    <3> QED
      BY <2>2, <2>4, <3>3, <3>4, <3>5
  <2>5. CASE endpoint.phase # "read"
    <3>1. host = state.current
      BY <2>5 DEF Inv, HostMatchesReports
    <3>2. state.head % 2 = 1
      BY <2>1, <2>2, <3>1
    <3>3. state.count > 0
      BY <2>1, <2>2, <3>2, QueueAssumption
    <3>4. Slot(state, 0) = state.head
      BY <2>1, <2>3, SlotOf, QueueAssumption
    <3>5. state.queue[state.head] = Release
      BY <2>1, <2>2, <3>2 DEF Slots
    <3> QED
      BY <2>5, <3>3, <3>4, <3>5
  <2> QED
    BY <2>4, <2>5
<1> QED
  BY <1>1, Invariance, PTL

(* GET_REPORT tells the host the key it last read, in either form.         *)
THEOREM GetReportTells == Spec => []GetReportAgrees
<1>1. Inv => GetReportAgrees
  BY DEF Inv, HostMatchesReports, GetReportAgrees, GetReport
<1> QED
  BY <1>1, Invariance, PTL

-----------------------------------------------------------------------------
(***************************************************************************)
(* The rig implements GestureDelivery.                                     *)
(***************************************************************************)

(* What the ring of r holds is what the ring of s held. *)
SameContents(r, s) ==
  /\ r.head = s.head
  /\ r.count = s.count
  /\ \A i \in 0 .. s.count - 1 : r.queue[Slot(r, i)] = s.queue[Slot(s, i)]

(* The ring of r holds a gesture more than that of s, behind the others.   *)
AddsGesture(r, s, usage) ==
  /\ r.head = s.head
  /\ s.count + 2 <= QueueSize
  /\ r.count = s.count + 2
  /\ \A i \in 0 .. s.count - 1 : r.queue[Slot(r, i)] = s.queue[Slot(s, i)]
  /\ r.queue[Slot(r, s.count)] = usage
  /\ r.queue[Slot(r, s.count + 1)] = Release

(* Two places in the queue are never the same slot of the ring. *)
LEMMA SlotsDiffer ==
  ASSUME NEW s \in ControlState, NEW i \in 0 .. QueueSize - 1,
         NEW j \in 0 .. QueueSize - 1, i # j
  PROVE  Slot(s, i) # Slot(s, j)
<1>1. s.head \in 0 .. QueueSize - 1
  BY DEF ControlState, Slots
<1>2. Slot(s, i) = IF s.head + i < QueueSize THEN s.head + i
                                             ELSE s.head + i - QueueSize
  BY SlotOf
<1>3. Slot(s, j) = IF s.head + j < QueueSize THEN s.head + j
                                             ELSE s.head + j - QueueSize
  BY SlotOf
<1> QED
  BY <1>1, <1>2, <1>3, QueueAssumption

(* enqueue appends a whole gesture or nothing: no report already waiting   *)
(* is overwritten, wherever the ring wraps.                                *)
LEMMA EnqueueAppends ==
  ASSUME NEW s \in ControlState, NEW usage \in Presses
  PROVE  IF s.count > QueueSize - 2
         THEN SameContents(Enqueue(s, usage), s)
         ELSE AddsGesture(Enqueue(s, usage), s, usage)
<1> DEFINE r == Enqueue(s, usage)
<1>1. CASE s.count > QueueSize - 2
  BY <1>1 DEF Enqueue, SameContents
<1>2. CASE s.count <= QueueSize - 2
  <2> DEFINE a == Slot(s, s.count)
             b == Slot(s, s.count + 1)
  <2>1. /\ s.count \in 0 .. QueueSize - 1
        /\ s.count + 1 \in 0 .. QueueSize - 1
        /\ s.count + 2 <= QueueSize
    BY <1>2, QueueAssumption DEF ControlState
  <2>2. a \in Slots /\ b \in Slots /\ a # b
    BY <2>1, SlotOf, SlotsDiffer
  <2>3. ASSUME NEW i \in 0 .. s.count - 1
        PROVE  Slot(s, i) \in Slots /\ Slot(s, i) # a /\ Slot(s, i) # b
    <3>1. i \in 0 .. QueueSize - 1 /\ i # s.count /\ i # s.count + 1
      BY <2>1, QueueAssumption
    <3> QED
      BY <2>1, <3>1, SlotOf, SlotsDiffer
  <2> DEFINE q == [s.queue EXCEPT ![a] = usage, ![b] = Release]
  <2>4. ~(s.count > QueueSize - 2)
    BY <2>1, QueueAssumption
  <2>5. r = [s EXCEPT !.queue = q, !.count = @ + 2,
                      !.wake_attempted = @ /\ usage # SystemWake]
    BY <2>4 DEF Enqueue
  <2> HIDE DEF a, b, r, q
  <2>6. r.queue = q /\ r.count = s.count + 2 /\ r.head = s.head
    BY <2>5 DEF ControlState
  <2>7. \A i : Slot(r, i) = Slot(s, i)
    BY <2>6 DEF Slot
  <2>8. q[a] = usage /\ q[b] = Release
    BY <2>2 DEF q, ControlState
  <2>9. \A slot \in Slots : slot # a /\ slot # b => q[slot] = s.queue[slot]
    BY DEF q, ControlState
  <2>10. r.queue[Slot(r, s.count)] = usage /\ r.queue[Slot(r, s.count + 1)] = Release
    BY <2>6, <2>7, <2>8 DEF a, b
  <2>11. \A i \in 0 .. s.count - 1 : r.queue[Slot(r, i)] = s.queue[Slot(s, i)]
    BY <2>3, <2>6, <2>7, <2>9
  <2>12. AddsGesture(r, s, usage)
    BY <2>1, <2>6, <2>10, <2>11 DEF AddsGesture
  <2> QED
    BY <2>4, <2>12 DEF r
<1>3. s.count > QueueSize - 2 \/ s.count <= QueueSize - 2
  BY QueueAssumption DEF ControlState
<1> QED
  BY <1>1, <1>2, <1>3

LEMMA SameQueueSameContents ==
  ASSUME NEW r, NEW s, SameQueue(r, s)
  PROVE  SameContents(r, s)
BY DEF SameQueue, SameContents, Slot

(* Only the gesture matters: what happens to the other fields does not.    *)
LEMMA SameQueueAdds ==
  ASSUME NEW r, NEW s, NEW u, SameQueue(r, s)
  PROVE  /\ SameContents(s, u) => SameContents(r, u)
         /\ \A usage : AddsGesture(s, u, usage) => AddsGesture(r, u, usage)
<1>1. \A i : r.queue[Slot(r, i)] = s.queue[Slot(s, i)]
  BY DEF SameQueue, Slot
<1> QED
  BY <1>1 DEF SameQueue, SameContents, AddsGesture

LEMMA LetGoAppends ==
  ASSUME NEW s \in ControlState, Paired(s), NEW susp \in BOOLEAN
  PROVE  LET usage == GestureUsage(s)
         IN  IF /\ s.tracking
                /\ usage = SystemWake \/ ~susp
                /\ s.count <= QueueSize - 2
             THEN AddsGesture(LetGo(s, susp), s, usage)
             ELSE SameContents(LetGo(s, susp), s)
<1> DEFINE usage  == GestureUsage(s)
           wanted == s.tracking /\ (usage = SystemWake \/ ~susp)
           retry  == s.tracking /\ usage = SystemWake /\ susp
           e == IF wanted THEN Enqueue(s, usage) ELSE s
           r == LetGo(s, susp)
<1>1. usage \in Presses
  BY DEF GestureUsage, Presses
<1>2. e \in ControlState
  BY <1>1, EnqueuePaired
<1>3. IF wanted /\ s.count <= QueueSize - 2
      THEN AddsGesture(e, s, usage)
      ELSE SameContents(e, s)
  <2>1. SameContents(s, s)
    BY DEF SameContents
  <2>2. s.count > QueueSize - 2 <=> ~(s.count <= QueueSize - 2)
    BY QueueAssumption DEF ControlState
  <2>3. wanted => IF s.count > QueueSize - 2
                  THEN SameContents(Enqueue(s, usage), s)
                  ELSE AddsGesture(Enqueue(s, usage), s, usage)
    BY <1>1, EnqueueAppends
  <2> HIDE DEF wanted, usage
  <2> QED
    BY <2>1, <2>2, <2>3, Zenon
<1>4. r = [e EXCEPT !.wake_attempted = @ /\ ~retry,
                    !.stable = FALSE, !.tracking = FALSE, !.armed = TRUE]
  BY DEF LetGo
<1> HIDE DEF e, r, retry
<1>5. SameQueue(r, e)
  BY <1>2, <1>4 DEF SameQueue, ControlState
<1> QED
  BY <1>3, <1>5, SameQueueAdds DEF r

(* A poll's task appends at most one gesture to the queue.                 *)
LEMMA ObserveAppends ==
  ASSUME NEW s \in ControlState, Paired(s), NEW t \in Times,
         NEW pressed \in BOOLEAN, NEW susp \in BOOLEAN
  PROVE  LET r == Observe(s, t, pressed, susp)
         IN  SameContents(r, s) \/ \E usage \in Presses : AddsGesture(r, s, usage)
<1> DEFINE e == SuspendEdge(s, t, susp)
           p == Sample(e, t, pressed)
           arm == [p EXCEPT !.armed = @ \/ ~p.stable]
           r == Settle(p, t, susp)
<1>1. e \in ControlState /\ Paired(e) /\ SameQueue(e, s)
  <2>1. SameQueue(e, s)
    BY DEF SuspendEdge, SameQueue, ControlState
  <2> QED
    BY <2>1, SuspendEdgePaired
<1> HIDE DEF e
<1>2. p \in ControlState /\ Paired(p) /\ SameQueue(p, e)
  <2>1. SameQueue(p, e)
    BY <1>1 DEF Sample, SameQueue, ControlState
  <2> QED
    BY <1>1, <2>1, SamplePaired
<1> HIDE DEF p
<1>3. SameQueue(p, s)
  BY <1>1, <1>2 DEF SameQueue
<1>4. r \in {p, arm, Press(p), LetGo(p, susp)}
  BY DEF Settle
<1>5. SameQueue(arm, p) /\ SameQueue(Press(p), p) /\ SameQueue(p, p)
  BY <1>2 DEF Press, SameQueue, ControlState
<1>6. SameContents(r, p) \/ \E usage \in Presses : AddsGesture(r, p, usage)
  <2>1. CASE r \in {p, arm, Press(p)}
    BY <1>5, <2>1, SameQueueSameContents
  <2>2. CASE r = LetGo(p, susp)
    <3>1. GestureUsage(p) \in Presses
      BY DEF GestureUsage, Presses
    <3> QED
      BY <1>2, <2>2, <3>1, LetGoAppends
  <2> QED
    BY <1>4, <2>1, <2>2
<1>7. /\ p.head = s.head /\ p.count = s.count
      /\ \A i : p.queue[Slot(p, i)] = s.queue[Slot(s, i)]
  <2>1. p.queue = s.queue /\ p.head = s.head /\ p.count = s.count
    BY <1>3 DEF SameQueue
  <2> QED
    BY <2>1, Zenon DEF Slot
<1> HIDE DEF r
<1>8. SameContents(r, s) \/ \E usage \in Presses : AddsGesture(r, s, usage)
  <2>1. CASE SameContents(r, p)
    BY <1>7, <2>1, Zenon DEF SameContents
  <2>2. \A usage : AddsGesture(r, p, usage) => AddsGesture(r, s, usage)
    BY <1>7, Zenon DEF AddsGesture
  <2> QED
    BY <1>6, <2>1, <2>2
<1>9. Observe(s, t, pressed, susp) = r
  BY DEF Observe, e, p, r
<1> QED
  BY <1>8, <1>9

(* The reports of s after the first skip of them, as a sequence.           *)
Waiting(s, skip) ==
  [i \in 1 .. s.count - skip |-> s.queue[Slot(s, skip + i - 1)]]

LEMMA WaitingIs ==
  ASSUME NEW s \in ControlState, NEW skip \in 0 .. 1, skip <= s.count
  PROVE  /\ Waiting(s, skip) \in Seq(Usages)
         /\ Len(Waiting(s, skip)) = s.count - skip
         /\ \A i \in 1 .. s.count - skip :
              Waiting(s, skip)[i] = s.queue[Slot(s, skip + i - 1)]
<1>1. s.count - skip \in Nat /\ s.count \in 0 .. QueueSize
  BY QueueAssumption DEF ControlState
<1>2. ASSUME NEW i \in 1 .. s.count - skip
      PROVE  s.queue[Slot(s, skip + i - 1)] \in Usages
  <2>1. skip + i - 1 \in 0 .. QueueSize - 1
    BY <1>1, QueueAssumption
  <2> QED
    BY <2>1, SlotOf DEF ControlState
<1>3. Waiting(s, skip) \in [1 .. s.count - skip -> Usages]
  BY <1>2 DEF Waiting
<1>4. Waiting(s, skip) \in Seq(Usages) /\ Len(Waiting(s, skip)) = s.count - skip
  BY <1>1, <1>3
<1> QED
  BY <1>4 DEF Waiting

(* A sequence with two more elements behind those of another.              *)
LEMMA TwoMore ==
  ASSUME NEW S, NEW u \in Seq(S), NEW v \in Seq(S), Len(v) = Len(u) + 2,
         \A i \in 1 .. Len(u) : v[i] = u[i]
  PROVE  v = u \o <<v[Len(u) + 1], v[Len(u) + 2]>>
<1> DEFINE n == Len(u)
           w == u \o <<v[n + 1], v[n + 2]>>
<1>1. n \in Nat /\ v[n + 1] \in S /\ v[n + 2] \in S
  BY LenProperties, ElementOfSeq
<1>2. w \in Seq(S) /\ Len(w) = n + 2
  BY <1>1
<1>3. ASSUME NEW i \in 1 .. n + 2
      PROVE  v[i] = w[i]
  BY <1>1, <1>3
<1> QED
  BY <1>2, <1>3, SeqEqual

(* A sequence that lacks the first element of another.                     *)
LEMMA OneLess ==
  ASSUME NEW S, NEW u \in Seq(S), NEW v \in Seq(S), Len(u) = Len(v) + 1,
         \A i \in 1 .. Len(v) : v[i] = u[i + 1]
  PROVE  u # <<>> /\ v = Tail(u)
<1>1. Len(v) \in Nat
  BY LenProperties
<1>2. u # <<>>
  BY <1>1
<1>3. Tail(u) \in Seq(S) /\ Len(Tail(u)) = Len(v)
  BY <1>1, <1>2, HeadTailProperties
<1>4. \A i \in 1 .. Len(v) : v[i] = Tail(u)[i]
  BY <1>1, <1>2, HeadTailProperties
<1> QED
  BY <1>2, <1>3, <1>4, SeqEqual

LEMMA SameWaiting ==
  ASSUME NEW r \in ControlState, NEW s \in ControlState, SameContents(r, s),
         NEW skip \in 0 .. 1, skip <= s.count
  PROVE  Waiting(r, skip) = Waiting(s, skip)
<1>1. s.count \in Nat /\ r.count = s.count
  BY QueueAssumption DEF ControlState, SameContents
<1>2. ASSUME NEW i \in 1 .. s.count - skip
      PROVE  r.queue[Slot(r, skip + i - 1)] = s.queue[Slot(s, skip + i - 1)]
  <2>1. skip + i - 1 \in 0 .. s.count - 1
    BY <1>1
  <2> QED
    BY <2>1 DEF SameContents
<1> QED
  BY <1>1, <1>2 DEF Waiting

LEMMA GestureWaits ==
  ASSUME NEW r \in ControlState, NEW s \in ControlState,
         NEW usage \in Presses, AddsGesture(r, s, usage),
         NEW skip \in 0 .. 1, skip <= s.count
  PROVE  /\ Len(Waiting(s, skip)) + 2 <= QueueSize
         /\ Waiting(r, skip) = Waiting(s, skip) \o <<usage, Release>>
<1> DEFINE n == s.count - skip
           u == Waiting(s, skip)
           v == Waiting(r, skip)
<1>1. /\ s.count \in Nat /\ r.count = s.count + 2 /\ n \in Nat
      /\ s.count + 2 <= QueueSize
  BY QueueAssumption DEF ControlState, AddsGesture
<1>2. /\ u \in Seq(Usages) /\ Len(u) = n
      /\ \A i \in 1 .. n : u[i] = s.queue[Slot(s, skip + i - 1)]
  BY WaitingIs
<1>3. /\ v \in Seq(Usages) /\ Len(v) = n + 2
      /\ \A i \in 1 .. n + 2 : v[i] = r.queue[Slot(r, skip + i - 1)]
  <2>1. skip <= r.count /\ r.count - skip = n + 2
    BY <1>1
  <2> HIDE DEF n
  <2> QED
    BY <2>1, WaitingIs
<1> HIDE DEF u, v
<1>4. ASSUME NEW i \in 1 .. n
      PROVE  v[i] = u[i]
  <2>1. skip + i - 1 \in 0 .. s.count - 1 /\ i \in 1 .. n + 2
    BY <1>1
  <2> QED
    BY <1>2, <1>3, <2>1 DEF AddsGesture
<1>5. /\ skip + (n + 1) - 1 = s.count /\ n + 1 \in 1 .. n + 2
      /\ skip + (n + 2) - 1 = s.count + 1 /\ n + 2 \in 1 .. n + 2
  BY <1>1
<1>6. v[n + 1] = usage /\ v[n + 2] = Release
  BY <1>3, <1>5 DEF AddsGesture
<1>7. v = u \o <<usage, Release>>
  BY <1>2, <1>3, <1>4, <1>6, TwoMore
<1>8. Len(u) + 2 <= QueueSize
  BY <1>1, <1>2, QueueAssumption
<1> QED
  BY <1>7, <1>8 DEF u, v

LEMMA ReadTakesHead ==
  ASSUME NEW s \in ControlState, s.count > 0
  PROVE  /\ Waiting(s, 0) # <<>>
         /\ Head(Waiting(s, 0)) = s.queue[s.head]
         /\ Waiting(s, 1) = Tail(Waiting(s, 0))
<1> DEFINE u == Waiting(s, 0)
           v == Waiting(s, 1)
<1>1. s.count \in Nat \ {0} /\ s.head \in 0 .. QueueSize - 1
  BY QueueAssumption DEF ControlState, Slots
<1>2. /\ u \in Seq(Usages) /\ Len(u) = s.count
      /\ \A i \in 1 .. s.count : u[i] = s.queue[Slot(s, i - 1)]
  <2>1. /\ u \in Seq(Usages) /\ Len(u) = s.count - 0
        /\ \A i \in 1 .. s.count - 0 : u[i] = s.queue[Slot(s, 0 + i - 1)]
    BY <1>1, WaitingIs
  <2> HIDE DEF u
  <2> QED
    BY <1>1, <2>1
<1>3. /\ v \in Seq(Usages) /\ Len(v) = s.count - 1
      /\ \A i \in 1 .. s.count - 1 : v[i] = s.queue[Slot(s, 1 + i - 1)]
  BY <1>1, WaitingIs
<1> HIDE DEF u, v
<1>4. ASSUME NEW i \in 1 .. Len(v)
      PROVE  v[i] = u[i + 1]
  <2>1. i + 1 \in 1 .. s.count /\ i + 1 - 1 = 1 + i - 1
    BY <1>1, <1>3
  <2> QED
    BY <1>2, <1>3, <2>1
<1>5. u # <<>> /\ v = Tail(u)
  <2>1. Len(u) = Len(v) + 1
    BY <1>1, <1>2, <1>3
  <2> QED
    BY <1>2, <1>3, <1>4, <2>1, OneLess
<1>6. Head(u) = s.queue[s.head]
  <2>1. Slot(s, 0) = s.head
    BY <1>1, SlotOf, QueueAssumption
  <2>2. Head(u) = u[1]
    BY <1>2, <1>5
  <2> QED
    BY <1>1, <1>2, <2>1, <2>2
<1> QED
  BY <1>5, <1>6 DEF u, v

(* Retiring the head changes nothing the host has still to read.           *)
LEMMA CompleteKeepsWaiting ==
  ASSUME NEW s \in ControlState, s.in_flight, s.count > 0
  PROVE  Waiting(Complete(s, s.queue[s.head]), 0) = Waiting(s, 1)
<1> DEFINE r == Complete(s, s.queue[s.head])
<1>1. s.head \in 0 .. QueueSize - 1 /\ s.count \in 1 .. QueueSize
  BY QueueAssumption DEF ControlState, Slots
<1>2. r = [s EXCEPT !.current = s.queue[s.head], !.head = Slot(s, 1),
                    !.count = @ - 1, !.in_flight = FALSE]
  BY <1>1 DEF Complete
<1> HIDE DEF r
<1>3. r.queue = s.queue /\ r.head = Slot(s, 1) /\ r.count = s.count - 1
  BY <1>2 DEF ControlState
<1>4. ASSUME NEW i \in 1 .. s.count - 1
      PROVE  Slot(r, i - 1) = Slot(s, i)
  <2>1. i \in 0 .. QueueSize - 1 /\ 1 \in 0 .. QueueSize - 1
    BY <1>1, QueueAssumption
  <2>2. Slot(s, i) = IF s.head + i < QueueSize THEN s.head + i
                                               ELSE s.head + i - QueueSize
    BY <2>1, SlotOf
  <2>3. r.head = IF s.head + 1 < QueueSize THEN s.head + 1
                                           ELSE s.head + 1 - QueueSize
    BY <1>3, <2>1, SlotOf
  <2>4. r.head \in 0 .. QueueSize - 1 /\ i - 1 \in 0 .. QueueSize - 1
    BY <1>1, <2>1, <2>3, QueueAssumption
  <2>5. Slot(r, i - 1) = IF r.head + (i - 1) < QueueSize
                         THEN r.head + (i - 1)
                         ELSE r.head + (i - 1) - QueueSize
    <3>1. Slot(r, i - 1) = (r.head + (i - 1)) % QueueSize
      BY DEF Slot
    <3>2. \/ r.head + (i - 1) < QueueSize
          \/ r.head + (i - 1) >= QueueSize
      BY <2>4, QueueAssumption
    <3> QED
      BY <2>4, <3>1, <3>2, OneLap
  <2> QED
    BY <1>1, <2>1, <2>2, <2>3, <2>5, QueueAssumption
<1>5. ASSUME NEW i \in 1 .. s.count - 1
      PROVE  r.queue[Slot(r, 0 + i - 1)] = s.queue[Slot(s, 1 + i - 1)]
  <2>1. 0 + i - 1 = i - 1 /\ 1 + i - 1 = i
    BY <1>1
  <2> QED
    BY <1>3, <1>4, <2>1
<1>6. r.count - 0 = s.count - 1
  BY <1>1, <1>3
<1>7. Waiting(r, 0) = Waiting(s, 1)
  BY <1>5, <1>6, Zenon DEF Waiting
<1> QED
  BY <1>7 DEF r

(* What waits for the host, in a state of the rig: the queue less the      *)
(* report the endpoint has already handed over.                            *)
LEMMA UndeliveredIs ==
  /\ ~mounted => Undelivered = <<>>
  /\ mounted /\ endpoint.phase = "read" => Undelivered = Waiting(state, 1)
  /\ mounted /\ endpoint.phase # "read" => Undelivered = Waiting(state, 0)
BY DEF Undelivered, Waiting

LEMMA UndeliveredNext ==
  /\ ~mounted' => Undelivered' = <<>>
  /\ mounted' /\ endpoint'.phase = "read" => Undelivered' = Waiting(state', 1)
  /\ mounted' /\ endpoint'.phase # "read" => Undelivered' = Waiting(state', 0)
BY DEF Undelivered, Waiting

(* Whatever the task does, the host's view of the queue grows by a whole   *)
(* gesture or not at all.                                                  *)
LEMMA PollQueues ==
  ASSUME Inv, mounted, NEW pressed \in BOOLEAN, NEW skip \in 0 .. 1,
         skip <= state.count
  PROVE  LET s == Observe(state, now, pressed, suspended)
         IN  \/ Waiting(s, skip) = Waiting(state, skip)
             \/ \E usage \in Presses :
                  /\ Len(Waiting(state, skip)) + 2 <= QueueSize
                  /\ Waiting(s, skip) = Waiting(state, skip) \o <<usage, Release>>
<1> DEFINE s == Observe(state, now, pressed, suspended)
<1>1. state \in ControlState /\ now \in Times /\ suspended \in BOOLEAN /\ Paired(state)
  BY DEF Inv, TypeOK, QueuePaired
<1>2. s \in ControlState
  BY <1>1, ObservePaired
<1>3. SameContents(s, state) \/ \E usage \in Presses : AddsGesture(s, state, usage)
  BY <1>1, ObserveAppends
<1> HIDE DEF s
<1> QED
  BY <1>1, <1>2, <1>3, SameWaiting, GestureWaits DEF s

(* A poll of a mounted rig queues one gesture, or changes nothing a host   *)
(* can see.                                                                *)
LEMMA PollIsDelivery ==
  ASSUME Inv, mounted, mounted', UNCHANGED host,
         NEW pressed \in BOOLEAN,
         endpoint'.phase = "read" <=> endpoint.phase = "read",
         SameQueue(state', [Observe(state, now, pressed, suspended)
                              EXCEPT !.in_flight = state'.in_flight])
  PROVE  [Delivery!PairNext]_(Delivery!pairVars)
<1> DEFINE s == Observe(state, now, pressed, suspended)
           skip == IF endpoint.phase = "read" THEN 1 ELSE 0
<1>1. skip \in 0 .. 1 /\ skip <= state.count
  BY QueueAssumption
     DEF Inv, TypeOK, ControlState, InFlightMatchesEndpoint
<1>2. Undelivered = Waiting(state, skip) /\ Undelivered' = Waiting(state', skip)
  BY UndeliveredIs, UndeliveredNext
<1>3. s \in ControlState
  BY ObserveCoupled
<1> HIDE DEF s, skip
<1>4. state'.queue = s.queue /\ state'.head = s.head /\ state'.count = s.count
  BY <1>3 DEF SameQueue, ControlState, s
<1>5. Waiting(state', skip) = Waiting(s, skip)
  BY <1>4, Zenon DEF Waiting, Slot
<1>6. CASE Waiting(s, skip) = Waiting(state, skip)
  BY <1>2, <1>5, <1>6 DEF Delivery!pairVars
<1>7. ASSUME NEW usage \in Presses,
             Len(Waiting(state, skip)) + 2 <= QueueSize,
             Waiting(s, skip) = Waiting(state, skip) \o <<usage, Release>>
      PROVE  Delivery!PairNext
  <2>1. Delivery!QueueGesture(usage)
    BY <1>2, <1>5, <1>7 DEF Delivery!QueueGesture
  <2> QED
    BY <2>1 DEF Delivery!PairNext
<1> QED
  BY <1>1, <1>6, <1>7, PollQueues DEF s

LEMMA InitIsPairInit == Init => Delivery!PairInit
BY DEF Init, Delivery!PairInit, Undelivered

(* Every step of the rig is one of the abstract delivery, or invisible.    *)
LEMMA StepIsDelivery ==
  Inv /\ Inv' /\ [Next]_vars => [Delivery!PairNext]_(Delivery!pairVars)
<1> SUFFICES ASSUME Inv, Inv', [Next]_vars
             PROVE  [Delivery!PairNext]_(Delivery!pairVars)
  OBVIOUS
<1>1. CASE Tick \/ Suspend \/ Resume \/ UNCHANGED vars
  <2>1. UNCHANGED <<state, mounted, endpoint, host>>
    BY <1>1 DEF Tick, Suspend, Resume, usb, vars
  <2> QED
    BY <2>1 DEF Delivery!pairVars, Undelivered
<1>2. CASE PollOffline
  <2>1. ~mounted /\ ~mounted' /\ UNCHANGED host
    BY <1>2 DEF PollOffline, usb
  <2> QED
    BY <2>1 DEF Delivery!pairVars, Undelivered
<1>3. ASSUME NEW pressed \in BOOLEAN,
             PollWakes(pressed) \/ PollSubmits(pressed) \/ PollQuiet(pressed)
      PROVE  [Delivery!PairNext]_(Delivery!pairVars)
  <2> DEFINE s == Observe(state, now, pressed, suspended)
  <2>1. mounted /\ mounted' /\ UNCHANGED host
    BY <1>3 DEF PollWakes, PollSubmits, PollQuiet, usb
  <2>2. s \in ControlState
    BY <2>1, ObserveCoupled
  <2>3. endpoint'.phase = "read" <=> endpoint.phase = "read"
    BY <1>3 DEF PollWakes, PollSubmits, PollQuiet, CanSubmit, usb
  <2>4. \/ state' = [s EXCEPT !.wake_attempted = TRUE]
        \/ state' = [s EXCEPT !.in_flight = TRUE]
        \/ state' = s
    BY <1>3 DEF PollWakes, PollSubmits, PollQuiet
  <2> HIDE DEF s
  <2>5. SameQueue(state', [s EXCEPT !.in_flight = state'.in_flight])
    BY <2>2, <2>4 DEF SameQueue, ControlState
  <2> QED
    BY <2>1, <2>3, <2>5, PollIsDelivery DEF s
<1>4. CASE Mount
  <2>1. ~mounted /\ endpoint = Idle /\ endpoint' = Idle /\ mounted'
    BY <1>4 DEF Mount, Inv, InFlightMatchesEndpoint
  <2>2. Undelivered = <<>> /\ Undelivered' = Waiting(state', 0)
    BY <2>1, UndeliveredIs, UndeliveredNext DEF Idle
  <2>3. state'.count = 0
    BY <1>4 DEF Mount, Reset
  <2>4. Waiting(state', 0) = <<>>
    BY <2>3 DEF Waiting
  <2> QED
    BY <1>4, <2>2, <2>4 DEF Mount, Delivery!pairVars
<1>5. CASE ReportComplete
  <2>1. /\ endpoint.phase = "read" /\ endpoint.usage = state.queue[state.head]
        /\ state.count > 0 /\ mounted /\ state.in_flight
        /\ state \in ControlState
    BY <1>5 DEF ReportComplete, Inv, TypeOK, InFlightMatchesEndpoint, Idle
  <2>2. /\ state' = Complete(state, state.queue[state.head])
        /\ endpoint'.phase = "idle" /\ mounted' /\ host' = host
    BY <1>5, <2>1 DEF ReportComplete, Idle
  <2>3. Undelivered' = Waiting(state', 0) /\ Undelivered = Waiting(state, 1)
    BY <2>1, <2>2, UndeliveredIs, UndeliveredNext
  <2>4. Waiting(state', 0) = Waiting(state, 1)
    BY <2>1, <2>2, CompleteKeepsWaiting
  <2> QED
    BY <2>2, <2>3, <2>4 DEF Delivery!pairVars
<1>6. CASE ReportFails
  <2>1. endpoint.phase = "armed" /\ endpoint'.phase = "idle" /\ UNCHANGED <<mounted, host>>
    BY <1>6 DEF ReportFails, Idle
  <2>2. /\ state'.queue = state.queue /\ state'.head = state.head
        /\ state'.count = state.count
    BY <1>6 DEF ReportFails, Fail, Inv, TypeOK, ControlState
  <2>3. Waiting(state', 0) = Waiting(state, 0)
    BY <2>2, Zenon DEF Waiting, Slot
  <2> QED
    BY <2>1, <2>3, UndeliveredIs, UndeliveredNext DEF Delivery!pairVars
<1>7. CASE HostReads
  <2>1. /\ endpoint.phase = "armed" /\ endpoint'.phase = "read"
        /\ mounted /\ mounted' /\ state' = state
        /\ host' = state.queue[state.head]
        /\ state \in ControlState /\ state.count > 0
    BY <1>7 DEF HostReads, Inv, TypeOK, InFlightMatchesEndpoint, Idle
  <2>2. Undelivered = Waiting(state, 0) /\ Undelivered' = Waiting(state, 1)
    BY <2>1, UndeliveredIs, UndeliveredNext
  <2>3. Delivery!DeliverReport
    BY <2>1, <2>2, ReadTakesHead DEF Delivery!DeliverReport
  <2> QED
    BY <2>3 DEF Delivery!PairNext
<1>8. CASE BusReset \/ Unplug
  <2>1. ~mounted' /\ host' = Release
    BY <1>8 DEF BusReset, Unplug, LeaveBus
  <2>2. Delivery!Forget
    BY <2>1, UndeliveredNext DEF Delivery!Forget
  <2> QED
    BY <2>2 DEF Delivery!PairNext
<1> QED
  BY <1>1, <1>2, <1>3, <1>4, <1>5, <1>6, <1>7, <1>8 DEF Next, Poll

(* The rig's ring, endpoint, retries and callbacks deliver what            *)
(* GestureDelivery promises: gestures whole and in order, each report      *)
(* once, and nothing across a reset.  (That they are taken in the end      *)
(* needs fairness.)                                                        *)
THEOREM RigDelivers == Spec => DeliversGestures
<1>1. Inv /\ Inv' /\ [Next]_vars => [Delivery!PairNext]_(Delivery!pairVars)
  BY StepIsDelivery
<1> QED
  BY InitIsPairInit, Invariance, <1>1, PTL
     DEF Spec, DeliversGestures, Delivery!PairSpec

-----------------------------------------------------------------------------
(***************************************************************************)
(* What the user did at the button, on a clock that never wraps, decides   *)
(* what the rig sends, for every timing: control.c's 32-bit timestamps and *)
(* flags measure the history variable exactly wherever it looks at them.   *)
(***************************************************************************)

(* Time since the loop last sampled the button.                            *)
Gap == Since(now, last_sample)

History ==
  [level: 0 .. LevelCap, hold: Nat, lit: BOOLEAN, rested: BOOLEAN, requests: Nat]

(* changed_at times the sampled level, for as long as its age can matter.  *)
LevelMeasured ==
  history.level < LevelCap => Since(now, state.changed_at) = history.level

(* A sample that disagrees with the stable level was too young when the    *)
(* loop last looked.                                                       *)
Unsettled ==
  state.candidate # state.stable => history.level < DebounceMs + Gap

(* How long the press in progress was really down: up to now, or, once the *)
(* button is sampled up, up to that change of level.                       *)
Pressed == IF state.candidate THEN history.hold ELSE history.hold - history.level

(* pressed_at times the press in progress.  While the button is down that  *)
(* is bounded by the user; while it is up, by the sample that saw it fall. *)
PressMeasured ==
  state.stable =>
    /\ history.level <= history.hold
    /\ IF state.candidate
       THEN /\ Since(now, state.pressed_at) = Pressed
            /\ Pressed < MaxPressMs + Gap \/ Pressed < LevelCap + Gap
       ELSE Since(state.changed_at, state.pressed_at) = Pressed

(* armed and tracking remember that the button was at rest.                *)
ArmedRested == state.armed \/ state.tracking => history.rested

(* A lit indication belongs to a tracked press of at least HoldMs.         *)
LitPress ==
  history.lit => state.stable /\ state.tracking /\ Pressed >= HoldMs

(* A suspension whose request is not spent still owes one.                 *)
RequestOwed ==
  suspended /\ state.was_suspended /\ ~state.wake_attempted => history.requests > 0

(* The inductive invariant about time.                                     *)
Clock ==
  /\ history \in History
  /\ Gap <= MaxGapMs
  /\ LevelMeasured
  /\ Unsettled
  /\ PressMeasured
  /\ ArmedRested
  /\ LitPress
  /\ RequestOwed

-----------------------------------------------------------------------------
(***************************************************************************)
(* Differences of wrapped timestamps.                                      *)
(***************************************************************************)

LEMMA SinceIs ==
  ASSUME NEW t \in Times, NEW u \in Times
  PROVE  Since(t, u) = IF t >= u THEN t - u ELSE t - u + TimeMod
<1>1. t \in 0 .. TimeMod - 1 /\ u \in 0 .. TimeMod - 1 /\ TimeMod \in Nat \ {0}
  BY TimeAssumption DEF Times
<1>2. CASE t >= u
  BY <1>1, <1>2 DEF Since
<1>3. CASE ~(t >= u)
  BY <1>1, <1>3 DEF Since
<1> QED
  BY <1>2, <1>3

LEMMA SinceSelf ==
  ASSUME NEW t \in Times
  PROVE  Since(t, t) = 0
<1>1. t >= t /\ t - t = 0
  BY TimeAssumption DEF Times
<1> QED
  BY <1>1, SinceIs

LEMMA TickIs ==
  ASSUME NEW t \in Times
  PROVE  (t + 1) % TimeMod = IF t + 1 < TimeMod THEN t + 1 ELSE 0
<1>1. t \in 0 .. TimeMod - 1 /\ TimeMod \in Nat \ {0}
  BY TimeAssumption DEF Times
<1>2. CASE t + 1 < TimeMod
  BY <1>1, <1>2
<1>3. CASE ~(t + 1 < TimeMod)
  BY <1>1, <1>3
<1> QED
  BY <1>2, <1>3

(* A millisecond later a timestamp is a millisecond older, unless its age  *)
(* comes round.                                                            *)
LEMMA SinceTick ==
  ASSUME NEW t \in Times, NEW u \in Times, Since(t, u) + 1 < TimeMod
  PROVE  Since((t + 1) % TimeMod, u) = Since(t, u) + 1
<1> DEFINE n == (t + 1) % TimeMod
<1>1. n = IF t + 1 < TimeMod THEN t + 1 ELSE 0
  BY TickIs
<1>2. n \in Times
  BY <1>1, TimeAssumption DEF Times
<1>3. Since(n, u) = IF n >= u THEN n - u ELSE n - u + TimeMod
  BY <1>2, SinceIs
<1>4. Since(t, u) = IF t >= u THEN t - u ELSE t - u + TimeMod
  BY SinceIs
<1> HIDE DEF n
<1>5. Since(n, u) = Since(t, u) + 1
  BY <1>1, <1>3, <1>4, TimeAssumption DEF Times
<1> QED
  BY <1>5 DEF n

(* Ages add up while their sum has not come round.                         *)
LEMMA SinceSum ==
  ASSUME NEW t \in Times, NEW u \in Times, NEW v \in Times,
         Since(t, u) + Since(u, v) < TimeMod
  PROVE  Since(t, v) = Since(t, u) + Since(u, v)
<1>1. /\ Since(t, u) = IF t >= u THEN t - u ELSE t - u + TimeMod
      /\ Since(u, v) = IF u >= v THEN u - v ELSE u - v + TimeMod
      /\ Since(t, v) = IF t >= v THEN t - v ELSE t - v + TimeMod
  BY SinceIs
<1> QED
  BY <1>1, TimeAssumption DEF Times

-----------------------------------------------------------------------------
(***************************************************************************)
(* What one pass of sleepwake_task does, field by field.                   *)
(***************************************************************************)

(* The timestamp of the level sampled now, and whether it has settled.     *)
ChangedAt(s, t, pressed) == IF pressed = s.candidate THEN s.changed_at ELSE t

Settled(s, t, pressed) == Since(t, ChangedAt(s, t, pressed)) >= DebounceMs

(* A settled press begins or ends a press of the button.                   *)
Begins(s, t, pressed) == Settled(s, t, pressed) /\ pressed /\ ~s.stable
Ends(s, t, pressed)   == Settled(s, t, pressed) /\ ~pressed /\ s.stable

(* The command of the press that ends now.                                 *)
Command(s, t, pressed) ==
  IF Since(ChangedAt(s, t, pressed), s.pressed_at) >= HoldMs
  THEN SystemSleep ELSE SystemWake

Sends(s, t, pressed, susp) ==
  /\ Ends(s, t, pressed)
  /\ s.tracking
  /\ Command(s, t, pressed) = SystemWake \/ ~susp
  /\ s.count <= QueueSize - 2

(* The button's fields of r are those of s a pass later.                   *)
ButtonMoves(r, s, t, pressed) ==
  /\ r.candidate <=> pressed
  /\ r.changed_at = ChangedAt(s, t, pressed)
  /\ r.stable <=> IF Settled(s, t, pressed) THEN pressed ELSE s.stable
  /\ r.tracking <=> IF Begins(s, t, pressed) THEN s.armed
                    ELSE s.tracking /\ ~Ends(s, t, pressed)
  /\ r.armed <=> s.armed \/ (Settled(s, t, pressed) /\ ~pressed)
  /\ r.pressed_at = IF Begins(s, t, pressed) THEN ChangedAt(s, t, pressed)
                    ELSE s.pressed_at

(* Why a request is to be made in a suspension: none has been made, it is  *)
(* a new one, or a Wake tap has ended in it.                               *)
Reason(s, t, pressed) ==
  \/ ~s.wake_attempted
  \/ ~s.was_suspended
  \/ /\ Ends(s, t, pressed)
     /\ s.tracking
     /\ Command(s, t, pressed) = SystemWake

WakeOwed(r, s, t, pressed, susp) ==
  susp /\ ~r.wake_attempted => Reason(s, t, pressed)

LEMMA ObserveMoves ==
  ASSUME NEW s \in ControlState, Paired(s), NEW t \in Times,
         NEW pressed \in BOOLEAN, NEW susp \in BOOLEAN
  PROVE  LET r == Observe(s, t, pressed, susp)
         IN  /\ ButtonMoves(r, s, t, pressed)
             /\ r.was_suspended <=> susp
             /\ WakeOwed(r, s, t, pressed, susp)
             /\ IF Sends(s, t, pressed, susp)
                THEN AddsGesture(r, s, Command(s, t, pressed))
                ELSE SameContents(r, s)
<1> DEFINE e  == SuspendEdge(s, t, susp)
           p  == Sample(e, t, pressed)
           r  == Observe(s, t, pressed, susp)
           at == ChangedAt(s, t, pressed)
<1>1. /\ e \in ControlState /\ Paired(e) /\ SameQueue(e, s)
      /\ e.candidate = s.candidate /\ e.changed_at = s.changed_at
      /\ e.stable = s.stable /\ e.tracking = s.tracking /\ e.armed = s.armed
      /\ e.pressed_at = s.pressed_at /\ e.was_suspended = susp
      /\ e.wake_attempted = (s.wake_attempted /\ ~(susp /\ ~s.was_suspended))
  <2>1. SameQueue(e, s)
    BY DEF SuspendEdge, SameQueue, ControlState
  <2>2. e \in ControlState /\ Paired(e)
    BY SuspendEdgePaired
  <2>3. /\ e.candidate = s.candidate /\ e.changed_at = s.changed_at
        /\ e.stable = s.stable /\ e.tracking = s.tracking /\ e.armed = s.armed
        /\ e.pressed_at = s.pressed_at /\ e.was_suspended = susp
    BY DEF SuspendEdge, ControlState
  <2>4. e.wake_attempted = (s.wake_attempted /\ ~(susp /\ ~s.was_suspended))
    BY DEF SuspendEdge, ControlState
  <2> QED
    BY <2>1, <2>2, <2>3, <2>4
<1> HIDE DEF e
<1>2. /\ p \in ControlState /\ Paired(p) /\ SameQueue(p, e)
      /\ p.candidate = pressed /\ p.changed_at = at
      /\ p.stable = e.stable /\ p.tracking = e.tracking /\ p.armed = e.armed
      /\ p.pressed_at = e.pressed_at /\ p.was_suspended = e.was_suspended
      /\ p.wake_attempted = e.wake_attempted
  <2>1. SameQueue(p, e)
    BY <1>1 DEF Sample, SameQueue, ControlState
  <2>2. p \in ControlState /\ Paired(p)
    BY <1>1, SamplePaired
  <2> QED
    BY <1>1, <2>1, <2>2 DEF Sample, ControlState, ChangedAt
<1>3. r = Settle(p, t, susp)
  BY DEF Observe, e, p
<1> HIDE DEF p
<1>4. /\ Settled(s, t, pressed) <=> ~(Since(t, p.changed_at) < DebounceMs)
      /\ Settled(s, t, pressed) <=> Since(t, p.changed_at) >= DebounceMs
  <2>1. Since(t, at) \in Times
    BY SinceType DEF ChangedAt, ControlState
  <2> QED
    BY <1>2, <2>1, TimeAssumption DEF Settled, Times
<1>5. /\ s.candidate \in BOOLEAN /\ s.stable \in BOOLEAN /\ s.tracking \in BOOLEAN
      /\ s.armed \in BOOLEAN /\ s.wake_attempted \in BOOLEAN
      /\ s.was_suspended \in BOOLEAN
  BY DEF ControlState
<1>6. /\ p.stable = s.stable /\ p.tracking = s.tracking /\ p.armed = s.armed
      /\ p.pressed_at = s.pressed_at /\ p.was_suspended = susp
      /\ p.wake_attempted = (s.wake_attempted /\ ~(susp /\ ~s.was_suspended))
  BY <1>1, <1>2
<1>7. SameQueue(p, s)
  BY <1>1, <1>2 DEF SameQueue
<1>8. WakeOwed(p, s, t, pressed, susp)
  BY <1>5, <1>6 DEF WakeOwed, Reason
<1> DEFINE settled == Settled(s, t, pressed)
<1>9. CASE ~settled
  <2>1. r = p
    BY <1>3, <1>4, <1>9 DEF Settle
  <2>2. ~Begins(s, t, pressed) /\ ~Ends(s, t, pressed) /\ ~Sends(s, t, pressed, susp)
    BY <1>9 DEF Begins, Ends, Sends
  <2>3. ButtonMoves(p, s, t, pressed)
    BY <1>2, <1>6, <1>9, <2>2, Zenon DEF ButtonMoves
  <2> QED
    BY <1>6, <1>7, <1>8, <2>1, <2>2, <2>3, SameQueueSameContents
<1>10. CASE settled /\ (pressed <=> s.stable)
  <2>1. ~Begins(s, t, pressed) /\ ~Ends(s, t, pressed) /\ ~Sends(s, t, pressed, susp)
    BY <1>10 DEF Begins, Ends, Sends
  <2>2. r = [p EXCEPT !.armed = @ \/ ~p.stable]
    BY <1>2, <1>3, <1>4, <1>5, <1>6, <1>10 DEF Settle
  <2>3. /\ r.candidate = p.candidate /\ r.changed_at = p.changed_at
        /\ r.stable = p.stable /\ r.tracking = p.tracking
        /\ r.pressed_at = p.pressed_at /\ r.was_suspended = p.was_suspended
        /\ r.wake_attempted = p.wake_attempted
        /\ r.armed = (p.armed \/ ~p.stable)
        /\ SameQueue(r, p)
    BY <1>2, <2>2 DEF ControlState, SameQueue
  <2> HIDE DEF r
  <2>4. ButtonMoves(r, s, t, pressed)
    BY <1>2, <1>6, <1>10, <2>1, <2>3, Zenon DEF ButtonMoves
  <2>5. WakeOwed(r, s, t, pressed, susp)
    BY <1>8, <2>3 DEF WakeOwed
  <2>6. SameQueue(r, s)
    BY <1>7, <2>3 DEF SameQueue
  <2> QED
    BY <1>6, <2>1, <2>3, <2>4, <2>5, <2>6, SameQueueSameContents DEF r
<1>11. CASE Begins(s, t, pressed)
  <2>1. ~Ends(s, t, pressed) /\ ~Sends(s, t, pressed, susp) /\ pressed /\ ~s.stable /\ settled
    BY <1>11 DEF Begins, Ends, Sends
  <2>2. r = Press(p)
    BY <1>2, <1>3, <1>4, <1>5, <1>6, <2>1 DEF Settle
  <2>3. /\ r.candidate = p.candidate /\ r.changed_at = p.changed_at
        /\ r.stable = TRUE /\ r.tracking = p.armed /\ r.armed = p.armed
        /\ r.pressed_at = p.changed_at /\ r.was_suspended = p.was_suspended
        /\ r.wake_attempted = p.wake_attempted
        /\ SameQueue(r, p)
    BY <1>2, <2>2 DEF Press, ControlState, SameQueue
  <2> HIDE DEF r
  <2>4. ButtonMoves(r, s, t, pressed)
    BY <1>2, <1>6, <1>11, <2>1, <2>3, Zenon DEF ButtonMoves
  <2>5. WakeOwed(r, s, t, pressed, susp)
    BY <1>8, <2>3 DEF WakeOwed
  <2>6. SameQueue(r, s)
    BY <1>7, <2>3 DEF SameQueue
  <2> QED
    BY <1>6, <2>1, <2>3, <2>4, <2>5, <2>6, SameQueueSameContents DEF r
<1>12. CASE Ends(s, t, pressed)
  <2>1. ~Begins(s, t, pressed) /\ ~pressed /\ s.stable /\ settled
    BY <1>12 DEF Begins, Ends
  <2>2. r = LetGo(p, susp)
    BY <1>2, <1>3, <1>4, <1>5, <1>6, <2>1 DEF Settle
  <2>3. GestureUsage(p) = Command(s, t, pressed)
    BY <1>2, <1>6 DEF GestureUsage, Command
  <2> DEFINE usage  == Command(s, t, pressed)
             wanted == s.tracking /\ (usage = SystemWake \/ ~susp)
             retry  == s.tracking /\ usage = SystemWake /\ susp
             q == IF wanted THEN Enqueue(p, usage) ELSE p
  <2>4. r = [q EXCEPT !.wake_attempted = @ /\ ~retry,
                      !.stable = FALSE, !.tracking = FALSE, !.armed = TRUE]
    BY <1>6, <2>2, <2>3 DEF LetGo
  <2>5. usage \in Presses
    BY DEF Command, Presses
  <2>6. q \in ControlState
    BY <1>2, <2>5, EnqueuePaired
  <2>7. /\ q.candidate = p.candidate /\ q.changed_at = p.changed_at
        /\ q.pressed_at = p.pressed_at /\ q.was_suspended = p.was_suspended
        /\ ~q.wake_attempted => ~p.wake_attempted \/ (s.tracking /\ usage = SystemWake)
    BY <1>2 DEF Enqueue, ControlState
  <2> HIDE DEF usage, q, r, retry
  <2>8. /\ r.candidate = q.candidate /\ r.changed_at = q.changed_at
        /\ r.stable = FALSE /\ r.tracking = FALSE /\ r.armed = TRUE
        /\ r.pressed_at = q.pressed_at /\ r.was_suspended = q.was_suspended
        /\ r.wake_attempted = (q.wake_attempted /\ ~retry)
    BY <2>4, <2>6 DEF ControlState
  <2>9. ButtonMoves(r, s, t, pressed)
    BY <1>2, <1>6, <1>12, <2>1, <2>7, <2>8, Zenon DEF ButtonMoves
  <2>10. WakeOwed(r, s, t, pressed, susp)
    BY <1>6, <1>12, <2>7, <2>8 DEF WakeOwed, Reason, retry, usage
  <2>11. IF Sends(s, t, pressed, susp)
         THEN AddsGesture(r, p, usage)
         ELSE SameContents(r, p)
    <3>1. p.count = s.count
      BY <1>7 DEF SameQueue
    <3>2. Sends(s, t, pressed, susp) <=> wanted /\ p.count <= QueueSize - 2
      BY <1>12, <3>1 DEF Sends, usage
    <3>3. IF /\ p.tracking
             /\ GestureUsage(p) = SystemWake \/ ~susp
             /\ p.count <= QueueSize - 2
          THEN AddsGesture(LetGo(p, susp), p, GestureUsage(p))
          ELSE SameContents(LetGo(p, susp), p)
      BY <1>2, LetGoAppends
    <3> QED
      BY <1>6, <2>2, <2>3, <3>2, <3>3, Zenon DEF usage, r
  <2>12. IF Sends(s, t, pressed, susp)
         THEN AddsGesture(r, s, usage)
         ELSE SameContents(r, s)
    <3>1. p.head = s.head /\ p.count = s.count /\ p.queue = s.queue
      BY <1>7 DEF SameQueue
    <3>2. \A i : Slot(p, i) = Slot(s, i)
      BY <3>1 DEF Slot
    <3>3. AddsGesture(r, p, usage) => AddsGesture(r, s, usage)
      BY <3>1, <3>2, Zenon DEF AddsGesture
    <3>4. SameContents(r, p) => SameContents(r, s)
      BY <3>1, <3>2, Zenon DEF SameContents
    <3> QED
      BY <2>11, <3>3, <3>4
  <2>13. r.was_suspended = susp
    BY <1>6, <2>7, <2>8
  <2> QED
    BY <2>9, <2>10, <2>12, <2>13 DEF r, usage
<1>13. \/ ~settled
       \/ settled /\ (pressed <=> s.stable)
       \/ Begins(s, t, pressed)
       \/ Ends(s, t, pressed)
  BY <1>5 DEF Begins, Ends
<1> QED
  BY <1>9, <1>10, <1>11, <1>12, <1>13

-----------------------------------------------------------------------------
(***************************************************************************)
(* A poll of the mounted rig.                                              *)
(***************************************************************************)

(* One pass of the loop, as the history sees it.                           *)
Passes(pressed) ==
  /\ state' \in ControlState
  /\ ButtonMoves(state', state, now, pressed)
  /\ state'.was_suspended <=> suspended
  /\ IF Sends(state, now, pressed, suspended)
     THEN AddsGesture(state', state, Command(state, now, pressed))
     ELSE SameContents(state', state)
  /\ UNCHANGED <<now, suspended>>
  /\ last_sample' = now
  /\ pressed => history.hold < MaxPressMs
  /\ \/ AfterPoll(0) /\ WakeOwed(state', state, now, pressed, suspended)
     \/ /\ AfterPoll(1)
        /\ suspended
        /\ state'.wake_attempted
        /\ Reason(state, now, pressed)

LEMMA PollPasses ==
  ASSUME Inv, NEW pressed \in BOOLEAN, HPoll(pressed)
  PROVE  Passes(pressed)
<1> DEFINE s == Observe(state, now, pressed, suspended)
<1>1. state \in ControlState /\ now \in Times /\ suspended \in BOOLEAN /\ Paired(state)
  BY DEF Inv, TypeOK, QueuePaired
<1>2. s \in ControlState
  BY <1>1, ObservePaired
<1>3. /\ ButtonMoves(s, state, now, pressed)
      /\ s.was_suspended <=> suspended
      /\ WakeOwed(s, state, now, pressed, suspended)
      /\ IF Sends(state, now, pressed, suspended)
         THEN AddsGesture(s, state, Command(state, now, pressed))
         ELSE SameContents(s, state)
  BY <1>1, ObserveMoves
<1>4. /\ UNCHANGED <<now, suspended>>
      /\ last_sample' = now
      /\ pressed => history.hold < MaxPressMs
  BY DEF HPoll, HPollWakes, HPollSubmits, HPollQuiet,
         PollWakes, PollSubmits, PollQuiet, Due, usb
<1>5. \/ /\ state' = [s EXCEPT !.wake_attempted = TRUE]
         /\ AfterPoll(1) /\ suspended /\ WantsWakeup(s, now)
      \/ /\ AfterPoll(0)
         /\ state' = [s EXCEPT !.in_flight = TRUE] \/ state' = s
  BY DEF HPoll, HPollWakes, HPollSubmits, HPollQuiet, PollWakes, PollSubmits, PollQuiet
<1> HIDE DEF s
<1>6. /\ state' \in ControlState
      /\ state'.queue = s.queue /\ state'.head = s.head /\ state'.count = s.count
      /\ state'.candidate = s.candidate /\ state'.changed_at = s.changed_at
      /\ state'.stable = s.stable /\ state'.tracking = s.tracking
      /\ state'.armed = s.armed /\ state'.pressed_at = s.pressed_at
      /\ state'.was_suspended = s.was_suspended
      /\ state'.wake_attempted = s.wake_attempted
           \/ state' = [s EXCEPT !.wake_attempted = TRUE]
  BY <1>2, <1>5 DEF ControlState
<1>7. ButtonMoves(state', state, now, pressed)
  BY <1>3, <1>6, Zenon DEF ButtonMoves
<1>8. IF Sends(state, now, pressed, suspended)
      THEN AddsGesture(state', state, Command(state, now, pressed))
      ELSE SameContents(state', state)
  BY <1>3, <1>6, Zenon DEF AddsGesture, SameContents, Slot
<1>9. CASE AfterPoll(0) /\ (state' = [s EXCEPT !.in_flight = TRUE] \/ state' = s)
  <2>1. state'.wake_attempted = s.wake_attempted
    BY <1>2, <1>9 DEF ControlState
  <2>2. WakeOwed(state', state, now, pressed, suspended)
    BY <1>3, <2>1 DEF WakeOwed
  <2> QED
    BY <1>3, <1>4, <1>6, <1>7, <1>8, <1>9, <2>2 DEF Passes
<1>10. CASE /\ state' = [s EXCEPT !.wake_attempted = TRUE]
            /\ AfterPoll(1) /\ suspended /\ WantsWakeup(s, now)
  <2>1. Reason(state, now, pressed)
    BY <1>3, <1>10 DEF WakeOwed, WantsWakeup
  <2>2. state'.wake_attempted
    BY <1>2, <1>10 DEF ControlState
  <2> QED
    BY <1>3, <1>4, <1>6, <1>7, <1>8, <1>10, <2>1, <2>2 DEF Passes
<1> QED
  BY <1>5, <1>9, <1>10

(* What a poll makes of the age of the level it samples.                   *)
LEMMA AgeIs ==
  ASSUME Inv, Clock, NEW pressed \in BOOLEAN, Passes(pressed)
  PROVE  /\ LevelAge = IF pressed <=> state.candidate THEN history.level ELSE 0
         /\ LevelAge \in 0 .. LevelCap
         /\ LevelAge < LevelCap => Since(now, ChangedAt(state, now, pressed)) = LevelAge
         /\ Settled(state, now, pressed) => LevelAge >= DebounceMs
         /\ (pressed <=> ~state.stable) => LevelAge < LevelCap
<1>1. /\ state \in ControlState /\ now \in Times /\ history.level \in 0 .. LevelCap
      /\ state.candidate \in BOOLEAN /\ state'.candidate \in BOOLEAN
      /\ state.stable \in BOOLEAN
  BY DEF Inv, TypeOK, ControlState, Clock, History, Passes
<1>2. state'.candidate <=> pressed
  BY DEF Passes, ButtonMoves
<1>3. LevelAge = IF pressed <=> state.candidate THEN history.level ELSE 0
  BY <1>1, <1>2 DEF LevelAge
<1>4. /\ DebounceMs \in Nat /\ MaxGapMs \in Nat \ {0} /\ LevelCap \in Nat \ {0}
      /\ LevelCap = DebounceMs + MaxGapMs
  BY TimeAssumption, LoopAssumption DEF LevelCap
<1>5. ChangedAt(state, now, pressed) = IF pressed <=> state.candidate
                                       THEN state.changed_at ELSE now
  BY <1>1 DEF ChangedAt
<1>6. LevelAge < LevelCap => Since(now, ChangedAt(state, now, pressed)) = LevelAge
  BY <1>1, <1>3, <1>5, SinceSelf DEF Clock, LevelMeasured
<1>7. Settled(state, now, pressed) => LevelAge >= DebounceMs
  BY <1>1, <1>3, <1>4, <1>6 DEF Settled
<1>8. (pressed <=> ~state.stable) => LevelAge < LevelCap
  <2>1. Gap <= MaxGapMs /\ Gap \in Nat
    BY <1>1, SinceType, TimeAssumption DEF Clock, Gap, Inv, TypeOK, Times
  <2>2. state.candidate # state.stable => history.level < DebounceMs + Gap
    BY DEF Clock, Unsettled
  <2> QED
    BY <1>1, <1>3, <1>4, <2>1, <2>2
<1> QED
  BY <1>1, <1>3, <1>4, <1>6, <1>7, <1>8

(* The timestamps of a press that ends measure how long it was held.       *)
LEMMA EndLength ==
  ASSUME Inv, Clock, NEW pressed \in BOOLEAN, Passes(pressed),
         Ends(state, now, pressed)
  PROVE  /\ Since(ChangedAt(state, now, pressed), state.pressed_at) = PressLength
         /\ PressLength \in Nat
<1>1. /\ history.level \in 0 .. LevelCap /\ history.hold \in Nat
      /\ LevelCap \in Nat
      /\ state.candidate \in BOOLEAN
  BY TimeAssumption, LoopAssumption
     DEF Inv, TypeOK, ControlState, Clock, History, LevelCap
<1>2. ~pressed /\ state.stable
  BY DEF Ends
<1>3. LevelAge = IF state.candidate THEN 0 ELSE history.level
  BY <1>1, <1>2, AgeIs
<1>4. ChangedAt(state, now, pressed) = IF state.candidate THEN now ELSE state.changed_at
  BY <1>1, <1>2 DEF ChangedAt
<1>5. /\ history.level <= history.hold
      /\ IF state.candidate
         THEN Since(now, state.pressed_at) = history.hold
         ELSE Since(state.changed_at, state.pressed_at) = history.hold - history.level
  BY <1>1, <1>2, Zenon DEF Clock, PressMeasured, Pressed
<1>6. CASE state.candidate
  BY <1>1, <1>3, <1>4, <1>5, <1>6 DEF PressLength
<1>7. CASE ~state.candidate
  BY <1>1, <1>3, <1>4, <1>5, <1>7 DEF PressLength
<1> QED
  BY <1>1, <1>6, <1>7

-----------------------------------------------------------------------------
(***************************************************************************)
(* The invariant about time is inductive.                                  *)
(***************************************************************************)

LEMMA Bounds ==
  /\ TimeMod \in Nat \ {0} /\ DebounceMs \in Nat /\ HoldMs \in Nat
  /\ MaxGapMs \in Nat \ {0} /\ MaxPressMs \in Nat
  /\ LevelCap = DebounceMs + MaxGapMs /\ LevelCap \in Nat \ {0}
  /\ LevelCap + MaxGapMs < TimeMod
  /\ MaxPressMs + MaxGapMs < TimeMod
BY TimeAssumption, LoopAssumption, PressAssumption, SettleAssumption DEF LevelCap

LEMMA PollClock ==
  ASSUME Inv, Clock, NEW pressed \in BOOLEAN, Passes(pressed)
  PROVE  Clock'
<1> DEFINE settled == Settled(state, now, pressed)
           begins  == Begins(state, now, pressed)
           ends    == Ends(state, now, pressed)
           at      == ChangedAt(state, now, pressed)
<1>1. /\ state \in ControlState /\ state' \in ControlState
      /\ now \in Times /\ now' = now /\ last_sample' = now
      /\ suspended \in BOOLEAN /\ suspended' = suspended
  BY DEF Inv, TypeOK, Passes
<1>2. /\ state.candidate \in BOOLEAN /\ state.stable \in BOOLEAN
      /\ state.tracking \in BOOLEAN /\ state.armed \in BOOLEAN
      /\ state.changed_at \in Times /\ state.pressed_at \in Times
      /\ state'.candidate \in BOOLEAN /\ state'.stable \in BOOLEAN
      /\ state'.tracking \in BOOLEAN /\ state'.armed \in BOOLEAN
  BY <1>1 DEF ControlState
<1>3. /\ history.level \in 0 .. LevelCap /\ history.hold \in Nat
      /\ history.lit \in BOOLEAN /\ history.rested \in BOOLEAN
      /\ history.requests \in Nat
  BY DEF Clock, History
<1>4. /\ state'.candidate <=> pressed
      /\ state'.changed_at = at
      /\ state'.stable <=> IF settled THEN pressed ELSE state.stable
      /\ state'.tracking <=> IF begins THEN state.armed ELSE state.tracking /\ ~ends
      /\ state'.armed <=> state.armed \/ (settled /\ ~pressed)
      /\ state'.pressed_at = IF begins THEN at ELSE state.pressed_at
  BY DEF Passes, ButtonMoves
<1>5. /\ begins <=> settled /\ pressed /\ ~state.stable
      /\ ends <=> settled /\ ~pressed /\ state.stable
  BY DEF Begins, Ends
<1>6. /\ LevelAge = IF pressed <=> state.candidate THEN history.level ELSE 0
      /\ LevelAge \in 0 .. LevelCap
      /\ LevelAge < LevelCap => Since(now, at) = LevelAge
      /\ settled => LevelAge >= DebounceMs
      /\ (pressed <=> ~state.stable) => LevelAge < LevelCap
  BY AgeIs
<1>7. settled <=> Since(now, at) >= DebounceMs
  BY DEF Settled
<1>8. at = IF pressed <=> state.candidate THEN state.changed_at ELSE now
  BY <1>2 DEF ChangedAt
<1> HIDE DEF settled, begins, ends, at
<1>9. PressBegins <=> begins
  BY <1>2, <1>4, <1>5 DEF PressBegins
<1>10. PressEnds <=> ends
  BY <1>2, <1>4, <1>5 DEF PressEnds
<1>11. /\ history'.level = LevelAge
       /\ history'.hold = IF begins THEN LevelAge
                          ELSE IF state'.stable THEN history.hold ELSE 0
       /\ history'.lit <=> state'.stable /\ (history.lit \/ SleepArmed(state', now))
       /\ history'.rested <=>
            history.rested \/ (~state'.candidate /\ LevelAge >= DebounceMs)
  <2>1. PICK requested \in 0 .. 1 : AfterPoll(requested)
    BY DEF Passes
  <2>2. /\ history'.level = LevelAge
        /\ history'.hold = IF PressBegins THEN LevelAge
                           ELSE IF state'.stable THEN history.hold ELSE 0
        /\ history'.lit = (state'.stable /\ (history.lit \/ SleepArmed(state', now)))
        /\ history'.rested =
             (history.rested \/ (~state'.candidate /\ LevelAge >= DebounceMs))
    BY <2>1, Zenon DEF AfterPoll
  <2> QED
    BY <1>9, <2>2, Zenon
<1>12. Gap' = 0
  BY <1>1, SinceSelf DEF Gap
<1>13. history' \in History /\ RequestOwed'
  <2> DEFINE owed == IF Owed THEN 1 ELSE history.requests
  <2>1. owed \in Nat
    BY <1>3
  <2>2. suspended /\ Reason(state, now, pressed) => owed > 0
    <3> SUFFICES ASSUME suspended, Reason(state, now, pressed), ~Owed
                 PROVE  history.requests > 0
      BY <1>3
    <3>1. state.was_suspended
      BY DEF Owed
    <3>2. CASE ~state.wake_attempted
      BY <3>1, <3>2 DEF Clock, RequestOwed
    <3>3. CASE /\ Ends(state, now, pressed) /\ state.tracking
               /\ Command(state, now, pressed) = SystemWake
      <4>1. /\ Since(at, state.pressed_at) = PressLength
            /\ PressLength \in Nat
        BY <3>3, EndLength DEF at
      <4>2. ~(Since(at, state.pressed_at) >= HoldMs)
        BY <3>3 DEF Command, at, SystemWake, SystemSleep
      <4>3. PressLength < HoldMs
        BY <4>1, <4>2, Bounds
      <4> QED
        BY <1>10, <3>3, <4>3 DEF Owed, ends
    <3> QED
      BY <3>1, <3>2, <3>3 DEF Reason
  <2>3. /\ history'.requests \in Nat
        /\ suspended /\ ~state'.wake_attempted => history'.requests > 0
    <3>1. CASE AfterPoll(0) /\ WakeOwed(state', state, now, pressed, suspended)
      <4>1. history'.requests = IF ~suspended THEN 0 ELSE owed - 0
        BY <3>1 DEF AfterPoll
      <4> HIDE DEF owed
      <4> QED
        BY <2>1, <2>2, <3>1, <4>1 DEF WakeOwed
    <3>2. CASE /\ AfterPoll(1) /\ suspended /\ state'.wake_attempted
               /\ Reason(state, now, pressed)
      <4>1. history'.requests = IF ~suspended THEN 0 ELSE owed - 1
        BY <3>2 DEF AfterPoll
      <4> HIDE DEF owed
      <4> QED
        BY <2>1, <2>2, <3>2, <4>1
    <3> QED
      BY <3>1, <3>2 DEF Passes
  <2>4. history' = [level |-> history'.level, hold |-> history'.hold,
                    lit |-> history'.lit, rested |-> history'.rested,
                    requests |-> history'.requests]
    BY DEF Passes, AfterPoll
  <2>5. history'.lit \in BOOLEAN /\ history'.rested \in BOOLEAN
    <3>1. PICK requested \in 0 .. 1 : AfterPoll(requested)
      BY DEF Passes
    <3>2. /\ history'.lit = (state'.stable /\ (history.lit \/ SleepArmed(state', now)))
          /\ history'.rested =
               (history.rested \/ (~state'.candidate /\ LevelAge >= DebounceMs))
      BY <3>1, Zenon DEF AfterPoll
    <3> QED
      BY <3>2, Zenon
  <2>6. history'.hold \in Nat /\ history'.level \in 0 .. LevelCap
    BY <1>3, <1>6, <1>11
  <2>7. history' \in History
    BY <2>3, <2>4, <2>5, <2>6, Zenon DEF History
  <2> QED
    BY <1>1, <2>3, <2>7 DEF RequestOwed
<1>14. LevelMeasured'
  BY <1>1, <1>4, <1>6, <1>11 DEF LevelMeasured
<1>15. Unsettled'
  <2> SUFFICES ASSUME state'.candidate # state'.stable
               PROVE  LevelAge < DebounceMs
    BY <1>6, <1>11, <1>12, Bounds DEF Unsettled
  <2>1. ~settled /\ (pressed <=> ~state.stable)
    BY <1>2, <1>4
  <2> QED
    BY <1>6, <1>7, <2>1, Bounds
<1>16. PressMeasured' /\ LitPress'
  <2> SUFFICES ASSUME state'.stable
               PROVE  PressMeasured' /\ LitPress'
    BY <1>11 DEF PressMeasured, LitPress
  <2>1. CASE begins
    <3>1. history'.hold = LevelAge /\ pressed /\ ~state.stable
      BY <1>5, <1>11, <2>1
    <3>2. Pressed' = LevelAge /\ state'.candidate
      BY <1>4, <3>1 DEF Pressed
    <3>3. Since(now', state'.pressed_at) = Pressed' /\ LevelAge < LevelCap
      BY <1>1, <1>4, <1>6, <2>1, <3>1, <3>2
    <3>4. PressMeasured'
      BY <1>6, <1>11, <1>12, <3>1, <3>2, <3>3, Bounds DEF PressMeasured
    <3>5. ~history.lit
      BY <3>1 DEF Clock, LitPress
    <3>6. LitPress'
      BY <1>1, <1>11, <3>2, <3>3, <3>5 DEF LitPress, SleepArmed
    <3> QED
      BY <3>4, <3>6
  <2>2. CASE ~begins
    <3>1. state.stable /\ ~ends
      BY <1>2, <1>4, <1>5, <2>2
    <3>2. /\ history'.hold = history.hold
          /\ state'.pressed_at = state.pressed_at
          /\ state'.tracking <=> state.tracking
      BY <1>4, <1>11, <2>2, <3>1
    <3>3. /\ history.level <= history.hold
          /\ state.candidate => Since(now, state.pressed_at) = history.hold
          /\ ~state.candidate =>
               Since(state.changed_at, state.pressed_at) = history.hold - history.level
      BY <3>1 DEF Clock, PressMeasured, Pressed
    <3>4. LevelAge <= history.hold
      BY <1>3, <1>6, <3>3, Bounds
    <3>5. CASE pressed
      <4>1. history.hold < MaxPressMs
        BY <3>5 DEF Passes
      <4>2. Since(now, state.pressed_at) = history.hold
        <5>1. CASE state.candidate
          BY <3>3, <5>1
        <5>2. CASE ~state.candidate
          <6>1. history.level < LevelCap
            <7>1. history.level < DebounceMs + Gap
              BY <1>2, <3>1, <5>2 DEF Clock, Unsettled
            <7>2. Gap <= MaxGapMs /\ Gap \in Nat
              BY <1>1, SinceType, TimeAssumption DEF Clock, Gap, Inv, TypeOK, Times
            <7> QED
              BY <1>3, <7>1, <7>2, Bounds
          <6>2. Since(now, state.changed_at) = history.level
            BY <6>1 DEF Clock, LevelMeasured
          <6>3. /\ Since(now, state.changed_at)
                     + Since(state.changed_at, state.pressed_at) = history.hold
                /\ history.hold < TimeMod
            BY <1>3, <3>3, <4>1, <5>2, <6>2, Bounds
          <6> QED
            BY <1>1, <1>2, <6>3, SinceSum
        <5> QED
          BY <5>1, <5>2
      <4>3. Pressed' = history.hold /\ state'.candidate
        BY <1>4, <3>2, <3>5 DEF Pressed
      <4>4. PressMeasured'
        BY <1>1, <1>3, <1>11, <1>12, <3>2, <3>4, <4>1, <4>2, <4>3, Bounds
           DEF PressMeasured
      <4>5. history.lit => history.hold >= HoldMs /\ state.tracking
        BY <1>3, Bounds DEF Clock, LitPress, Pressed
      <4>6. LitPress'
        BY <1>1, <1>11, <3>2, <4>2, <4>3, <4>5 DEF LitPress, SleepArmed
      <4> QED
        BY <4>4, <4>6
    <3>6. CASE ~pressed
      <4>1. Pressed' = history.hold - LevelAge /\ ~state'.candidate
        BY <1>4, <1>11, <3>2, <3>6 DEF Pressed
      <4>2. Since(at, state.pressed_at) = history.hold - LevelAge
        BY <1>3, <1>6, <1>8, <3>3, <3>6
      <4>3. PressMeasured'
        BY <1>4, <1>11, <3>2, <3>4, <4>1, <4>2 DEF PressMeasured
      <4>4. Pressed = history.hold - LevelAge
        BY <1>3, <1>6, <3>6 DEF Pressed
      <4>5. LitPress'
        BY <1>11, <3>2, <4>1, <4>4 DEF Clock, LitPress, SleepArmed
      <4> QED
        BY <4>3, <4>5
    <3> QED
      BY <3>5, <3>6
  <2> QED
    BY <2>1, <2>2
<1>17. ArmedRested'
  <2>1. state.armed \/ state.tracking => history.rested
    BY DEF Clock, ArmedRested
  <2> QED
    BY <1>2, <1>4, <1>6, <1>11, <2>1 DEF ArmedRested
<1>18. Gap' <= MaxGapMs
  BY <1>12, Bounds
<1> QED
  BY <1>13, <1>14, <1>15, <1>16, <1>17, <1>18 DEF Clock

(* Every field of the button and of the request is as it was.              *)
SameButton(r, s) ==
  /\ r.candidate = s.candidate /\ r.changed_at = s.changed_at
  /\ r.stable = s.stable /\ r.tracking = s.tracking /\ r.armed = s.armed
  /\ r.pressed_at = s.pressed_at
  /\ r.was_suspended = s.was_suspended /\ r.wake_attempted = s.wake_attempted

(* The callbacks of transfers, and the host, leave the button alone.       *)
LEMMA OtherKeepsButton ==
  ASSUME Inv, HOther
  PROVE  /\ SameButton(state', state) /\ state'.count <= state.count
         /\ UNCHANGED <<now, last_sample, history>>
         /\ suspended' => suspended \/ ~state'.was_suspended
<1>1. state \in ControlState /\ suspended \in BOOLEAN
  BY DEF Inv, TypeOK
<1>2. UNCHANGED <<now, last_sample, history>>
  BY DEF HOther, ReportComplete, ReportFails, HostReads, Suspend, Resume, BusReset, LeaveBus
<1>3. CASE ReportComplete
  <2>1. /\ SameButton(Complete(state, endpoint.usage), state)
        /\ Complete(state, endpoint.usage).count <= state.count
    BY <1>1, QueueAssumption DEF Complete, SameButton, ControlState
  <2> QED
    BY <1>2, <1>3, <2>1 DEF ReportComplete
<1>4. CASE ReportFails
  <2>1. SameButton(Fail(state), state) /\ Fail(state).count <= state.count
    BY <1>1, QueueAssumption DEF Fail, SameButton, ControlState
  <2> QED
    BY <1>2, <1>4, <2>1 DEF ReportFails
<1>5. CASE HostReads \/ Suspend \/ Resume \/ BusReset
  <2>1. /\ state' = state
        /\ suspended' => suspended \/ ~state.was_suspended
    BY <1>5 DEF HostReads, Suspend, Resume, BusReset, LeaveBus
  <2> QED
    BY <1>1, <1>2, <2>1, QueueAssumption DEF SameButton, ControlState
<1> QED
  BY <1>3, <1>4, <1>5 DEF HOther

(* A reset starts the measurement afresh.                                  *)
LEMMA FreshClock ==
  ASSUME Inv, Gap <= MaxGapMs, state' = Reset(now), now' = now, history' = Fresh,
         last_sample' \in {now, last_sample}
  PROVE  Clock'
<1>1. now \in Times
  BY DEF Inv, TypeOK
<1>2. Gap' <= MaxGapMs
  BY <1>1, SinceSelf, Bounds DEF Gap
<1>3. history' \in History
  BY Bounds DEF Fresh, History
<1>4. Since(now', state'.changed_at) = 0 /\ history'.level = 0
  BY <1>1, SinceSelf DEF Reset, Fresh
<1>5. /\ ~state'.candidate /\ ~state'.stable /\ ~state'.armed /\ ~state'.tracking
      /\ ~state'.was_suspended /\ state'.candidate = state'.stable
      /\ ~history'.lit
  BY DEF Reset, Fresh
<1> QED
  BY <1>2, <1>3, <1>4, <1>5
     DEF Clock, LevelMeasured, Unsettled, PressMeasured, ArmedRested, LitPress, RequestOwed

LEMMA TickClock ==
  ASSUME Inv, Clock, HTick
  PROVE  Clock'
<1>1. /\ Gap < MaxGapMs /\ now' = (now + 1) % TimeMod
      /\ UNCHANGED <<state, last_sample, suspended>>
      /\ AfterTick
  BY DEF HTick, Tick, Gap, usb
<1>2. /\ state \in ControlState /\ now \in Times /\ last_sample \in Times
      /\ state.candidate \in BOOLEAN /\ state.stable \in BOOLEAN
      /\ state.changed_at \in Times /\ state.pressed_at \in Times
  BY DEF Inv, TypeOK, ControlState
<1>3. history.level \in 0 .. LevelCap /\ history.hold \in Nat
  BY DEF Clock, History
<1>4. /\ history' \in History
      /\ history'.level = IF history.level < LevelCap THEN history.level + 1
                                                      ELSE history.level
      /\ history'.hold = IF state.stable THEN history.hold + 1 ELSE 0
      /\ history'.lit = history.lit /\ history'.rested = history.rested
      /\ history'.requests = history.requests
  <2> DEFINE level == IF history.level < LevelCap THEN history.level + 1
                                                  ELSE history.level
             hold == IF state.stable THEN history.hold + 1 ELSE 0
  <2>1. history' = [history EXCEPT !.level = level, !.hold = hold]
    BY <1>1 DEF AfterTick
  <2>2. level \in 0 .. LevelCap /\ hold \in Nat
    BY <1>3, Bounds
  <2> HIDE DEF level, hold
  <2>3. /\ history' \in History
        /\ history'.level = level /\ history'.hold = hold
        /\ history'.lit = history.lit /\ history'.rested = history.rested
        /\ history'.requests = history.requests
    BY <2>1, <2>2 DEF Clock, History
  <2> QED
    BY <2>3 DEF level, hold
<1>5. Gap' = Gap + 1 /\ Gap \in Nat
  <2>1. Since(now, last_sample) \in Times
    BY <1>2, SinceType
  <2>2. Since(now, last_sample) + 1 < TimeMod
    BY <1>1, <2>1, Bounds DEF Gap, Times
  <2> QED
    BY <1>1, <1>2, <2>1, <2>2, SinceTick, TimeAssumption DEF Gap, Times
<1>6. LevelMeasured'
  <2> SUFFICES ASSUME history'.level < LevelCap
               PROVE  Since(now', state.changed_at) = history'.level
    BY <1>1 DEF LevelMeasured
  <2>1. history.level < LevelCap /\ history'.level = history.level + 1
    BY <1>3, <1>4, Bounds
  <2>2. Since(now, state.changed_at) = history.level
    BY <2>1 DEF Clock, LevelMeasured
  <2>3. Since(now, state.changed_at) + 1 < TimeMod
    BY <1>3, <2>1, <2>2, Bounds
  <2> QED
    BY <1>1, <1>2, <2>1, <2>2, <2>3, SinceTick
<1>7. state.candidate # state.stable =>
        /\ history.level < DebounceMs + Gap
        /\ history.level < LevelCap /\ history'.level = history.level + 1
  BY <1>1, <1>3, <1>4, <1>5, Bounds DEF Clock, Unsettled
<1>8. Unsettled'
  BY <1>1, <1>3, <1>5, <1>7, Bounds DEF Unsettled
<1>9. PressMeasured' /\ LitPress'
  <2> SUFFICES ASSUME state.stable
               PROVE  PressMeasured' /\ LitPress'
    BY <1>1, <1>4 DEF PressMeasured, LitPress, Clock
  <2>1. /\ history.level <= history.hold /\ history'.hold = history.hold + 1
        /\ history'.level <= history'.hold
    BY <1>3, <1>4, Bounds DEF Clock, PressMeasured
  <2>2. CASE state.candidate
    <3>1. /\ Since(now, state.pressed_at) = history.hold
          /\ history.hold < MaxPressMs + Gap \/ history.hold < LevelCap + Gap
      BY <2>2 DEF Clock, PressMeasured, Pressed
    <3>2. Since(now, state.pressed_at) + 1 < TimeMod
      BY <1>1, <1>3, <1>5, <3>1, Bounds
    <3>3. Since(now', state.pressed_at) = history.hold + 1
      BY <1>1, <1>2, <3>1, <3>2, SinceTick
    <3>4. Pressed' = Pressed + 1 /\ Pressed = history.hold
      BY <1>1, <2>1, <2>2 DEF Pressed
    <3>5. PressMeasured'
      BY <1>1, <1>3, <1>5, <2>1, <2>2, <3>1, <3>3, <3>4, Bounds DEF PressMeasured
    <3>6. LitPress'
      BY <1>1, <1>3, <1>4, <3>4, Bounds DEF Clock, LitPress
    <3> QED
      BY <3>5, <3>6
  <2>3. CASE ~state.candidate
    <3>1. Since(state.changed_at, state.pressed_at) = Pressed
      BY <2>3 DEF Clock, PressMeasured
    <3>2. Pressed' = Pressed
      <4>1. history'.level = history.level + 1
        BY <1>2, <1>7, <2>3
      <4>2. ~state'.candidate
        BY <1>1, <2>3
      <4> QED
        BY <1>3, <2>1, <2>3, <4>1, <4>2 DEF Pressed
    <3> QED
      BY <1>1, <1>4, <2>1, <2>3, <3>1, <3>2 DEF Clock, PressMeasured, LitPress
  <2> QED
    BY <2>2, <2>3
<1>10. ArmedRested' /\ RequestOwed'
  BY <1>1, <1>4 DEF Clock, ArmedRested, RequestOwed
<1>11. Gap' <= MaxGapMs
  BY <1>1, <1>5, Bounds
<1> QED
  BY <1>4, <1>6, <1>8, <1>9, <1>10, <1>11 DEF Clock

LEMMA StepsOfRig == [HNext]_hvars => [Next]_vars
BY DEF HNext, hvars, HTick, HPollOffline, HReset, HOther, HPoll, HPollWakes,
       HPollSubmits, HPollQuiet, Next, Poll

LEMMA NextClock == Inv /\ Clock /\ [HNext]_hvars => Clock'
<1> SUFFICES ASSUME Inv, Clock, [HNext]_hvars PROVE Clock'
  OBVIOUS
<1>1. CASE HTick
  BY <1>1, TickClock
<1>2. CASE HPollOffline \/ HReset
  <2>1. /\ state' = Reset(now) /\ now' = now /\ history' = Fresh
        /\ last_sample' \in {now, last_sample}
    BY <1>2 DEF HPollOffline, HReset, PollOffline, Due, Mount, Unplug, LeaveBus
  <2> QED
    BY <2>1, FreshClock DEF Clock
<1>3. CASE HOther
  <2>1. /\ SameButton(state', state) /\ UNCHANGED <<now, last_sample, history>>
        /\ suspended' => suspended \/ ~state'.was_suspended
    BY <1>3, OtherKeepsButton
  <2>2. Gap' = Gap /\ Pressed' = Pressed
    BY <2>1 DEF SameButton, Gap, Pressed
  <2> QED
    BY <2>1, <2>2
       DEF SameButton, Clock, LevelMeasured, Unsettled, PressMeasured, ArmedRested,
           LitPress, RequestOwed
<1>4. ASSUME NEW pressed \in BOOLEAN, HPoll(pressed)
      PROVE  Clock'
  BY <1>4, PollPasses, PollClock
<1>5. CASE UNCHANGED hvars
  BY <1>5
     DEF hvars, vars, Clock, LevelMeasured, Unsettled, PressMeasured, ArmedRested,
         LitPress, RequestOwed, Gap, Pressed
<1> QED
  BY <1>1, <1>2, <1>3, <1>4, <1>5 DEF HNext

LEMMA InitClock == HInit => Inv /\ Clock
<1> SUFFICES ASSUME HInit PROVE Inv /\ Clock
  OBVIOUS
<1>1. Inv
  BY InitInv DEF HInit
<1>2. now \in Times /\ state = Reset(now) /\ last_sample = now /\ history = Fresh
  BY <1>1 DEF HInit, Init, Inv, TypeOK
<1>3. Gap <= MaxGapMs /\ Since(now, state.changed_at) = 0
  BY <1>2, SinceSelf, Bounds DEF Gap, Reset
<1>4. history \in History
  BY <1>2, Bounds DEF Fresh, History
<1> QED
  BY <1>1, <1>2, <1>3, <1>4
     DEF Fresh, Reset, Clock, LevelMeasured, Unsettled, PressMeasured, ArmedRested,
         LitPress, RequestOwed

LEMMA ClockInvariance == HSpec => [](Inv /\ Clock)
<1>1. HInit => Inv /\ Clock
  BY InitClock
<1>2. (Inv /\ Clock) /\ [HNext]_hvars => (Inv /\ Clock)'
  BY NextInv, NextClock, StepsOfRig
<1> QED
  BY <1>1, <1>2, PTL DEF HSpec

-----------------------------------------------------------------------------
(***************************************************************************)
(* What follows for the rig's promises.                                    *)
(***************************************************************************)

(* Only a poll can begin or end a press, or queue a gesture.               *)
LEMMA OnlyPolls ==
  ASSUME Inv, [HNext]_hvars, PressBegins \/ PressEnds \/ state'.count > state.count
  PROVE  \E pressed \in BOOLEAN :
           /\ Passes(pressed)
           /\ PressBegins => Begins(state, now, pressed)
           /\ PressEnds => Ends(state, now, pressed)
           /\ state'.count > state.count => Sends(state, now, pressed, suspended)
<1>1. state.count \in Nat /\ state.stable \in BOOLEAN
  BY QueueAssumption DEF Inv, TypeOK, ControlState
<1>2. CASE HTick \/ UNCHANGED hvars
  <2>1. state' = state
    BY <1>2 DEF HTick, Tick, hvars, vars
  <2> QED
    BY <1>1, <2>1 DEF PressBegins, PressEnds
<1>3. CASE HPollOffline \/ HReset
  <2>1. state' = Reset(now)
    BY <1>3 DEF HPollOffline, HReset, PollOffline, Mount, Unplug
  <2> QED
    BY <1>1, <2>1 DEF Reset, PressBegins, PressEnds
<1>4. CASE HOther
  <2>1. SameButton(state', state) /\ state'.count <= state.count
        /\ state'.count \in Int
    <3>1. Inv'
      BY NextInv, StepsOfRig
    <3> QED
      BY <1>4, <3>1, OtherKeepsButton, QueueAssumption DEF Inv, TypeOK, ControlState
  <2> QED
    BY <1>1, <2>1 DEF SameButton, PressBegins, PressEnds
<1>5. ASSUME NEW pressed \in BOOLEAN, HPoll(pressed)
      PROVE  /\ Passes(pressed)
             /\ PressBegins => Begins(state, now, pressed)
             /\ PressEnds => Ends(state, now, pressed)
             /\ state'.count > state.count => Sends(state, now, pressed, suspended)
  <2>1. Passes(pressed)
    BY <1>5, PollPasses
  <2>2. state'.stable <=> IF Settled(state, now, pressed) THEN pressed ELSE state.stable
    BY <2>1 DEF Passes, ButtonMoves
  <2>3. ~Sends(state, now, pressed, suspended) => state'.count = state.count
    BY <2>1 DEF Passes, SameContents
  <2> QED
    BY <1>1, <2>1, <2>2, <2>3 DEF PressBegins, PressEnds, Begins, Ends
<1> QED
  BY <1>2, <1>3, <1>4, <1>5 DEF HNext

LEMMA AddsQueues ==
  ASSUME NEW usage, AddsGesture(state', state, usage)
  PROVE  Queues(usage)
<1>1. \A i : Slot(state', i) = Slot(state, i)
  BY DEF AddsGesture, Slot
<1> QED
  BY <1>1 DEF AddsGesture, Queues

(* How long the button was really down decides what its release queues.    *)
LEMMA StepDecides ==
  ASSUME Inv, Clock, [HNext]_hvars, PressEnds, state.tracking, HasRoom
  PROVE  CASE PressLength < HoldMs -> Queues(SystemWake)
           [] PressLength >= HoldMs /\ ~suspended -> Queues(SystemSleep)
           [] OTHER -> state'.count = state.count
<1>1. PICK pressed \in BOOLEAN : Passes(pressed) /\ Ends(state, now, pressed)
  BY OnlyPolls
<1> DEFINE usage == Command(state, now, pressed)
<1>2. PressLength \in Nat /\ HoldMs \in Nat
  BY <1>1, EndLength, Bounds
<1>3. usage = IF PressLength >= HoldMs THEN SystemSleep ELSE SystemWake
  BY <1>1, EndLength DEF Command
<1> HIDE DEF usage
<1>4. Sends(state, now, pressed, suspended) <=> usage = SystemWake \/ ~suspended
  BY <1>1 DEF Sends, HasRoom, usage
<1>5. CASE PressLength < HoldMs
  <2>1. usage = SystemWake
    BY <1>2, <1>3, <1>5
  <2>2. Queues(SystemWake)
    BY <1>1, <1>4, <2>1, AddsQueues DEF Passes, usage
  <2> QED
    BY <1>2, <1>5, <2>2
<1>6. CASE PressLength >= HoldMs /\ ~suspended
  <2>1. Queues(SystemSleep)
    BY <1>1, <1>3, <1>4, <1>6, AddsQueues DEF Passes, usage
  <2> QED
    BY <1>2, <1>6, <2>1
<1>7. CASE PressLength >= HoldMs /\ suspended
  <2>1. ~Sends(state, now, pressed, suspended)
    <3>1. usage # SystemWake
      BY <1>3, <1>7 DEF SystemSleep, SystemWake
    <3> QED
      BY <1>4, <1>7, <3>1
  <2>2. state'.count = state.count
    BY <1>1, <2>1 DEF Passes, SameContents
  <2> QED
    BY <1>2, <1>7, <2>2
<1> QED
  BY <1>2, <1>5, <1>6, <1>7

(* For every timing and wherever the 32-bit clock wraps, the true length   *)
(* of the press decides the command that its release queues.               *)
THEOREM TrueLengthDecides == HSpec => LengthDecidesCommand
<1>1. (Inv /\ Clock) /\ [HNext]_hvars =>
        [PressEnds /\ state.tracking /\ HasRoom =>
           CASE PressLength < HoldMs -> Queues(SystemWake)
             [] PressLength >= HoldMs /\ ~suspended -> Queues(SystemSleep)
             [] OTHER -> state'.count = state.count]_hvars
  BY StepDecides
<1> QED
  BY <1>1, ClockInvariance, PTL DEF HSpec, LengthDecidesCommand

(* Once the Sleep indication was lit in a press, its end queues Sleep.     *)
THEOREM LedPromiseKept == HSpec => LedKeepsItsPromise
<1>1. (Inv /\ Clock) /\ [HNext]_hvars =>
        [PressEnds /\ history.lit /\ ~suspended /\ HasRoom => Queues(SystemSleep)]_hvars
  <2> SUFFICES ASSUME Inv, Clock, [HNext]_hvars,
                      PressEnds, history.lit, ~suspended, HasRoom
               PROVE  Queues(SystemSleep)
    OBVIOUS
  <2>1. PICK pressed \in BOOLEAN : Passes(pressed) /\ Ends(state, now, pressed)
    BY OnlyPolls
  <2>2. state.tracking /\ Pressed >= HoldMs
    BY DEF Clock, LitPress
  <2>3. /\ history.level \in 0 .. LevelCap /\ history.hold \in Nat /\ ~pressed
        /\ state.candidate \in BOOLEAN
    BY <2>1 DEF Inv, TypeOK, ControlState, Clock, History, Ends
  <2>4. LevelAge = IF pressed <=> state.candidate THEN history.level ELSE 0
    BY <2>1, AgeIs
  <2>5. PressLength = Pressed
    BY <2>3, <2>4, Bounds DEF PressLength, Pressed
  <2>6. PressLength \in Nat
    BY <2>1, EndLength
  <2> QED
    BY <2>2, <2>5, <2>6, Bounds, StepDecides
<1> QED
  BY <1>1, ClockInvariance, PTL DEF HSpec, LedKeepsItsPromise

(* No gesture without a debounced rest since the last reset: a button held *)
(* at boot or across re-enumeration sends nothing.                         *)
THEOREM GestureNeedsRest == HSpec => RestedBeforeGesture
<1>1. (Inv /\ Clock) /\ [HNext]_hvars =>
        [state'.count > state.count => history.rested]_hvars
  <2> SUFFICES ASSUME Inv, Clock, [HNext]_hvars, state'.count > state.count
               PROVE  history.rested
    OBVIOUS
  <2>1. PICK pressed \in BOOLEAN : Sends(state, now, pressed, suspended)
    BY OnlyPolls
  <2> QED
    BY <2>1 DEF Sends, Clock, ArmedRested
<1> QED
  BY <1>1, ClockInvariance, PTL DEF HSpec, RestedBeforeGesture

(* A change of the stable level takes a sampled level DebounceMs old, and  *)
(* is made at the first poll that finds one.                               *)
THEOREM DebouncesBothWays == HSpec => DebounceBothWays
<1>1. Inv /\ Clock => (mounted /\ state.candidate # state.stable => history.level < LevelCap)
  <2> SUFFICES ASSUME Inv, Clock, state.candidate # state.stable
               PROVE  history.level < LevelCap
    OBVIOUS
  <2>1. history.level < DebounceMs + Gap /\ history.level \in 0 .. LevelCap
    BY DEF Clock, Unsettled, History
  <2>2. Gap <= MaxGapMs /\ Gap \in Nat
    BY SinceType, TimeAssumption DEF Clock, Gap, Inv, TypeOK, Times
  <2> QED
    BY <2>1, <2>2, Bounds
<1>2. (Inv /\ Clock) /\ [HNext]_hvars =>
        [PressBegins \/ PressEnds => LevelAge >= DebounceMs]_hvars
  <2> SUFFICES ASSUME Inv, Clock, [HNext]_hvars, PressBegins \/ PressEnds
               PROVE  LevelAge >= DebounceMs
    OBVIOUS
  <2>1. PICK pressed \in BOOLEAN : Passes(pressed) /\ Settled(state, now, pressed)
    BY OnlyPolls DEF Begins, Ends
  <2> QED
    BY <2>1, AgeIs
<1> QED
  BY <1>1, <1>2, ClockInvariance, PTL DEF HSpec, DebounceBothWays

(* A remote wakeup is only ever asked for when one is owed: once for the   *)
(* suspension, and once for each Wake tap in it.                           *)
THEOREM WakeupsAreOwed == HSpec => []RequestsAreOwed
<1>1. Clock => RequestsAreOwed
  BY DEF Clock, History, RequestsAreOwed
<1> QED
  BY <1>1, ClockInvariance, PTL
=============================================================================
