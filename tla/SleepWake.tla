------------------------------ MODULE SleepWake ------------------------------
(***************************************************************************)
(* The Sleep/Wake rig at work: the main loop of emu/sleepwake/main.c, the  *)
(* mount and transfer callbacks TinyUSB makes from tud_task, the clock,    *)
(* and the host at the other end of the cable.                             *)
(*                                                                         *)
(* The loop is one thread: a callback runs between two polls, never inside *)
(* one, so each is an action of its own.  TinyUSB and the host are outside *)
(* the repository; they do what control.c and its test rely on.            *)
(***************************************************************************)
EXTENDS SleepWakeControl

CONSTANTS
  PollMs,     \* the loop samples the button at most once in this many ms
  MaxGapMs,   \* bound: the longest time between two polls
  HostActs    \* the host behaviours this instance explores

ASSUME LoopAssumption ==
  /\ PollMs \in 1 .. TimeMod - 1
  /\ MaxGapMs \in PollMs .. TimeMod - 1
  /\ HostActs \subseteq {"suspend", "reset", "fail", "refuse", "deny"}

VARIABLES
  state,        \* control.c's static state
  now,          \* the millisecond clock, modulo TimeMod
  last_sample,  \* main's last_sample
  mounted,      \* tud_mounted()
  suspended,    \* tud_suspended()
  endpoint,     \* the IN endpoint: idle, armed with a report, or read by the host
  host,         \* the usage the host holds down
  signalled     \* resume signalling reached the host in this suspension

vars == <<state, now, last_sample, mounted, suspended, endpoint, host, signalled>>
usb  == <<mounted, suspended, endpoint, host, signalled>>

Idle == [phase |-> "idle", usage |-> Release]

TypeOK ==
  /\ state \in ControlState
  /\ now \in Times
  /\ last_sample \in Times
  /\ mounted \in BOOLEAN
  /\ suspended \in BOOLEAN
  /\ endpoint \in [phase: {"idle", "armed", "read"}, usage: Usages]
  /\ host \in Usages
  /\ signalled \in BOOLEAN

(* tusb_init leaves the device unmounted; the loop's clock starts with it. *)
Init ==
  /\ now = 0
  /\ state = Reset(now)
  /\ last_sample = now
  /\ mounted = FALSE
  /\ suspended = FALSE
  /\ endpoint = Idle
  /\ host = Release
  /\ signalled = FALSE

-----------------------------------------------------------------------------
(***************************************************************************)
(* The clock.                                                              *)
(***************************************************************************)
Tick ==
  /\ Since(now, last_sample) < MaxGapMs
  /\ now' = (now + 1) % TimeMod
  /\ UNCHANGED <<state, last_sample, usb>>

(***************************************************************************)
(* One pass of the main loop that samples the button.  sleepwake_task ends *)
(* in one of four ways, and each is a disjunct of Poll.                    *)
(***************************************************************************)
Due ==
  /\ Since(now, last_sample) >= PollMs
  /\ last_sample' = now
  /\ now' = now

(* Off the bus, nothing survives. *)
PollOffline ==
  /\ Due
  /\ ~mounted
  /\ state' = Reset(now)
  /\ UNCHANGED usb

(* Mutant: the request is not remembered. *)
PollWakesAgain(pressed) ==
  LET s == Observe(state, now, pressed, suspended)
  IN  /\ Due
      /\ mounted
      /\ suspended
      /\ WantsWakeup(s, now)
      /\ state' = s
      /\ \/ signalled' = TRUE
         \/ "deny" \in HostActs /\ signalled' = signalled
      /\ UNCHANGED <<mounted, suspended, endpoint, host>>

(* tud_remote_wakeup: TinyUSB signals only if the host permitted it. *)
PollWakes(pressed) ==
  LET s == Observe(state, now, pressed, suspended)
  IN  /\ Due
      /\ mounted
      /\ suspended
      /\ WantsWakeup(s, now)
      /\ state' = [s EXCEPT !.wake_attempted = TRUE]
      /\ \/ signalled' = TRUE
         \/ "deny" \in HostActs /\ signalled' = signalled
      /\ UNCHANGED <<mounted, suspended, endpoint, host>>

CanSubmit(s) ==
  Busy(s) /\ ~suspended /\ ~s.in_flight /\ endpoint.phase = "idle"

PollSubmits(pressed) ==
  LET s == Observe(state, now, pressed, suspended)
  IN  /\ Due
      /\ mounted
      /\ CanSubmit(s)
      /\ state' = [s EXCEPT !.in_flight = TRUE]
      /\ endpoint' = [phase |-> "armed", usage |-> s.queue[s.head]]
      /\ UNCHANGED <<mounted, suspended, host, signalled>>

(* Nothing to send, no reason to wake the host, or the endpoint refused.   *)
PollQuiet(pressed) ==
  LET s == Observe(state, now, pressed, suspended)
  IN  /\ Due
      /\ mounted
      /\ suspended => ~WantsWakeup(s, now)
      /\ CanSubmit(s) => "refuse" \in HostActs
      /\ state' = s
      /\ UNCHANGED usb

Poll ==
  \/ PollOffline
  \/ \E pressed \in BOOLEAN :
       PollWakes(pressed) \/ PollSubmits(pressed) \/ PollQuiet(pressed)

-----------------------------------------------------------------------------
(***************************************************************************)
(* TinyUSB's callbacks.                                                    *)
(***************************************************************************)

(* Mutant: enumeration keeps the old control state. *)
MountKeepsState ==
  /\ ~mounted
  /\ mounted' = TRUE
  /\ UNCHANGED <<state, now, last_sample, suspended, endpoint, host, signalled>>

(* tud_mount_cb: the host configured the device. *)
Mount ==
  /\ ~mounted
  /\ mounted' = TRUE
  /\ state' = Reset(now)
  /\ UNCHANGED <<now, last_sample, suspended, endpoint, host, signalled>>

(* The completion of a transfer the host has read. *)
ReportComplete ==
  /\ endpoint.phase = "read"
  /\ state' = Complete(state, endpoint.usage)
  /\ endpoint' = Idle
  /\ UNCHANGED <<now, last_sample, mounted, suspended, host, signalled>>

ReportFails ==
  /\ "fail" \in HostActs
  /\ endpoint.phase = "armed"
  /\ state' = Fail(state)
  /\ endpoint' = Idle
  /\ UNCHANGED <<now, last_sample, mounted, suspended, host, signalled>>

(***************************************************************************)
(* The host.  TinyUSB hands events over in the order they happened, so the *)
(* completion of a transfer is always seen before a later suspend or reset.*)
(***************************************************************************)
HostReads ==
  /\ endpoint.phase = "armed"
  /\ ~suspended
  /\ endpoint' = [endpoint EXCEPT !.phase = "read"]
  /\ host' = endpoint.usage
  /\ UNCHANGED <<state, now, last_sample, mounted, suspended, signalled>>

(* Resume signalling and the next idle interval outlast the gap between    *)
(* polls, so the loop has seen the bus awake since the last suspension.    *)
Suspend ==
  /\ "suspend" \in HostActs
  /\ mounted
  /\ ~suspended
  /\ endpoint.phase # "read"
  /\ ~state.was_suspended
  /\ suspended' = TRUE
  /\ UNCHANGED <<state, now, last_sample, mounted, endpoint, host, signalled>>

Resume ==
  /\ suspended
  /\ suspended' = FALSE
  /\ signalled' = FALSE
  /\ UNCHANGED <<state, now, last_sample, mounted, endpoint, host>>

LeaveBus ==
  /\ "reset" \in HostActs
  /\ mounted
  /\ endpoint.phase # "read"
  /\ mounted' = FALSE
  /\ suspended' = FALSE
  /\ endpoint' = Idle
  /\ host' = Release
  /\ signalled' = FALSE
  /\ UNCHANGED <<now, last_sample>>

(* A bus reset: no callback until the host configures the device again. *)
BusReset == LeaveBus /\ UNCHANGED state

(* tud_umount_cb. *)
Unplug == LeaveBus /\ state' = Reset(now)

-----------------------------------------------------------------------------
Next ==
  \/ Tick \/ Poll
  \/ Mount \/ ReportComplete \/ ReportFails
  \/ HostReads \/ Suspend \/ Resume \/ BusReset \/ Unplug

Spec == Init /\ [][Next]_vars

(***************************************************************************)
(* Time passes and the loop runs: while (true), with nothing in it that    *)
(* blocks.  TinyUSB delivers the completions it has.  A host that is awake *)
(* reads an armed endpoint and accepts a report again and again offered.   *)
(* No fairness for the user, or for a host that suspends or resets.        *)
(***************************************************************************)
Fairness ==
  /\ WF_vars(Tick)
  /\ WF_vars(Poll)
  /\ WF_vars(ReportComplete)
  /\ SF_vars(HostReads)
  /\ SF_vars(\E pressed \in BOOLEAN : PollSubmits(pressed))
  /\ WF_vars(signalled /\ Resume)

FairSpec == Spec /\ Fairness

-----------------------------------------------------------------------------
(***************************************************************************)
(* Safety.                                                                 *)
(***************************************************************************)

(* The queue's layout, on which everything about pairs rests: the ring is  *)
(* filled two slots at a time from an even tail, so a press sits in an     *)
(* even slot and its release in the odd slot after it, and the last report *)
(* delivered is a press exactly while the head is at the release.          *)
(* (enqueue and the wrap of head in control.c.)                            *)
Paired(s) ==
  /\ (s.head + s.count) % 2 = 0
  /\ \A slot \in Slots : slot % 2 = 1 => s.queue[slot] = Release
  /\ \A i \in 0 .. s.count - 1 :
       Slot(s, i) % 2 = 0 => s.queue[Slot(s, i)] \in Presses
  /\ s.current \in Presses <=> s.head % 2 = 1

QueuePaired == Paired(state)

(* What control.c believes about the endpoint is so: in_flight is set      *)
(* exactly while the endpoint holds a transfer of the head of the queue.   *)
(* If the two came apart, the next report would never be submitted, or     *)
(* one would be retired that was not sent.                                 *)
InFlightMatchesEndpoint ==
  /\ mounted => (state.in_flight <=> endpoint.phase # "idle")
  /\ ~mounted => endpoint = Idle /\ host = Release /\ ~suspended
  /\ endpoint.phase # "idle" =>
       state.count > 0 /\ endpoint.usage = state.queue[state.head]

(* A key the host sees down always has its release on the way: it is the   *)
(* next report of the queue.  Retries, refusals, a full queue, suspension  *)
(* and re-enumeration never strand a held key.                             *)
NoStuckKey ==
  LET next == IF endpoint.phase = "read" THEN 1 ELSE 0
  IN  mounted /\ host # Release =>
        next < state.count /\ state.queue[Slot(state, next)] = Release

(* GET_REPORT answers with the key the host last read off the endpoint, in *)
(* both forms of the request, from the moment the completion is processed. *)
GetReportAgrees ==
  mounted /\ endpoint.phase # "read" =>
    /\ GetReport(state, 3, 1) = <<host>>
    /\ GetReport(state, 0, 2) = <<3, host>>

(***************************************************************************)
(* A debounced press has ended: the only way the stable level falls        *)
(* without a reset, which would disarm the button as well.                 *)
(***************************************************************************)
PressEnds == state.stable /\ ~state'.stable /\ state'.armed

(* control.c:88-91 and emu/README.md: a Wake tap while suspended is always *)
(* a request to try resume again, for when its own gesture finds no room   *)
(* "the Wake already queued is what it asks for".  So the tap must leave a *)
(* Wake in the queue.                                                      *)
TapLeavesWakeQueued ==
  [][PressEnds /\ state.tracking /\ suspended
       /\ Since(state'.changed_at, state.pressed_at) < HoldMs
     => WakeIsPending(state')]_vars

(* A Wake waiting behind a sleeping host that lets the rig wake it does    *)
(* not wait for ever: the rig asks for resume, in this suspension and in   *)
(* every later one that finds the Wake still queued.                       *)
QueuedWakeResumesHost ==
  mounted /\ suspended /\ WakeIsPending(state) ~> ~suspended

(***************************************************************************)
(* The reports in the queue the host has not read yet.  One read, whose    *)
(* completion is still to be processed, is at the head of the queue.       *)
(***************************************************************************)
Undelivered ==
  LET read == IF endpoint.phase = "read" THEN 1 ELSE 0
  IN  IF mounted
      THEN [i \in 1 .. state.count - read |-> state.queue[Slot(state, read + i - 1)]]
      ELSE <<>>

Delivery == INSTANCE GestureDelivery
              WITH Keys <- Presses, NoKey <- Release, Capacity <- QueueSize,
                   pending <- Undelivered, down <- host

(* The rig's ring, retries and callbacks deliver whole gestures, in order, *)
(* each report exactly once.                                               *)
DeliversGestures == Delivery!PairSpec

(* The same with liveness: what waits is taken, by a host that is there    *)
(* and awake again and again.  It may suspend, or reset the bus, in        *)
(* between as often as it likes.                                           *)
DeliversGesturesFairly == ([]<>(mounted /\ ~suspended)) => Delivery!Served
=============================================================================
