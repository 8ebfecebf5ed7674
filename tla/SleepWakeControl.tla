-------------------------- MODULE SleepWakeControl --------------------------
(***************************************************************************)
(* The BOOTSEL Sleep/Wake rig's control code, emu/sleepwake/control.c: one *)
(* static control_state_t and the functions that read and replace it.      *)
(* Each operator maps the record before a stretch of the code to the       *)
(* record after it; SleepWake composes them into the firmware's loop and   *)
(* its USB callbacks.                                                      *)
(*                                                                         *)
(* Times are the low 32 bits of the millisecond clock.  TimeMod stands for *)
(* 2^32, and every comparison is made on Since, so it survives the wrap    *)
(* exactly as the code's (uint32_t)(now - then) does.                      *)
(***************************************************************************)
EXTENDS Integers

CONSTANTS
  QueueSize,    \* QUEUE_SIZE: report slots, two for each gesture
  DebounceMs,   \* BUTTON_DEBOUNCE_MS
  HoldMs,       \* BUTTON_HOLD_MS: a press this long means Sleep
  GuardMs,      \* SUSPEND_GUARD_MS: bus idle time before a remote wakeup
  TimeMod       \* the clock counts modulo this (2^32)

ASSUME QueueAssumption == QueueSize \in Nat \ {0} /\ QueueSize % 2 = 0

ASSUME TimeAssumption ==
  /\ TimeMod \in Nat \ {0}
  /\ DebounceMs \in 0 .. TimeMod - 1
  /\ HoldMs \in 0 .. TimeMod - 1
  /\ GuardMs \in 0 .. TimeMod - 1

Release     == 0     \* the report that lets go of whatever key is down
SystemSleep == 130   \* 0x82
SystemWake  == 131   \* 0x83

Presses == {SystemSleep, SystemWake}
Usages  == Presses \cup {Release}
Slots   == 0 .. QueueSize - 1
Times   == 0 .. TimeMod - 1

ControlState ==
  [candidate: BOOLEAN, stable: BOOLEAN, armed: BOOLEAN, tracking: BOOLEAN,
   changed_at: Times, pressed_at: Times,
   queue: [Slots -> Usages], head: Slots, count: 0 .. QueueSize,
   current: Usages,
   in_flight: BOOLEAN, was_suspended: BOOLEAN, wake_attempted: BOOLEAN,
   suspended_at: Times]

Since(t, then) == (t - then) % TimeMod

(* sleepwake_reset: every field back to zero but the debounce timer. *)
Reset(t) ==
  [candidate |-> FALSE, stable |-> FALSE, armed |-> FALSE, tracking |-> FALSE,
   changed_at |-> t, pressed_at |-> 0,
   queue |-> [slot \in Slots |-> Release], head |-> 0, count |-> 0,
   current |-> Release,
   in_flight |-> FALSE, was_suspended |-> FALSE, wake_attempted |-> FALSE,
   suspended_at |-> 0]

Busy(s) == s.count # 0

(* Mutant: the LED lights for a press that is not tracked. *)
SleepArmedUntracked(s, t) ==
  s.stable /\ s.candidate /\ Since(t, s.pressed_at) >= HoldMs

(* The LED's promise: letting go of the button now sends Sleep. *)
SleepArmed(s, t) ==
  s.tracking /\ s.stable /\ s.candidate /\ Since(t, s.pressed_at) >= HoldMs

Slot(s, i) == (s.head + i) % QueueSize

(* Mutant: room is reserved for the press alone. *)
EnqueueOneShort(s, usage) ==
  IF s.count > QueueSize - 1 THEN s
  ELSE [s EXCEPT !.queue = [@ EXCEPT ![Slot(s, s.count)]     = usage,
                                     ![Slot(s, s.count + 1)] = Release],
                 !.count = @ + 2,
                 !.wake_attempted = @ /\ usage # SystemWake]

(* Mutant: the two reports of a gesture the wrong way round. *)
EnqueueReleaseFirst(s, usage) ==
  IF s.count > QueueSize - 2 THEN s
  ELSE [s EXCEPT !.queue = [@ EXCEPT ![Slot(s, s.count)]     = Release,
                                     ![Slot(s, s.count + 1)] = usage],
                 !.count = @ + 2,
                 !.wake_attempted = @ /\ usage # SystemWake]

(* Mutant: with one slot left, the press goes in without its release. *)
EnqueuePressOnly(s, usage) ==
  CASE s.count = QueueSize -> s
    [] s.count = QueueSize - 1 ->
         [s EXCEPT !.queue[Slot(s, s.count)] = usage, !.count = @ + 1]
    [] OTHER -> [s EXCEPT !.queue = [@ EXCEPT ![Slot(s, s.count)]     = usage,
                                              ![Slot(s, s.count + 1)] = Release],
                          !.count = @ + 2,
                          !.wake_attempted = @ /\ usage # SystemWake]

(* A press takes its release's slot with its own, or neither is queued. *)
Enqueue(s, usage) ==
  IF s.count > QueueSize - 2 THEN s
  ELSE [s EXCEPT !.queue = [@ EXCEPT ![Slot(s, s.count)]     = usage,
                                     ![Slot(s, s.count + 1)] = Release],
                 !.count = @ + 2,
                 !.wake_attempted = @ /\ usage # SystemWake]

WakeIsPending(s) ==
  \E i \in 0 .. s.count - 1 : s.queue[Slot(s, i)] = SystemWake

-----------------------------------------------------------------------------
(***************************************************************************)
(* sleepwake_task while mounted, in the order the code takes its steps.    *)
(***************************************************************************)

(* Mutant: a second suspension finds the first one's request still spent. *)
SuspendEdgeKeepsAttempt(s, t, suspended) ==
  [s EXCEPT !.suspended_at  = IF suspended /\ ~s.was_suspended THEN t ELSE @,
            !.was_suspended = suspended]

(* The first poll of a suspension times it and owes it a wakeup request. *)
SuspendEdge(s, t, suspended) ==
  LET edge == suspended /\ ~s.was_suspended
  IN  [s EXCEPT !.suspended_at   = IF edge THEN t ELSE @,
                !.wake_attempted = @ /\ ~edge,
                !.was_suspended  = suspended]

(* Mutant: only a press restarts the debounce timer. *)
SampleTimesPressOnly(s, t, pressed) ==
  IF pressed = s.candidate THEN s
  ELSE [s EXCEPT !.candidate = pressed, !.changed_at = IF pressed THEN t ELSE @]

(* Any change of the sampled level restarts the debounce timer. *)
Sample(s, t, pressed) ==
  IF pressed = s.candidate THEN s
  ELSE [s EXCEPT !.candidate = pressed, !.changed_at = t]

(* Mutant: a press counts whether or not the button was armed. *)
PressAlwaysTracked(s) ==
  [s EXCEPT !.stable = TRUE, !.tracking = TRUE, !.pressed_at = s.changed_at]

Press(s) ==
  [s EXCEPT !.stable = TRUE, !.tracking = s.armed, !.pressed_at = s.changed_at]

(* Mutant: the threshold itself still counts as a tap. *)
GestureUsageStrict(s) ==
  IF Since(s.changed_at, s.pressed_at) > HoldMs THEN SystemSleep ELSE SystemWake

GestureUsage(s) ==
  IF Since(s.changed_at, s.pressed_at) >= HoldMs THEN SystemSleep ELSE SystemWake

(* The end of a tracked press queues its gesture; a host already suspended *)
(* takes no Sleep, and a Wake tap lets it be asked to resume once more.    *)
LetGo(s, suspended) ==
  LET usage  == GestureUsage(s)
      wanted == s.tracking /\ (usage = SystemWake \/ ~suspended)
      retry  == s.tracking /\ usage = SystemWake /\ suspended
  IN  [(IF wanted THEN Enqueue(s, usage) ELSE s) EXCEPT
         !.wake_attempted = @ /\ ~retry,
         !.stable = FALSE, !.tracking = FALSE, !.armed = TRUE]

(* A level that lasted DebounceMs becomes the stable one; a stable release *)
(* arms the button.                                                        *)
Settle(s, t, suspended) ==
  CASE Since(t, s.changed_at) < DebounceMs -> s
    [] Since(t, s.changed_at) >= DebounceMs /\ s.candidate = s.stable ->
         [s EXCEPT !.armed = @ \/ ~s.stable]
    [] Since(t, s.changed_at) >= DebounceMs /\ s.candidate /\ ~s.stable -> Press(s)
    [] OTHER -> LetGo(s, suspended)

Observe(s, t, pressed, suspended) ==
  Settle(Sample(SuspendEdge(s, t, suspended), t, pressed), t, suspended)

WantsWakeup(s, t) ==
  WakeIsPending(s) /\ ~s.wake_attempted /\ Since(t, s.suspended_at) >= GuardMs

-----------------------------------------------------------------------------
(***************************************************************************)
(* The transfer callbacks, for the rig's one interface and endpoint.       *)
(***************************************************************************)

(* tud_hid_report_complete_cb: only the head, and only while it is in      *)
(* flight, is retired by the completion of a transfer.                     *)
Complete(s, usage) ==
  IF ~s.in_flight \/ s.count = 0 \/ usage # s.queue[s.head] THEN s
  ELSE [s EXCEPT !.current = usage, !.head = Slot(s, 1), !.count = @ - 1,
                 !.in_flight = FALSE]

(* Mutant: the failure is ignored. *)
FailForgotten(s) == s

(* Mutant: a failed transfer is retired like a completed one. *)
FailRetires(s) ==
  [s EXCEPT !.head = Slot(s, 1), !.count = @ - 1, !.in_flight = FALSE]

(* tud_hid_report_fail_cb: the head stays queued for another attempt. *)
Fail(s) == [s EXCEPT !.in_flight = FALSE]

(* tud_hid_get_report_cb for input reports: the payload it answers with. *)
GetReport(s, report_id, reqlen) ==
  CASE reqlen >= 1 /\ report_id = 3 -> <<s.current>>
    [] reqlen >= 2 /\ report_id = 0 -> <<3, s.current>>
    [] OTHER -> <<>>
=============================================================================
