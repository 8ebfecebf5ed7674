-------------------------- MODULE SleepWakeHistory --------------------------
(***************************************************************************)
(* SleepWake with a history variable: what really happened at the button   *)
(* and in the suspension, measured on a clock that does not wrap, so that  *)
(* what control.c decides from its 32-bit timestamps and its flags can be  *)
(* compared with it.  It has no influence on the rig; the one thing it     *)
(* bounds is how long the user keeps the button down.                      *)
(***************************************************************************)
EXTENDS SleepWake

CONSTANT MaxPressMs   \* bound: the user lets go at the latest after this long

ASSUME PressAssumption ==
  /\ MaxPressMs \in Nat
  /\ HoldMs <= MaxPressMs
  /\ MaxPressMs + MaxGapMs < TimeMod

(* Debouncing ends long before the clock comes round: 20 ms of 49 days.    *)
ASSUME SettleAssumption == DebounceMs + 2 * MaxGapMs < TimeMod

VARIABLE history

(* level    time since the sampled level last changed, or since the reset  *)
(* hold     time since the debounced press in progress began               *)
(* lit      the Sleep indication was lit during the debounced press        *)
(* rested   since the reset the button was once up for DebounceMs          *)
(* requests remote wakeups that may still be asked for in this suspension  *)
Fresh == [level |-> 0, hold |-> 0, lit |-> FALSE, rested |-> FALSE, requests |-> 0]

hvars == <<vars, history>>

(* Beyond this a level has long settled, and its age no longer matters.    *)
LevelCap == DebounceMs + MaxGapMs

PressBegins == ~state.stable /\ state'.stable

(* The age of the level this step samples. *)
LevelAge == IF state'.candidate = state.candidate THEN history.level ELSE 0

(* How long the debounced press that ends in this step was held. *)
PressLength == history.hold - LevelAge

AfterTick ==
  history' = [history EXCEPT !.level = IF @ < LevelCap THEN @ + 1 ELSE @,
                             !.hold = IF state.stable THEN @ + 1 ELSE 0]

(* A request is owed once when a suspension is first seen, and once more   *)
(* whenever a Wake tap ends during it.                                     *)
Owed ==
  \/ suspended /\ ~state.was_suspended
  \/ suspended /\ PressEnds /\ state.tracking /\ PressLength < HoldMs

AfterPoll(requested) ==
  LET owed == IF Owed THEN 1 ELSE history.requests
  IN  history' =
        [level    |-> LevelAge,
         hold     |-> IF PressBegins THEN LevelAge
                      ELSE IF state'.stable THEN history.hold ELSE 0,
         lit      |-> state'.stable /\ (history.lit \/ SleepArmed(state', now)),
         rested   |-> history.rested \/ (~state'.candidate /\ LevelAge >= DebounceMs),
         requests |-> IF ~suspended THEN 0 ELSE owed - requested]

HInit == Init /\ history = Fresh

HTick == Tick /\ AfterTick

HPollOffline == PollOffline /\ history' = Fresh

HPollWakes(pressed) == PollWakes(pressed) /\ AfterPoll(1)

HPollSubmits(pressed) == PollSubmits(pressed) /\ AfterPoll(0)

HPollQuiet(pressed) == PollQuiet(pressed) /\ AfterPoll(0)

HPoll(pressed) ==
  /\ pressed => history.hold < MaxPressMs
  /\ HPollWakes(pressed) \/ HPollSubmits(pressed) \/ HPollQuiet(pressed)

HReset == (Mount \/ Unplug) /\ history' = Fresh

HOther ==
  /\ ReportComplete \/ ReportFails \/ HostReads \/ Suspend \/ Resume \/ BusReset
  /\ UNCHANGED history

HNext ==
  \/ HTick \/ HPollOffline \/ HReset \/ HOther
  \/ \E pressed \in BOOLEAN : HPoll(pressed)

HSpec == HInit /\ [][HNext]_hvars

-----------------------------------------------------------------------------
HasRoom == state.count <= QueueSize - 2

Queues(usage) ==
  /\ state'.count = state.count + 2
  /\ state'.queue[Slot(state, state.count)] = usage
  /\ state'.queue[Slot(state, state.count + 1)] = Release

(* emu/README.md, the gesture table: how long the button was really down   *)
(* decides the command, whatever bounced at either edge and wherever the   *)
(* 32-bit clock wrapped; only a Sleep for a host already asleep is left    *)
(* out.                                                                    *)
LengthDecidesCommand ==
  [][PressEnds /\ state.tracking /\ HasRoom =>
       CASE PressLength < HoldMs -> Queues(SystemWake)
         [] PressLength >= HoldMs /\ ~suspended -> Queues(SystemSleep)
         [] OTHER -> state'.count = state.count]_hvars

(* emu/README.md, the LED table: solid means releasing sends Sleep.  Once  *)
(* lit during a press the promise holds until its end, through bounce and  *)
(* the clock's wrap, for an awake host and a queue with room.              *)
LedKeepsItsPromise ==
  [][PressEnds /\ history.lit /\ ~suspended /\ HasRoom => Queues(SystemSleep)]_hvars

(* A button held at boot or across re-enumeration sends nothing: a gesture *)
(* is queued only if the button had rested, debounced, since the last      *)
(* reset and before the press that ends in this step.                      *)
RestedBeforeGesture ==
  [][state'.count > state.count => history.rested]_hvars

(* Debouncing neither believes a level too early nor sits on one: a change *)
(* of the stable level takes a sampled level DebounceMs old, and no sample *)
(* disagrees with the stable level past the first poll after that.         *)
DebounceBothWays ==
  /\ [](mounted /\ state.candidate # state.stable => history.level < LevelCap)
  /\ [][PressBegins \/ PressEnds => LevelAge >= DebounceMs]_hvars

(* The host is asked to resume at most once per suspension and once more   *)
(* per Wake tap in it, never in a stream (control.c:95-98).                *)
RequestsAreOwed == history.requests >= 0
=============================================================================
