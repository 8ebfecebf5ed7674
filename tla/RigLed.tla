------------------------------- MODULE RigLed --------------------------------
(***************************************************************************)
(* The rigs' onboard LED: device_task owns it while reports flow, and       *)
(* led_task flashes a numbered code, in whole groups, while they do not.    *)
(* The operators take what led_task finds in reports_sent > 0, which        *)
(* device_task, earlier in the same pass of the loop, may just have set.    *)
(***************************************************************************)
EXTENDS RigBus

VARIABLES
    usable,     \* the IN endpoint is open
    phase, latched, ledWaiting,  \* led_task's statics; next_ms as in RigBus
    lit,        \* the LED
    flashes,    \* history: flashes since the last dark gap, or since led_task took over
    shown       \* history: the last group to end, [code, flashes], zeroes if none since led_task took over

ledVars == <<phase, latched, ledWaiting, lit, flashes, shown>>

Itf == CHOOSE i \in Itfs : TRUE
NoGroup == [code |-> 0, flashes |-> 0]

Init ==
    /\ usable = FALSE /\ phase = 0 /\ latched = 1 /\ ledWaiting = FALSE
    /\ lit = FALSE /\ flashes = 0 /\ shown = NoGroup

LedCode ==
    CASE ~bus.mounted -> 1
      [] bus.mounted /\ bus.suspended -> 2
      [] Awake /\ ~(usable /\ ep[Itf] = Empty) -> 3
      [] Awake /\ usable /\ ep[Itf] = Empty -> 4

(***************************************************************************)
(* led_task                                                                *)
(***************************************************************************)
FlowingBlindly(reports) == reports /\ bus.mounted
Flowing(reports) == reports /\ bus.mounted /\ ~bus.suspended

YieldKeepsPlace(reports) ==
    /\ Flowing(reports)
    /\ ledWaiting' = FALSE /\ flashes' = 0 /\ shown' = NoGroup
    /\ UNCHANGED <<phase, latched>>

Yield(reports) ==
    /\ Flowing(reports)
    /\ phase' = 0 /\ ledWaiting' = FALSE /\ flashes' = 0 /\ shown' = NoGroup
    /\ UNCHANGED latched

Flash(reports) ==
    /\ ~Flowing(reports) /\ ~ledWaiting
    /\ latched' = IF phase = 0 THEN LedCode ELSE latched
    /\ phase < 2 * latched'
    /\ lit' = (phase % 2 = 0)
    /\ flashes' = IF phase = 0 THEN 1 ELSE IF lit' THEN flashes + 1 ELSE flashes
    /\ phase' = phase + 1 /\ ledWaiting' = TRUE
    /\ UNCHANGED shown

DarkGap(reports) ==
    /\ ~Flowing(reports) /\ ~ledWaiting
    /\ phase # 0 /\ phase >= 2 * latched
    /\ lit' = FALSE /\ phase' = 0 /\ ledWaiting' = TRUE
    /\ shown' = [code |-> latched, flashes |-> flashes]
    /\ UNCHANGED <<latched, flashes>>

Holds(reports) == ~Flowing(reports) /\ ledWaiting /\ UNCHANGED ledVars

\* What led_task leaves to the rig's own gpio_put while reports flow.
LedTask(reports) == Flash(reports) \/ DarkGap(reports) \/ Holds(reports)

LedTimePasses == ledWaiting /\ ledWaiting' = FALSE /\ UNCHANGED <<phase, latched, lit, flashes, shown>>

(***************************************************************************)
(* Properties                                                              *)
(***************************************************************************)
\* Every group that ends in its dark gap showed as many flashes as the code it stands for,
\* counted from the group's own start: none joined halfway after device_task had the LED,
\* and none changed while it was being shown.
GroupsAreWhole == shown.flashes = shown.code
==============================================================================
