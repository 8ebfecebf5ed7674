----------------------------- MODULE GameballRig -----------------------------
(***************************************************************************)
(* The Gameball rig: three revolutions of the circle, then both scroll      *)
(* pads, and round again, on the trackball's interface.                    *)
(***************************************************************************)
EXTENDS RigBus, PointerPath

CONSTANTS
    Revolutions,    \* circles between scroll bursts (3)
    Trackball       \* the interface used

VARIABLES
    tick, revs, scroll_i, scrolling,  \* device_task's statics
    pointer, pads   \* where the moves and the scrolling that left the endpoint, applied by
                    \* the host or lost with an enumeration, add up to

gbVars == <<tick, revs, scroll_i, scrolling>>
hostVars == <<pointer, pads>>
vars == <<busVars, gbVars, hostVars>>

Report(move, wheel) == [move |-> move, wheel |-> wheel]
Init ==
    /\ BusInit
    /\ tick = 0 /\ revs = 0 /\ scroll_i = 0 /\ scrolling = FALSE
    /\ pointer = Zero /\ pads = Zero

Due == Ready(Trackball) /\ ~waiting

\* device_task while circling
Circles ==
    /\ Due /\ ~scrolling
    /\ SendOn(Trackball, Report(Circle[tick + 1], Zero))
    /\ tick' = (tick + 1) % CircleSteps
    /\ revs' = IF tick + 1 = CircleSteps THEN (revs + 1) % Revolutions ELSE revs
    /\ scrolling' = (tick + 1 = CircleSteps /\ revs + 1 = Revolutions)
    /\ UNCHANGED <<bus, resets, scroll_i, hostVars>>

\* device_task while scrolling
Scrolls ==
    /\ Due /\ scrolling
    /\ SendOn(Trackball, Report(Zero, Scroll[scroll_i + 1]))
    /\ scroll_i' = (scroll_i + 1) % ScrollSteps
    /\ scrolling' = (scroll_i + 1 < ScrollSteps)
    /\ UNCHANGED <<bus, resets, tick, revs, hostVars>>

\* tud_hid_n_report() refuses: the same step again later
SkipsRefused ==
    /\ Due /\ ~scrolling
    /\ tick' = (tick + 1) % CircleSteps
    /\ UNCHANGED <<busVars, revs, scroll_i, scrolling, hostVars>>

Refused == Due /\ UNCHANGED vars

Pending == IF ep[Trackball] = Empty THEN Report(Zero, Zero) ELSE ep[Trackball]

Leaves ==
    /\ pointer' = Plus(pointer, Pending.move)
    /\ pads' = Plus(pads, Pending.wheel)
    /\ UNCHANGED gbVars

HostCollects == Collect(Trackball) /\ Leaves

HostForgets == BusLost /\ Leaves

Next ==
    \/ Circles \/ Scrolls \/ Refused \/ HostCollects \/ HostForgets
    \/ (TimePasses \/ BusMount \/ BusSuspend \/ BusResume) /\ UNCHANGED <<gbVars, hostVars>>

Spec == Init /\ [][Next]_vars

(***************************************************************************)
(* Properties                                                              *)
(***************************************************************************)
\* What the host has applied, what waits in the endpoint and what went down with a lost
\* enumeration add up to the step the rig is at: refusals, suspensions and resets skip no
\* delta and repeat none, and a whole revolution or burst brings nothing but losses.
EveryDeltaOnce ==
    /\ Plus(pointer, Pending.move) = OnCircle[tick]
    /\ Plus(pads, Pending.wheel) = OnScroll[scroll_i]

\* Both phases come round for ever at a host that keeps waking up.
KeepsGoing == ([]<>Awake) => []<>scrolling /\ []<>(~scrolling /\ tick > 0)
==============================================================================
