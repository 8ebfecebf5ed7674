------------------------------ MODULE SculptRig ------------------------------
(***************************************************************************)
(* The Sculpt rig: circle, five clicks, scroll and tilt, one F13, pause,    *)
(* on two interfaces and in whichever protocol the host has chosen for the  *)
(* mouse.                                                                  *)
(***************************************************************************)
EXTENDS RigBus, PointerPath, FiniteSets

CONSTANTS
    Revolutions,    \* circles per cycle (3)
    Keyboard, Mouse \* the two interfaces used

ASSUME SculptAssumption ==
    /\ Revolutions \in Nat \ {0}
    /\ Itfs = {Keyboard, Mouse} /\ Keyboard # Mouse
    /\ Empty \notin [button : Nat, move : XYs, wheel : XYs] \cup [f13 : BOOLEAN]

Buttons == 5
NoButton == 0
Phases == {"circle", "click", "scroll", "key", "pause"}

VARIABLES
    phase, tick, revs, i, down,  \* device_task's statics
    protocol,                    \* what SET_PROTOCOL left on the mouse interface
    pointer,                     \* where the moves that left the endpoint, applied by the host
                                 \* or lost with an enumeration, add up to
    button, f13,                 \* what the host takes to be down
    clicked,                     \* history: the buttons pressed since the circle ended,
    scrolled,                    \* the scroll deltas that have left the endpoint since,
    cut                          \* and that there was no burst, or SET_PROTOCOL(boot) cut it short

rigVars == <<phase, tick, revs, i, down>>
hostVars == <<pointer, button, f13>>
history == <<clicked, scrolled, cut>>
vars == <<busVars, rigVars, protocol, hostVars, history>>

MouseReport(b, move, scroll) == [button |-> b, move |-> move, wheel |-> scroll]
KeyReport(press) == [f13 |-> press]
Init ==
    /\ BusInit
    /\ phase = "circle" /\ tick = 0 /\ revs = 0 /\ i = 0 /\ down = FALSE
    /\ protocol = "report"
    /\ pointer = Zero /\ button = NoButton /\ f13 = FALSE
    /\ clicked = {} /\ scrolled = <<>> /\ cut = TRUE

(***************************************************************************)
(* send_mouse: the boot layout has no field for the wheel.                 *)
(***************************************************************************)
SendMouse(b, move, scroll) ==
    SendOn(Mouse, MouseReport(b, move, IF protocol = "boot" THEN Zero ELSE scroll))

\* The circle has closed: the histories of the cycle's clicks and scrolling start afresh.
NewCycle == clicked' = {} /\ scrolled' = <<>> /\ cut' = FALSE

CirclesKeepingIndex ==
    /\ phase = "circle" /\ ~waiting /\ Ready(Mouse)
    /\ SendMouse(NoButton, Circle[tick + 1], Zero)
    /\ tick' = (tick + 1) % CircleSteps
    /\ revs' = IF tick + 1 = CircleSteps THEN (revs + 1) % Revolutions ELSE revs
    /\ \/ /\ tick + 1 = CircleSteps /\ revs + 1 = Revolutions
          /\ phase' = "click" /\ down' = FALSE /\ NewCycle /\ UNCHANGED i
       \/ /\ ~(tick + 1 = CircleSteps /\ revs + 1 = Revolutions)
          /\ UNCHANGED <<phase, i, down, history>>
    /\ UNCHANGED <<bus, resets, protocol, hostVars>>

Circles ==
    /\ phase = "circle" /\ ~waiting /\ Ready(Mouse)
    /\ SendMouse(NoButton, Circle[tick + 1], Zero)
    /\ tick' = (tick + 1) % CircleSteps
    /\ revs' = IF tick + 1 = CircleSteps THEN (revs + 1) % Revolutions ELSE revs
    /\ \/ /\ tick + 1 = CircleSteps /\ revs + 1 = Revolutions
          /\ phase' = "click" /\ i' = 0 /\ down' = FALSE /\ NewCycle
       \/ /\ ~(tick + 1 = CircleSteps /\ revs + 1 = Revolutions)
          /\ UNCHANGED <<phase, i, down, history>>
    /\ UNCHANGED <<bus, resets, protocol, hostVars>>

Presses ==
    /\ phase = "click" /\ ~waiting /\ Ready(Mouse) /\ ~down
    /\ SendMouse(i + 1, Zero, Zero)
    /\ down' = TRUE
    /\ clicked' = clicked \cup {i + 1}
    /\ UNCHANGED <<bus, resets, phase, tick, revs, i, protocol, hostVars, scrolled, cut>>

Releases ==
    /\ phase = "click" /\ ~waiting /\ Ready(Mouse) /\ down
    /\ SendMouse(NoButton, Zero, Zero)
    /\ down' = FALSE
    /\ i' = (i + 1) % Buttons
    /\ phase' = IF i + 1 = Buttons THEN "scroll" ELSE "click"
    /\ UNCHANGED <<bus, resets, tick, revs, protocol, hostVars, history>>

\* No scrolling in boot protocol: nothing to put it in.
ScrollSkipped ==
    /\ phase = "scroll" /\ ~waiting /\ protocol = "boot"
    /\ phase' = "key" /\ down' = FALSE
    /\ cut' = TRUE
    /\ UNCHANGED <<busVars, tick, revs, i, protocol, hostVars, clicked, scrolled>>

NextScroll ==
    /\ i' = (i + 1) % ScrollSteps
    /\ phase' = IF i + 1 = ScrollSteps THEN "key" ELSE "scroll"
    /\ down' = IF i + 1 = ScrollSteps THEN FALSE ELSE down

Scrolls ==
    /\ phase = "scroll" /\ ~waiting /\ protocol = "report" /\ Ready(Mouse)
    /\ SendMouse(NoButton, Zero, Scroll[i + 1])
    /\ NextScroll
    /\ UNCHANGED <<bus, resets, tick, revs, protocol, hostVars, history>>

KeyOnce ==
    /\ phase = "key" /\ ~waiting /\ Ready(Keyboard)
    /\ SendOn(Keyboard, KeyReport(~down))
    /\ down' = ~down /\ phase' = "pause"
    /\ UNCHANGED <<bus, resets, tick, revs, i, protocol, hostVars, history>>

Key ==
    /\ phase = "key" /\ ~waiting /\ Ready(Keyboard)
    /\ SendOn(Keyboard, KeyReport(~down))
    /\ down' = ~down
    /\ phase' = IF down THEN "pause" ELSE "key"
    /\ UNCHANGED <<bus, resets, tick, revs, i, protocol, hostVars, history>>

PausesForGood == phase = "pause" /\ ~waiting /\ UNCHANGED vars

Pauses ==
    /\ phase = "pause" /\ ~waiting
    /\ phase' = "circle"
    /\ UNCHANGED <<busVars, tick, revs, i, down, protocol, hostVars, history>>

RefusedSkipsScroll ==
    /\ phase = "scroll" /\ ~waiting /\ Awake
    /\ NextScroll
    /\ UNCHANGED <<busVars, tick, revs, protocol, hostVars, history>>

\* A refused report leaves every phase where it is.
Refused == phase # "pause" /\ ~waiting /\ Awake /\ UNCHANGED vars

DeviceTask == Circles \/ Presses \/ Releases \/ ScrollSkipped \/ Scrolls \/ Key \/ Pauses

(***************************************************************************)
(* The host                                                                *)
(***************************************************************************)
Pending == IF ep[Mouse] = Empty THEN MouseReport(NoButton, Zero, Zero) ELSE ep[Mouse]

\* The scroll deltas of this cycle, the one that waits in the endpoint included.
Burst == IF Pending.wheel = Zero THEN scrolled ELSE Append(scrolled, Pending.wheel)

CollectsMouse ==
    /\ Collect(Mouse)
    /\ button' = ep[Mouse].button
    /\ pointer' = Plus(pointer, ep[Mouse].move)
    /\ scrolled' = Burst
    /\ UNCHANGED <<rigVars, protocol, f13, clicked, cut>>

CollectsKey ==
    /\ Collect(Keyboard)
    /\ f13' = ep[Keyboard].f13
    /\ UNCHANGED <<rigVars, protocol, pointer, button, history>>

SetProtocol ==
    /\ Awake
    /\ protocol' = IF protocol = "boot" THEN "report" ELSE "boot"
    /\ UNCHANGED <<busVars, rigVars, hostVars, history>>

\* A lost enumeration lets go of buttons and keys, and puts the mouse back in report protocol.
HostForgets ==
    /\ BusLost
    /\ button' = NoButton /\ f13' = FALSE /\ protocol' = "report"
    /\ pointer' = Plus(pointer, Pending.move)
    /\ scrolled' = Burst
    /\ UNCHANGED <<rigVars, clicked, cut>>

Others == <<rigVars, protocol, hostVars, history>>

Next ==
    \/ Circles \/ Presses \/ Releases \/ ScrollSkipped \/ Scrolls \/ Key \/ Pauses \/ Refused
    \/ CollectsMouse \/ CollectsKey \/ SetProtocol \/ HostForgets
    \/ (TimePasses \/ BusMount \/ BusSuspend \/ BusResume) /\ UNCHANGED Others

Spec == Init /\ [][Next]_vars

(***************************************************************************)
(* Properties                                                              *)
(***************************************************************************)
\* A button or F13 is down at the host only while the rig stands between its press and its
\* release, or with the release next to be collected on the same interface: not into the
\* next phase, through a change of protocol, nor over a lost enumeration.
NothingStuck ==
    /\ button # NoButton =>
          \/ phase = "click" /\ down /\ button = i + 1 /\ ep[Mouse] = Empty
          \/ ep[Mouse] = MouseReport(NoButton, Zero, Zero)
    /\ f13 =>
          \/ phase = "key" /\ down /\ ep[Keyboard] = Empty
          \/ ep[Keyboard] = KeyReport(FALSE)

\* Every cycle presses all five buttons, wherever the last one was when the host switched
\* it to boot protocol: the index the clicks and the scrolling share starts afresh.
FiveClicks == phase \in {"scroll", "key", "pause"} => clicked = 1..Buttons

\* As on the Gameball: applied, pending and lost moves add up to the step of the circle.
CircleOnce == Plus(pointer, Pending.move) = OnCircle[tick]

\* The scroll deltas of a cycle are those of the burst, each once and in order: the first i
\* while the rig scrolls, all of them afterwards. A rig found in boot protocol while it
\* scrolls leaves out the rest, and then they stay the first i of the burst.
BurstDue ==
    IF phase = "click" THEN <<>>
    ELSE IF phase = "scroll" \/ cut THEN SubSeq(Scroll, 1, i) ELSE Scroll

BurstOnce == Burst = BurstDue

\* No refusal, suspension or reset, and no change of protocol but the one that cuts a burst
\* short, skips a delta or repeats one.
EveryDeltaOnce == CircleOnce /\ BurstOnce

\* The positive control keeps coming: at a host that keeps waking up, F13 goes down again
\* and again, in whichever protocol, however often the protocol changes.
KeepsTapping == ([]<>Awake) => []<>f13 /\ []<>(phase = "circle")
==============================================================================
