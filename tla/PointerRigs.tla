----------------------------- MODULE PointerRigs -----------------------------
(***************************************************************************)
(* The two rigs that move a pointer, the Gameball and the Sculpt receiver:  *)
(* a build of emu/main.c is one of them, and they share the bus.           *)
(***************************************************************************)
EXTENDS SculptRig

CONSTANT GameballRevolutions    \* circles between the Gameball's scroll bursts (3)

ASSUME PointerAssumption ==
    /\ GameballRevolutions \in Nat \ {0}
    /\ Empty \notin [move : XYs, wheel : XYs]

VARIABLES
    rig,                                        \* which rig was built
    gb_tick, gb_revs, scroll_i, scrolling,      \* the Gameball's statics
    gb_pointer, pads                            \* and its host

Gameball ==
    INSTANCE GameballRig WITH
        Trackball <- Mouse, Revolutions <- GameballRevolutions,
        tick <- gb_tick, revs <- gb_revs, pointer <- gb_pointer

sculptVars == <<rigVars, protocol, hostVars, history>>
gameballVars == <<gb_tick, gb_revs, scroll_i, scrolling, gb_pointer, pads>>
allVars == <<rig, busVars, sculptVars, gameballVars>>

PointerInit == rig \in {"gameball", "sculpt"} /\ Init /\ Gameball!Init

Sculpt(action) == rig = "sculpt" /\ action /\ UNCHANGED <<rig, gameballVars>>
Ball(action) == rig = "gameball" /\ action /\ UNCHANGED <<rig, sculptVars>>

PointerNext == Sculpt(Next) \/ Ball(Gameball!Next)

PointerSpec == PointerInit /\ [][PointerNext]_allVars

(***************************************************************************)
(* As for the keyboard rigs: the loop, the clock, the mounting of a device  *)
(* that is plugged in and the polling of an awake host.                     *)
(***************************************************************************)
Fairness ==
    /\ SF_allVars(Sculpt(DeviceTask) \/ Ball(Gameball!Circles \/ Gameball!Scrolls))
    /\ SF_allVars(Sculpt(CollectsMouse) \/ Ball(Gameball!HostCollects))
    /\ SF_allVars(Sculpt(CollectsKey))
    /\ WF_allVars(TimePasses /\ UNCHANGED <<rig, sculptVars, gameballVars>>)
    /\ WF_allVars(BusMount /\ UNCHANGED <<rig, sculptVars, gameballVars>>)

FairPointerSpec == PointerSpec /\ Fairness

(***************************************************************************)
(* Properties                                                              *)
(***************************************************************************)
\* On either rig what the host has applied, what waits in the endpoint and what went down
\* with a lost enumeration make up exactly the step the rig is at: no refusal, suspension or
\* reset skips a delta of the circle or the scroll burst, or repeats one. A change of protocol
\* does not disturb the Sculpt's circle; found in boot protocol while it scrolls, the Sculpt
\* leaves out the rest of that burst, and what it has sent is the burst's beginning.
DeltasOnce == (rig = "sculpt" => EveryDeltaOnce) /\ (rig = "gameball" => Gameball!EveryDeltaOnce)

\* No rig stops half way: at a host that keeps waking up the Gameball circles and scrolls
\* again and again, and the Sculpt's F13, the positive control, keeps coming.
RigsKeepGoing ==
    /\ rig = "sculpt" => KeepsTapping
    /\ rig = "gameball" => Gameball!KeepsGoing
==============================================================================
