------------------------------ MODULE KeyboardRig ------------------------------
(***************************************************************************)
(* The main loop of emu/main.c on a keyboard rig: device_task, then         *)
(* led_task, with nothing of USB in between, and TinyUSB between passes.    *)
(***************************************************************************)
EXTENDS KeyRig

VARIABLES
    usable,                                         \* the IN endpoint is open
    phase, latched, ledWaiting, lit, flashes, shown \* RigLed's

Led == INSTANCE RigLed

ledVars == <<phase, latched, ledWaiting, lit, flashes, shown>>
loopVars == <<vars, usable, ledVars>>

LoopInit == Init /\ Led!Init

\* One pass of the loop that sends a report.
PassSends ==
    /\ usable /\ Sends
    /\ lit' = ~pressed'
    /\ Led!Yield(TRUE)
    /\ UNCHANGED usable

\* One that does not: the rig waits, the endpoint is not ready, or the report is refused.
NothingDue == ~(usable /\ Ready(Kbd) /\ ~waiting) /\ UNCHANGED vars

PassIdles ==
    /\ (usable /\ Refused) \/ NothingDue
    /\ \/ Led!Yield(sent) /\ UNCHANGED lit
       \/ Led!LedTask(sent)
    /\ UNCHANGED usable

\* TinyUSB opens the endpoint once the host has configured the device, and drops it with
\* the configuration.
EndpointOpens == Awake /\ ~usable /\ usable' = TRUE /\ UNCHANGED <<vars, ledVars>>
Lost == HostForgets /\ usable' = FALSE /\ UNCHANGED ledVars

Bus == (BusMount \/ BusSuspend \/ BusResume) /\ UNCHANGED <<rigVars, usable, ledVars>>
Collected == HostCollects /\ UNCHANGED <<usable, ledVars>>
RigTimePasses == TimePasses /\ UNCHANGED <<rigVars, usable, ledVars>>
LedTimePasses == Led!LedTimePasses /\ UNCHANGED <<vars, usable>>

LoopNext ==
    \/ PassSends \/ PassIdles
    \/ RigTimePasses \/ LedTimePasses
    \/ Bus \/ Lost \/ EndpointOpens \/ Collected

LoopSpec == LoopInit /\ [][LoopNext]_loopVars

(***************************************************************************)
(* The loop and the clock run, an awake host keeps polling, and a rig that  *)
(* keeps offering a report is not refused for ever.  A host owes neither a  *)
(* resume nor an enumeration, and the endpoint may never open.              *)
(***************************************************************************)
LoopFairness ==
    /\ SF_loopVars(PassSends) /\ WF_loopVars(PassIdles)
    /\ WF_loopVars(RigTimePasses) /\ WF_loopVars(LedTimePasses)
    /\ SF_loopVars(Collected)

FairLoopSpec == LoopSpec /\ LoopFairness

(***************************************************************************)
(* Properties                                                              *)
(***************************************************************************)
\* Every group of flashes is whole and of one code (RigLed), whatever the bus and the rig
\* do between two flashes.
GroupsAreWhole == Led!GroupsAreWhole

\* "so a board that stops sending says why": once the host drops the rig for good, suspends
\* it for good, or leaves it awake with an endpoint that never opens, groups of that code
\* and no other end up on the LED.
SaysWhy ==
    /\ <>[](~bus.mounted) => <>[](shown.code = 1)
    /\ <>[](bus.mounted /\ bus.suspended) => <>[](shown.code = 2)
    /\ <>[](Awake /\ ~usable) => <>[](shown.code = 3)
==============================================================================
