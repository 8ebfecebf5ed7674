------------------------------- MODULE RigBus --------------------------------
(***************************************************************************)
(* What the four device rigs of emu/main.c share: the loop, the deadline    *)
(* each rig waits for, the mount callback, and TinyUSB with a host.         *)
(*                                                                         *)
(* Every deadline is one of now_ms()'s 64 bits, so it never wraps, and a    *)
(* rig only asks whether it has passed: one flag stands for it.            *)
(***************************************************************************)
EXTENDS Integers, Sequences

CONSTANTS
    Itfs,       \* HID interfaces, one IN endpoint each
    Empty,      \* an endpoint with nothing to send
    MaxResets   \* bound: bus resets and unplugs in a behaviour

ASSUME RigBusAssumption == Itfs # {} /\ MaxResets \in Nat

VARIABLES
    bus,        \* [mounted, suspended]
    resets,     \* enumerations lost so far
    ep,         \* per interface, the report the host has yet to collect, or Empty
    waiting,    \* now_ms() < next_ms
    sent        \* reports_sent > 0

busVars == <<bus, resets, ep, waiting, sent>>

BusTypeOK(Reports) ==
    /\ bus \in [mounted : BOOLEAN, suspended : BOOLEAN]
    /\ resets \in 0..MaxResets
    /\ ep \in [Itfs -> Reports \cup {Empty}]
    /\ waiting \in BOOLEAN /\ sent \in BOOLEAN

BusInit ==
    /\ bus = [mounted |-> FALSE, suspended |-> FALSE]
    /\ resets = 0 /\ ep = [i \in Itfs |-> Empty]
    /\ waiting = TRUE          \* GRACE_MS
    /\ sent = FALSE

Awake == bus.mounted /\ ~bus.suspended
Ready(i) == Awake /\ ep[i] = Empty

\* A report goes out on interface i; the rig then waits for its next deadline.
SendOn(i, report) ==
    /\ ep' = [ep EXCEPT ![i] = report]
    /\ sent' = TRUE /\ waiting' = TRUE

(***************************************************************************)
(* The environment                                                         *)
(***************************************************************************)
TimePasses == waiting /\ waiting' = FALSE /\ UNCHANGED <<bus, resets, ep, sent>>

BusMount ==
    /\ ~bus.mounted
    /\ bus' = [mounted |-> TRUE, suspended |-> FALSE]
    /\ sent' = FALSE
    /\ UNCHANGED <<resets, ep, waiting>>

\* A reset or an unplug; what had not been collected is dropped with the endpoint.
BusLost ==
    /\ bus.mounted /\ resets < MaxResets
    /\ bus' = [mounted |-> FALSE, suspended |-> FALSE]
    /\ resets' = resets + 1
    /\ ep' = [i \in Itfs |-> Empty]
    /\ UNCHANGED <<waiting, sent>>

BusSuspend == Awake /\ bus' = [bus EXCEPT !.suspended = TRUE] /\ UNCHANGED <<resets, ep, waiting, sent>>
BusResume == bus.suspended /\ bus' = [bus EXCEPT !.suspended = FALSE] /\ UNCHANGED <<resets, ep, waiting, sent>>

Collect(i) ==
    /\ Awake /\ ep[i] # Empty
    /\ ep' = [ep EXCEPT ![i] = Empty]
    /\ UNCHANGED <<bus, resets, waiting, sent>>
==============================================================================
