------------------------------- MODULE KeyRig --------------------------------
(***************************************************************************)
(* The 8BitDo and Ultra-Link rigs: a line typed burst by burst through two  *)
(* keyboard collections, each burst pressed and then released.             *)
(***************************************************************************)
EXTENDS RigBus

CONSTANTS NkroBits   \* usages the NKRO bitmap holds: 120 or 152

ASSUME KeyRigAssumption ==
    /\ NkroBits \in Nat
    /\ Empty \notin [rid : {"6kro", "nkro"}, usages : SUBSET Nat]

VARIABLES
    step, pressed,  \* device_task's statics
    held,           \* per report ID, the usages the host takes to be down
    typed           \* history: the last burst the host saw pressed, 0 if none since enumeration

vars == <<busVars, step, pressed, held, typed>>

Script == << [rid |-> "6kro", usages |-> {4, 5, 6, 7, 8, 9}],
             [rid |-> "nkro", usages |-> {54, 55, 56}],
             [rid |-> "nkro", usages |-> {40}] >>
Rids == {"6kro", "nkro"}
Kbd == CHOOSE i \in Itfs : TRUE

\* send_burst's report: six keycodes at most, or the usages the bitmap has a bit for.
BurstReport(b, press) ==
    [rid |-> b.rid,
     usages |-> IF press THEN { u \in b.usages : b.rid = "nkro" => u < NkroBits } ELSE {}]
Reports == { BurstReport(Script[s], p) : s \in DOMAIN Script, p \in BOOLEAN }

TypeOK ==
    /\ BusTypeOK(Reports)
    /\ step \in DOMAIN Script /\ pressed \in BOOLEAN
    /\ typed \in {0} \cup DOMAIN Script

Init ==
    /\ BusInit
    /\ step = 1 /\ pressed = FALSE
    /\ held = [r \in Rids |-> {}] /\ typed = 0

After(s) == (s % Len(Script)) + 1

\* device_task, when the report is accepted
SendsAdvancingOnPress ==
    /\ Ready(Kbd) /\ ~waiting
    /\ SendOn(Kbd, BurstReport(Script[step], ~pressed))
    /\ pressed' = ~pressed
    /\ step' = IF pressed THEN step ELSE After(step)
    /\ UNCHANGED <<bus, resets, held, typed>>

Sends ==
    /\ Ready(Kbd) /\ ~waiting
    /\ SendOn(Kbd, BurstReport(Script[step], ~pressed))
    /\ pressed' = ~pressed
    /\ step' = IF pressed THEN After(step) ELSE step
    /\ UNCHANGED <<bus, resets, held, typed>>

\* device_task, when tud_hid_report() refuses it: everything as it was
CountsRefused ==
    /\ Ready(Kbd) /\ ~waiting
    /\ pressed' = ~pressed /\ waiting' = TRUE
    /\ step' = IF pressed THEN After(step) ELSE step
    /\ UNCHANGED <<bus, resets, ep, sent, held, typed>>

Refused == Ready(Kbd) /\ ~waiting /\ UNCHANGED vars

\* The host takes a report: a new state for that collection's keys.
HostCollects ==
    /\ Collect(Kbd)
    /\ held' = [held EXCEPT ![ep[Kbd].rid] = ep[Kbd].usages]
    /\ typed' = IF ep[Kbd].usages # {}
                THEN CHOOSE s \in DOMAIN Script : Script[s].usages = ep[Kbd].usages ELSE typed
    /\ UNCHANGED <<step, pressed>>

\* A host that loses the device lets go of its keys.
HostForgets == BusLost /\ held' = [r \in Rids |-> {}] /\ typed' = 0 /\ UNCHANGED <<step, pressed>>
rigVars == <<step, pressed, held, typed>>

Next ==
    \/ Sends \/ Refused \/ HostCollects \/ HostForgets
    \/ (TimePasses \/ BusMount \/ BusSuspend \/ BusResume) /\ UNCHANGED rigVars

Spec == Init /\ [][Next]_vars

(***************************************************************************)
(* Properties                                                              *)
(***************************************************************************)
KeysDown == { r \in Rids : held[r] # {} }

\* Keys are down at the host in one collection at most, and only as the burst the rig has
\* pressed and not released, or with their release, on the same report ID, next to be
\* collected: no burst begins, and no reset, suspend or refusal passes, over a key left
\* down that nothing will release.
DownMeansReleaseFollows ==
    \A r \in KeysDown :
        /\ KeysDown = {r}
        /\ \/ /\ ep[Kbd] = Empty /\ pressed
              /\ BurstReport(Script[step], TRUE) = [rid |-> r, usages |-> held[r]]
           \/ ep[Kbd] = [rid |-> r, usages |-> {}]

\* From one enumeration to the next the host sees the bursts in the script's order, none
\* skipped and none repeated; the line typed is the script's line (the comment on `script`).
TypesInOrder ==
    [][ (ep[Kbd] # Empty /\ ep'[Kbd] = Empty /\ bus'.mounted /\ ep[Kbd].usages # {})
        => typed = 0 \/ typed' = After(typed) ]_vars

\* Keys down at a host that is awake again and again do come up.
KeysComeUp == ([]<>Awake) => (KeysDown # {} ~> KeysDown = {})
==============================================================================
