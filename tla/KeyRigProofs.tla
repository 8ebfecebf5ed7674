---------------------------- MODULE KeyRigProofs -----------------------------
(***************************************************************************)
(* For every size of the bitmap and every number of resets: no key is left  *)
(* down at the host without its release to follow.                         *)
(***************************************************************************)
EXTENDS KeyboardRig, TLAPS

Steps == 1..3
Before(s) == IF s = 1 THEN 3 ELSE s - 1

Typing ==
    /\ step \in Steps /\ pressed \in BOOLEAN
    /\ held \in [Rids -> SUBSET Nat]
    /\ ep \in [Itfs -> [rid : Rids, usages : SUBSET Nat] \cup {Empty}]

\* What waits in the endpoint is the press of the burst the rig holds, or the release of
\* the one before it.
PendingIsLatest ==
    ep[Kbd] # Empty =>
        ep[Kbd] = IF pressed THEN BurstReport(Script[step], TRUE)
                             ELSE BurstReport(Script[Before(step)], FALSE)

Inv == Typing /\ PendingIsLatest /\ DownMeansReleaseFollows

LEMMA KbdItf == Kbd \in Itfs
  BY RigBusAssumption DEF Kbd

\* The three bursts, one by one.
LEMMA ScriptFacts ==
    /\ Len(Script) = 3
    /\ \A s \in Steps : /\ Script[s].rid \in Rids
                        /\ Script[s].usages \in SUBSET Nat
                        /\ After(s) \in Steps /\ Before(After(s)) = s
<1>1. Len(Script) = 3
  BY DEF Script
<1>2. \A s \in Steps : Script[s].rid \in Rids /\ Script[s].usages \in SUBSET Nat
  <2>1. Script[1].rid \in Rids /\ Script[1].usages \in SUBSET Nat
    BY DEF Script, Rids
  <2>2. Script[2].rid \in Rids /\ Script[2].usages \in SUBSET Nat
    BY DEF Script, Rids
  <2>3. Script[3].rid \in Rids /\ Script[3].usages \in SUBSET Nat
    BY DEF Script, Rids
  <2> QED
    BY <2>1, <2>2, <2>3 DEF Steps
<1>3. \A s \in Steps : After(s) \in Steps /\ Before(After(s)) = s
  <2>1. After(1) = 2 /\ After(2) = 3 /\ After(3) = 1
    BY <1>1 DEF After
  <2> QED
    BY <2>1 DEF Steps, Before
<1> QED
  BY <1>1, <1>2, <1>3

LEMMA BurstFacts ==
    ASSUME NEW s \in Steps, NEW p
    PROVE  LET b == BurstReport(Script[s], p)
           IN  /\ b \in [rid : Rids, usages : SUBSET Nat]
               /\ b.rid = Script[s].rid
               /\ ~p => b = [rid |-> Script[s].rid, usages |-> {}]
  BY ScriptFacts DEF BurstReport

LEMMA ReleaseIsEmpty == \A s \in Steps : BurstReport(Script[s], FALSE).usages = {}
  BY DEF BurstReport

LEMMA Fields ==
    ASSUME NEW x, NEW r, NEW u, x = [rid |-> r, usages |-> u]
    PROVE  x.rid = r /\ x.usages = u
  OBVIOUS

LEMMA InitInv == Init => Inv
<1> SUFFICES ASSUME Init PROVE Inv
  OBVIOUS
<1>1. step = 1 /\ pressed = FALSE /\ held = [r \in Rids |-> {}] /\ ep = [i \in Itfs |-> Empty]
  BY DEF Init, BusInit
<1>2. Typing
  <2>1. step \in Steps
    BY <1>1 DEF Steps
  <2>4. pressed \in BOOLEAN
    BY <1>1, Zenon
  <2>2. held \in [Rids -> SUBSET Nat]
    BY <1>1
  <2>3. ep \in [Itfs -> [rid : Rids, usages : SUBSET Nat] \cup {Empty}]
    BY <1>1
  <2> QED
    BY <2>1, <2>2, <2>3, <2>4 DEF Typing
<1>3. PendingIsLatest
  BY <1>1, KbdItf DEF PendingIsLatest
<1>4. KeysDown = {}
  BY <1>1 DEF KeysDown
<1> QED
  BY <1>2, <1>3, <1>4 DEF Inv, DownMeansReleaseFollows

\* A report goes out: the endpoint was idle, so what is down is the burst the rig holds,
\* and what goes out is its release.
LEMMA SendsKeeps == Inv /\ Sends => Inv'
<1> SUFFICES ASSUME Inv, Sends PROVE Inv'
  OBVIOUS
<1> DEFINE report == BurstReport(Script[step], ~pressed)
<1>1. /\ ep[Kbd] = Empty /\ ep' = [ep EXCEPT ![Kbd] = report] /\ held' = held
      /\ pressed' = ~pressed /\ step' = IF pressed THEN After(step) ELSE step
  BY DEF Sends, Ready, SendOn
<1>2. /\ step \in Steps /\ pressed \in BOOLEAN
      /\ held \in [Rids -> SUBSET Nat]
      /\ ep \in [Itfs -> [rid : Rids, usages : SUBSET Nat] \cup {Empty}]
  BY DEF Inv, Typing
<1>3. report \in [rid : Rids, usages : SUBSET Nat] /\ report.rid = Script[step].rid
  BY <1>2, BurstFacts
<1>4. ep'[Kbd] = report
  BY <1>1, <1>2, KbdItf
<1>5. Typing'
  <2>1. step' \in Steps
    BY <1>1, <1>2, ScriptFacts
  <2>2. ep' \in [Itfs -> [rid : Rids, usages : SUBSET Nat] \cup {Empty}]
    BY <1>1, <1>2, <1>3
  <2> HIDE DEF report
  <2> QED
    BY <1>1, <1>2, <2>1, <2>2 DEF Typing
<1>6. PendingIsLatest'
  <2>1. CASE pressed
    <3>1. Before(step') = step /\ ~pressed' /\ report = BurstReport(Script[step], FALSE)
      BY <1>1, <1>2, <2>1, ScriptFacts
    <3> QED
      BY <1>4, <3>1 DEF PendingIsLatest
  <2>2. CASE ~pressed
    <3>1. step' = step /\ pressed' /\ report = BurstReport(Script[step], TRUE)
      BY <1>1, <1>2, <2>2
    <3> QED
      BY <1>4, <3>1 DEF PendingIsLatest
  <2> QED
    BY <2>1, <2>2
<1>7. DownMeansReleaseFollows'
  <2> SUFFICES ASSUME NEW r \in KeysDown
               PROVE  KeysDown = {r} /\ ep'[Kbd] = [rid |-> r, usages |-> {}]
    BY <1>1 DEF DownMeansReleaseFollows, KeysDown
  <2>1. ep[Kbd] # [rid |-> r, usages |-> {}]
    <3>1. [rid |-> r, usages |-> {}] \in [rid : Rids, usages : SUBSET Nat]
      BY DEF KeysDown
    <3> QED
      BY <1>1, <3>1, KeyRigAssumption DEF Rids
  <2>2. /\ KeysDown = {r} /\ pressed
        /\ BurstReport(Script[step], TRUE) = [rid |-> r, usages |-> held[r]]
    BY <2>1 DEF Inv, DownMeansReleaseFollows
  <2>3. Script[step].rid = r
    <3>1. BurstReport(Script[step], TRUE).rid = r
      BY <2>2, Fields, Zenon
    <3>2. BurstReport(Script[step], TRUE).rid = Script[step].rid
      BY <1>2, BurstFacts
    <3> QED
      BY <3>1, <3>2
  <2>4. report = BurstReport(Script[step], FALSE)
    BY <2>2
  <2>5. report = [rid |-> r, usages |-> {}]
    BY <1>2, <2>3, <2>4, BurstFacts
  <2> QED
    BY <1>4, <2>2, <2>5
<1> QED
  BY <1>5, <1>6, <1>7 DEF Inv

\* The host takes a report: a press found nothing down, a release lets go of all that was.
LEMMA CollectKeeps == Inv /\ HostCollects => Inv'
<1> SUFFICES ASSUME Inv, HostCollects PROVE Inv'
  OBVIOUS
<1> DEFINE report == ep[Kbd]
<1>1. /\ report # Empty /\ ep' = [ep EXCEPT ![Kbd] = Empty]
      /\ held' = [held EXCEPT ![report.rid] = report.usages]
      /\ step' = step /\ pressed' = pressed
  BY DEF HostCollects, Collect
<1>2. /\ step \in Steps /\ pressed \in BOOLEAN
      /\ held \in [Rids -> SUBSET Nat]
      /\ ep \in [Itfs -> [rid : Rids, usages : SUBSET Nat] \cup {Empty}]
  BY DEF Inv, Typing
<1>3. report \in [rid : Rids, usages : SUBSET Nat]
  BY <1>1, <1>2, KbdItf
<1>4. ep'[Kbd] = Empty
  BY <1>1, <1>2, KbdItf
<1>5. Typing'
  <2>1. ep' \in [Itfs -> [rid : Rids, usages : SUBSET Nat] \cup {Empty}]
    BY <1>1, <1>2
  <2>2. held' \in [Rids -> SUBSET Nat]
    BY <1>1, <1>2, <1>3
  <2> QED
    BY <1>1, <1>2, <2>1, <2>2 DEF Typing
<1>6. PendingIsLatest'
  BY <1>4 DEF PendingIsLatest
<1>7. \A r \in KeysDown : report = [rid |-> r, usages |-> {}]
  BY <1>1 DEF Inv, DownMeansReleaseFollows
<1>8. \A r \in Rids : held'[r] # {} => r = report.rid /\ held'[r] = report.usages
  <2> SUFFICES ASSUME NEW r \in Rids, held'[r] # {}, r # report.rid PROVE FALSE
    BY <1>1, <1>2, <1>3
  <2>1. held'[r] = held[r]
    BY <1>1, <1>2, <1>3
  <2>2. r \in KeysDown
    BY <2>1 DEF KeysDown
  <2>3. report = [rid |-> r, usages |-> {}]
    BY <1>7, <2>2
  <2>4. report.rid = r
    BY <2>3
  <2> QED
    BY <2>4
<1>9. report.usages # {} => pressed /\ report = BurstReport(Script[step], TRUE)
  <2>1. report = IF pressed THEN BurstReport(Script[step], TRUE)
                            ELSE BurstReport(Script[Before(step)], FALSE)
    BY <1>1 DEF Inv, PendingIsLatest
  <2>2. Before(step) \in Steps
    BY <1>2 DEF Before, Steps
  <2>3. BurstReport(Script[Before(step)], FALSE).usages = {}
    BY <2>2, ReleaseIsEmpty
  <2> QED
    BY <2>1, <2>3
<1>10. DownMeansReleaseFollows'
  <2> SUFFICES ASSUME NEW r \in KeysDown'
               PROVE  /\ KeysDown' = {r} /\ pressed'
                      /\ BurstReport(Script[step'], TRUE) = [rid |-> r, usages |-> held'[r]]
    BY <1>4 DEF DownMeansReleaseFollows
  <2>1. r \in Rids /\ held'[r] # {}
    BY DEF KeysDown
  <2>2. r = report.rid /\ held'[r] = report.usages
    BY <1>8, <2>1
  <2>3. KeysDown' = {r}
    BY <1>8, <2>1, <2>2 DEF KeysDown
  <2>4. pressed /\ report = BurstReport(Script[step], TRUE)
    BY <1>9, <2>1, <2>2
  <2>5. report = [rid |-> r, usages |-> held'[r]]
    BY <1>3, <2>2
  <2> QED
    BY <1>1, <2>3, <2>4, <2>5
<1> QED
  BY <1>5, <1>6, <1>10 DEF Inv

\* A lost enumeration: the host lets go of everything and nothing is pending.
LEMMA ForgetKeeps == Inv /\ HostForgets => Inv'
<1> SUFFICES ASSUME Inv, HostForgets PROVE Inv'
  OBVIOUS
<1>1. /\ ep' = [i \in Itfs |-> Empty] /\ held' = [r \in Rids |-> {}]
      /\ step' = step /\ pressed' = pressed
  BY DEF HostForgets, BusLost
<1>2. Typing'
  BY <1>1 DEF Inv, Typing
<1>3. PendingIsLatest'
  BY <1>1, KbdItf DEF PendingIsLatest
<1>4. KeysDown' = {}
  BY <1>1 DEF KeysDown
<1> QED
  BY <1>2, <1>3, <1>4 DEF Inv, DownMeansReleaseFollows

\* Everything else leaves the rig, the endpoint and the keys as they are.
LEMMA OthersKeep == Inv /\ UNCHANGED <<ep, step, pressed, held>> => Inv'
<1> SUFFICES ASSUME Inv, UNCHANGED <<ep, step, pressed, held>> PROVE Inv'
  OBVIOUS
<1>1. Typing'
  BY DEF Inv, Typing
<1>2. PendingIsLatest'
  BY DEF Inv, PendingIsLatest
<1>3. DownMeansReleaseFollows'
  BY DEF Inv, DownMeansReleaseFollows, KeysDown
<1> QED
  BY <1>1, <1>2, <1>3 DEF Inv

LEMMA StepInv == Inv /\ [Next]_vars => Inv'
<1> SUFFICES ASSUME Inv, [Next]_vars PROVE Inv'
  OBVIOUS
<1>1. CASE Sends
  BY <1>1, SendsKeeps
<1>2. CASE HostCollects
  BY <1>2, CollectKeeps
<1>3. CASE HostForgets
  BY <1>3, ForgetKeeps
<1>4. CASE (TimePasses \/ BusMount \/ BusSuspend \/ BusResume) /\ UNCHANGED rigVars
  BY <1>4, OthersKeep DEF TimePasses, BusMount, BusSuspend, BusResume, rigVars
<1>5. CASE Refused \/ UNCHANGED vars
  BY <1>5, OthersKeep DEF Refused, vars, busVars
<1> QED
  BY <1>1, <1>2, <1>3, <1>4, <1>5 DEF Next

\* No burst, refusal, suspension or lost enumeration leaves a key down at the host that the
\* rig is not about to release: for every bitmap and every host.
THEOREM ReleaseAlwaysFollows == Spec => []DownMeansReleaseFollows
<1>1. Inv => DownMeansReleaseFollows
  BY DEF Inv
<1> QED
  BY InitInv, StepInv, <1>1, PTL DEF Spec

-----------------------------------------------------------------------------
(***************************************************************************)
(* The line the host sees: what it saw pressed last is the burst the rig    *)
(* holds, once that press is collected, and the one before it otherwise.    *)
(***************************************************************************)
LastSeen ==
    /\ typed \in {0} \cup Steps
    /\ typed # 0 => IF pressed /\ ep[Kbd] = Empty THEN typed = step ELSE After(typed) = step

TypingInv == Inv /\ LastSeen

\* The bitmap has a bit for every usage the script types: a press carries the whole burst,
\* and the host can tell from it which burst it is.
BitmapHoldsScript == NkroBits > 56

LEMMA PressIsItsBurst ==
    ASSUME BitmapHoldsScript
    PROVE  /\ \A s \in Steps : BurstReport(Script[s], TRUE).usages = Script[s].usages
           /\ \A s \in Steps : (CHOOSE z \in DOMAIN Script : Script[z].usages = Script[s].usages) = s
<1>1. DOMAIN Script = Steps
  BY DEF Script, Steps
<1>2. /\ Script[1].usages = {4, 5, 6, 7, 8, 9} /\ Script[2].usages = {54, 55, 56}
      /\ Script[3].usages = {40}
  BY DEF Script
<1>3. \A s \in Steps : \A u \in Script[s].usages : u < NkroBits
  <2>1. NkroBits \in Nat /\ NkroBits > 56
    BY KeyRigAssumption DEF BitmapHoldsScript
  <2> QED
    BY <1>2, <2>1 DEF Steps
<1>4. \A s \in Steps : BurstReport(Script[s], TRUE).usages = Script[s].usages
  BY <1>3 DEF BurstReport
<1>5. \A s, z \in Steps : Script[z].usages = Script[s].usages => z = s
  <2>1. /\ 4 \in Script[1].usages /\ 54 \in Script[2].usages /\ 40 \in Script[3].usages
        /\ 4 \notin Script[2].usages /\ 4 \notin Script[3].usages
        /\ 54 \notin Script[1].usages /\ 54 \notin Script[3].usages
    BY <1>2
  <2> QED
    BY <2>1 DEF Steps
<1> QED
  BY <1>1, <1>4, <1>5

LEMMA SendsInOrder == TypingInv /\ Sends => LastSeen'
<1> SUFFICES ASSUME TypingInv, Sends PROVE LastSeen'
  OBVIOUS
<1>1. /\ ep[Kbd] = Empty /\ typed' = typed /\ pressed' = ~pressed
      /\ ep' = [ep EXCEPT ![Kbd] = BurstReport(Script[step], ~pressed)]
      /\ step' = IF pressed THEN After(step) ELSE step
  BY DEF Sends, Ready, SendOn
<1>2. step \in Steps /\ pressed \in BOOLEAN /\ ep \in [Itfs -> [rid : Rids, usages : SUBSET Nat] \cup {Empty}]
  BY DEF TypingInv, Inv, Typing
<1>3. ep'[Kbd] # Empty
  <2>1. BurstReport(Script[step], ~pressed) \in [rid : Rids, usages : SUBSET Nat]
    BY <1>2, BurstFacts
  <2>2. ep'[Kbd] = BurstReport(Script[step], ~pressed)
    BY <1>1, <1>2, KbdItf, Zenon
  <2> QED
    BY <2>1, <2>2, KeyRigAssumption DEF Rids
<1>4. typed # 0 => After(typed) = step'
  <2>1. CASE pressed
    BY <1>1, <2>1 DEF TypingInv, LastSeen
  <2>2. CASE ~pressed
    BY <1>1, <2>2 DEF TypingInv, LastSeen
  <2> QED
    BY <2>1, <2>2
<1> QED
  BY <1>1, <1>3, <1>4 DEF TypingInv, LastSeen

\* A report collected with a key in it is the press the rig holds.
LEMMA CollectedPress ==
    ASSUME BitmapHoldsScript, TypingInv, HostCollects
    PROVE  IF ep[Kbd].usages # {}
           THEN pressed /\ typed' = step /\ (typed # 0 => After(typed) = step)
           ELSE ~pressed /\ typed' = typed /\ (typed # 0 => After(typed) = step)
<1>1. /\ ep[Kbd] # Empty
      /\ typed' = IF ep[Kbd].usages # {}
                  THEN CHOOSE s \in DOMAIN Script : Script[s].usages = ep[Kbd].usages ELSE typed
  BY DEF HostCollects, Collect
<1>2. /\ step \in Steps /\ Before(step) \in Steps
      /\ ep[Kbd] = IF pressed THEN BurstReport(Script[step], TRUE)
                              ELSE BurstReport(Script[Before(step)], FALSE)
  <2>1. step \in Steps
    BY DEF TypingInv, Inv, Typing
  <2>2. Before(step) \in Steps
    BY <2>1 DEF Before, Steps
  <2> QED
    BY <1>1, <2>1, <2>2 DEF TypingInv, Inv, PendingIsLatest
<1>3. typed # 0 => After(typed) = step
  BY <1>1 DEF TypingInv, LastSeen
<1>4. CASE pressed
  <2>1. ep[Kbd].usages = Script[step].usages
    BY <1>2, <1>4, PressIsItsBurst
  <2>2. Script[step].usages # {}
    BY <1>2 DEF Steps, Script
  <2>3. typed' = step
    <3>1. typed' = CHOOSE s \in DOMAIN Script : Script[s].usages = Script[step].usages
      BY <1>1, <2>1, <2>2, Zenon
    <3> QED
      BY <1>2, <3>1, PressIsItsBurst, Zenon
  <2> QED
    BY <1>3, <1>4, <2>1, <2>2, <2>3
<1>5. CASE ~pressed
  <2>1. ep[Kbd].usages = {}
    BY <1>2, <1>5, ReleaseIsEmpty
  <2> QED
    BY <1>1, <1>3, <1>5, <2>1
<1> QED
  BY <1>4, <1>5

LEMMA TypingStep ==
    ASSUME BitmapHoldsScript, TypingInv, [Next]_vars
    PROVE  TypingInv'
<1>1. Inv'
  BY StepInv DEF TypingInv
<1>2. CASE Sends
  BY <1>1, <1>2, SendsInOrder DEF TypingInv
<1>3. CASE HostCollects
  <2>1. /\ ep'[Kbd] = Empty /\ pressed' = pressed /\ step' = step /\ step \in Steps
    BY <1>3, KbdItf DEF HostCollects, Collect, TypingInv, Inv, Typing
  <2>2. LastSeen'
    BY <1>3, <2>1, CollectedPress DEF TypingInv, LastSeen
  <2> QED
    BY <1>1, <2>2 DEF TypingInv
<1>4. CASE HostForgets
  BY <1>1, <1>4 DEF TypingInv, LastSeen, HostForgets
<1>5. CASE UNCHANGED <<ep, step, pressed, typed>>
  BY <1>1, <1>5 DEF TypingInv, LastSeen
<1> QED
  BY <1>2, <1>3, <1>4, <1>5
     DEF Next, Refused, TimePasses, BusMount, BusSuspend, BusResume, rigVars, vars, busVars

\* A step that empties the endpoint and keeps the bus is the host's collection.
LEMMA NoneSkipped ==
    ASSUME BitmapHoldsScript, TypingInv, [Next]_vars,
           ep[Kbd] # Empty, ep'[Kbd] = Empty, bus'.mounted, ep[Kbd].usages # {}
    PROVE  typed = 0 \/ typed' = After(typed)
<1>1. ~Sends
  BY DEF Sends, Ready
<1>2. ~HostForgets
  BY DEF HostForgets, BusLost
<1>3. HostCollects
  BY <1>1, <1>2
     DEF Next, Refused, TimePasses, BusMount, BusSuspend, BusResume, rigVars, vars, busVars
<1> QED
  BY <1>3, CollectedPress

\* For every bitmap that holds the script's usages, and whatever is refused, suspended or
\* enumerated again: the host sees the bursts in order, none skipped and none repeated.
THEOREM LineInOrder ==
    ASSUME BitmapHoldsScript
    PROVE  Spec => TypesInOrder
<1>1. Init => TypingInv
  BY InitInv DEF Init, TypingInv, LastSeen
<1>2. TypingInv /\ [Next]_vars => TypingInv'
  BY TypingStep
<1>3. TypingInv /\ [Next]_vars =>
          [(ep[Kbd] # Empty /\ ep'[Kbd] = Empty /\ bus'.mounted /\ ep[Kbd].usages # {})
              => typed = 0 \/ typed' = After(typed)]_vars
  BY NoneSkipped
<1> QED
  BY <1>1, <1>2, <1>3, PTL DEF Spec, TypesInOrder

\* The main loop, with the LED and an endpoint that opens late, takes no step of the rig that
\* the rig alone could not: what is proved of the rig holds in the loop.
LEMMA LoopSteps == [LoopNext]_loopVars => [Next]_vars
<1> SUFFICES ASSUME [LoopNext]_loopVars PROVE [Next]_vars
  OBVIOUS
<1>1. CASE PassSends
  BY <1>1 DEF PassSends, Next
<1>2. CASE PassIdles
  BY <1>2 DEF PassIdles, NothingDue, Next
<1>3. CASE RigTimePasses \/ Bus
  BY <1>3 DEF RigTimePasses, Bus, Next
<1>4. CASE LedTimePasses \/ EndpointOpens
  BY <1>4 DEF LedTimePasses, EndpointOpens
<1>5. CASE Lost \/ Collected
  BY <1>5 DEF Lost, Collected, Next
<1>6. CASE UNCHANGED loopVars
  BY <1>6 DEF loopVars
<1> QED
  BY <1>1, <1>2, <1>3, <1>4, <1>5, <1>6 DEF LoopNext

THEOREM LoopIsTheRig == LoopSpec => Spec
<1>1. LoopInit => Init
  BY DEF LoopInit
<1> QED
  BY <1>1, LoopSteps, PTL DEF LoopSpec, Spec

\* In the loop too, no key is left down without its release to follow.
COROLLARY LoopReleasesFollow == LoopSpec => []DownMeansReleaseFollows
  BY LoopIsTheRig, ReleaseAlwaysFollows, PTL

\* And the host sees the script's line there.
COROLLARY LoopTypesInOrder ==
    ASSUME BitmapHoldsScript
    PROVE  LoopSpec => TypesInOrder
  BY LoopIsTheRig, LineInOrder, PTL

-----------------------------------------------------------------------------
(***************************************************************************)
(* The LED: within a group the flashes are half the phases gone by, and the *)
(* code they stand for is the one latched when the group began.            *)
(***************************************************************************)
Group ==
    /\ latched \in 1..4 /\ phase \in 0 .. 2 * latched
    /\ phase # 0 => flashes \in Nat /\ 2 * flashes \in {phase, phase + 1}
    /\ shown.flashes = shown.code

LEMMA CodeIsOne == Led!LedCode \in 1..4
  BY DEF Led!LedCode, Led!Awake, Led!Itf

LEMMA FlashKeeps ==
    ASSUME NEW reports, Group, Led!Flash(reports)
    PROVE  Group'
<1>1. /\ latched' = IF phase = 0 THEN Led!LedCode ELSE latched
      /\ phase < 2 * latched' /\ phase' = phase + 1
      /\ lit' = (phase % 2 = 0)
      /\ flashes' = IF phase = 0 THEN 1 ELSE IF lit' THEN flashes + 1 ELSE flashes
      /\ UNCHANGED shown
  BY DEF Led!Flash
<1>2. latched' \in 1..4 /\ phase \in Nat
  BY <1>1, CodeIsOne DEF Group
<1>3. phase' \in 0 .. 2 * latched'
  BY <1>1, <1>2
<1>4. flashes' \in Nat /\ 2 * flashes' \in {phase', phase' + 1}
  <2>1. CASE phase = 0
    BY <1>1, <2>1
  <2>2. CASE phase # 0 /\ lit'
    <3>1. flashes' = flashes + 1 /\ phase % 2 = 0
      BY <1>1, <2>2, Zenon
    <3> QED
      BY <1>1, <1>2, <2>2, <3>1 DEF Group
  <2>3. CASE phase # 0 /\ ~lit'
    <3>1. flashes' = flashes /\ phase % 2 # 0
      BY <1>1, <2>3, Zenon
    <3> QED
      BY <1>1, <1>2, <2>3, <3>1 DEF Group
  <2> QED
    BY <2>1, <2>2, <2>3
<1> QED
  BY <1>1, <1>2, <1>3, <1>4 DEF Group

\* A group ends two phases per flash after it began, and is the code's own length.
LEMMA DarkGapKeeps ==
    ASSUME NEW reports, Group, Led!DarkGap(reports)
    PROVE  Group'
<1>1. /\ phase # 0 /\ phase >= 2 * latched /\ phase' = 0
      /\ shown' = [code |-> latched, flashes |-> flashes]
      /\ UNCHANGED latched
  BY DEF Led!DarkGap
<1>2. latched \in 1..4 /\ phase = 2 * latched
  BY <1>1 DEF Group
<1>3. flashes = latched
  BY <1>1, <1>2 DEF Group
<1> QED
  BY <1>1, <1>2, <1>3 DEF Group

LEMMA YieldKeeps ==
    ASSUME NEW reports, Group, Led!Yield(reports)
    PROVE  Group'
<1>1. phase' = 0 /\ shown' = [code |-> 0, flashes |-> 0] /\ UNCHANGED latched
  BY DEF Led!Yield, Led!NoGroup
<1> QED
  BY <1>1 DEF Group

LEMMA GroupRests == Group /\ UNCHANGED <<phase, latched, flashes, shown>> => Group'
  BY DEF Group

LEMMA GroupStarts == LoopInit => Group
  BY DEF LoopInit, Led!Init, Led!NoGroup, Group

LEMMA GroupStep == Group /\ [LoopNext]_loopVars => Group'
<1> SUFFICES ASSUME Group, [LoopNext]_loopVars PROVE Group'
  OBVIOUS
<1>1. CASE PassSends
  BY <1>1, YieldKeeps DEF PassSends
<1>2. CASE PassIdles
  <2>1. CASE Led!Yield(sent)
    BY <2>1, YieldKeeps
  <2>2. CASE Led!Flash(sent) \/ Led!DarkGap(sent)
    BY <2>2, FlashKeeps, DarkGapKeeps, Zenon
  <2>3. CASE Led!Holds(sent)
    BY <2>3, GroupRests DEF Led!Holds, Led!ledVars
  <2> QED
    BY <1>2, <2>1, <2>2, <2>3 DEF PassIdles, Led!LedTask
<1>3. CASE LedTimePasses
  BY <1>3, GroupRests DEF LedTimePasses, Led!LedTimePasses
<1>4. CASE RigTimePasses \/ Bus \/ Lost \/ EndpointOpens \/ Collected
  BY <1>4, GroupRests DEF RigTimePasses, Bus, Lost, EndpointOpens, Collected, ledVars
<1>5. CASE UNCHANGED loopVars
  BY <1>5, GroupRests DEF loopVars, ledVars
<1> QED
  BY <1>1, <1>2, <1>3, <1>4, <1>5 DEF LoopNext

\* Whatever the bus, the endpoint and the rig do between two flashes, a group that ends has
\* shown as many flashes as the one code it stands for.
THEOREM WholeGroups == LoopSpec => []GroupsAreWhole
<1>1. Group => GroupsAreWhole
  BY DEF Group, GroupsAreWhole, Led!GroupsAreWhole
<1> QED
  BY <1>1, GroupStarts, GroupStep, PTL DEF LoopSpec
==============================================================================
