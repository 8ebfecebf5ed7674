-------------------------- MODULE PointerRigsProofs --------------------------
(***************************************************************************)
(* For any number of revolutions and of resets: the pointing rigs send each *)
(* delta of the circle and the scroll burst once and in order, though boot  *)
(* protocol may cut a burst of the Sculpt short, and leave no button and no *)
(* key down behind them.                                                   *)
(***************************************************************************)
EXTENDS PointerRigs, SequenceTheorems, ProofLemmas

(***************************************************************************)
(* The tables, and where they lead.                                        *)
(***************************************************************************)

LEMMA PlusType ==
  ASSUME NEW a \in XYs, NEW b \in XYs
  PROVE  Plus(a, b) \in XYs /\ Plus(a, Zero) = a
  BY DEF Plus, Zero, XY, XYs

\* f is where the first n steps of the table lead.
Leads(f, table, n) ==
  f = [m \in 0 .. n |-> IF m = 0 THEN Zero ELSE Plus(f[m - 1], table[m])]

LEMMA PathExists ==
  ASSUME NEW table \in Seq(XYs), NEW n \in Nat
  PROVE  \E f \in [0 .. n -> XYs] : n <= Len(table) => Leads(f, table, n)
<1> DEFINE T == {m \in Nat : \E f \in [0 .. m -> XYs] :
                                m <= Len(table) => Leads(f, table, m)}
<1>1. 0 \in T
  <2> DEFINE f == [m \in 0 .. 0 |-> Zero]
  <2>1. f \in [0 .. 0 -> XYs]
    BY DEF Zero, XY, XYs
  <2>2. f[0] = Zero
    OBVIOUS
  <2>3. Leads(f, table, 0)
    BY DEF Leads
  <2> QED
    BY <2>1, <2>3
<1>2. ASSUME NEW m \in Nat, m \in T
      PROVE  m + 1 \in T
  <2>1. PICK f \in [0 .. m -> XYs] : m <= Len(table) => Leads(f, table, m)
    BY <1>2
  <2>2. CASE m + 1 <= Len(table)
    <3>1. table[m + 1] \in XYs /\ m <= Len(table) /\ Len(table) \in Nat
      BY <2>2
    <3> DEFINE g == [k \in 0 .. m + 1 |-> IF k = m + 1 THEN Plus(f[m], table[m + 1])
                                                       ELSE f[k]]
    <3>2. g \in [0 .. m + 1 -> XYs]
      BY <3>1, PlusType
    <3>3. \A k \in 0 .. m : g[k] = f[k] /\ g[m + 1] = Plus(f[m], table[m + 1])
      OBVIOUS
    <3>4. \A k \in 0 .. m : f[k] = IF k = 0 THEN Zero ELSE Plus(f[k - 1], table[k])
      BY <2>1, <3>1 DEF Leads
    <3>5. ASSUME NEW k \in 0 .. m + 1
          PROVE  g[k] = IF k = 0 THEN Zero ELSE Plus(g[k - 1], table[k])
      <4>1. CASE k = m + 1
        BY <3>3, <4>1
      <4>2. CASE k \in 0 .. m
        <5>1. k # 0 => k - 1 \in 0 .. m
          BY <4>2
        <5> QED
          BY <3>3, <3>4, <4>2, <5>1
      <4> QED
        BY <4>1, <4>2
    <3> HIDE DEF g
    <3>6. Leads(g, table, m + 1)
      BY <3>2, <3>5 DEF Leads
    <3> QED
      BY <3>2, <3>6
  <2>3. CASE ~(m + 1 <= Len(table))
    <3>1. [k \in 0 .. m + 1 |-> Zero] \in [0 .. m + 1 -> XYs]
      BY DEF Zero, XY, XYs
    <3> QED
      BY <2>3, <3>1
  <2> QED
    BY <2>2, <2>3
<1> HIDE DEF T
<1>3. Nat \subseteq T
  BY <1>1, <1>2, SetInduction
<1> QED
  BY <1>3 DEF T

\* Each step of a path adds one delta of its table.
LEMMA AlongSteps ==
  ASSUME NEW table \in Seq(XYs)
  PROVE  /\ Along(table)[0] = Zero
         /\ \A n \in 1 .. Len(table) : Along(table)[n] = Plus(Along(table)[n - 1], table[n])
<1> DEFINE n == Len(table)
           path == CHOOSE f : Leads(f, table, n)
<1>1. n \in Nat
  OBVIOUS
<1>2. \E f : Leads(f, table, n)
  BY <1>1, PathExists
<1>3. Leads(path, table, n)
  BY <1>2
<1>4. Along(table) = path
  BY Zenon DEF Along, Leads
<1> HIDE DEF path
<1>5. \A m \in 0 .. n : path[m] = IF m = 0 THEN Zero ELSE Plus(path[m - 1], table[m])
  BY <1>3 DEF Leads
<1> QED
  BY <1>1, <1>4, <1>5

LEMMA Tables ==
  /\ Circle \in Seq(XYs) /\ Len(Circle) = CircleSteps
  /\ Scroll \in Seq(XYs) /\ Len(Scroll) = ScrollSteps /\ ScrollSteps = 4
<1>1. Circle \in Seq(XYs) /\ Len(Circle) = 48
  BY DEF Circle, XY, XYs
<1>2. Scroll \in Seq(XYs) /\ Len(Scroll) = 4
  BY DEF Scroll, XY, XYs
<1> QED
  BY <1>1, <1>2 DEF CircleSteps, ScrollSteps

\* The circle comes back to where it began, eight steps at a time.
LEMMA CircleCloses == OnCircle[CircleSteps] = Zero
<1> DEFINE p == OnCircle
<1>1. p[0] = XY(0, 0) /\ \A n \in 1 .. 48 : p[n] = Plus(p[n - 1], Circle[n])
  BY AlongSteps, Tables DEF OnCircle, CircleSteps, Zero
<1> HIDE DEF p
<1>2. p[8] = XY(-30, 52)
  <2>1. /\ p[1] = Plus(p[0], XY(-1, 8))
        /\ p[2] = Plus(p[1], XY(-1, 8))
        /\ p[3] = Plus(p[2], XY(-3, 7))
        /\ p[4] = Plus(p[3], XY(-3, 7))
        /\ p[5] = Plus(p[4], XY(-4, 7))
        /\ p[6] = Plus(p[5], XY(-6, 5))
        /\ p[7] = Plus(p[6], XY(-5, 6))
        /\ p[8] = Plus(p[7], XY(-7, 4))
    BY <1>1 DEF Circle
  <2> QED
    BY <2>1, <1>1 DEF Plus, XY
<1>3. p[16] = XY(-90, 52)
  <2>1. /\ p[9] = Plus(p[8], XY(-7, 3))
        /\ p[10] = Plus(p[9], XY(-7, 3))
        /\ p[11] = Plus(p[10], XY(-8, 1))
        /\ p[12] = Plus(p[11], XY(-8, 1))
        /\ p[13] = Plus(p[12], XY(-8, -1))
        /\ p[14] = Plus(p[13], XY(-8, -1))
        /\ p[15] = Plus(p[14], XY(-7, -3))
        /\ p[16] = Plus(p[15], XY(-7, -3))
    BY <1>1 DEF Circle
  <2> QED
    BY <2>1, <1>2 DEF Plus, XY
<1>4. p[24] = XY(-120, 0)
  <2>1. /\ p[17] = Plus(p[16], XY(-7, -4))
        /\ p[18] = Plus(p[17], XY(-5, -6))
        /\ p[19] = Plus(p[18], XY(-6, -5))
        /\ p[20] = Plus(p[19], XY(-4, -7))
        /\ p[21] = Plus(p[20], XY(-3, -7))
        /\ p[22] = Plus(p[21], XY(-3, -7))
        /\ p[23] = Plus(p[22], XY(-1, -8))
        /\ p[24] = Plus(p[23], XY(-1, -8))
    BY <1>1 DEF Circle
  <2> QED
    BY <2>1, <1>3 DEF Plus, XY
<1>5. p[32] = XY(-90, -52)
  <2>1. /\ p[25] = Plus(p[24], XY(1, -8))
        /\ p[26] = Plus(p[25], XY(1, -8))
        /\ p[27] = Plus(p[26], XY(3, -7))
        /\ p[28] = Plus(p[27], XY(3, -7))
        /\ p[29] = Plus(p[28], XY(4, -7))
        /\ p[30] = Plus(p[29], XY(6, -5))
        /\ p[31] = Plus(p[30], XY(5, -6))
        /\ p[32] = Plus(p[31], XY(7, -4))
    BY <1>1 DEF Circle
  <2> QED
    BY <2>1, <1>4 DEF Plus, XY
<1>6. p[40] = XY(-30, -52)
  <2>1. /\ p[33] = Plus(p[32], XY(7, -3))
        /\ p[34] = Plus(p[33], XY(7, -3))
        /\ p[35] = Plus(p[34], XY(8, -1))
        /\ p[36] = Plus(p[35], XY(8, -1))
        /\ p[37] = Plus(p[36], XY(8, 1))
        /\ p[38] = Plus(p[37], XY(8, 1))
        /\ p[39] = Plus(p[38], XY(7, 3))
        /\ p[40] = Plus(p[39], XY(7, 3))
    BY <1>1 DEF Circle
  <2> QED
    BY <2>1, <1>5 DEF Plus, XY
<1>7. p[48] = XY(0, 0)
  <2>1. /\ p[41] = Plus(p[40], XY(7, 4))
        /\ p[42] = Plus(p[41], XY(5, 6))
        /\ p[43] = Plus(p[42], XY(6, 5))
        /\ p[44] = Plus(p[43], XY(4, 7))
        /\ p[45] = Plus(p[44], XY(3, 7))
        /\ p[46] = Plus(p[45], XY(3, 7))
        /\ p[47] = Plus(p[46], XY(1, 8))
        /\ p[48] = Plus(p[47], XY(1, 8))
    BY <1>1 DEF Circle
  <2> QED
    BY <2>1, <1>6 DEF Plus, XY
<1> QED
  BY <1>7 DEF p, CircleSteps, Zero

LEMMA ScrollCloses == OnScroll[ScrollSteps] = Zero
<1> DEFINE p == OnScroll
<1>1. p[0] = XY(0, 0) /\ \A n \in 1 .. 4 : p[n] = Plus(p[n - 1], Scroll[n])
  BY AlongSteps, Tables DEF OnScroll, Zero
<1> HIDE DEF p
<1>2. /\ p[1] = Plus(p[0], XY(3, 0)) /\ p[2] = Plus(p[1], XY(-3, 0))
      /\ p[3] = Plus(p[2], XY(0, 3)) /\ p[4] = Plus(p[3], XY(0, -3))
  BY <1>1 DEF Scroll
<1>3. p[4] = XY(0, 0)
  BY <1>1, <1>2 DEF Plus, XY
<1> QED
  BY <1>3, Tables DEF p, Zero

\* A step of the circle, or of the burst, from wherever the pointer stands.
LEMMA CircleStep ==
  ASSUME NEW n \in 0 .. CircleSteps - 1
  PROVE  /\ Circle[n + 1] \in XYs
         /\ (n + 1) % CircleSteps \in 0 .. CircleSteps - 1
         /\ OnCircle[(n + 1) % CircleSteps] = Plus(OnCircle[n], Circle[n + 1])
<1>1. n + 1 \in 1 .. 48 /\ n + 1 - 1 = n
  BY DEF CircleSteps
<1>2. Circle[n + 1] \in XYs /\ OnCircle[n + 1] = Plus(OnCircle[n], Circle[n + 1])
  <2>1. OnCircle[n + 1] = Plus(OnCircle[(n + 1) - 1], Circle[n + 1])
    BY <1>1, Tables, AlongSteps DEF OnCircle, CircleSteps
  <2>2. Circle[n + 1] \in XYs
    BY <1>1, Tables, ElementOfSeq DEF CircleSteps
  <2> QED
    BY <1>1, <2>1, <2>2
<1>3. OnCircle[0] = Zero
  BY Tables, AlongSteps DEF OnCircle
<1>4. (n + 1) % 48 = IF n + 1 = 48 THEN 0 ELSE n + 1
  BY <1>1
<1> QED
  BY <1>1, <1>2, <1>3, <1>4, CircleCloses DEF CircleSteps

LEMMA ScrollStep ==
  ASSUME NEW n \in 0 .. ScrollSteps - 1
  PROVE  /\ Scroll[n + 1] \in XYs
         /\ (n + 1) % ScrollSteps \in 0 .. ScrollSteps - 1
         /\ OnScroll[(n + 1) % ScrollSteps] = Plus(OnScroll[n], Scroll[n + 1])
<1>1. n + 1 \in 1 .. 4 /\ n + 1 - 1 = n
  BY Tables
<1>2. Scroll[n + 1] \in XYs /\ OnScroll[n + 1] = Plus(OnScroll[n], Scroll[n + 1])
  <2>1. OnScroll[n + 1] = Plus(OnScroll[(n + 1) - 1], Scroll[n + 1])
    BY <1>1, Tables, AlongSteps DEF OnScroll
  <2>2. Scroll[n + 1] \in XYs
    BY <1>1, Tables, ElementOfSeq
  <2> QED
    BY <1>1, <2>1, <2>2
<1>3. OnScroll[0] = Zero
  BY Tables, AlongSteps DEF OnScroll
<1>4. (n + 1) % 4 = IF n + 1 = 4 THEN 0 ELSE n + 1
  BY <1>1
<1> QED
  BY <1>1, <1>2, <1>3, <1>4, ScrollCloses, Tables

-----------------------------------------------------------------------------
(***************************************************************************)
(* The Gameball.                                                           *)
(***************************************************************************)
BallReports == [move : XYs, wheel : XYs]

BallTyping ==
  /\ gb_tick \in 0 .. CircleSteps - 1 /\ scroll_i \in 0 .. ScrollSteps - 1
  /\ gb_pointer \in XYs /\ pads \in XYs
  /\ ep \in [Itfs -> BallReports \cup {Empty}]

\* The report the host has yet to take, and where it will have brought the pointer.
BallWaits == IF ep[Mouse] = Empty THEN [move |-> Zero, wheel |-> Zero] ELSE ep[Mouse]

BallDeltas ==
  /\ Plus(gb_pointer, BallWaits.move) = OnCircle[gb_tick]
  /\ Plus(pads, BallWaits.wheel) = OnScroll[scroll_i]

BallInv == BallTyping /\ BallDeltas

\* The instance's tables and sums are the module's own.
LEMMA BallTables ==
  /\ Gameball!Zero = Zero /\ Gameball!Circle = Circle /\ Gameball!Scroll = Scroll
  /\ Gameball!CircleSteps = CircleSteps /\ Gameball!ScrollSteps = ScrollSteps
  /\ Gameball!OnCircle = OnCircle /\ Gameball!OnScroll = OnScroll
  /\ \A a, b : Gameball!Plus(a, b) = Plus(a, b)
<1>1. /\ Gameball!Zero = Zero /\ Gameball!Circle = Circle /\ Gameball!Scroll = Scroll
      /\ \A a, b : Gameball!Plus(a, b) = Plus(a, b)
  BY Zenon DEF Gameball!Zero, Zero, Gameball!Circle, Circle, Gameball!Scroll, Scroll,
         Gameball!Plus, Plus, Gameball!XY, XY
<1>2. \A table : Gameball!Along(table) = Along(table)
  BY <1>1, Zenon DEF Gameball!Along, Along
<1> QED
  BY <1>1, <1>2
     DEF Gameball!OnCircle, OnCircle, Gameball!OnScroll, OnScroll,
         Gameball!CircleSteps, CircleSteps, Gameball!ScrollSteps, ScrollSteps

LEMMA BallWaitsIs == Gameball!Pending = BallWaits
  BY BallTables DEF Gameball!Pending, Gameball!Report, BallWaits

LEMMA BallDeltasIs == Gameball!EveryDeltaOnce <=> BallDeltas
  BY BallTables, BallWaitsIs DEF Gameball!EveryDeltaOnce, BallDeltas

\* The four things a step of the Gameball can do to what its deltas add up to.
BallSends(move, wheel) ==
  /\ ep[Mouse] = Empty
  /\ ep' = [ep EXCEPT ![Mouse] = [move |-> move, wheel |-> wheel]]
  /\ UNCHANGED <<gb_pointer, pads>>

BallLeaves ==
  /\ ep' \in {[ep EXCEPT ![Mouse] = Empty], [itf \in Itfs |-> Empty]}
  /\ gb_pointer' = Plus(gb_pointer, BallWaits.move)
  /\ pads' = Plus(pads, BallWaits.wheel)

LEMMA BallMoves ==
  ASSUME Gameball!Next
  PROVE  \/ /\ BallSends(Circle[gb_tick + 1], Zero)
            /\ gb_tick' = (gb_tick + 1) % CircleSteps /\ UNCHANGED scroll_i
         \/ /\ BallSends(Zero, Scroll[scroll_i + 1])
            /\ scroll_i' = (scroll_i + 1) % ScrollSteps /\ UNCHANGED gb_tick
         \/ BallLeaves /\ UNCHANGED <<gb_tick, scroll_i>>
         \/ UNCHANGED <<ep, gb_tick, scroll_i, gb_pointer, pads>>
<1>1. CASE Gameball!Circles
  BY <1>1, BallTables
     DEF Gameball!Circles, Gameball!Due, Gameball!Ready, Gameball!SendOn, Gameball!Report,
         Gameball!hostVars, BallSends
<1>2. CASE Gameball!Scrolls
  BY <1>2, BallTables
     DEF Gameball!Scrolls, Gameball!Due, Gameball!Ready, Gameball!SendOn, Gameball!Report,
         Gameball!hostVars, BallSends
<1>3. CASE Gameball!HostCollects \/ Gameball!HostForgets
  <2>1. /\ gb_pointer' = Plus(gb_pointer, BallWaits.move)
        /\ pads' = Plus(pads, BallWaits.wheel)
        /\ UNCHANGED <<gb_tick, scroll_i>>
    BY <1>3, BallTables, BallWaitsIs
       DEF Gameball!HostCollects, Gameball!HostForgets, Gameball!Leaves, Gameball!gbVars
  <2>2. ep' \in {[ep EXCEPT ![Mouse] = Empty], [itf \in Itfs |-> Empty]}
    BY <1>3, Zenon
       DEF Gameball!HostCollects, Gameball!HostForgets, Gameball!Collect, Gameball!BusLost
  <2> QED
    BY <2>1, <2>2 DEF BallLeaves
<1>4. CASE \/ Gameball!Refused
           \/ /\ \/ Gameball!TimePasses \/ Gameball!BusMount
                 \/ Gameball!BusSuspend \/ Gameball!BusResume
              /\ UNCHANGED <<Gameball!gbVars, Gameball!hostVars>>
  BY <1>4
     DEF Gameball!Refused, Gameball!vars, Gameball!gbVars, Gameball!hostVars,
         Gameball!busVars, Gameball!TimePasses, Gameball!BusMount, Gameball!BusSuspend,
         Gameball!BusResume
<1> QED
  BY <1>1, <1>2, <1>3, <1>4 DEF Gameball!Next

LEMMA ZeroType == Zero \in XYs
  BY DEF Zero, XY, XYs

LEMMA BallWaitsType == BallTyping => BallWaits \in BallReports
  BY ZeroType, SculptAssumption DEF BallTyping, BallReports, BallWaits

\* A report in the endpoint stands where its deltas lead.
LEMMA BallSendsDeltas ==
  ASSUME BallInv, NEW move \in XYs, NEW wheel \in XYs, BallSends(move, wheel)
  PROVE  /\ ep' \in [Itfs -> BallReports \cup {Empty}]
         /\ gb_pointer' \in XYs /\ pads' \in XYs
         /\ Plus(gb_pointer', BallWaits'.move) = Plus(OnCircle[gb_tick], move)
         /\ Plus(pads', BallWaits'.wheel) = Plus(OnScroll[scroll_i], wheel)
         /\ Plus(OnCircle[gb_tick], Zero) = OnCircle[gb_tick]
         /\ Plus(OnScroll[scroll_i], Zero) = OnScroll[scroll_i]
<1> DEFINE report == [move |-> move, wheel |-> wheel]
<1>1. Mouse \in Itfs /\ report \in BallReports /\ report # Empty
  BY SculptAssumption, PointerAssumption DEF BallReports
<1>2. ep' = [ep EXCEPT ![Mouse] = report] /\ UNCHANGED <<gb_pointer, pads>>
  BY DEF BallSends
<1>3. ep' \in [Itfs -> BallReports \cup {Empty}] /\ ep'[Mouse] = report
  BY <1>1, <1>2 DEF BallInv, BallTyping
<1>4. BallWaits' = report
  BY <1>1, <1>3 DEF BallWaits
<1>5. gb_pointer = OnCircle[gb_tick] /\ pads = OnScroll[scroll_i]
  BY PlusType DEF BallInv, BallTyping, BallDeltas, BallSends, BallWaits
<1>6. gb_pointer \in XYs /\ pads \in XYs
  BY DEF BallInv, BallTyping
<1> QED
  BY <1>2, <1>3, <1>4, <1>5, <1>6, PlusType

\* What leaves the endpoint, read or lost, is where the pending report stood.
LEMMA BallLeavesDeltas ==
  ASSUME BallInv, BallLeaves, UNCHANGED <<gb_tick, scroll_i>>
  PROVE  BallInv'
<1>1. /\ gb_pointer' = Plus(gb_pointer, BallWaits.move)
      /\ pads' = Plus(pads, BallWaits.wheel)
      /\ BallWaits.move \in XYs /\ BallWaits.wheel \in XYs
  BY BallWaitsType DEF BallLeaves, BallInv, BallReports
<1>2. gb_pointer' \in XYs /\ pads' \in XYs
  BY <1>1, PlusType DEF BallInv, BallTyping
<1>3. ep' \in [Itfs -> BallReports \cup {Empty}] /\ ep'[Mouse] = Empty
  BY SculptAssumption DEF BallInv, BallTyping, BallLeaves
<1>4. BallWaits' = [move |-> Zero, wheel |-> Zero]
  BY <1>3 DEF BallWaits
<1>5. BallDeltas'
  BY <1>1, <1>2, <1>4, PlusType DEF BallInv, BallDeltas
<1> QED
  BY <1>2, <1>3, <1>5 DEF BallInv, BallTyping

LEMMA BallNext ==
  ASSUME BallInv, Gameball!Next
  PROVE  BallInv'
<1>1. gb_tick \in 0 .. CircleSteps - 1 /\ scroll_i \in 0 .. ScrollSteps - 1
  BY DEF BallInv, BallTyping
<1>2. CASE /\ BallSends(Circle[gb_tick + 1], Zero)
           /\ gb_tick' = (gb_tick + 1) % CircleSteps /\ UNCHANGED scroll_i
  <2>1. /\ Circle[gb_tick + 1] \in XYs /\ gb_tick' \in 0 .. CircleSteps - 1
        /\ OnCircle[gb_tick'] = Plus(OnCircle[gb_tick], Circle[gb_tick + 1])
    BY <1>1, <1>2, CircleStep
  <2>2. BallDeltas'
    BY <1>2, <2>1, BallSendsDeltas, ZeroType DEF BallDeltas
  <2> QED
    BY <1>1, <1>2, <2>1, <2>2, BallSendsDeltas, ZeroType DEF BallInv, BallTyping
<1>3. CASE /\ BallSends(Zero, Scroll[scroll_i + 1])
           /\ scroll_i' = (scroll_i + 1) % ScrollSteps /\ UNCHANGED gb_tick
  <2>1. /\ Scroll[scroll_i + 1] \in XYs /\ scroll_i' \in 0 .. ScrollSteps - 1
        /\ OnScroll[scroll_i'] = Plus(OnScroll[scroll_i], Scroll[scroll_i + 1])
    BY <1>1, <1>3, ScrollStep
  <2>2. BallDeltas'
    BY <1>3, <2>1, BallSendsDeltas, ZeroType DEF BallDeltas
  <2> QED
    BY <1>1, <1>3, <2>1, <2>2, BallSendsDeltas, ZeroType DEF BallInv, BallTyping
<1>4. CASE UNCHANGED <<ep, gb_tick, scroll_i, gb_pointer, pads>>
  BY <1>4 DEF BallInv, BallTyping, BallDeltas, BallWaits
<1> QED
  BY <1>2, <1>3, <1>4, BallMoves, BallLeavesDeltas

-----------------------------------------------------------------------------
(***************************************************************************)
(* The Sculpt receiver.                                                    *)
(***************************************************************************)
MouseReports == [button : 0 .. Buttons, move : XYs, wheel : XYs]
KeyReports == [f13 : BOOLEAN]

EndpointTyping ==
  /\ ep \in [Itfs -> MouseReports \cup KeyReports \cup {Empty}]
  /\ ep[Mouse] \in MouseReports \cup {Empty}
  /\ ep[Keyboard] \in KeyReports \cup {Empty}

SculptTyping ==
  /\ EndpointTyping
  /\ phase \in Phases /\ tick \in 0 .. CircleSteps - 1 /\ down \in BOOLEAN
  /\ i \in 0 .. Buttons - 1
  /\ phase = "scroll" => i \in 0 .. ScrollSteps - 1
  /\ pointer \in XYs /\ button \in 0 .. Buttons /\ f13 \in BOOLEAN

\* A press that waits in an endpoint is the one the rig is about to take back.
PressPending ==
  /\ ep[Mouse] # Empty /\ ep[Mouse].button # NoButton =>
       phase = "click" /\ down /\ ep[Mouse].button = i + 1
  /\ ep[Keyboard] # Empty /\ ep[Keyboard].f13 => phase = "key" /\ down

\* The clicks of this cycle are the buttons up to the one the rig is at.
ClicksSoFar == phase = "click" => clicked = 1 .. (IF down THEN i + 1 ELSE i)

\* A rig still in its clicks or its burst has not cut it short.
NotYetCut == phase \in {"click", "scroll"} => cut = FALSE

SculptInv ==
  /\ SculptTyping
  /\ PressPending
  /\ NothingStuck
  /\ ClicksSoFar
  /\ FiveClicks
  /\ CircleOnce
  /\ BurstOnce
  /\ NotYetCut

\* Nothing is down at the host, nor waiting to go up, once an endpoint is free again in
\* another phase than the one that pressed it.
LEMMA FreeMouse ==
  ASSUME SculptInv, ep[Mouse] = Empty, phase # "click" \/ ~down
  PROVE  button = NoButton
  BY SculptAssumption DEF SculptInv, NothingStuck, MouseReport, Zero, XY, XYs, NoButton

LEMMA FreeKeyboard ==
  ASSUME SculptInv, ep[Keyboard] = Empty, phase # "key" \/ ~down
  PROVE  ~f13
<1>1. KeyReport(FALSE) \in KeyReports
  BY DEF KeyReport, KeyReports
<1>2. Empty \notin KeyReports
  BY SculptAssumption DEF KeyReports
<1> QED
  BY <1>1, <1>2 DEF SculptInv, NothingStuck

LEMMA MouseSends ==
  ASSUME EndpointTyping, Ready(Mouse), NEW b \in 0 .. Buttons,
         NEW move \in XYs, NEW scroll \in XYs, SendMouse(b, move, scroll)
  PROVE  /\ EndpointTyping' /\ ep[Mouse] = Empty /\ ep'[Keyboard] = ep[Keyboard]
         /\ ep'[Mouse] # Empty
         /\ \E wheel \in {Zero, scroll} : ep'[Mouse] = MouseReport(b, move, wheel)
         /\ ep'[Mouse].button = b /\ ep'[Mouse].move = move
         /\ scroll = Zero \/ protocol # "boot" => ep'[Mouse].wheel = scroll
<1> DEFINE wheel == IF protocol = "boot" THEN Zero ELSE scroll
           report == MouseReport(b, move, wheel)
<1>1. /\ wheel \in XYs /\ wheel \in {Zero, scroll}
      /\ scroll = Zero \/ protocol # "boot" => wheel = scroll
  BY ZeroType
<1> HIDE DEF wheel
<1>2. /\ report \in MouseReports /\ report.button = b /\ report.move = move
      /\ report.wheel = wheel
  BY <1>1 DEF MouseReport, MouseReports
<1>3. report # Empty
  BY <1>2, SculptAssumption DEF MouseReports, Buttons
<1>4. ep' = [ep EXCEPT ![Mouse] = report] /\ ep[Mouse] = Empty
  BY DEF SendMouse, SendOn, Ready, wheel
<1>5. Mouse \in Itfs /\ Keyboard \in Itfs /\ Mouse # Keyboard
  BY SculptAssumption
<1> HIDE DEF report
<1>6. ep'[Mouse] = report /\ ep'[Keyboard] = ep[Keyboard] /\ EndpointTyping'
  BY <1>2, <1>4, <1>5 DEF EndpointTyping
<1> QED
  BY <1>1, <1>2, <1>3, <1>4, <1>6 DEF report

\* What reads or clears an endpoint leaves it empty.
LEMMA EmptyEndpoint ==
  ASSUME EndpointTyping
  PROVE  /\ Collect(Mouse) => EndpointTyping' /\ ep'[Mouse] = Empty
                                /\ ep'[Keyboard] = ep[Keyboard]
         /\ Collect(Keyboard) => EndpointTyping' /\ ep'[Keyboard] = Empty
                                   /\ ep'[Mouse] = ep[Mouse]
         /\ BusLost => EndpointTyping' /\ ep'[Mouse] = Empty /\ ep'[Keyboard] = Empty
  BY SculptAssumption DEF EndpointTyping, Collect, BusLost

LEMMA PendingIs ==
  /\ ep[Mouse] = Empty => Pending.move = Zero
  /\ ep[Mouse] # Empty => Pending = ep[Mouse]
  /\ EndpointTyping => Pending.move \in XYs
<1>1. Zero \in XYs /\ MouseReport(NoButton, Zero, Zero).move = Zero
  BY ZeroType DEF MouseReport
<1> QED
  BY <1>1 DEF Pending, EndpointTyping, MouseReports

LEMMA PendingNext ==
  /\ ep'[Mouse] = Empty => Pending'.move = Zero
  /\ ep'[Mouse] # Empty => Pending' = ep'[Mouse]
<1>1. MouseReport(NoButton, Zero, Zero).move = Zero
  BY DEF MouseReport
<1> QED
  BY <1>1 DEF Pending

\* Only a report with a wheel in it adds to the burst.
LEMMA BurstIs ==
  /\ ep[Mouse] = Empty \/ ep[Mouse].wheel = Zero => Burst = scrolled
  /\ ep[Mouse] # Empty /\ ep[Mouse].wheel # Zero => Burst = Append(scrolled, ep[Mouse].wheel)
<1>1. MouseReport(NoButton, Zero, Zero).wheel = Zero
  BY DEF MouseReport
<1> QED
  BY <1>1 DEF Burst, Pending

LEMMA BurstNext ==
  /\ ep'[Mouse] = Empty \/ ep'[Mouse].wheel = Zero => Burst' = scrolled'
  /\ ep'[Mouse] # Empty /\ ep'[Mouse].wheel # Zero =>
       Burst' = Append(scrolled', ep'[Mouse].wheel)
<1>1. MouseReport(NoButton, Zero, Zero).wheel = Zero
  BY DEF MouseReport
<1> QED
  BY <1>1 DEF Burst, Pending

\* A step of the burst sends its next delta.
LEMMA NextOfBurst ==
  ASSUME NEW n \in 0 .. ScrollSteps - 1
  PROVE  /\ Scroll[n + 1] # Zero
         /\ Append(SubSeq(Scroll, 1, n), Scroll[n + 1]) = SubSeq(Scroll, 1, n + 1)
         /\ SubSeq(Scroll, 1, 0) = <<>> /\ SubSeq(Scroll, 1, ScrollSteps) = Scroll
<1>1. Scroll \in Seq(XYs) /\ Len(Scroll) = 4 /\ n \in 0 .. 3 /\ ScrollSteps = 4
  BY Tables
<1>2. Scroll[n + 1] # Zero
  BY <1>1 DEF Scroll, Zero, XY
<1> QED
  BY <1>1, <1>2

LEMMA CirclesStep ==
  ASSUME SculptInv, Circles
  PROVE  SculptInv'
<1>1. /\ phase = "circle" /\ Ready(Mouse) /\ SendMouse(NoButton, Circle[tick + 1], Zero)
      /\ tick' = (tick + 1) % CircleSteps
      /\ UNCHANGED <<pointer, button, f13>>
      /\ \/ /\ phase' = "click" /\ i' = 0 /\ down' = FALSE /\ clicked' = {}
            /\ scrolled' = <<>> /\ cut' = FALSE
         \/ UNCHANGED <<phase, i, down, clicked, scrolled, cut>>
  BY DEF Circles, hostVars, NewCycle, history
<1>2. /\ Circle[tick + 1] \in XYs /\ tick' \in 0 .. CircleSteps - 1
      /\ OnCircle[tick'] = Plus(OnCircle[tick], Circle[tick + 1])
  BY <1>1, CircleStep DEF SculptInv, SculptTyping
<1>3. /\ EndpointTyping' /\ ep[Mouse] = Empty /\ ep'[Keyboard] = ep[Keyboard]
      /\ ep'[Mouse] # Empty
      /\ ep'[Mouse].button = NoButton /\ ep'[Mouse].move = Circle[tick + 1]
      /\ ep'[Mouse].wheel = Zero
  BY <1>1, <1>2, MouseSends, ZeroType DEF SculptInv, SculptTyping, NoButton, Buttons
<1>4. SculptTyping'
  <2>1. phase' \in Phases /\ down' \in BOOLEAN /\ i' \in 0 .. Buttons - 1
    <3>1. phase \in Phases /\ down \in BOOLEAN /\ i \in 0 .. Buttons - 1
      BY DEF SculptInv, SculptTyping
    <3>2. "click" \in Phases /\ FALSE \in BOOLEAN /\ 0 \in 0 .. Buttons - 1
      BY DEF Phases, Buttons
    <3> QED
      BY <1>1, <3>1, <3>2, Zenon
  <2>2. phase' # "scroll"
    BY <1>1
  <2> QED
    BY <1>1, <1>2, <1>3, <2>1, <2>2 DEF SculptInv, SculptTyping
<1>5. PressPending'
  BY <1>1, <1>3 DEF SculptInv, PressPending
<1>6. NothingStuck'
  BY <1>1, <1>3, FreeMouse DEF SculptInv, NothingStuck
<1>7. ClicksSoFar' /\ FiveClicks'
  <2>1. CASE phase' = "click" /\ i' = 0 /\ down' = FALSE /\ clicked' = {}
    BY <2>1 DEF ClicksSoFar, FiveClicks
  <2>2. CASE UNCHANGED <<phase, i, down, clicked>>
    BY <1>1, <2>2 DEF ClicksSoFar, FiveClicks
  <2> QED
    BY <1>1, <2>1, <2>2
<1>8. CircleOnce'
  <2>1. pointer = OnCircle[tick]
    BY <1>3, PendingIs, PlusType DEF SculptInv, SculptTyping, CircleOnce
  <2> QED
    BY <1>1, <1>2, <1>3, <2>1, PendingNext DEF CircleOnce
<1>9. BurstOnce' /\ NotYetCut'
  <2>1. Burst = scrolled /\ Burst' = scrolled'
    BY <1>3, BurstIs, BurstNext
  <2> QED
    BY <1>1, <2>1 DEF SculptInv, BurstOnce, BurstDue, NotYetCut
<1> QED
  BY <1>4, <1>5, <1>6, <1>7, <1>8, <1>9 DEF SculptInv

LEMMA PressesStep ==
  ASSUME SculptInv, Presses
  PROVE  SculptInv'
<1>1. /\ phase = "click" /\ Ready(Mouse) /\ ~down /\ SendMouse(i + 1, Zero, Zero)
      /\ down' = TRUE /\ clicked' = clicked \cup {i + 1}
      /\ UNCHANGED <<phase, tick, i, pointer, button, f13, scrolled, cut>>
  BY DEF Presses, hostVars
<1>2. i \in 0 .. Buttons - 1 /\ i + 1 \in 0 .. Buttons
  BY DEF SculptInv, SculptTyping, Buttons
<1>3. /\ EndpointTyping' /\ ep[Mouse] = Empty /\ ep'[Keyboard] = ep[Keyboard]
      /\ ep'[Mouse] # Empty /\ ep'[Mouse].button = i + 1 /\ ep'[Mouse].move = Zero
      /\ ep'[Mouse].wheel = Zero
  BY <1>1, <1>2, MouseSends, ZeroType DEF SculptInv, SculptTyping
<1>4. SculptTyping' /\ PressPending'
  BY <1>1, <1>3 DEF SculptInv, SculptTyping, PressPending
<1>5. NothingStuck'
  BY <1>1, <1>3, FreeMouse DEF SculptInv, NothingStuck
<1>6. ClicksSoFar' /\ FiveClicks'
  BY <1>1, <1>2 DEF SculptInv, ClicksSoFar, FiveClicks, Buttons
<1>7. CircleOnce'
  BY <1>1, <1>3, PendingIs, PendingNext DEF SculptInv, CircleOnce
<1>8. BurstOnce' /\ NotYetCut'
  BY <1>1, <1>3, BurstIs, BurstNext DEF SculptInv, BurstOnce, BurstDue, NotYetCut
<1> QED
  BY <1>4, <1>5, <1>6, <1>7, <1>8 DEF SculptInv

LEMMA ReleasesStep ==
  ASSUME SculptInv, Releases
  PROVE  SculptInv'
<1>1. /\ phase = "click" /\ Ready(Mouse) /\ down /\ SendMouse(NoButton, Zero, Zero)
      /\ down' = FALSE /\ i' = (i + 1) % Buttons
      /\ phase' = IF i + 1 = Buttons THEN "scroll" ELSE "click"
      /\ UNCHANGED <<tick, clicked, scrolled, cut, pointer, button, f13>>
  BY DEF Releases, hostVars, history
<1>2. i \in 0 .. 4 /\ i' = IF i = 4 THEN 0 ELSE i + 1
  BY <1>1 DEF SculptInv, SculptTyping, Buttons
<1>3. /\ EndpointTyping' /\ ep[Mouse] = Empty /\ ep'[Keyboard] = ep[Keyboard]
      /\ ep'[Mouse] = MouseReport(NoButton, Zero, Zero) /\ ep'[Mouse] # Empty
      /\ ep'[Mouse].button = NoButton /\ ep'[Mouse].move = Zero
      /\ ep'[Mouse].wheel = Zero
  BY <1>1, MouseSends, ZeroType DEF SculptInv, SculptTyping, NoButton, Buttons
<1>4. SculptTyping'
  <2>1. phase' \in Phases /\ down' \in BOOLEAN
    BY <1>1, <1>2 DEF SculptInv, SculptTyping, Phases
  <2>2. i' \in 0 .. Buttons - 1 /\ (phase' = "scroll" => i' \in 0 .. ScrollSteps - 1)
    BY <1>1, <1>2, Tables DEF Buttons
  <2> QED
    BY <1>1, <1>3, <2>1, <2>2 DEF SculptInv, SculptTyping
<1>5. PressPending'
  BY <1>1, <1>3 DEF SculptInv, PressPending
<1>6. NothingStuck'
  BY <1>1, <1>3 DEF SculptInv, NothingStuck
<1>7. ClicksSoFar' /\ FiveClicks'
  BY <1>1, <1>2 DEF SculptInv, ClicksSoFar, FiveClicks, Buttons
<1>8. CircleOnce'
  BY <1>1, <1>3, PendingIs, PendingNext DEF SculptInv, CircleOnce
<1>9. BurstOnce' /\ NotYetCut'
  <2>1. Burst = scrolled /\ Burst' = scrolled'
    BY <1>3, BurstIs, BurstNext
  <2>2. Burst' = <<>>
    BY <1>1, <2>1 DEF SculptInv, BurstOnce, BurstDue
  <2>3. phase' = "click" \/ (phase' = "scroll" /\ i' = 0)
    BY <1>1, <1>2 DEF Buttons
  <2>4. SubSeq(Scroll, 1, 0) = <<>>
    BY Tables
  <2>5. BurstDue' = <<>>
    BY <2>3, <2>4 DEF BurstDue
  <2> QED
    BY <1>1, <2>2, <2>3, <2>5 DEF SculptInv, BurstOnce, NotYetCut
<1> QED
  BY <1>4, <1>5, <1>6, <1>7, <1>8, <1>9 DEF SculptInv

LEMMA ScrollsStep ==
  ASSUME SculptInv, Scrolls
  PROVE  SculptInv'
<1>1. /\ phase = "scroll" /\ protocol = "report" /\ Ready(Mouse)
      /\ SendMouse(NoButton, Zero, Scroll[i + 1])
      /\ i' = (i + 1) % ScrollSteps
      /\ phase' = IF i + 1 = ScrollSteps THEN "key" ELSE "scroll"
      /\ down' = IF i + 1 = ScrollSteps THEN FALSE ELSE down
      /\ UNCHANGED <<tick, clicked, scrolled, cut, pointer, button, f13>>
  BY DEF Scrolls, NextScroll, hostVars, history
<1>2. Scroll[i + 1] \in XYs /\ i' \in 0 .. ScrollSteps - 1
  BY <1>1, ScrollStep DEF SculptInv, SculptTyping
<1>3. /\ EndpointTyping' /\ ep[Mouse] = Empty /\ ep'[Keyboard] = ep[Keyboard]
      /\ ep'[Mouse] # Empty
      /\ ep'[Mouse].button = NoButton /\ ep'[Mouse].move = Zero
      /\ ep'[Mouse].wheel = Scroll[i + 1]
  BY <1>1, <1>2, MouseSends, ZeroType DEF SculptInv, SculptTyping, NoButton, Buttons
<1>4. SculptTyping'
  <2>1. phase' \in Phases /\ down' \in BOOLEAN
    BY <1>1, <1>2 DEF SculptInv, SculptTyping, Phases
  <2>2. i' \in 0 .. Buttons - 1 /\ (phase' = "scroll" => i' \in 0 .. ScrollSteps - 1)
    BY <1>1, <1>2, Tables DEF Buttons
  <2> QED
    BY <1>1, <1>3, <2>1, <2>2 DEF SculptInv, SculptTyping
<1>5. PressPending'
  BY <1>1, <1>3 DEF SculptInv, PressPending
<1>6. NothingStuck'
  BY <1>1, <1>3, FreeMouse DEF SculptInv, NothingStuck
<1>7. ClicksSoFar' /\ FiveClicks'
  BY <1>1 DEF SculptInv, ClicksSoFar, FiveClicks
<1>8. CircleOnce'
  BY <1>1, <1>3, PendingIs, PendingNext DEF SculptInv, CircleOnce
<1>9. BurstOnce' /\ NotYetCut'
  <2>1. i \in 0 .. ScrollSteps - 1 /\ cut = FALSE
    BY <1>1 DEF SculptInv, SculptTyping, NotYetCut
  <2>2. Burst = scrolled /\ Burst = SubSeq(Scroll, 1, i)
    BY <1>1, <1>3, BurstIs DEF SculptInv, BurstOnce, BurstDue
  <2>3. Burst' = SubSeq(Scroll, 1, i + 1)
    <3>1. Burst' = Append(scrolled, Scroll[i + 1])
      BY <1>1, <1>3, <2>1, BurstNext, NextOfBurst
    <3> QED
      BY <2>1, <2>2, <3>1, NextOfBurst, Zenon
  <2>4. CASE i + 1 = ScrollSteps
    <3>1. phase' = "key" /\ cut' = FALSE
      BY <1>1, <2>1, <2>4
    <3>2. BurstDue' = Scroll
      BY <3>1 DEF BurstDue
    <3>3. Burst' = Scroll
      BY <2>1, <2>3, <2>4, NextOfBurst, Zenon
    <3> QED
      BY <3>1, <3>2, <3>3 DEF BurstOnce, NotYetCut
  <2>5. CASE i + 1 # ScrollSteps
    <3>1. phase' = "scroll" /\ cut' = FALSE /\ i' = i + 1
      BY <1>1, <2>1, <2>5, Tables
    <3>2. BurstDue' = SubSeq(Scroll, 1, i + 1)
      BY <3>1 DEF BurstDue
    <3> QED
      BY <2>3, <3>1, <3>2 DEF BurstOnce, NotYetCut
  <2> QED
    BY <2>4, <2>5
<1> QED
  BY <1>4, <1>5, <1>6, <1>7, <1>8, <1>9 DEF SculptInv

\* The two steps that send nothing: past the scrolling in boot protocol, and out of the pause.
LEMMA PhaseStep ==
  ASSUME SculptInv, ScrollSkipped \/ Pauses
  PROVE  SculptInv'
<1>1. UNCHANGED <<ep, tick, i, clicked, scrolled, pointer, button, f13>>
  BY DEF ScrollSkipped, Pauses, hostVars, busVars, history
<1>2. \/ phase = "scroll" /\ phase' = "key" /\ down' = FALSE /\ cut' = TRUE
      \/ phase = "pause" /\ phase' = "circle" /\ down' = down /\ cut' = cut
  BY DEF ScrollSkipped, Pauses, history
<1>3. EndpointTyping' /\ CircleOnce' /\ Burst' = Burst
  BY <1>1 DEF SculptInv, SculptTyping, EndpointTyping, CircleOnce, Pending, Burst
<1>4. SculptTyping'
  <2>1. phase' \in Phases /\ phase' # "scroll" /\ down' \in BOOLEAN
    BY <1>2 DEF SculptInv, SculptTyping, Phases
  <2> QED
    BY <1>1, <1>3, <2>1 DEF SculptInv, SculptTyping
<1>5. PressPending' /\ NothingStuck'
  BY <1>1, <1>2 DEF SculptInv, PressPending, NothingStuck
<1>6. ClicksSoFar' /\ FiveClicks'
  BY <1>1, <1>2 DEF SculptInv, ClicksSoFar, FiveClicks
<1>7. BurstOnce' /\ NotYetCut'
  BY <1>1, <1>2, <1>3 DEF SculptInv, BurstOnce, BurstDue, NotYetCut
<1> QED
  BY <1>3, <1>4, <1>5, <1>6, <1>7 DEF SculptInv

LEMMA KeyStep ==
  ASSUME SculptInv, Key
  PROVE  SculptInv'
<1>1. /\ phase = "key" /\ Ready(Keyboard) /\ down' = ~down
      /\ ep' = [ep EXCEPT ![Keyboard] = KeyReport(~down)]
      /\ phase' = IF down THEN "pause" ELSE "key"
      /\ UNCHANGED <<tick, i, clicked, scrolled, cut, pointer, button, f13>>
  BY DEF Key, SendOn, hostVars, history
<1>2. down \in BOOLEAN /\ KeyReport(~down) \in KeyReports /\ KeyReport(~down).f13 = ~down
  BY DEF SculptInv, SculptTyping, KeyReport, KeyReports
<1>3. KeyReport(~down) # Empty
  BY <1>2, SculptAssumption DEF KeyReports
<1>4. ep[Keyboard] = Empty /\ ep'[Keyboard] = KeyReport(~down) /\ ep'[Mouse] = ep[Mouse]
  BY <1>1, SculptAssumption DEF Ready, SculptInv, SculptTyping, EndpointTyping
<1>5. EndpointTyping'
  BY <1>1, <1>2, <1>4, SculptAssumption DEF SculptInv, SculptTyping, EndpointTyping
<1>6. SculptTyping'
  <2>1. phase' \in Phases /\ phase' # "scroll" /\ down' \in BOOLEAN
    BY <1>1 DEF Phases
  <2> QED
    BY <1>1, <1>5, <2>1 DEF SculptInv, SculptTyping
<1>7. PressPending'
  BY <1>1, <1>2, <1>3, <1>4 DEF SculptInv, PressPending
<1>8. NothingStuck'
  <2>1. f13 => down
    BY <1>4, FreeKeyboard
  <2>2. f13' => ep'[Keyboard] = KeyReport(FALSE)
    <3>1. f13' = f13
      BY <1>1
    <3>2. down => KeyReport(~down) = KeyReport(FALSE)
      BY DEF KeyReport
    <3> QED
      BY <1>4, <2>1, <3>1, <3>2, Zenon
  <2>3. button' # NoButton => ep'[Mouse] = MouseReport(NoButton, Zero, Zero)
    BY <1>1, <1>4 DEF SculptInv, NothingStuck
  <2> QED
    BY <2>2, <2>3 DEF NothingStuck
<1>9. ClicksSoFar' /\ FiveClicks' /\ CircleOnce' /\ Burst' = Burst
  BY <1>1, <1>4 DEF SculptInv, ClicksSoFar, FiveClicks, CircleOnce, Pending, Burst
<1>10. BurstOnce' /\ NotYetCut'
  BY <1>1, <1>9 DEF SculptInv, BurstOnce, BurstDue, NotYetCut
<1> QED
  BY <1>6, <1>7, <1>8, <1>9, <1>10 DEF SculptInv

\* Whether it was applied or went down with the enumeration, a pending report is accounted for.
LEMMA ReportLeaves ==
  ASSUME SculptInv, pointer' = Plus(pointer, Pending.move), scrolled' = Burst,
         ep'[Mouse] = Empty, UNCHANGED <<phase, tick, i, cut>>
  PROVE  CircleOnce' /\ BurstOnce' /\ NotYetCut' /\ pointer' \in XYs
<1>1. pointer' \in XYs
  BY PendingIs, PlusType DEF SculptInv, SculptTyping
<1>2. Pending'.move = Zero
  BY PendingNext
<1>3. CircleOnce'
  BY <1>1, <1>2, PlusType DEF SculptInv, CircleOnce
<1>4. Burst' = Burst
  BY BurstNext
<1> QED
  BY <1>1, <1>3, <1>4 DEF SculptInv, BurstOnce, BurstDue, NotYetCut

LEMMA CollectsMouseStep ==
  ASSUME SculptInv, CollectsMouse
  PROVE  SculptInv'
<1>1. /\ ep[Mouse] # Empty /\ Collect(Mouse)
      /\ button' = ep[Mouse].button /\ pointer' = Plus(pointer, ep[Mouse].move)
      /\ scrolled' = Burst /\ UNCHANGED <<phase, tick, i, down, clicked, cut, f13>>
  BY DEF CollectsMouse, Collect, rigVars
<1>2. EndpointTyping' /\ ep'[Mouse] = Empty /\ ep'[Keyboard] = ep[Keyboard]
  BY <1>1, EmptyEndpoint DEF SculptInv, SculptTyping
<1>3. CircleOnce' /\ BurstOnce' /\ NotYetCut' /\ pointer' \in XYs
  BY <1>1, <1>2, PendingIs, ReportLeaves
<1>4. button' \in 0 .. Buttons
  BY <1>1 DEF SculptInv, SculptTyping, EndpointTyping, MouseReports
<1>5. SculptTyping'
  BY <1>1, <1>2, <1>3, <1>4 DEF SculptInv, SculptTyping
<1>6. PressPending'
  BY <1>1, <1>2 DEF SculptInv, PressPending
<1>7. NothingStuck'
  <2>1. button' # NoButton => phase = "click" /\ down /\ button' = i + 1
    BY <1>1 DEF SculptInv, PressPending
  <2>2. (phase' = "click" /\ down') = (phase = "click" /\ down)
    BY <1>1
  <2> QED
    BY <1>1, <1>2, <2>1, <2>2 DEF SculptInv, NothingStuck
<1>8. ClicksSoFar' /\ FiveClicks'
  BY <1>1 DEF SculptInv, ClicksSoFar, FiveClicks
<1> QED
  BY <1>3, <1>5, <1>6, <1>7, <1>8 DEF SculptInv

LEMMA CollectsKeyStep ==
  ASSUME SculptInv, CollectsKey
  PROVE  SculptInv'
<1>1. /\ ep[Keyboard] # Empty /\ Collect(Keyboard) /\ f13' = ep[Keyboard].f13
      /\ UNCHANGED <<phase, tick, i, down, clicked, scrolled, cut, pointer, button>>
  BY DEF CollectsKey, Collect, rigVars, history
<1>2. EndpointTyping' /\ ep'[Keyboard] = Empty /\ ep'[Mouse] = ep[Mouse]
  BY <1>1, EmptyEndpoint DEF SculptInv, SculptTyping
<1>3. f13' \in BOOLEAN
  BY <1>1 DEF SculptInv, SculptTyping, EndpointTyping, KeyReports
<1>4. SculptTyping'
  BY <1>1, <1>2, <1>3 DEF SculptInv, SculptTyping
<1>5. PressPending'
  BY <1>1, <1>2 DEF SculptInv, PressPending
<1>6. NothingStuck'
  <2>1. f13' => phase = "key" /\ down
    BY <1>1 DEF SculptInv, PressPending
  <2> QED
    BY <1>1, <1>2, <2>1 DEF SculptInv, NothingStuck
<1>7. ClicksSoFar' /\ FiveClicks' /\ CircleOnce' /\ Burst' = Burst
  BY <1>1, <1>2 DEF SculptInv, ClicksSoFar, FiveClicks, CircleOnce, Pending, Burst
<1>8. BurstOnce' /\ NotYetCut'
  BY <1>1, <1>7 DEF SculptInv, BurstOnce, BurstDue, NotYetCut
<1> QED
  BY <1>4, <1>5, <1>6, <1>7, <1>8 DEF SculptInv

LEMMA HostForgetsStep ==
  ASSUME SculptInv, HostForgets
  PROVE  SculptInv'
<1>1. /\ BusLost /\ button' = NoButton /\ f13' = FALSE
      /\ pointer' = Plus(pointer, Pending.move) /\ scrolled' = Burst
      /\ UNCHANGED <<phase, tick, i, down, clicked, cut>>
  BY DEF HostForgets, rigVars
<1>2. EndpointTyping' /\ ep'[Mouse] = Empty /\ ep'[Keyboard] = Empty
  BY <1>1, EmptyEndpoint DEF SculptInv, SculptTyping
<1>3. CircleOnce' /\ BurstOnce' /\ NotYetCut' /\ pointer' \in XYs
  BY <1>1, <1>2, ReportLeaves
<1>4. SculptTyping'
  <2>1. f13' \in BOOLEAN
    BY <1>1, Zenon
  <2>2. button' \in 0 .. Buttons
    BY <1>1 DEF NoButton, Buttons
  <2> QED
    BY <1>1, <1>2, <1>3, <2>1, <2>2 DEF SculptInv, SculptTyping
<1>5. PressPending' /\ NothingStuck'
  BY <1>1, <1>2 DEF PressPending, NothingStuck
<1>6. ClicksSoFar' /\ FiveClicks'
  BY <1>1 DEF SculptInv, ClicksSoFar, FiveClicks
<1> QED
  BY <1>3, <1>4, <1>5, <1>6 DEF SculptInv

\* Neither the clock, nor the rest of the bus, nor a change of protocol disturbs any of it.
LEMMA SculptRests ==
  ASSUME SculptInv, UNCHANGED <<ep, phase, tick, i, down, hostVars, history>>
  PROVE  SculptInv'
  BY DEF SculptInv, SculptTyping, EndpointTyping, PressPending, NothingStuck, ClicksSoFar,
         FiveClicks, CircleOnce, BurstOnce, BurstDue, Burst, NotYetCut, Pending, hostVars, history

LEMMA SculptNext ==
  ASSUME SculptInv, Next
  PROVE  SculptInv'
<1>1. CASE \/ Refused \/ SetProtocol
           \/ (TimePasses \/ BusMount \/ BusSuspend \/ BusResume) /\ UNCHANGED Others
  <2>1. UNCHANGED <<ep, phase, tick, i, down, hostVars, history>>
    BY <1>1 DEF Refused, SetProtocol, TimePasses, BusMount, BusSuspend, BusResume, Others,
                vars, busVars, rigVars, hostVars
  <2> QED
    BY <2>1, SculptRests
<1>2. CASE Circles \/ Presses \/ Releases \/ Scrolls \/ Key
  BY <1>2, CirclesStep, PressesStep, ReleasesStep, ScrollsStep, KeyStep, Zenon
<1>3. CASE ScrollSkipped \/ Pauses
  BY <1>3, PhaseStep
<1>4. CASE CollectsMouse \/ CollectsKey \/ HostForgets
  BY <1>4, CollectsMouseStep, CollectsKeyStep, HostForgetsStep, Zenon
<1> QED
  BY <1>1, <1>2, <1>3, <1>4 DEF Next

-----------------------------------------------------------------------------
(***************************************************************************)
(* The rig that was built.                                                 *)
(***************************************************************************)
PointerInv ==
  /\ rig \in {"gameball", "sculpt"}
  /\ rig = "sculpt" => SculptInv
  /\ rig = "gameball" => BallInv /\ button = NoButton /\ f13 = FALSE /\ phase = "circle"

LEMMA PointerStarts == PointerInit => PointerInv
<1> SUFFICES ASSUME PointerInit PROVE PointerInv
  OBVIOUS
<1>1. OnCircle[0] = Zero /\ OnScroll[0] = Zero
  BY Tables, AlongSteps DEF OnCircle, OnScroll
<1>2. /\ phase = "circle" /\ tick = 0 /\ i = 0 /\ down = FALSE
      /\ pointer = Zero /\ button = NoButton /\ f13 = FALSE
      /\ scrolled = <<>> /\ cut = TRUE
      /\ ep = [itf \in Itfs |-> Empty] /\ rig \in {"gameball", "sculpt"}
  BY DEF PointerInit, Init, BusInit
<1>3. ep[Mouse] = Empty /\ ep[Keyboard] = Empty
  BY <1>2, SculptAssumption
<1>4. SculptInv
  <2>1. EndpointTyping
    BY <1>2, <1>3 DEF EndpointTyping
  <2>2. SculptTyping
    <3>1. /\ "circle" \in Phases /\ 0 \in 0 .. CircleSteps - 1
          /\ 0 \in 0 .. Buttons - 1 /\ NoButton \in 0 .. Buttons
      BY DEF Phases, NoButton, Buttons, CircleSteps
    <3> QED
      BY <1>2, <2>1, <3>1, ZeroType DEF SculptTyping
  <2>3. PressPending /\ NothingStuck /\ ClicksSoFar /\ FiveClicks
    BY <1>2, <1>3 DEF PressPending, NothingStuck, ClicksSoFar, FiveClicks
  <2>4. CircleOnce
    BY <1>1, <1>2, <1>3, PendingIs, PlusType, ZeroType DEF CircleOnce
  <2>5. BurstOnce /\ NotYetCut
    <3>1. SubSeq(Scroll, 1, 0) = <<>>
      BY Tables
    <3> QED
      BY <1>2, <1>3, <3>1, BurstIs DEF BurstOnce, BurstDue, NotYetCut
  <2> QED
    BY <2>2, <2>3, <2>4, <2>5 DEF SculptInv
<1>5. BallInv
  <2>1. gb_tick = 0 /\ scroll_i = 0 /\ gb_pointer = Zero /\ pads = Zero
    BY BallTables DEF PointerInit, Gameball!Init
  <2>2. BallTyping
    BY <1>2, <2>1, ZeroType, Tables DEF BallTyping, CircleSteps
  <2>3. BallWaits = [move |-> Zero, wheel |-> Zero]
    BY <1>3 DEF BallWaits
  <2>4. BallDeltas
    BY <1>1, <2>1, <2>3, PlusType, ZeroType DEF BallDeltas
  <2> QED
    BY <2>2, <2>4 DEF BallInv
<1> QED
  BY <1>2, <1>4, <1>5 DEF PointerInv

LEMMA PointerStep ==
  ASSUME PointerInv, [PointerNext]_allVars
  PROVE  PointerInv'
<1>1. CASE rig = "sculpt" /\ Next /\ UNCHANGED rig
  BY <1>1, SculptNext DEF PointerInv
<1>2. CASE rig = "gameball" /\ Gameball!Next /\ UNCHANGED <<rig, sculptVars>>
  BY <1>2, BallNext DEF PointerInv, sculptVars, rigVars, hostVars
<1>3. CASE UNCHANGED allVars
  <2>1. UNCHANGED <<rig, ep, phase, tick, i, down, hostVars, history>>
    BY <1>3 DEF allVars, busVars, sculptVars, rigVars
  <2>2. UNCHANGED <<gb_tick, scroll_i, gb_pointer, pads>>
    BY <1>3 DEF allVars, gameballVars
  <2>3. BallInv => BallInv'
    BY <2>1, <2>2 DEF BallInv, BallTyping, BallDeltas, BallWaits
  <2> QED
    BY <2>1, <2>3, SculptRests DEF PointerInv, hostVars
<1> QED
  BY <1>1, <1>2, <1>3 DEF PointerNext, Sculpt, Ball

LEMMA PointersHold == PointerSpec => []PointerInv
  BY PointerStarts, PointerStep, PTL DEF PointerSpec

\* For any number of resets: a button or F13 is down at the host only between its press and
\* its release, or with the release next to be collected; the Gameball has none to press.
THEOREM NothingSticks == PointerSpec => []NothingStuck
<1>1. PointerInv => NothingStuck
  BY DEF PointerInv, SculptInv, NothingStuck
<1> QED
  BY <1>1, PointersHold, PTL

\* However often the host changes the mouse's protocol, a cycle of the Sculpt leaves its
\* click phase with all five buttons pressed.
THEOREM FiveEveryCycle == PointerSpec => []FiveClicks
<1>1. PointerInv => FiveClicks
  BY DEF PointerInv, SculptInv, FiveClicks
<1> QED
  BY <1>1, PointersHold, PTL

\* On either rig, through every refusal, suspension, reset and change of protocol: applied,
\* pending and lost moves make up the step of the circle, and the scroll deltas that of the
\* burst; a burst of the Sculpt that boot protocol cuts short stays what was sent of it.
THEOREM EachDeltaOnce == PointerSpec => []DeltasOnce
<1>1. PointerInv => DeltasOnce
  BY BallDeltasIs DEF PointerInv, SculptInv, BallInv, DeltasOnce, EveryDeltaOnce
<1> QED
  BY <1>1, PointersHold, PTL
==============================================================================
