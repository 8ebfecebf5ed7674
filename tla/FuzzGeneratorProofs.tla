------------------------- MODULE FuzzGeneratorProofs -------------------------
(***************************************************************************)
(* For every buffer of at least 24 bytes, every number and length of items  *)
(* and every N: the generator stays inside its buffer, and the counts the   *)
(* run ends with fit together.                                             *)
(***************************************************************************)
EXTENDS FuzzGenerator, TLAPS

Types ==
    /\ pc \in {"items", "run", "closed", "done"}
    /\ n \in Nat /\ items \in Nat /\ run \in Nat
    /\ parsed \in Nat /\ outBefore \in Nat /\ out \in Nat /\ badOnes \in Nat

\* Seven bytes are left wherever an item may begin or end, and four after the closing three.
Fits ==
    /\ pc \in {"items", "run"} => n <= Cap - 7
    /\ pc \in {"closed", "done"} => n <= Cap - 4

\* What is already counted: the accesses before the present parse while one is under way,
\* all of them otherwise.
Counted == IF pc = "closed" THEN outBefore ELSE out

Tallied ==
    /\ outBefore <= out
    /\ badOnes <= parsed /\ badOnes <= Counted
    /\ (Counted > 0) = (badOnes > 0)

Inv == Types /\ Fits /\ Tallied

LEMMA InitInv == Init => Inv
  BY GeneratorAssumption DEF Init, Inv, Types, Fits, Tallied, Counted, Preamble, ItemCounts, PUT1, PUT2

LEMMA StepInv == Inv /\ [Next]_vars => Inv'
<1> SUFFICES ASSUME Inv, [Next]_vars PROVE Inv'
  OBVIOUS
<1> USE GeneratorAssumption DEF Inv, Types, Fits, Tallied, Counted, PUT1, PUT2
<1>1. CASE StartRun
  BY <1>1 DEF StartRun, Room, countVars
<1>2. CASE PutUsage
  BY <1>2 DEF PutUsage, countVars
<1>3. CASE EndRun
  BY <1>3 DEF EndRun, countVars
<1>4. CASE PutItem
  BY <1>4 DEF PutItem, Room, countVars
<1>5. CASE Close
  BY <1>5 DEF Close, Room
<1>6. CASE Touch
  BY <1>6 DEF Touch, genVars
<1>7. CASE Parsed
  <2>1. n' \in Nat /\ n' <= 7 /\ items' \in Nat
    BY <1>7 DEF Parsed, Preamble, ItemCounts
  <2>2. badOnes' \in Nat /\ badOnes' <= parsed' /\ badOnes' <= out' /\ outBefore' <= out'
    BY <1>7 DEF Parsed
  <2>3. (out' > 0) = (badOnes' > 0)
    BY <1>7 DEF Parsed
  <2>4. pc' \in {"items", "done"} /\ parsed' \in Nat /\ run' \in Nat /\ out' \in Nat /\ outBefore' \in Nat
    BY <1>7 DEF Parsed
  <2> QED
    BY <2>1, <2>2, <2>3, <2>4
<1>8. CASE UNCHANGED vars
  BY <1>8 DEF vars, genVars, countVars
<1> QED
  BY <1>1, <1>2, <1>3, <1>4, <1>5, <1>6, <1>7, <1>8 DEF Next

\* generate() never writes past the buffer it was given, whatever the generator draws.
THEOREM StaysInsideBuffer == Spec => []InsideBuffer
<1>1. Inv => InsideBuffer
  BY GeneratorAssumption DEF Inv, Types, Fits, InsideBuffer
<1> QED
  BY InitInv, StepInv, <1>1, PTL DEF Spec

\* The printed counts fit together for every N: a descriptor is counted as going out of
\* bounds exactly once and exactly when one of its accesses did.
THEOREM CountsAlwaysFit == Spec => []CountsFit
<1>1. Inv => CountsFit
  BY DEF Inv, Types, Tallied, Counted, CountsFit
<1> QED
  BY InitInv, StepInv, <1>1, PTL DEF Spec
==============================================================================
