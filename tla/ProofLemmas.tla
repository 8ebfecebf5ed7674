----------------------------- MODULE ProofLemmas -----------------------------
(***************************************************************************)
(* What the proofs of several components need of the library: induction     *)
(* without an operator for its hypothesis, and sums over finite sets.      *)
(***************************************************************************)
EXTENDS Integers, FiniteSets, Functions, FiniteSetTheorems, WellFoundedInduction, TLAPS

(***************************************************************************)
(* Induction, for membership of a set.                                     *)
(***************************************************************************)
LEMMA SetInduction ==
  ASSUME NEW T, 0 \in T, \A n \in Nat : n \in T => n + 1 \in T
  PROVE  Nat \subseteq T
<1> DEFINE R == OpToRel(<, Nat)
           M == Nat \ T
<1>1. IsWellFoundedOn(R, Nat)
  BY NatLessThanWellFounded
<1> SUFFICES ASSUME M # {} PROVE FALSE
  OBVIOUS
<1> HIDE DEF R
<1>2. PICK n \in M : \A m \in M : ~ (<<m, n>> \in R)
  BY <1>1, WFMin
<1>3. n # 0 /\ n \in Nat /\ n - 1 \in Nat
  BY <1>2
<1>4. n - 1 \in M
  BY <1>2, <1>3
<1>5. <<n - 1, n>> \in R
  BY <1>3 DEF R, OpToRel
<1> QED
  BY <1>2, <1>4, <1>5

\* Over the subsets of a finite set, one element more at a time.
LEMMA SubsetInduction ==
  ASSUME NEW D, IsFiniteSet(D), NEW T, {} \in T,
         \A S \in SUBSET D, x \in D : S \in T /\ x \notin S => S \cup {x} \in T
  PROVE  SUBSET D \subseteq T
<1> DEFINE N == { n \in Nat : \A S \in SUBSET D : Cardinality(S) = n => S \in T }
<1>1. \A S \in SUBSET D : IsFiniteSet(S) /\ Cardinality(S) \in Nat
  BY FS_Subset, FS_CardinalityType
<1>2. 0 \in N
  <2>1. \A S \in SUBSET D : Cardinality(S) = 0 => S = {}
    BY <1>1, FS_EmptySet
  <2> QED
    BY <2>1
<1>3. ASSUME NEW n \in Nat, n \in N PROVE n + 1 \in N
  <2> SUFFICES ASSUME NEW S \in SUBSET D, Cardinality(S) = n + 1 PROVE S \in T
    BY DEF N
  <2> HIDE DEF N
  <2>0. IsFiniteSet(S)
    BY <1>1
  <2>1. S # {}
    <3>1. n + 1 # 0
      OBVIOUS
    <3> QED
      BY <2>0, <3>1, FS_EmptySet, Zenon
  <2>2. PICK x \in S : TRUE
    BY <2>1
  <2>3. Cardinality(S \ {x}) = n
    <3>1. Cardinality(S \ {x}) = Cardinality(S) - 1
      BY <2>0, <2>2, FS_RemoveElement
    <3> QED
      BY <3>1
  <2>4. S \ {x} \in T
    BY <1>3, <2>2, <2>3 DEF N
  <2>5. (S \ {x}) \cup {x} = S /\ x \in D /\ x \notin S \ {x} /\ S \ {x} \in SUBSET D
    BY <2>2
  <2>6. (S \ {x}) \cup {x} \in T
    BY <2>4, <2>5, Zenon
  <2> QED
    BY <2>5, <2>6, Zenon
<1> HIDE DEF N
<1>4. Nat \subseteq N
  BY <1>2, <1>3, SetInduction
<1> QED
  BY <1>1, <1>4 DEF N

-----------------------------------------------------------------------------
(***************************************************************************)
(* Sums over finite sets, in the order the library's fold takes them and   *)
(* then in any other.                                                      *)
(***************************************************************************)
Pick(S) == CHOOSE x \in S : TRUE
Summed(f, S) == SumFunctionOnSet(f, S)
Numbered(f, S) == IsFiniteSet(S) /\ \A x \in S : f[x] \in Int
Countable(f, S) == IsFiniteSet(S) /\ \A x \in S : f[x] \in Nat

LEMMA CountsAreNumbers == \A f, S : Countable(f, S) => Numbered(f, S)
  BY DEF Countable, Numbered

\* T holds the sum over each subset of D.
IsTable(T, f, D) ==
  T = [s \in SUBSET D |-> IF s = {} THEN 0 ELSE f[Pick(s)] + T[s \ {Pick(s)}]]

LEMMA SummedIs == \A f, S : Summed(f, S) = (CHOOSE T : IsTable(T, f, S))[S]
  BY DEF Summed, SumFunctionOnSet, FoldFunctionOnSet, MapThenFoldSet, IsTable, Pick

LEMMA TableExists ==
  ASSUME NEW f, NEW D, Numbered(f, D)
  PROVE  \E T \in [SUBSET D -> Int] : IsTable(T, f, D)
<1> DEFINE Holds(T, n) == \A s \in SUBSET D : Cardinality(s) <= n =>
                             T[s] = IF s = {} THEN 0 ELSE f[Pick(s)] + T[s \ {Pick(s)}]
           N == { n \in Nat : \E T \in [SUBSET D -> Int] : Holds(T, n) }
<1>1. \A s \in SUBSET D : IsFiniteSet(s) /\ Cardinality(s) \in Nat
  BY FS_Subset, FS_CardinalityType DEF Numbered
<1>2. 0 \in N
  <2> DEFINE T == [s \in SUBSET D |-> 0]
  <2>1. \A s \in SUBSET D : Cardinality(s) <= 0 => s = {}
    BY <1>1, FS_EmptySet
  <2>2. Holds(T, 0)
    BY <2>1
  <2>3. T \in [SUBSET D -> Int]
    OBVIOUS
  <2> QED
    BY <2>2, <2>3
<1>3. ASSUME NEW n \in Nat, n \in N PROVE n + 1 \in N
  <2>1. PICK T \in [SUBSET D -> Int] : Holds(T, n)
    BY <1>3
  <2> DEFINE U == [s \in SUBSET D |-> IF Cardinality(s) = n + 1 THEN f[Pick(s)] + T[s \ {Pick(s)}]
                                                               ELSE T[s]]
  <2>2. \A s \in SUBSET D : s # {} => /\ Pick(s) \in s /\ f[Pick(s)] \in Int
                                      /\ s \ {Pick(s)} \in SUBSET D
                                      /\ Cardinality(s \ {Pick(s)}) = Cardinality(s) - 1
    <3> TAKE s \in SUBSET D
    <3> HAVE s # {}
    <3>1. Pick(s) \in s
      BY Zenon DEF Pick
    <3> QED
      BY <1>1, <3>1, FS_RemoveElement DEF Numbered
  <2>3. \A s \in SUBSET D : Cardinality(s) = n + 1 => s # {}
    BY FS_EmptySet
  <2>4. U \in [SUBSET D -> Int]
    <3>1. \A s \in SUBSET D : Cardinality(s) = n + 1 => f[Pick(s)] \in Int /\ T[s \ {Pick(s)}] \in Int
      BY <2>1, <2>2, <2>3
    <3>2. \A s \in SUBSET D : T[s] \in Int
      BY <2>1
    <3>3. \A s \in SUBSET D : Cardinality(s) = n + 1 => f[Pick(s)] + T[s \ {Pick(s)}] \in Int
      BY <3>1
    <3> QED
      BY <3>2, <3>3
  <2>5. ASSUME NEW s \in SUBSET D, Cardinality(s) <= n + 1
        PROVE  U[s] = IF s = {} THEN 0 ELSE f[Pick(s)] + U[s \ {Pick(s)}]
    <3>1. CASE Cardinality(s) = n + 1
      <4>1. s # {} /\ U[s] = f[Pick(s)] + T[s \ {Pick(s)}]
        BY <2>3, <3>1
      <4>2. U[s \ {Pick(s)}] = T[s \ {Pick(s)}]
        BY <2>2, <3>1, <4>1
      <4> QED
        BY <4>1, <4>2
    <3>2. CASE Cardinality(s) <= n
      <4>1. U[s] = T[s] /\ T[s] = IF s = {} THEN 0 ELSE f[Pick(s)] + T[s \ {Pick(s)}]
        BY <1>1, <2>1, <3>2
      <4>2. s # {} => U[s \ {Pick(s)}] = T[s \ {Pick(s)}]
        BY <1>1, <2>2, <3>2
      <4> QED
        BY <4>1, <4>2
    <3> QED
      BY <1>1, <2>5, <3>1, <3>2
  <2> HIDE DEF U
  <2>6. Holds(U, n + 1)
    BY <2>5
  <2> QED
    BY <2>4, <2>6
<1>4. Nat \subseteq N
  <2> HIDE DEF N
  <2> QED
    BY <1>2, <1>3, SetInduction
<1>5. Cardinality(D) \in Nat /\ IsFiniteSet(D)
  BY FS_CardinalityType DEF Numbered
<1>6. PICK T \in [SUBSET D -> Int] : Holds(T, Cardinality(D))
  BY <1>4, <1>5
<1>7. \A s \in SUBSET D : Cardinality(s) <= Cardinality(D)
  BY <1>5, FS_Subset
<1>8. \A s \in SUBSET D : T[s] = IF s = {} THEN 0 ELSE f[Pick(s)] + T[s \ {Pick(s)}]
  BY <1>6, <1>7
<1> QED
  BY <1>8 DEF IsTable

LEMMA FoldTable ==
  ASSUME NEW f, NEW D, Numbered(f, D)
  PROVE  \E T : IsTable(T, f, D) /\ Summed(f, D) = T[D]
<1> DEFINE table == CHOOSE T : IsTable(T, f, D)
<1>1. \E T : IsTable(T, f, D)
  BY TableExists
<1>2. IsTable(table, f, D)
  BY <1>1
<1>3. Summed(f, D) = table[D]
  BY SummedIs, Zenon
<1> QED
  BY <1>2, <1>3

\* Two tables of the same counts say the same of a set both know.
LEMMA TablesAgree ==
  ASSUME NEW f, NEW D, NEW E, NEW T, NEW U, Numbered(f, D), E \subseteq D,
         IsTable(T, f, D), IsTable(U, f, E)
  PROVE  \A s \in SUBSET E : T[s] = U[s]
<1> DEFINE N == { n \in Nat : \A s \in SUBSET E : Cardinality(s) = n => T[s] = U[s] }
<1>1. \A s \in SUBSET E : IsFiniteSet(s) /\ Cardinality(s) \in Nat
  BY FS_Subset, FS_CardinalityType DEF Numbered
<1>2. \A s \in SUBSET E :
         /\ T[s] = IF s = {} THEN 0 ELSE f[Pick(s)] + T[s \ {Pick(s)}]
         /\ U[s] = IF s = {} THEN 0 ELSE f[Pick(s)] + U[s \ {Pick(s)}]
  BY DEF IsTable
<1>3. 0 \in N
  <2>1. \A s \in SUBSET E : Cardinality(s) = 0 => s = {}
    BY <1>1, FS_EmptySet
  <2> QED
    BY <1>2, <2>1
<1>4. ASSUME NEW n \in Nat, n \in N PROVE n + 1 \in N
  <2>1. ASSUME NEW s \in SUBSET E, Cardinality(s) = n + 1 PROVE T[s] = U[s]
    <3>1. CASE s = {}
      BY <1>2, <3>1
    <3>2. CASE s # {}
      <4>1. Pick(s) \in s
        BY <3>2, Zenon DEF Pick
      <4>2. Cardinality(s \ {Pick(s)}) = Cardinality(s) - 1
        BY <1>1, <4>1, FS_RemoveElement
      <4>3. Cardinality(s \ {Pick(s)}) = n /\ s \ {Pick(s)} \in SUBSET E
        BY <2>1, <4>2
      <4>4. T[s \ {Pick(s)}] = U[s \ {Pick(s)}]
        BY <1>4, <4>3
      <4> QED
        BY <1>2, <3>2, <4>4
    <3> QED
      BY <3>1, <3>2
  <2> QED
    BY <2>1
<1>5. Nat \subseteq N
  <2> HIDE DEF N
  <2> QED
    BY <1>3, <1>4, SetInduction
<1> QED
  BY <1>1, <1>5

LEMMA SumOfNone == \A f : Summed(f, {}) = 0
<1> TAKE f
<1>1. Numbered(f, {})
  BY FS_EmptySet DEF Numbered
<1>2. PICK T : IsTable(T, f, {}) /\ Summed(f, {}) = T[{}]
  BY <1>1, FoldTable
<1> QED
  BY <1>2 DEF IsTable

LEMMA SumPicks ==
  ASSUME NEW f, NEW D, Numbered(f, D), D # {}
  PROVE  Pick(D) \in D /\ Summed(f, D) = f[Pick(D)] + Summed(f, D \ {Pick(D)})
<1>1. Pick(D) \in D
  BY Zenon DEF Pick
<1> DEFINE E == D \ {Pick(D)}
<1>2. Numbered(f, E)
  BY FS_Subset DEF Numbered
<1>3. PICK T : IsTable(T, f, D) /\ Summed(f, D) = T[D]
  BY FoldTable
<1>4. PICK U : IsTable(U, f, E) /\ Summed(f, E) = U[E]
  BY <1>2, FoldTable
<1>5. T[E] = U[E]
  BY <1>3, <1>4, TablesAgree
<1>6. T[D] = f[Pick(D)] + T[E]
  BY <1>3 DEF IsTable
<1> QED
  BY <1>1, <1>3, <1>4, <1>5, <1>6

LEMMA SumInt ==
  ASSUME NEW f, NEW D, Numbered(f, D)
  PROVE  Summed(f, D) \in Int
<1>1. PICK T \in [SUBSET D -> Int] : IsTable(T, f, D)
  BY TableExists
<1>2. PICK U : IsTable(U, f, D) /\ Summed(f, D) = U[D]
  BY FoldTable
<1>3. T[D] = U[D]
  BY <1>1, <1>2, TablesAgree
<1> QED
  BY <1>1, <1>2, <1>3

\* Whatever order the fold goes in, any element may be taken out.
TakesOut(f, D) == \A S \in SUBSET D : \A x \in S : Summed(f, S) = f[x] + Summed(f, S \ {x})

LEMMA SumTakesOut ==
  ASSUME NEW f, NEW D, Numbered(f, D)
  PROVE  TakesOut(f, D)
<1> DEFINE N == { n \in Nat : \A S \in SUBSET D : Cardinality(S) = n =>
                     \A x \in S : Summed(f, S) = f[x] + Summed(f, S \ {x}) }
<1>1. \A S \in SUBSET D : IsFiniteSet(S) /\ Cardinality(S) \in Nat /\ Numbered(f, S)
  BY FS_Subset, FS_CardinalityType DEF Numbered
<1>2. 0 \in N
  <2>1. \A S \in SUBSET D : Cardinality(S) = 0 => S = {}
    BY <1>1, FS_EmptySet
  <2> QED
    BY <2>1
<1>3. ASSUME NEW n \in Nat, n \in N PROVE n + 1 \in N
  <2>1. ASSUME NEW S \in SUBSET D, Cardinality(S) = n + 1, NEW x \in S
        PROVE  Summed(f, S) = f[x] + Summed(f, S \ {x})
    <3> DEFINE y == Pick(S)
    <3>1. Numbered(f, S) /\ S # {} /\ IsFiniteSet(S)
      BY <1>1
    <3>2. y \in S /\ Summed(f, S) = f[y] + Summed(f, S \ {y})
      BY <3>1, SumPicks
    <3> HIDE DEF y
    <3>3. CASE x = y
      BY <3>2, <3>3
    <3>4. CASE x # y
      <4>1. /\ S \ {x} \in SUBSET D /\ S \ {y} \in SUBSET D
            /\ x \in S \ {y} /\ y \in S \ {x} /\ (S \ {x}) \ {y} = (S \ {y}) \ {x}
        BY <3>2, <3>4
      <4>2. Cardinality(S \ {x}) = Cardinality(S) - 1 /\ Cardinality(S \ {y}) = Cardinality(S) - 1
        BY <3>1, <3>2, FS_RemoveElement
      <4>3. Cardinality(S \ {x}) = n /\ Cardinality(S \ {y}) = n
        BY <2>1, <4>2
      <4>4. Summed(f, S \ {y}) = f[x] + Summed(f, (S \ {y}) \ {x})
        BY <1>3, <4>1, <4>3
      <4>5. Summed(f, S \ {x}) = f[y] + Summed(f, (S \ {x}) \ {y})
        BY <1>3, <4>1, <4>3
      <4>6. f[x] \in Int /\ f[y] \in Int
        BY <3>1, <3>2 DEF Numbered
      <4>7. Summed(f, (S \ {y}) \ {x}) \in Int
        <5>1. (S \ {y}) \ {x} \in SUBSET D
          OBVIOUS
        <5> QED
          BY <1>1, <5>1, SumInt
      <4> DEFINE rest == Summed(f, (S \ {y}) \ {x})
      <4>8. /\ Summed(f, S) = f[y] + (f[x] + rest) /\ Summed(f, S \ {x}) = f[y] + rest
            /\ rest \in Int
        BY <3>2, <4>1, <4>4, <4>5, <4>7, Zenon
      <4> HIDE DEF rest
      <4> QED
        BY <4>6, <4>8
    <3> QED
      BY <3>3, <3>4
  <2> QED
    BY <2>1
<1>4. Nat \subseteq N
  <2> HIDE DEF N
  <2> QED
    BY <1>2, <1>3, SetInduction
<1> QED
  BY <1>1, <1>4 DEF TakesOut

LEMMA SumAddsNumber ==
  ASSUME NEW f, NEW S, NEW x, x \notin S, Numbered(f, S \cup {x})
  PROVE  /\ Summed(f, S \cup {x}) = f[x] + Summed(f, S)
         /\ f[x] \in Int /\ Summed(f, S) \in Int /\ Numbered(f, S)
<1>1. (S \cup {x}) \ {x} = S /\ x \in S \cup {x} /\ S \cup {x} \in SUBSET (S \cup {x})
  OBVIOUS
<1>2. \A R \in SUBSET (S \cup {x}) : \A y \in R : Summed(f, R) = f[y] + Summed(f, R \ {y})
  <2>1. TakesOut(f, S \cup {x})
    BY SumTakesOut, Zenon
  <2> QED
    BY <2>1, Zenon DEF TakesOut
<1>3. Summed(f, S \cup {x}) = f[x] + Summed(f, S)
  BY <1>1, <1>2, Zenon
<1>4. Numbered(f, S) /\ f[x] \in Int
  <2>1. IsFiniteSet(S)
    BY FS_Subset DEF Numbered
  <2> QED
    BY <2>1 DEF Numbered
<1>5. Summed(f, S) \in Int
  BY <1>4, SumInt
<1> QED
  BY <1>3, <1>4, <1>5

\* The sum depends on the numbers only.
LEMMA SumSame ==
  ASSUME NEW f, NEW g, NEW D, Numbered(f, D), \A x \in D : f[x] = g[x]
  PROVE  Summed(f, D) = Summed(g, D)
<1> DEFINE T == { S \in SUBSET D : Summed(f, S) = Summed(g, S) }
<1>1. IsFiniteSet(D) /\ {} \in T
  BY SumOfNone DEF Numbered
<1>2. ASSUME NEW S \in SUBSET D, NEW x \in D, S \in T, x \notin S PROVE S \cup {x} \in T
  <2>1. S \cup {x} \in SUBSET D
    OBVIOUS
  <2>2. Numbered(f, S \cup {x}) /\ Numbered(g, S \cup {x})
    BY <2>1, FS_Subset DEF Numbered
  <2>3. /\ Summed(f, S \cup {x}) = f[x] + Summed(f, S)
        /\ Summed(g, S \cup {x}) = g[x] + Summed(g, S)
    BY <1>2, <2>2, SumAddsNumber
  <2> QED
    BY <1>2, <2>1, <2>3
<1> HIDE DEF T
<1>3. SUBSET D \subseteq T
  BY <1>1, <1>2, SubsetInduction
<1> QED
  BY <1>3 DEF T

\* Counts sum to a count.
LEMMA SumType ==
  ASSUME NEW f, NEW D, Countable(f, D)
  PROVE  Summed(f, D) \in Nat
<1> DEFINE T == { S \in SUBSET D : Summed(f, S) \in Nat }
<1>1. IsFiniteSet(D) /\ {} \in T
  BY SumOfNone DEF Countable
<1>2. ASSUME NEW S \in SUBSET D, NEW x \in D, S \in T, x \notin S PROVE S \cup {x} \in T
  <2>1. S \cup {x} \in SUBSET D
    OBVIOUS
  <2>2. Numbered(f, S \cup {x}) /\ f[x] \in Nat
    BY <2>1, FS_Subset DEF Countable, Numbered
  <2>3. Summed(f, S \cup {x}) = f[x] + Summed(f, S)
    BY <1>2, <2>2, SumAddsNumber
  <2> QED
    BY <1>2, <2>1, <2>2, <2>3
<1> HIDE DEF T
<1>3. SUBSET D \subseteq T
  BY <1>1, <1>2, SubsetInduction
<1> QED
  BY <1>3 DEF T

LEMMA SumAdds ==
  ASSUME NEW f, NEW S, NEW x, x \notin S, Countable(f, S \cup {x})
  PROVE  /\ Summed(f, S \cup {x}) = f[x] + Summed(f, S)
         /\ f[x] \in Nat /\ Summed(f, S) \in Nat /\ Countable(f, S)
<1>1. Summed(f, S \cup {x}) = f[x] + Summed(f, S)
  <2>1. Numbered(f, S \cup {x})
    BY CountsAreNumbers
  <2> QED
    BY <2>1, SumAddsNumber
<1>2. Countable(f, S) /\ f[x] \in Nat
  <2>1. IsFiniteSet(S)
    BY FS_Subset DEF Countable
  <2> QED
    BY <2>1 DEF Countable
<1>3. Summed(f, S) \in Nat
  BY <1>2, SumType
<1> QED
  BY <1>1, <1>2, <1>3

\* Larger numbers, larger sum.
LEMMA SumGrows ==
  ASSUME NEW f, NEW g, NEW D, Countable(f, D), Countable(g, D), \A x \in D : f[x] <= g[x]
  PROVE  Summed(f, D) <= Summed(g, D)
<1> DEFINE T == { S \in SUBSET D : Summed(f, S) <= Summed(g, S) }
<1>1. IsFiniteSet(D) /\ {} \in T
  BY SumOfNone DEF Countable
<1>2. ASSUME NEW S \in SUBSET D, NEW x \in D, S \in T, x \notin S PROVE S \cup {x} \in T
  <2>1. S \cup {x} \in SUBSET D
    OBVIOUS
  <2>2. Countable(f, S \cup {x}) /\ Countable(g, S \cup {x})
    BY <2>1, FS_Subset DEF Countable
  <2>3. /\ Summed(f, S \cup {x}) = f[x] + Summed(f, S)
        /\ f[x] \in Nat /\ Summed(f, S) \in Nat
    BY <1>2, <2>2, SumAdds
  <2>4. /\ Summed(g, S \cup {x}) = g[x] + Summed(g, S)
        /\ g[x] \in Nat /\ Summed(g, S) \in Nat
    BY <1>2, <2>2, SumAdds
  <2>5. f[x] <= g[x] /\ Summed(f, S) <= Summed(g, S)
    BY <1>2
  <2>6. Summed(f, S \cup {x}) <= Summed(g, S \cup {x})
    BY <2>3, <2>4, <2>5
  <2> QED
    BY <2>1, <2>6
<1> HIDE DEF T
<1>3. SUBSET D \subseteq T
  BY <1>1, <1>2, SubsetInduction
<1> QED
  BY <1>3 DEF T

\* The sum of sums.
LEMMA SumOfBoth ==
  ASSUME NEW f, NEW g, NEW h, NEW D, Countable(f, D), Countable(g, D),
         \A x \in D : h[x] = f[x] + g[x]
  PROVE  Summed(h, D) = Summed(f, D) + Summed(g, D)
<1> DEFINE T == { S \in SUBSET D : Summed(h, S) = Summed(f, S) + Summed(g, S) }
<1>0. Countable(h, D)
  BY DEF Countable
<1>1. IsFiniteSet(D) /\ {} \in T
  BY SumOfNone DEF Countable
<1>2. ASSUME NEW S \in SUBSET D, NEW x \in D, S \in T, x \notin S PROVE S \cup {x} \in T
  <2>1. S \cup {x} \in SUBSET D
    OBVIOUS
  <2>2. Countable(f, S \cup {x}) /\ Countable(g, S \cup {x}) /\ Countable(h, S \cup {x})
    BY <1>0, <2>1, FS_Subset DEF Countable
  <2>3. /\ Summed(f, S \cup {x}) = f[x] + Summed(f, S)
        /\ f[x] \in Nat /\ Summed(f, S) \in Nat
    BY <1>2, <2>2, SumAdds
  <2>4. /\ Summed(g, S \cup {x}) = g[x] + Summed(g, S)
        /\ g[x] \in Nat /\ Summed(g, S) \in Nat
    BY <1>2, <2>2, SumAdds
  <2>5. Summed(h, S \cup {x}) = h[x] + Summed(h, S)
    BY <1>2, <2>2, SumAdds
  <2>6. h[x] = f[x] + g[x] /\ Summed(h, S) = Summed(f, S) + Summed(g, S)
    BY <1>2
  <2>7. Summed(h, S \cup {x}) = Summed(f, S \cup {x}) + Summed(g, S \cup {x})
    BY <2>3, <2>4, <2>5, <2>6
  <2> QED
    BY <2>1, <2>7
<1> HIDE DEF T
<1>3. SUBSET D \subseteq T
  BY <1>1, <1>2, SubsetInduction
<1> QED
  BY <1>3 DEF T

\* A part of the set sums to no more than the whole.
LEMMA SumOfPart ==
  ASSUME NEW f, NEW D, Countable(f, D), NEW P \in SUBSET D
  PROVE  Summed(f, P) <= Summed(f, D)
<1> DEFINE T == { S \in SUBSET D : Summed(f, S \cap P) <= Summed(f, S) }
<1>1. IsFiniteSet(D) /\ {} \in T
  <2>1. {} \cap P = {} /\ {} \in SUBSET D /\ IsFiniteSet(D)
    BY DEF Countable
  <2>2. Summed(f, {} \cap P) = 0 /\ Summed(f, {}) = 0
    BY <2>1, SumOfNone, Zenon
  <2> QED
    BY <2>1, <2>2
<1>2. ASSUME NEW S \in SUBSET D, NEW x \in D, S \in T, x \notin S PROVE S \cup {x} \in T
  <2>1. S \cup {x} \in SUBSET D
    OBVIOUS
  <2>2. Countable(f, S \cup {x}) /\ Countable(f, (S \cap P) \cup {x}) /\ Countable(f, S \cap P)
    <3>1. (S \cap P) \cup {x} \subseteq D /\ S \cap P \subseteq D
      OBVIOUS
    <3>2. IsFiniteSet(S \cup {x}) /\ IsFiniteSet((S \cap P) \cup {x}) /\ IsFiniteSet(S \cap P)
      BY <2>1, <3>1, FS_Subset DEF Countable
    <3> QED
      BY <2>1, <3>1, <3>2 DEF Countable
  <2>3. /\ Summed(f, S \cup {x}) = f[x] + Summed(f, S)
        /\ f[x] \in Nat /\ Summed(f, S) \in Nat
    BY <1>2, <2>2, SumAdds
  <2>4. /\ Summed(f, (S \cap P) \cup {x}) = f[x] + Summed(f, S \cap P)
        /\ Summed(f, S \cap P) \in Nat
    <3>1. x \notin S \cap P
      BY <1>2
    <3> QED
      BY <3>1, <2>2, SumAdds
  <2>5. Summed(f, S \cap P) <= Summed(f, S)
    BY <1>2
  <2>6. Summed(f, (S \cup {x}) \cap P) <= Summed(f, S \cup {x})
    <3>1. CASE x \in P
      <4>1. (S \cup {x}) \cap P = (S \cap P) \cup {x}
        BY <3>1
      <4>2. Summed(f, (S \cap P) \cup {x}) <= Summed(f, S \cup {x})
        BY <2>3, <2>4, <2>5
      <4> QED
        BY <4>1, <4>2, Zenon
    <3>2. CASE x \notin P
      <4>1. (S \cup {x}) \cap P = S \cap P
        BY <3>2
      <4>2. Summed(f, S \cap P) <= Summed(f, S \cup {x})
        BY <2>3, <2>4, <2>5
      <4> QED
        BY <4>1, <4>2, Zenon
    <3> QED
      BY <3>1, <3>2
  <2> QED
    BY <2>1, <2>6
<1> HIDE DEF T
<1>3. D \in T
  <2>1. SUBSET D \subseteq T
    BY <1>1, <1>2, SubsetInduction
  <2> QED
    BY <2>1
<1>4. D \cap P = P
  OBVIOUS
<1>5. Summed(f, D \cap P) <= Summed(f, D)
  BY <1>3 DEF T
<1> QED
  BY <1>4, <1>5, Zenon

\* A part that sums to as much, of numbers above 0, is the whole.
LEMMA SumTellsParts ==
  ASSUME NEW f, NEW D, Countable(f, D), \A x \in D : f[x] > 0, NEW P \in SUBSET D,
         Summed(f, P) = Summed(f, D)
  PROVE  P = D
<1> SUFFICES ASSUME P # D PROVE FALSE
  OBVIOUS
<1>1. PICK x \in D : x \notin P
  OBVIOUS
<1> DEFINE E == D \ {x}
<1>2. P \in SUBSET E /\ D = E \cup {x} /\ x \notin E
  BY <1>1
<1> HIDE DEF E
<1>3. Countable(f, E \cup {x})
  BY <1>2, Zenon
<1>4. /\ Summed(f, E \cup {x}) = f[x] + Summed(f, E)
      /\ f[x] \in Nat /\ Summed(f, E) \in Nat /\ Countable(f, E)
  BY <1>2, <1>3, SumAdds
<1>5. Summed(f, P) <= Summed(f, E)
  BY <1>2, <1>4, SumOfPart
<1>6. Summed(f, P) = f[x] + Summed(f, E)
  BY <1>2, <1>4, Zenon
<1>7. f[x] > 0
  OBVIOUS
<1> QED
  BY <1>4, <1>5, <1>6, <1>7

\* Elements that count nothing may be left out.
LEMMA SumSkipsZeros ==
  ASSUME NEW f, NEW D, Countable(f, D), NEW P \in SUBSET D, \A x \in D \ P : f[x] = 0
  PROVE  Summed(f, P) = Summed(f, D)
<1> DEFINE T == { S \in SUBSET D : Summed(f, S \cap P) = Summed(f, S) }
<1>1. IsFiniteSet(D) /\ {} \in T
  <2>1. {} \cap P = {} /\ {} \in SUBSET D /\ IsFiniteSet(D)
    BY DEF Countable
  <2>2. Summed(f, {} \cap P) = Summed(f, {})
    BY <2>1, Zenon
  <2> QED
    BY <2>1, <2>2
<1>2. ASSUME NEW S \in SUBSET D, NEW x \in D, S \in T, x \notin S PROVE S \cup {x} \in T
  <2>1. S \cup {x} \in SUBSET D
    OBVIOUS
  <2>2. Countable(f, S \cup {x})
    BY <2>1, FS_Subset DEF Countable
  <2>3. /\ Summed(f, S \cup {x}) = f[x] + Summed(f, S)
        /\ f[x] \in Nat /\ Summed(f, S) \in Nat
    BY <1>2, <2>2, SumAdds
  <2>5. Summed(f, S \cap P) = Summed(f, S)
    BY <1>2
  <2>6. Summed(f, (S \cup {x}) \cap P) = Summed(f, S \cup {x})
    <3>1. CASE x \in P
      <4>1. (S \cup {x}) \cap P = (S \cap P) \cup {x} /\ x \notin S \cap P
        BY <1>2, <3>1
      <4>2. Countable(f, (S \cap P) \cup {x})
        <5>1. (S \cap P) \cup {x} \subseteq D
          OBVIOUS
        <5>2. IsFiniteSet((S \cap P) \cup {x})
          BY <5>1, FS_Subset DEF Countable
        <5> QED
          BY <5>1, <5>2 DEF Countable
      <4>3. Summed(f, (S \cap P) \cup {x}) = f[x] + Summed(f, S \cap P)
        BY <4>1, <4>2, SumAdds
      <4> QED
        BY <2>3, <2>5, <4>1, <4>3, Zenon
    <3>2. CASE x \notin P
      <4>1. (S \cup {x}) \cap P = S \cap P /\ f[x] = 0
        BY <3>2
      <4>2. Summed(f, S \cup {x}) = Summed(f, S)
        BY <2>3, <4>1
      <4> QED
        BY <2>5, <4>1, <4>2, Zenon
    <3> QED
      BY <3>1, <3>2
  <2> QED
    BY <2>1, <2>6
<1> HIDE DEF T
<1>3. D \in T
  <2>1. SUBSET D \subseteq T
    BY <1>1, <1>2, SubsetInduction
  <2> QED
    BY <2>1
<1>4. D \cap P = P
  OBVIOUS
<1>5. Summed(f, D \cap P) = Summed(f, D)
  BY <1>3 DEF T
<1> QED
  BY <1>4, <1>5, Zenon

\* The sum over rows, one for each element, is the sum over the elements.
LEMMA SumOfRows ==
  ASSUME NEW f, NEW g, NEW row, NEW D, Countable(g, D),
         \A x, y \in D : row[x] = row[y] => x = y,
         \A x \in D : f[row[x]] = g[x]
  PROVE  LET rows == { row[x] : x \in D }
         IN  Countable(f, rows) /\ Summed(f, rows) = Summed(g, D)
<1> DEFINE Rows(S) == { row[x] : x \in S }
           T == { S \in SUBSET D : Countable(f, Rows(S)) /\ Summed(f, Rows(S)) = Summed(g, S) }
<1>1. IsFiniteSet(D) /\ {} \in T
  <2>1. Rows({}) = {} /\ {} \in SUBSET D /\ IsFiniteSet(D)
    BY DEF Countable
  <2>2. Countable(f, {}) /\ Summed(f, {}) = Summed(g, {})
    BY SumOfNone, FS_EmptySet DEF Countable
  <2> HIDE DEF Rows
  <2>3. Countable(f, Rows({})) /\ Summed(f, Rows({})) = Summed(g, {})
    BY <2>1, <2>2, Zenon
  <2> QED
    BY <2>1, <2>3
<1>2. ASSUME NEW S \in SUBSET D, NEW x \in D, S \in T, x \notin S PROVE S \cup {x} \in T
  <2>1. S \cup {x} \in SUBSET D
    OBVIOUS
  <2>2. Countable(g, S \cup {x})
    BY <2>1, FS_Subset DEF Countable
  <2>3. Summed(g, S \cup {x}) = g[x] + Summed(g, S) /\ g[x] \in Nat
    BY <1>2, <2>2, SumAdds
  <2>4. Rows(S \cup {x}) = Rows(S) \cup {row[x]} /\ row[x] \notin Rows(S)
    BY <1>2
  <2>5. f[row[x]] = g[x]
    OBVIOUS
  <2>6. Countable(f, Rows(S)) /\ Summed(f, Rows(S)) = Summed(g, S)
    BY <1>2
  <2> HIDE DEF Rows
  <2>7. Countable(f, Rows(S) \cup {row[x]})
    <3>1. IsFiniteSet(Rows(S) \cup {row[x]})
      BY <2>6, FS_AddElement DEF Countable
    <3> QED
      BY <2>3, <2>5, <2>6, <3>1 DEF Countable
  <2>8. Summed(f, Rows(S) \cup {row[x]}) = f[row[x]] + Summed(f, Rows(S))
    BY <2>4, <2>7, SumAdds
  <2>9. Countable(f, Rows(S \cup {x})) /\ Summed(f, Rows(S \cup {x})) = Summed(g, S \cup {x})
    BY <2>3, <2>4, <2>5, <2>6, <2>7, <2>8, Zenon
  <2> QED
    BY <2>1, <2>9
<1> HIDE DEF T, Rows
<1>3. D \in T
  <2>1. SUBSET D \subseteq T
    BY <1>1, <1>2, SubsetInduction
  <2> QED
    BY <2>1
<1> QED
  BY <1>3 DEF T, Rows

\* By rows or by columns.
LEMMA SumEitherWay ==
  ASSUME NEW m, NEW D, NEW K, IsFiniteSet(D), IsFiniteSet(K),
         \A x \in D : \A k \in K : m[x][k] \in Nat
  PROVE  Summed([x \in D |-> Summed(m[x], K)], D)
           = Summed([k \in K |-> Summed([x \in D |-> m[x][k]], D)], K)
<1> DEFINE across == [x \in D |-> Summed(m[x], K)]
           down(k) == [x \in D |-> m[x][k]]
           Downs(S) == [k \in K |-> Summed(down(k), S)]
           T == { S \in SUBSET D : Summed(across, S) = Summed(Downs(S), K) }
<1>a. \A x \in D : Countable(m[x], K) /\ across[x] = Summed(m[x], K) /\ across[x] \in Nat
  <2> TAKE x \in D
  <2>1. Countable(m[x], K)
    BY DEF Countable
  <2>2. Summed(m[x], K) \in Nat
    BY <2>1, SumType
  <2> QED
    BY <2>1, <2>2
<1>b. \A S \in SUBSET D : IsFiniteSet(S)
  BY FS_Subset
<1>c. \A S \in SUBSET D : \A k \in K : Countable(down(k), S)
  BY <1>b DEF Countable
<1>d. \A S \in SUBSET D : Countable(across, S)
  BY <1>a, <1>b DEF Countable
<1>e. \A S \in SUBSET D : Countable(Downs(S), K)
  <2> TAKE S \in SUBSET D
  <2>1. ASSUME NEW k \in K PROVE Downs(S)[k] \in Nat
    <3>1. Countable(down(k), S)
      BY <1>c
    <3>2. Summed(down(k), S) \in Nat
      BY <3>1, SumType
    <3> QED
      BY <3>2
  <2> HIDE DEF Downs
  <2> QED
    BY <2>1 DEF Countable
<1>1. {} \in T
  <2>1. Summed(across, {}) = 0
    BY SumOfNone
  <2>2. \A k \in K : Downs({})[k] = 0
    BY SumOfNone
  <2>3. Countable(Downs({}), K)
    BY <1>e
  <2>4. {} \in SUBSET K /\ Summed(Downs({}), {}) = 0
    BY SumOfNone
  <2> HIDE DEF Downs
  <2>5. Summed(Downs({}), {}) = Summed(Downs({}), K)
    BY <2>2, <2>3, <2>4, SumSkipsZeros
  <2> QED
    BY <2>1, <2>4, <2>5
<1>2. ASSUME NEW S \in SUBSET D, NEW x \in D, S \in T, x \notin S PROVE S \cup {x} \in T
  <2>1. S \cup {x} \in SUBSET D
    OBVIOUS
  <2>2. Summed(across, S \cup {x}) = across[x] + Summed(across, S)
    <3>1. Countable(across, S \cup {x})
      BY <1>d, <2>1
    <3> HIDE DEF across
    <3> QED
      BY <1>2, <3>1, SumAdds
  <2>3. ASSUME NEW k \in K PROVE Downs(S \cup {x})[k] = m[x][k] + Downs(S)[k]
    <3>1. Countable(down(k), S \cup {x})
      BY <1>c, <2>1
    <3>2. down(k)[x] = m[x][k]
      OBVIOUS
    <3>3. Downs(S \cup {x})[k] = Summed(down(k), S \cup {x}) /\ Downs(S)[k] = Summed(down(k), S)
      OBVIOUS
    <3> HIDE DEF down, Downs
    <3>4. Summed(down(k), S \cup {x}) = down(k)[x] + Summed(down(k), S)
      BY <1>2, <3>1, SumAdds
    <3> QED
      BY <3>2, <3>3, <3>4
  <2>4. Countable(m[x], K) /\ across[x] = Summed(m[x], K)
    BY <1>a
  <2>5. Countable(Downs(S), K)
    BY <1>e
  <2>7. Summed(across, S) = Summed(Downs(S), K)
    BY <1>2
  <2> HIDE DEF Downs, across
  <2>6. Summed(Downs(S \cup {x}), K) = Summed(m[x], K) + Summed(Downs(S), K)
    <3> DEFINE f == m[x]
               g == Downs(S)
               h == Downs(S \cup {x})
    <3>1. \A k \in K : h[k] = f[k] + g[k]
      BY <2>3, Zenon
    <3>2. Countable(f, K) /\ Countable(g, K)
      BY <2>4, <2>5
    <3> HIDE DEF f, g, h
    <3>3. Summed(h, K) = Summed(f, K) + Summed(g, K)
      BY <3>1, <3>2, SumOfBoth
    <3> QED
      BY <3>3 DEF f, g, h
  <2>8. Summed(across, S \cup {x}) = Summed(Downs(S \cup {x}), K)
    BY <2>2, <2>4, <2>6, <2>7
  <2> QED
    BY <2>1, <2>8
<1>3. D \in T
  <2> HIDE DEF T
  <2>1. SUBSET D \subseteq T
    BY <1>1, <1>2, SubsetInduction
  <2> QED
    BY <2>1
<1> QED
  BY <1>3

LEMMA SumFunctionIs == \A f, S : DOMAIN f = S => SumFunction(f) = Summed(f, S)
  BY DEF SumFunction, Summed
==============================================================================
