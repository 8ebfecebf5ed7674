---------------------------- MODULE RatchetProofs ----------------------------
(***************************************************************************)
(* What a check that passes says of the tree, for every corpus, every set   *)
(* of kinds and whatever lines of the sweeps' output went unread.          *)
(***************************************************************************)
EXTENDS Ratchet, ProofLemmas

-----------------------------------------------------------------------------
(***************************************************************************)
(* Rows, one for each of some keys, and their totals.                      *)
(***************************************************************************)
RowsOf(tried, failed, D) == { Row(x, tried[x], failed[x]) : x \in D }

LEMMA RowTotals ==
  ASSUME NEW tried, NEW failed, NEW D, Countable(tried, D), Countable(failed, D)
  PROVE  LET rows == RowsOf(tried, failed, D)
         IN  /\ RowTried(rows) = Summed(tried, D)
             /\ RowFailed(rows) = Summed(failed, D)
             /\ IsFiniteSet(rows)
<1> DEFINE rows == RowsOf(tried, failed, D)
           row == [x \in D |-> Row(x, tried[x], failed[x])]
           f == [r \in rows |-> r.tried]
           g == [r \in rows |-> r.failed]
<1>1. rows = { row[x] : x \in D }
  BY DEF RowsOf
<1>2. \A x \in D : row[x].key = x /\ row[x].tried = tried[x] /\ row[x].failed = failed[x]
  BY DEF Row
<1>3. \A x \in D : row[x] \in rows
  BY <1>1
<1> HIDE DEF rows, row
<1>4. \A x \in D : f[row[x]] = tried[x] /\ g[row[x]] = failed[x]
  BY <1>2, <1>3
<1>5. \A x, y \in D : row[x] = row[y] => x = y
  BY <1>2
<1>6. DOMAIN f = rows /\ DOMAIN g = rows /\ RowTried(rows) = SumFunction(f) /\ RowFailed(rows) = SumFunction(g)
  BY DEF RowTried, RowFailed
<1> HIDE DEF f, g
<1>7. Countable(f, rows) /\ Summed(f, rows) = Summed(tried, D)
  BY <1>1, <1>4, <1>5, SumOfRows
<1>8. Countable(g, rows) /\ Summed(g, rows) = Summed(failed, D)
  BY <1>1, <1>4, <1>5, SumOfRows
<1>9. RowTried(rows) = Summed(tried, D) /\ RowFailed(rows) = Summed(failed, D)
  BY <1>6, <1>7, <1>8, SumFunctionIs, Zenon
<1>10. IsFiniteSet(rows)
  BY <1>7 DEF Countable
<1> QED
  BY <1>9, <1>10 DEF rows

\* Some of the rows that total as much as all of them are all of them: by the lengths
\* tried, as every row has at least one, or by the failures, where every row has some.
LEMMA RowsTold ==
  ASSUME NEW rows, IsFiniteSet(rows), NEW some \in SUBSET rows
  PROVE  /\ /\ \A r \in rows : r.tried \in Nat \ {0}
            /\ RowTried(some) = RowTried(rows)
            => some = rows
         /\ /\ \A r \in rows : r.failed \in Nat \ {0}
            /\ RowFailed(some) = RowFailed(rows)
            => some = rows
<1> DEFINE f == [r \in rows |-> r.tried]
           g == [r \in rows |-> r.failed]
           fs == [r \in some |-> r.tried]
           gs == [r \in some |-> r.failed]
<1>1. RowTried(rows) = Summed(f, rows) /\ RowFailed(rows) = Summed(g, rows)
  BY SumFunctionIs DEF RowTried, RowFailed
<1>2. RowTried(some) = Summed(fs, some) /\ RowFailed(some) = Summed(gs, some)
  BY SumFunctionIs DEF RowTried, RowFailed
<1>3. IsFiniteSet(some)
  BY FS_Subset
<1>4. ASSUME \A r \in rows : r.tried \in Nat \ {0}, RowTried(some) = RowTried(rows)
      PROVE  some = rows
  <2>1. Countable(f, rows) /\ Countable(fs, some) /\ \A r \in rows : f[r] > 0
    BY <1>3, <1>4 DEF Countable
  <2>2. \A r \in some : fs[r] = f[r]
    OBVIOUS
  <2> HIDE DEF f, fs
  <2>3. Summed(fs, some) = Summed(f, some)
    BY <2>1, <2>2, CountsAreNumbers, SumSame
  <2>4. Summed(f, some) = Summed(f, rows)
    BY <1>1, <1>2, <1>4, <2>3, Zenon
  <2> QED
    BY <2>1, <2>4, SumTellsParts
<1>5. ASSUME \A r \in rows : r.failed \in Nat \ {0}, RowFailed(some) = RowFailed(rows)
      PROVE  some = rows
  <2>1. Countable(g, rows) /\ Countable(gs, some) /\ \A r \in rows : g[r] > 0
    BY <1>3, <1>5 DEF Countable
  <2>2. \A r \in some : gs[r] = g[r]
    OBVIOUS
  <2> HIDE DEF g, gs
  <2>3. Summed(gs, some) = Summed(g, some)
    BY <2>1, <2>2, CountsAreNumbers, SumSame
  <2>4. Summed(g, some) = Summed(g, rows)
    BY <1>1, <1>2, <1>5, <2>3, Zenon
  <2> QED
    BY <2>1, <2>4, SumTellsParts
<1> QED
  BY <1>4, <1>5

-----------------------------------------------------------------------------
(***************************************************************************)
(* What a sweep of a tree counts, by entry and by kind.                    *)
(***************************************************************************)
Trees == [sweep : [Entries -> Devices \cup {None}], oob : [Params -> 0..MaxOob]]

TriedOf(t) == [e \in Present(t) |-> t.sweep[e].tried]
FailedOf(t) == [e \in Present(t) |-> Failures(t.sweep[e])]
FailsOf(t) == [e \in Present(t) |-> t.sweep[e].fails]
TotalOf(t) == [k \in Kinds |-> KindTotal(t, k)]
SeenKinds(t) == { j \in Kinds : KindTotal(t, j) > 0 }

LEMMA DeviceCounts ==
  ASSUME NEW d \in Devices
  PROVE  /\ d.tried \in Nat \ {0}
         /\ \A k \in Kinds : d.fails[k] \in Nat
         /\ Failures(d) = Summed(d.fails, Kinds)
         /\ Failures(d) \in Nat
<1>1. d.tried \in 1..MaxTried /\ d.fails \in [Kinds -> 0..MaxFailed]
  BY DEF Devices
<1>2. \A k \in Kinds : d.fails[k] \in Nat
  BY <1>1, RatchetAssumption
<1>3. DOMAIN d.fails = Kinds
  BY <1>1
<1>4. Failures(d) = Summed(d.fails, Kinds)
  BY <1>3, SumFunctionIs DEF Failures
<1>5. Countable(d.fails, Kinds)
  BY <1>2, RatchetAssumption DEF Countable
<1>6. Summed(d.fails, Kinds) \in Nat
  BY <1>5, SumType
<1>7. d.tried \in Nat \ {0}
  BY <1>1, RatchetAssumption
<1> QED
  BY <1>2, <1>4, <1>6, <1>7

LEMMA TreeCounts ==
  ASSUME NEW t \in Trees
  PROVE  /\ Present(t) \subseteq Entries /\ IsFiniteSet(Present(t))
         /\ Countable(TriedOf(t), Present(t)) /\ Countable(FailedOf(t), Present(t))
         /\ \A e \in Present(t) : TriedOf(t)[e] \in Nat \ {0}
         /\ Tried(t) \in Nat
         /\ Countable(TotalOf(t), Kinds) /\ \A k \in Kinds : KindTotal(t, k) \in Nat
         /\ \A p \in Params : t.oob[p] \in Nat
<1>1. Present(t) \subseteq Entries /\ IsFiniteSet(Present(t))
  BY RatchetAssumption, FS_Subset DEF Present
<1>2. \A e \in Present(t) : t.sweep[e] \in Devices
  BY DEF Present, Trees
<1>3. \A e \in Present(t) : TriedOf(t)[e] \in Nat \ {0}
  BY <1>2, DeviceCounts DEF TriedOf
<1>4. Countable(TriedOf(t), Present(t))
  BY <1>1, <1>3 DEF Countable
<1>5. Countable(FailedOf(t), Present(t))
  BY <1>1, <1>2, DeviceCounts DEF Countable, FailedOf
<1>6. Tried(t) \in Nat
  <2>1. Tried(t) = Summed(TriedOf(t), Present(t))
    BY SumFunctionIs DEF Tried, TriedOf
  <2> QED
    BY <1>4, <2>1, SumType
<1>7. ASSUME NEW k \in Kinds PROVE KindTotal(t, k) \in Nat
  <2> DEFINE f == [e \in Present(t) |-> t.sweep[e].fails[k]]
  <2>1. Countable(f, Present(t))
    BY <1>1, <1>2, DeviceCounts DEF Countable
  <2>2. KindTotal(t, k) = Summed(f, Present(t))
    BY SumFunctionIs DEF KindTotal
  <2> QED
    BY <2>1, <2>2, SumType
<1>8. Countable(TotalOf(t), Kinds)
  BY <1>7, RatchetAssumption DEF Countable, TotalOf
<1>9. \A p \in Params : t.oob[p] \in Nat
  BY RatchetAssumption DEF Trees
<1> QED
  BY <1>1, <1>3, <1>4, <1>5, <1>6, <1>7, <1>8, <1>9

\* The failures of all entries are the failures of all kinds.
LEMMA BothWays ==
  ASSUME NEW t \in Trees
  PROVE  Summed(FailedOf(t), Present(t)) = Summed(TotalOf(t), Kinds)
<1> DEFINE m == FailsOf(t)
           across == [e \in Present(t) |-> Summed(m[e], Kinds)]
           down == [k \in Kinds |-> Summed([e \in Present(t) |-> m[e][k]], Present(t))]
<1>1. IsFiniteSet(Present(t)) /\ IsFiniteSet(Kinds)
  BY TreeCounts, RatchetAssumption
<1>2. \A e \in Present(t) : t.sweep[e] \in Devices /\ m[e] = t.sweep[e].fails
  BY DEF Present, Trees, FailsOf
<1>3. \A e \in Present(t) : \A k \in Kinds : m[e][k] \in Nat
  BY <1>2, DeviceCounts
<1>4. FailedOf(t) = across
  BY <1>2, DeviceCounts DEF FailedOf
<1>5. TotalOf(t) = down
  <2>1. ASSUME NEW k \in Kinds PROVE KindTotal(t, k) = Summed([e \in Present(t) |-> m[e][k]], Present(t))
    <3>1. [e \in Present(t) |-> m[e][k]] = [e \in Present(t) |-> t.sweep[e].fails[k]]
      BY <1>2
    <3>2. KindTotal(t, k) = Summed([e \in Present(t) |-> t.sweep[e].fails[k]], Present(t))
      BY SumFunctionIs DEF KindTotal
    <3> QED
      BY <3>1, <3>2, Zenon
  <2> QED
    BY <2>1, Zenon DEF TotalOf
<1> HIDE DEF m
<1>6. Summed(across, Present(t)) = Summed(down, Kinds)
  BY <1>1, <1>3, SumEitherWay
<1> QED
  BY <1>4, <1>5, <1>6, Zenon

LEMMA TableOf ==
  ASSUME NEW t \in Trees
  PROVE  /\ EntryRows(t) = RowsOf(TriedOf(t), FailedOf(t), Present(t))
         /\ KindRows(t) = RowsOf([k \in Kinds |-> Tried(t)], TotalOf(t), SeenKinds(t))
         /\ IsFiniteSet(EntryRows(t)) /\ IsFiniteSet(KindRows(t))
         /\ RowTried(EntryRows(t)) = Tried(t)
         /\ RowFailed(EntryRows(t)) = Summed(TotalOf(t), Kinds)
         /\ RowFailed(KindRows(t)) = Summed(TotalOf(t), Kinds)
<1>1. EntryRows(t) = RowsOf(TriedOf(t), FailedOf(t), Present(t))
  BY DEF EntryRows, RowsOf, TriedOf, FailedOf
<1>2. KindRows(t) = RowsOf([k \in Kinds |-> Tried(t)], TotalOf(t), SeenKinds(t))
  BY DEF KindRows, RowsOf, TotalOf, SeenKinds
<1>3. Countable(TriedOf(t), Present(t)) /\ Countable(FailedOf(t), Present(t))
  BY TreeCounts
<1>4. Tried(t) = Summed(TriedOf(t), Present(t))
  BY SumFunctionIs DEF Tried, TriedOf
<1>5. /\ RowTried(EntryRows(t)) = Summed(TriedOf(t), Present(t))
      /\ RowFailed(EntryRows(t)) = Summed(FailedOf(t), Present(t))
      /\ IsFiniteSet(EntryRows(t))
  BY <1>1, <1>3, RowTotals
<1>6. SeenKinds(t) \in SUBSET Kinds /\ IsFiniteSet(SeenKinds(t))
  BY RatchetAssumption, FS_Subset DEF SeenKinds
<1>7. Countable(TotalOf(t), Kinds) /\ Tried(t) \in Nat
  BY TreeCounts
<1> DEFINE f == [k \in Kinds |-> Tried(t)]
<1>8. Countable(TotalOf(t), SeenKinds(t)) /\ Countable(f, SeenKinds(t))
  BY <1>6, <1>7 DEF Countable
<1>9. RowFailed(KindRows(t)) = Summed(TotalOf(t), SeenKinds(t)) /\ IsFiniteSet(KindRows(t))
  <2> HIDE DEF f
  <2>1. KindRows(t) = RowsOf(f, TotalOf(t), SeenKinds(t))
    BY <1>2 DEF f
  <2> QED
    BY <1>8, <2>1, RowTotals
<1>10. \A k \in Kinds \ SeenKinds(t) : TotalOf(t)[k] = 0
  BY <1>7 DEF TotalOf, SeenKinds, Countable
<1>11. Summed(TotalOf(t), SeenKinds(t)) = Summed(TotalOf(t), Kinds)
  BY <1>6, <1>7, <1>10, SumSkipsZeros
<1>12. Summed(FailedOf(t), Present(t)) = Summed(TotalOf(t), Kinds)
  BY BothWays
<1> QED
  BY <1>1, <1>2, <1>4, <1>5, <1>9, <1>11, <1>12

\* read_sweep takes the whole table or nothing: no line can be missed unnoticed.
LEMMA WholeOrNothing ==
  ASSUME NEW t \in Trees, NEW p, NEW rows \in Measured(t, p)
  PROVE  rows = Measurement(t, p)
<1>1. PICK x \in (SUBSET EntryRows(t)) \X (SUBSET KindRows(t)) :
        AddsUp(t, x[1], x[2]) /\ rows = {FuzzRow(t, p)} \cup x[1] \cup x[2]
  BY DEF Measured
<1>2. x[1] \in SUBSET EntryRows(t) /\ x[2] \in SUBSET KindRows(t)
  OBVIOUS
<1>3. /\ RowTried(x[1]) = RowTried(EntryRows(t))
      /\ RowFailed(x[2]) = RowFailed(KindRows(t))
  BY <1>1, TableOf DEF AddsUp
<1>4. \A r \in EntryRows(t) : r.tried \in Nat \ {0}
  <2>1. \A e \in Present(t) : t.sweep[e].tried \in Nat \ {0}
    BY TreeCounts DEF TriedOf
  <2> QED
    BY <2>1 DEF EntryRows, Row
<1>5. \A r \in KindRows(t) : r.failed \in Nat \ {0}
  BY TreeCounts DEF KindRows, Row
<1>6. IsFiniteSet(EntryRows(t)) /\ IsFiniteSet(KindRows(t))
  BY TableOf
<1>7. x[1] = EntryRows(t)
  BY <1>2, <1>3, <1>4, <1>6, RowsTold
<1>8. x[2] = KindRows(t)
  BY <1>2, <1>3, <1>5, <1>6, RowsTold
<1> QED
  BY <1>1, <1>7, <1>8, Zenon DEF Measurement

-----------------------------------------------------------------------------
(***************************************************************************)
(* Looking rows up.                                                        *)
(***************************************************************************)
LEMMA AtRow ==
  ASSUME NEW rows, KeysUnique(rows)
  PROVE  /\ \A r \in rows : At(rows, r.key) = r /\ r.key \in Keys(rows)
         /\ \A k \in Keys(rows) : At(rows, k) \in rows /\ At(rows, k).key = k
<1>1. \A k \in Keys(rows) : \E r \in rows : r.key = k
  BY DEF Keys
<1>2. \A k \in Keys(rows) : At(rows, k) \in rows /\ At(rows, k).key = k
  BY <1>1 DEF At
<1>3. \A r \in rows : r.key \in Keys(rows)
  BY DEF Keys
<1>4. \A r \in rows : At(rows, r.key) = r
  BY <1>2, <1>3 DEF KeysUnique
<1> QED
  BY <1>2, <1>3, <1>4

\* What is left of a table counts no more than the table.
LEMMA PartOfTable ==
  ASSUME NEW rows, NEW part \in SUBSET rows, KeysUnique(rows), \A r \in rows : r.failed \in Nat
  PROVE  /\ KeysUnique(part) /\ Keys(part) \subseteq Keys(rows)
         /\ \A k \in Keys(part) : At(part, k) = At(rows, k)
         /\ \A k : /\ Count(part, k) \in Nat /\ Count(rows, k) \in Nat
                   /\ Count(part, k) <= Count(rows, k)
<1>1. KeysUnique(part)
  BY DEF KeysUnique
<1>2. Keys(part) \subseteq Keys(rows)
  BY DEF Keys
<1>3. ASSUME NEW k \in Keys(part) PROVE At(part, k) = At(rows, k)
  <2>1. At(part, k) \in part /\ At(part, k).key = k
    BY <1>1, AtRow
  <2>2. At(rows, k) \in rows /\ At(rows, k).key = k
    BY <1>2, AtRow
  <2> QED
    BY <2>1, <2>2 DEF KeysUnique
<1>4. \A k \in Keys(rows) : At(rows, k).failed \in Nat
  BY AtRow
<1>5. \A k : /\ Count(part, k) \in Nat /\ Count(rows, k) \in Nat
             /\ Count(part, k) <= Count(rows, k)
  BY <1>2, <1>3, <1>4 DEF Count
<1> QED
  BY <1>1, <1>2, <1>3, <1>5

LEMMA MeasurementShape ==
  ASSUME NEW t \in Trees, NEW p \in Params
  PROVE  LET M == Measurement(t, p)
         IN  /\ KeysUnique(M)
             /\ \A r \in M : r.failed \in Nat /\ r.key \in {Fuzz} \cup Entries \cup Kinds
             /\ { r \in M : r.key \in Entries } = EntryRows(t)
             /\ { r \in M : r.key \in Kinds } = KindRows(t)
             /\ Fuzz \in Keys(M) /\ At(M, Fuzz).tried = 1
             /\ \A k \in Kinds : Count(M, k) = KindTotal(t, k)
<1> DEFINE M == Measurement(t, p)
<1>1. M = {FuzzRow(t, p)} \cup EntryRows(t) \cup KindRows(t)
  BY DEF Measurement
<1>2. FuzzRow(t, p).key = Fuzz /\ FuzzRow(t, p).tried = 1 /\ FuzzRow(t, p).failed \in Nat
  BY TreeCounts DEF FuzzRow, Row
<1>3. /\ \A r \in EntryRows(t) : r.key \in Entries /\ r.failed \in Nat
      /\ \A r, s \in EntryRows(t) : r.key = s.key => r = s
  <2>1. \A e \in Present(t) : e \in Entries /\ Failures(t.sweep[e]) \in Nat
    BY TreeCounts DEF FailedOf, Countable
  <2>2. \A r \in EntryRows(t) : \E e \in Present(t) :
           r = Row(e, t.sweep[e].tried, Failures(t.sweep[e]))
    BY DEF EntryRows
  <2>3. \A r \in EntryRows(t) : /\ r.key \in Present(t)
                                /\ r = Row(r.key, t.sweep[r.key].tried, Failures(t.sweep[r.key]))
                                /\ r.failed = Failures(t.sweep[r.key])
    BY <2>2 DEF Row
  <2>4. \A r \in EntryRows(t) : r.key \in Entries /\ r.failed \in Nat
    BY <2>1, <2>3, Zenon
  <2>5. \A r, s \in EntryRows(t) : r.key = s.key => r = s
    BY <2>3, Zenon
  <2> QED
    BY <2>4, <2>5
<1>4. /\ \A r \in KindRows(t) : r.key \in Kinds /\ r.failed \in Nat /\ r.failed = KindTotal(t, r.key)
      /\ \A r, s \in KindRows(t) : r.key = s.key => r = s
      /\ \A k \in SeenKinds(t) : \E r \in KindRows(t) : r.key = k
      /\ \A r \in KindRows(t) : r.key \in SeenKinds(t)
  <2>1. \A k \in Kinds : KindTotal(t, k) \in Nat
    BY TreeCounts
  <2>2. KindRows(t) = { Row(k, Tried(t), KindTotal(t, k)) : k \in SeenKinds(t) }
    BY DEF KindRows, SeenKinds
  <2>3. \A r \in KindRows(t) : /\ r.key \in SeenKinds(t)
                               /\ r = Row(r.key, Tried(t), KindTotal(t, r.key))
                               /\ r.failed = KindTotal(t, r.key)
    <3>1. \A r \in KindRows(t) : \E k \in SeenKinds(t) : r = Row(k, Tried(t), KindTotal(t, k))
      BY <2>2
    <3> QED
      BY <3>1 DEF Row
  <2>4. \A k \in SeenKinds(t) : \E r \in KindRows(t) : r.key = k
    <3>1. \A k \in SeenKinds(t) : Row(k, Tried(t), KindTotal(t, k)) \in KindRows(t)
      BY <2>2
    <3>2. \A k \in SeenKinds(t) : Row(k, Tried(t), KindTotal(t, k)).key = k
      BY DEF Row
    <3> QED
      BY <3>1, <3>2, Zenon
  <2>5. SeenKinds(t) \subseteq Kinds
    BY DEF SeenKinds
  <2>6. \A r \in KindRows(t) : r.key \in Kinds /\ r.failed \in Nat /\ r.failed = KindTotal(t, r.key)
    BY <2>1, <2>3, <2>5
  <2>7. \A r, s \in KindRows(t) : r.key = s.key => r = s
    BY <2>3, Zenon
  <2> QED
    BY <2>3, <2>4, <2>6, <2>7
<1>5. Fuzz \notin Entries /\ Fuzz \notin Kinds /\ Entries \cap Kinds = {}
  BY RatchetAssumption
<1> HIDE DEF M, Fuzz
<1>6. \A r \in M : r.failed \in Nat /\ r.key \in {Fuzz} \cup Entries \cup Kinds
  BY <1>1, <1>2, <1>3, <1>4
<1>7. KeysUnique(M)
  <2> SUFFICES ASSUME NEW r \in M, NEW s \in M, r.key = s.key PROVE r = s
    BY DEF KeysUnique
  <2>1. CASE r = FuzzRow(t, p)
    BY <1>1, <1>2, <1>3, <1>4, <1>5, <2>1
  <2>2. CASE r \in EntryRows(t)
    <3>1. s \in EntryRows(t)
      BY <1>1, <1>2, <1>3, <1>4, <1>5, <2>2
    <3> QED
      BY <1>3, <2>2, <3>1
  <2>3. CASE r \in KindRows(t)
    <3>1. s \in KindRows(t)
      BY <1>1, <1>2, <1>3, <1>4, <1>5, <2>3
    <3> QED
      BY <1>4, <2>3, <3>1
  <2> QED
    BY <1>1, <2>1, <2>2, <2>3
<1>8. { r \in M : r.key \in Entries } = EntryRows(t)
  BY <1>1, <1>2, <1>3, <1>4, <1>5
<1>9. { r \in M : r.key \in Kinds } = KindRows(t)
  BY <1>1, <1>2, <1>3, <1>4, <1>5
<1>10. Fuzz \in Keys(M) /\ At(M, Fuzz).tried = 1
  <2>1. FuzzRow(t, p) \in M
    BY <1>1
  <2>2. At(M, FuzzRow(t, p).key) = FuzzRow(t, p) /\ FuzzRow(t, p).key \in Keys(M)
    BY <1>7, <2>1, AtRow
  <2> QED
    BY <1>2, <2>2
<1>11. ASSUME NEW k \in Kinds PROVE Count(M, k) = KindTotal(t, k)
  <2>1. CASE k \in SeenKinds(t)
    <3>1. PICK r \in KindRows(t) : r.key = k
      BY <1>4, <2>1
    <3>2. r \in M /\ r.failed = KindTotal(t, k)
      BY <1>1, <1>4, <3>1
    <3>3. At(M, k) = r /\ k \in Keys(M)
      BY <1>7, <3>1, <3>2, AtRow
    <3> QED
      BY <3>2, <3>3 DEF Count
  <2>2. CASE k \notin SeenKinds(t)
    <3>1. k \notin Keys(M)
      <4>1. ASSUME NEW r \in M PROVE r.key # k
        BY <1>1, <1>2, <1>3, <1>4, <1>5, <2>2
      <4> QED
        BY <4>1 DEF Keys
    <3>2. KindTotal(t, k) = 0
      BY <2>2, TreeCounts DEF SeenKinds
    <3> QED
      BY <3>1, <3>2 DEF Count
  <2> QED
    BY <2>1, <2>2
<1> QED
  BY <1>6, <1>7, <1>8, <1>9, <1>10, <1>11 DEF M

-----------------------------------------------------------------------------
(***************************************************************************)
(* The invariant.                                                          *)
(***************************************************************************)
\* What the last recording meant to leave is what some tree counted; of it the file
\* holds a part, unless two of its rows have the same key.
Recorded(p, t) ==
    /\ recorded = [params |-> p, rows |-> Measurement(t, p)]
    /\ \E rows :
          /\ file = [params |-> p, rows |-> rows]
          /\ KeysUnique(rows) => rows \subseteq Measurement(t, p)

\* A verdict stands for the file and the tree as they are.
Judged ==
    /\ Accepted(file, recorded.params)
    /\ verdict.passes = Passes(file.rows, Truth)
    /\ verdict.advises = Advises(file.rows, Truth)

RatchetInv ==
    /\ tree \in Trees
    /\ \/ file = None /\ recorded = None
       \/ \E p \in Params, t \in Trees : Recorded(p, t)
    /\ Compared => Judged

LEMMA InitRatchet == Init => RatchetInv
<1> SUFFICES ASSUME Init PROVE RatchetInv
  OBVIOUS
<1>1. tree \in Trees
  BY RatchetAssumption DEF Init, Trees
<1>2. ~Compared
  BY DEF Init, Pending, Compared
<1> QED
  BY <1>1, <1>2 DEF Init, RatchetInv

LEMMA PartialIsPart == \A rows : \A part \in Partial(rows) : part \subseteq rows
  BY DEF Partial

LEMMA StepRatchet == RatchetInv /\ [Next]_vars => RatchetInv'
<1> SUFFICES ASSUME RatchetInv, [Next]_vars PROVE RatchetInv'
  OBVIOUS
<1> DEFINE Told == \/ file = None /\ recorded = None
                   \/ \E p \in Params, t \in Trees : Recorded(p, t)
<1>0. tree \in Trees /\ Told
  BY DEF RatchetInv
<1>1. ASSUME NEW e \in Entries, EditEntry(e) PROVE RatchetInv'
  <2>1. PICK d \in Devices \cup {None} : tree' = [tree EXCEPT !.sweep[e] = d]
    BY <1>1 DEF EditEntry
  <2>2. tree' \in Trees
    BY <1>0, <2>1 DEF Trees
  <2>3. ~Compared'
    BY <1>1 DEF EditEntry, Pending, Compared
  <2>4. Told'
    BY <1>0, <1>1 DEF EditEntry, Recorded
  <2> QED
    BY <2>2, <2>3, <2>4 DEF RatchetInv
<1>2. ASSUME NEW p \in Params, EditParser(p) PROVE RatchetInv'
  <2>1. PICK n \in 0..MaxOob : tree' = [tree EXCEPT !.oob[p] = n]
    BY <1>2 DEF EditParser
  <2>2. tree' \in Trees
    BY <1>0, <2>1 DEF Trees
  <2>3. ~Compared'
    BY <1>2 DEF EditParser, Pending, Compared
  <2>4. Told'
    BY <1>0, <1>2 DEF EditParser, Recorded
  <2> QED
    BY <2>2, <2>3, <2>4 DEF RatchetInv
<1>3. ASSUME NEW p \in Params, Record(p) PROVE RatchetInv'
  <2>1. PICK rows \in Measured(tree, p) : recorded' = [params |-> p, rows |-> rows] /\ file' = recorded'
    BY <1>3 DEF Record
  <2>2. rows = Measurement(tree, p)
    BY <1>0, <2>1, WholeOrNothing
  <2>3. Recorded(p, tree)'
    <3>1. tree' = tree
      BY <1>3 DEF Record
    <3>2. recorded' = [params |-> p, rows |-> Measurement(tree, p)] /\ file' = [params |-> p, rows |-> rows]
      BY <2>1, <2>2, Zenon
    <3> QED
      BY <2>2, <3>1, <3>2 DEF Recorded
  <2>4. tree' \in Trees /\ ~Compared'
    BY <1>0, <1>3 DEF Record, Pending, Compared
  <2> QED
    BY <2>3, <2>4 DEF RatchetInv
<1>4. ASSUME NEW p \in Params, RecordCutShort(p) PROVE RatchetInv'
  <2>1. PICK rows \in Measured(tree, p) :
          /\ recorded' = [params |-> p, rows |-> rows]
          /\ \E part \in Partial(rows) : file' = [params |-> p, rows |-> part]
    BY <1>4 DEF RecordCutShort
  <2>2. PICK part \in Partial(rows) : file' = [params |-> p, rows |-> part]
    BY <2>1
  <2>3. rows = Measurement(tree, p)
    BY <1>0, <2>1, WholeOrNothing
  <2>4. part \subseteq Measurement(tree, p)
    BY <2>3, PartialIsPart
  <2>5. Recorded(p, tree)'
    <3>1. tree' = tree
      BY <1>4 DEF RecordCutShort
    <3>2. recorded' = [params |-> p, rows |-> Measurement(tree, p)]
      BY <2>1, <2>3, Zenon
    <3> QED
      BY <2>2, <2>4, <3>1, <3>2 DEF Recorded
  <2>6. tree' \in Trees /\ ~Compared'
    BY <1>0, <1>4 DEF RecordCutShort, Pending, Compared
  <2> QED
    BY <2>5, <2>6 DEF RatchetInv
<1>5. ASSUME MergeByHand PROVE RatchetInv'
  <2>1. file # None
    BY <1>5 DEF MergeByHand
  <2>2. PICK p \in Params, t \in Trees : Recorded(p, t)
    BY <1>0, <2>1
  <2>3. PICK rows : file = [params |-> p, rows |-> rows] /\ (KeysUnique(rows) => rows \subseteq Measurement(t, p))
    BY <2>2 DEF Recorded
  <2>4. PICK r \in file.rows, n \in 0..MaxTried :
          /\ n # r.failed
          /\ file' = [file EXCEPT !.rows = @ \cup {[r EXCEPT !.failed = n]}]
    BY <1>5 DEF MergeByHand
  <2> DEFINE other == [r EXCEPT !.failed = n]
             more == rows \cup {other}
  <2>5. r \in rows /\ file' = [params |-> p, rows |-> more]
    BY <2>3, <2>4
  <2>6. ~KeysUnique(more)
    <3>1. KeysUnique(file.rows) /\ file.rows = rows
      BY <1>5, <2>3 DEF MergeByHand
    <3>2. r \in Measurement(t, p)
      BY <2>3, <2>5, <3>1, Zenon
    <3>3. \E k, x, y : r = Row(k, x, y)
      BY <3>2 DEF Measurement, FuzzRow, EntryRows, KindRows
    <3>4. other.key = r.key /\ other.failed = n
      BY <3>3 DEF Row
    <3>5. other # r /\ r \in more /\ other \in more
      BY <2>4, <2>5, <3>4
    <3> HIDE DEF more, other
    <3> QED
      BY <3>4, <3>5 DEF KeysUnique
  <2>7. Recorded(p, t)'
    <3>1. recorded' = recorded
      BY <1>5 DEF MergeByHand
    <3> HIDE DEF more
    <3> QED
      BY <2>2, <2>5, <2>6, <3>1 DEF Recorded
  <2>8. tree' \in Trees /\ ~Compared'
    BY <1>0, <1>5 DEF MergeByHand, Pending, Compared
  <2> QED
    BY <2>7, <2>8 DEF RatchetInv
<1>6. ASSUME NEW p \in Params, CheckRefused(p) PROVE RatchetInv'
  <2>1. ~Compared'
    BY <1>6 DEF CheckRefused, Pending, Compared
  <2>2. tree' \in Trees /\ Told'
    BY <1>0, <1>6 DEF CheckRefused, Recorded
  <2> QED
    BY <2>1, <2>2 DEF RatchetInv
<1>7. ASSUME NEW p \in Params, Check(p) PROVE RatchetInv'
  <2>1. tree' = tree /\ file' = file /\ recorded' = recorded
    BY <1>7 DEF Check
  <2>2. tree' \in Trees /\ Told'
    BY <1>0, <2>1 DEF Recorded
  <2>3. Accepted(file, p)
    BY <1>7 DEF Check
  <2>4. recorded.params = p
    BY <1>0, <2>3 DEF Accepted, Recorded
  <2>5. PICK now \in Measured(tree, p) :
          verdict' = [ended |-> "compared",
                       passes |-> Passes(file.rows, now),
                       advises |-> Advises(file.rows, now)]
    BY <1>7 DEF Check
  <2>6. now = Truth
    BY <1>0, <2>4, <2>5, WholeOrNothing DEF Truth
  <2>7. /\ verdict'.passes = Passes(file.rows, now)
        /\ verdict'.advises = Advises(file.rows, now)
    BY <2>5, Zenon
  <2>8. Truth' = Truth
    BY <2>1, Zenon DEF Truth
  <2>9. Judged'
    BY <2>1, <2>3, <2>4, <2>6, <2>7, <2>8, Zenon DEF Judged
  <2> QED
    BY <2>2, <2>9 DEF RatchetInv
<1>8. CASE UNCHANGED vars
  <2>1. tree' = tree /\ file' = file /\ recorded' = recorded /\ verdict' = verdict
    BY <1>8 DEF vars
  <2>2. tree' \in Trees /\ Told'
    BY <1>0, <2>1 DEF Recorded
  <2>3. Compared' = Compared /\ Judged' = Judged
    BY <2>1, Zenon DEF Compared, Judged, Truth
  <2> QED
    BY <2>2, <2>3 DEF RatchetInv
<1> QED
  BY <1>1, <1>2, <1>3, <1>4, <1>5, <1>6, <1>7, <1>8 DEF Next

LEMMA RatchetAlways == Spec => []RatchetInv
  BY InitRatchet, StepRatchet, PTL DEF Spec

-----------------------------------------------------------------------------
(***************************************************************************)
(* What a verdict says.                                                    *)
(***************************************************************************)
\* Everything the three theorems use of a comparison: of which table the file holds a part,
\* and what that table and the tree's own have in common.
Comparison(p, s) ==
    /\ p \in Params /\ s \in Trees /\ tree \in Trees
    /\ recorded = [params |-> p, rows |-> Measurement(s, p)]
    /\ Truth = Measurement(tree, p)
    /\ file.rows \subseteq Measurement(s, p) /\ KeysUnique(file.rows)
    /\ verdict.passes = Passes(file.rows, Truth)
    /\ verdict.advises = Advises(file.rows, Truth)

LEMMA ComparedTables ==
  ASSUME RatchetInv, Compared
  PROVE  \E p \in Params, s \in Trees : Comparison(p, s)
<1>1. Judged
  BY DEF RatchetInv
<1>2. file # None
  BY <1>1 DEF Judged, Accepted
<1>3. PICK p \in Params, s \in Trees : Recorded(p, s)
  BY <1>2 DEF RatchetInv
<1>4. PICK rows : file = [params |-> p, rows |-> rows] /\ (KeysUnique(rows) => rows \subseteq Measurement(s, p))
  BY <1>3 DEF Recorded
<1>5. recorded = [params |-> p, rows |-> Measurement(s, p)]
  BY <1>3 DEF Recorded
<1>6. file.rows = rows /\ recorded.params = p
  BY <1>4, <1>5
<1>7. KeysUnique(file.rows)
  BY <1>1 DEF Judged, Accepted
<1>8. file.rows \subseteq Measurement(s, p)
  BY <1>4, <1>6, <1>7
<1>9. Truth = Measurement(tree, p)
  BY <1>6 DEF Truth
<1>10. verdict.passes = Passes(file.rows, Truth) /\ verdict.advises = Advises(file.rows, Truth)
  BY <1>1, Zenon DEF Judged
<1>11. tree \in Trees
  BY DEF RatchetInv
<1>12. Comparison(p, s)
  BY <1>5, <1>7, <1>8, <1>9, <1>10, <1>11, Zenon DEF Comparison
<1> QED
  BY <1>12

LEMMA BothTables ==
  ASSUME NEW p, NEW s, Comparison(p, s)
  PROVE  /\ KeysUnique(Truth) /\ KeysUnique(recorded.rows)
         /\ Keys(Truth) \subseteq {Fuzz} \cup Entries \cup Kinds
         /\ Keys(file.rows) \subseteq Keys(recorded.rows)
         /\ \A k \in Keys(file.rows) : At(file.rows, k) = At(recorded.rows, k)
         /\ \A k : /\ Count(file.rows, k) \in Nat /\ Count(recorded.rows, k) \in Nat
                   /\ Count(Truth, k) \in Nat
                   /\ Count(file.rows, k) <= Count(recorded.rows, k)
<1>0. Truth = Measurement(tree, p) /\ recorded.rows = Measurement(s, p)
  BY DEF Comparison
<1>1. /\ KeysUnique(Truth) /\ KeysUnique(recorded.rows)
      /\ \A r \in Truth : r.failed \in Nat /\ r.key \in {Fuzz} \cup Entries \cup Kinds
      /\ \A r \in recorded.rows : r.failed \in Nat
  BY <1>0, MeasurementShape DEF Comparison
<1>2. Keys(Truth) \subseteq {Fuzz} \cup Entries \cup Kinds
  BY <1>1 DEF Keys
<1>3. file.rows \in SUBSET recorded.rows
  BY <1>0 DEF Comparison
<1>4. /\ Keys(file.rows) \subseteq Keys(recorded.rows)
      /\ \A k \in Keys(file.rows) : At(file.rows, k) = At(recorded.rows, k)
      /\ \A k : /\ Count(file.rows, k) \in Nat /\ Count(recorded.rows, k) \in Nat
                /\ Count(file.rows, k) <= Count(recorded.rows, k)
  BY <1>1, <1>3, PartOfTable
<1>5. Truth \in SUBSET Truth
  OBVIOUS
<1>6. \A k : Count(Truth, k) \in Nat
  BY <1>1, <1>5, PartOfTable
<1> QED
  BY <1>1, <1>2, <1>4, <1>6

\* Nothing is worse: no entry tried as before, and no kind, counts more than in the file.
LEMMA NothingWorse ==
  ASSUME NEW p, NEW s, Comparison(p, s), Worse(file.rows, Truth) = {}
  PROVE  \A k \in Kinds \cup SameTried(file.rows, Truth) :
            Count(Truth, k) <= Count(file.rows, k) /\ Count(file.rows, k) <= Count(recorded.rows, k)
<1> TAKE k \in Kinds \cup SameTried(file.rows, Truth)
<1>1. ~(Count(Truth, k) > Count(file.rows, k))
  BY DEF Worse
<1>2. /\ Count(file.rows, k) \in Nat /\ Count(recorded.rows, k) \in Nat
      /\ Count(Truth, k) \in Nat
      /\ Count(file.rows, k) <= Count(recorded.rows, k)
  BY BothTables
<1> QED
  BY <1>1, <1>2

LEMMA PassHolds ==
  ASSUME RatchetInv
  PROVE  PassMeansTreeHeld
<1> SUFFICES ASSUME Compared, verdict.passes
             PROVE  /\ Listed(Truth) \subseteq Listed(recorded.rows)
                    /\ file = recorded => Listed(Truth) = Listed(recorded.rows)
                    /\ \A e \in Listed(Truth) : At(Truth, e).tried = At(recorded.rows, e).tried
                    /\ \A k \in Keys(Truth) : Count(Truth, k) <= Count(recorded.rows, k)
  BY DEF PassMeansTreeHeld
<1>1. PICK p \in Params, s \in Trees : Comparison(p, s)
  BY ComparedTables
<1>2. Worse(file.rows, Truth) = {} /\ Shape(file.rows, Truth) = {}
  BY <1>1, Zenon DEF Comparison, Passes
<1>3. Listed(file.rows) \cup Listed(Truth) \subseteq SameTried(file.rows, Truth)
  BY <1>2 DEF Shape
<1>4. Listed(file.rows) = Listed(Truth)
  BY <1>3 DEF SameTried, Common
<1>5. Keys(file.rows) \subseteq Keys(recorded.rows)
  BY <1>1, BothTables
<1>6. Listed(Truth) \subseteq Listed(recorded.rows)
  BY <1>4, <1>5 DEF Listed
<1>7. file = recorded => Listed(Truth) = Listed(recorded.rows)
  BY <1>4
<1>8. ASSUME NEW e \in Listed(Truth) PROVE At(Truth, e).tried = At(recorded.rows, e).tried
  <2>1. At(Truth, e).tried = At(file.rows, e).tried
    BY <1>3 DEF SameTried
  <2>2. e \in Keys(file.rows)
    BY <1>4 DEF Listed
  <2>3. At(file.rows, e) = At(recorded.rows, e)
    BY <1>1, <2>2, BothTables
  <2> QED
    BY <2>1, <2>3
<1>9. ASSUME NEW k \in Keys(Truth) PROVE Count(Truth, k) <= Count(recorded.rows, k)
  <2>1. k \in Kinds \cup SameTried(file.rows, Truth)
    BY <1>3 DEF Listed
  <2>2. Count(Truth, k) <= Count(file.rows, k) /\ Count(file.rows, k) <= Count(recorded.rows, k)
    BY <1>1, <1>2, <2>1, NothingWorse
  <2>3. Count(Truth, k) \in Nat /\ Count(file.rows, k) \in Nat /\ Count(recorded.rows, k) \in Nat
    BY <1>1, BothTables
  <2> QED
    BY <2>2, <2>3
<1> QED
  BY <1>6, <1>7, <1>8, <1>9

LEMMA RecordingHolds ==
  ASSUME RatchetInv
  PROVE  RecordedTreeMatches
<1>1. ASSUME recorded # None
      PROVE  RowFailed({ r \in recorded.rows : r.key \in Entries })
               = RowFailed({ r \in recorded.rows : r.key \in Kinds })
  <2>1. PICK p \in Params, t \in Trees : Recorded(p, t)
    BY <1>1 DEF RatchetInv
  <2>2. recorded.rows = Measurement(t, p)
    BY <2>1 DEF Recorded
  <2>3. /\ { r \in recorded.rows : r.key \in Entries } = EntryRows(t)
        /\ { r \in recorded.rows : r.key \in Kinds } = KindRows(t)
    BY <2>2, MeasurementShape
  <2> QED
    BY <2>3, TableOf
<1>2. ASSUME Compared, file = recorded, Truth = recorded.rows
      PROVE  verdict.passes /\ ~verdict.advises
  <2>1. PICK p \in Params, s \in Trees : Comparison(p, s)
    BY <1>2, ComparedTables
  <2>2. \A k : Count(Truth, k) \in Nat
    BY <2>1, BothTables
  <2>3. Worse(Truth, Truth) = {} /\ Improved(Truth, Truth) = {}
    BY <2>2 DEF Worse, Improved
  <2>4. Shape(Truth, Truth) = {}
    BY DEF Shape, SameTried, Common
  <2>5. Passes(Truth, Truth) /\ ~Advises(Truth, Truth)
    BY <2>3, <2>4 DEF Passes, Advises
  <2>6. file.rows = Truth
    BY <1>2, Zenon
  <2>7. verdict.passes = Passes(Truth, Truth) /\ verdict.advises = Advises(Truth, Truth)
    BY <2>1, <2>6, Zenon DEF Comparison
  <2> QED
    BY <2>5, <2>7, Zenon
<1> QED
  BY <1>1, <1>2 DEF RecordedTreeMatches

LEMMA AdviceHolds ==
  ASSUME RatchetInv
  PROVE  AdviceKeepsTotals
<1> SUFFICES ASSUME Compared, verdict.advises
             PROVE  /\ RowFailed(EntryRows(tree)) <= RowFailed({ r \in recorded.rows : r.key \in Entries })
                    /\ Fuzz \in Keys(file.rows) => Count(Truth, Fuzz) <= Count(recorded.rows, Fuzz)
  BY DEF AdviceKeepsTotals
<1>1. PICK p \in Params, s \in Trees : Comparison(p, s)
  BY ComparedTables
<1>2. Worse(file.rows, Truth) = {}
  BY <1>1, Zenon DEF Comparison, Advises
<1>3. tree \in Trees /\ Truth = Measurement(tree, p) /\ recorded.rows = Measurement(s, p)
  BY <1>1 DEF Comparison
<1>4. RowFailed(EntryRows(tree)) <= RowFailed({ r \in recorded.rows : r.key \in Entries })
  <2>1. ASSUME NEW k \in Kinds PROVE TotalOf(tree)[k] <= TotalOf(s)[k]
    <3>1. Count(Truth, k) = KindTotal(tree, k) /\ Count(recorded.rows, k) = KindTotal(s, k)
      BY <1>1, <1>3, MeasurementShape
    <3>2. Count(Truth, k) <= Count(file.rows, k) /\ Count(file.rows, k) <= Count(recorded.rows, k)
      BY <1>1, <1>2, NothingWorse
    <3>3. Count(Truth, k) \in Nat /\ Count(file.rows, k) \in Nat /\ Count(recorded.rows, k) \in Nat
      BY <1>1, BothTables
    <3> QED
      BY <3>1, <3>2, <3>3 DEF TotalOf
  <2>2. Countable(TotalOf(tree), Kinds) /\ Countable(TotalOf(s), Kinds)
    BY <1>3, TreeCounts
  <2>3. Summed(TotalOf(tree), Kinds) <= Summed(TotalOf(s), Kinds)
    BY <2>1, <2>2, SumGrows
  <2>4. { r \in recorded.rows : r.key \in Entries } = EntryRows(s)
    BY <1>1, <1>3, MeasurementShape
  <2>5. /\ RowFailed(EntryRows(tree)) = Summed(TotalOf(tree), Kinds)
        /\ RowFailed(EntryRows(s)) = Summed(TotalOf(s), Kinds)
    BY <1>3, TableOf
  <2> QED
    BY <2>3, <2>4, <2>5
<1>5. ASSUME Fuzz \in Keys(file.rows) PROVE Count(Truth, Fuzz) <= Count(recorded.rows, Fuzz)
  <2>1. /\ Fuzz \in Keys(Truth) /\ At(Truth, Fuzz).tried = 1
        /\ At(recorded.rows, Fuzz).tried = 1
    BY <1>1, <1>3, MeasurementShape
  <2>2. At(file.rows, Fuzz) = At(recorded.rows, Fuzz)
    BY <1>1, <1>5, BothTables
  <2>3. Fuzz \in SameTried(file.rows, Truth)
    BY <1>5, <2>1, <2>2, RatchetAssumption DEF SameTried, Common, Listed
  <2>4. /\ Count(Truth, Fuzz) <= Count(file.rows, Fuzz)
        /\ Count(file.rows, Fuzz) <= Count(recorded.rows, Fuzz)
    BY <1>1, <1>2, <2>3, NothingWorse
  <2>5. /\ Count(Truth, Fuzz) \in Nat /\ Count(file.rows, Fuzz) \in Nat
        /\ Count(recorded.rows, Fuzz) \in Nat
    BY <1>1, BothTables
  <2> QED
    BY <2>4, <2>5
<1> QED
  BY <1>4, <1>5

-----------------------------------------------------------------------------
\* A check of tools/ratchet.py that exits 0 holds of the tree itself: no entry is listed
\* that was not recorded, none at another number of lengths, and no entry, kind or fuzz
\* total counts more than the recording meant to leave, for every corpus and every set of
\* kinds, whatever lines of the sweep read_sweep did not recognise, wherever the write of
\* the baseline was cut short and whatever was merged into it by hand.
THEOREM PassSpeaksOfTheTree == Spec => []PassMeansTreeHeld
  BY RatchetAlways, PassHolds, PTL

\* What `record` means to leave adds up by entry as by kind, and the tree it was read from
\* passes with nothing to advise.
THEOREM RecordingSettles == Spec => []RecordedTreeMatches
  BY RatchetAlways, RecordingHolds, PTL

\* compare() advises `make baseline` only where that raises neither the failures in all nor
\* a fuzz total the file still lists.
THEOREM AdviceNeverRaises == Spec => []AdviceKeepsTotals
  BY RatchetAlways, AdviceHolds, PTL
==============================================================================
