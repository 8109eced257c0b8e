-------------------------- MODULE PercentileProofs --------------------------
(***************************************************************************)
(* The percentiles of MetricRow, for any list of events: they exist, are   *)
(* in order, and are what the code computes, which sorts the durations and *)
(* indexes the result with (n*q)/100 (db/aggregation.go:52-61).            *)
(***************************************************************************)
EXTENDS MetricRow, FiniteSetTheorems, WellFoundedInduction, TLAPS

\* Natural numbers have a least one among them.
LEMMA LeastNatural ==
    ASSUME NEW S \in SUBSET Nat, S # {}
    PROVE  \E m \in S : \A n \in S : m <= n
<1> DEFINE R == StrictSubsetOrdering(Nat)
           T == {0..n : n \in S}
<1>1. T \subseteq FiniteSubsetsOf(Nat) /\ T # {}
  <2>1. ASSUME NEW n \in S PROVE 0..n \in FiniteSubsetsOf(Nat)
    <3>1. IsFiniteSet(0..n)
      BY FS_Interval
    <3>2. 0..n \subseteq Nat
      OBVIOUS
    <3> QED
      BY <3>1, <3>2 DEF FiniteSubsetsOf
  <2> QED
    BY <2>1
<1>2. IsWellFoundedOn(R, FiniteSubsetsOf(Nat))
  BY FS_StrictSubsetOrderingWellFounded
<1>3. PICK x \in T : \A y \in T : <<y, x>> \notin R
  <2> HIDE DEF R, T
  <2> QED
    BY <1>1, <1>2, WFMin
<1>4. PICK m \in S : x = 0..m
  BY <1>3
<1>5. ASSUME NEW n \in S, n < m PROVE FALSE
  <2>1. 0..n \subseteq 0..m /\ 0..n # 0..m
    BY <1>5
  <2>2. <<0..n, 0..m>> \in R
    BY <2>1 DEF StrictSubsetOrdering
  <2> QED
    BY <1>3, <1>4, <2>2
<1> QED
  BY <1>5

\* Finitely many natural numbers have a greatest one among them.
LEMMA GreatestOfFinite ==
    ASSUME NEW S \in SUBSET Nat, IsFiniteSet(S), S # {}
    PROVE  \E m \in S : \A n \in S : n <= m
<1> DEFINE R == StrictSubsetOrdering(S)
           From(n) == {k \in S : n <= k}
           T == {From(n) : n \in S}
<1>1. T \subseteq FiniteSubsetsOf(S) /\ T # {}
  <2>1. ASSUME NEW n \in S PROVE From(n) \in FiniteSubsetsOf(S)
    <3>1. From(n) \subseteq S
      OBVIOUS
    <3>2. IsFiniteSet(From(n))
      BY <3>1, FS_Subset
    <3> QED
      BY <3>1, <3>2 DEF FiniteSubsetsOf
  <2> QED
    BY <2>1
<1>2. IsWellFoundedOn(R, FiniteSubsetsOf(S))
  BY FS_StrictSubsetOrderingWellFounded
<1>3. PICK x \in T : \A y \in T : <<y, x>> \notin R
  <2> HIDE DEF R, T
  <2> QED
    BY <1>1, <1>2, WFMin
<1>4. PICK m \in S : x = From(m)
  BY <1>3
<1>5. ASSUME NEW n \in S, n > m PROVE FALSE
  <2>1. From(n) \subseteq From(m) /\ m \in From(m) /\ m \notin From(n)
    <3>1. m < n /\ S \subseteq Nat
      BY <1>5
    <3>2. \A k \in S : n <= k => m <= k
      BY <3>1
    <3>3. m <= m /\ ~(n <= m)
      BY <3>1
    <3> QED
      BY <3>2, <3>3
  <2>2. <<From(n), From(m)>> \in R
    <3>1. From(n) \subseteq S /\ From(m) \subseteq S
      OBVIOUS
    <3> HIDE DEF From
    <3> QED
      BY <2>1, <3>1 DEF StrictSubsetOrdering
  <2> QED
    BY <1>3, <1>4, <2>2
<1> QED
  BY <1>5
-----------------------------------------------------------------------------
(***************************************************************************)
(* Percentiles.                                                            *)
(***************************************************************************)
Quantiles == {50, 95, 99}
Rank(list, q) == (Cardinality(list) * q) \div 100
Below(list, d) == {e \in list : e.dur < d}
UpTo(list, d)  == {e \in list : e.dur <= d}

\* The index is within the slice.
LEMMA RankInSlice ==
    ASSUME NEW list, IsFiniteSet(list), list # {}, NEW q \in 0..99
    PROVE  Rank(list, q) \in Nat /\ Rank(list, q) < Cardinality(list)
<1> DEFINE n == Cardinality(list)
           r == (n * q) \div 100
<1>1. n \in Nat /\ n # 0
  BY FS_CardinalityType, FS_EmptySet
<1> HIDE DEF n
<1>2. n * q \in Nat /\ n * q <= n * 99
  BY <1>1
<1>3. r \in Int /\ n * q = 100 * r + ((n * q) % 100) /\ (n * q) % 100 \in 0..99
  BY <1>2
<1>4. r >= 0 /\ r < n
  BY <1>1, <1>2, <1>3
<1> QED
  BY <1>3, <1>4 DEF Rank, n

\* Finitely many events have finitely many durations.
LEMMA DurationsFinite ==
    ASSUME NEW list, IsFiniteSet(list)
    PROVE  IsFiniteSet({e.dur : e \in list})
<1> DEFINE durOf == [e \in list |-> e.dur]
<1>1. durOf \in Surjection(list, {e.dur : e \in list})
  BY DEF Surjection
<1> QED
  BY <1>1, FS_Surjection

\* There is a duration with at most `rank' shorter ones and more than `rank'
\* that are no longer: the CHOOSE in Percentile has something to choose.
LEMMA PercentileFacts ==
    ASSUME NEW list, IsFiniteSet(list), list # {},
           \A e \in list : e.dur \in Nat,
           NEW q \in Quantiles
    PROVE  LET d == Percentile(list, q)
           IN  /\ d \in {e.dur : e \in list}
               /\ Cardinality(Below(list, d)) <= Rank(list, q)
               /\ Rank(list, q) < Cardinality(UpTo(list, d))
<1> DEFINE D == {e.dur : e \in list}
           rank == Rank(list, q)
           G == {d \in D : rank < Cardinality(UpTo(list, d))}
<1>1. D \subseteq Nat /\ D # {} /\ IsFiniteSet(D)
  BY DurationsFinite
<1>2. rank \in Nat /\ rank < Cardinality(list)
  BY RankInSlice DEF Quantiles
<1> HIDE DEF rank
<1>3. G # {}
  <2>1. PICK m \in D : \A n \in D : n <= m
    <3> HIDE DEF D
    <3> QED
      BY <1>1, GreatestOfFinite
  <2>2. UpTo(list, m) = list
    BY <2>1 DEF UpTo
  <2> QED
    BY <1>2, <2>1, <2>2
<1>4. PICK g \in G : \A n \in G : g <= n
  <2>1. G \in SUBSET Nat
    BY <1>1
  <2> HIDE DEF G
  <2> QED
    BY <1>3, <2>1, LeastNatural
<1>5. g \in D /\ g \in Nat /\ rank < Cardinality(UpTo(list, g))
  BY <1>1, <1>4
<1>6. Cardinality(Below(list, g)) <= rank
  <2> SUFFICES ASSUME ~(Cardinality(Below(list, g)) <= rank) PROVE FALSE
    OBVIOUS
  <2> DEFINE B == {e.dur : e \in Below(list, g)}
  <2>1. IsFiniteSet(Below(list, g)) /\ Cardinality(Below(list, g)) \in Nat
    BY FS_Subset, FS_CardinalityType DEF Below
  <2>2. rank < Cardinality(Below(list, g)) /\ Below(list, g) # {}
    BY <1>2, <2>1, FS_EmptySet
  <2>3. B \subseteq Nat /\ B # {} /\ IsFiniteSet(B)
    BY <2>1, <2>2, DurationsFinite DEF Below
  <2>4. PICK b \in B : \A n \in B : n <= b
    <3> HIDE DEF B
    <3> QED
      BY <2>3, GreatestOfFinite
  <2>5. b \in D /\ b \in Nat /\ b < g
    BY <2>3, <2>4 DEF Below
  <2>6. UpTo(list, b) = Below(list, g)
    BY <1>5, <2>4, <2>5 DEF UpTo, Below
  <2> QED
    BY <1>4, <1>5, <2>2, <2>5, <2>6
<1> QED
  BY <1>5, <1>6 DEF Percentile, Rank, Below, UpTo, rank

\* A higher percentile is no lower.
LEMMA PercentilesOrdered ==
    ASSUME NEW list, IsFiniteSet(list), list # {},
           \A e \in list : e.dur \in Nat,
           NEW p \in Quantiles, NEW q \in Quantiles, p <= q
    PROVE  Percentile(list, p) <= Percentile(list, q)
<1> DEFINE a == Percentile(list, p)
           b == Percentile(list, q)
<1>1. a \in Nat /\ Cardinality(Below(list, a)) <= Rank(list, p)
  BY PercentileFacts
<1>2. b \in Nat /\ Rank(list, q) < Cardinality(UpTo(list, b))
  BY PercentileFacts
<1>3. /\ Rank(list, p) \in Nat /\ Rank(list, q) \in Nat
      /\ Rank(list, p) <= Rank(list, q)
  <2>1. Cardinality(list) \in Nat
    BY FS_CardinalityType
  <2>2. ASSUME NEW n \in Nat
        PROVE  /\ (n * 50) \div 100 <= (n * 95) \div 100
               /\ (n * 95) \div 100 <= (n * 99) \div 100
               /\ (n * 50) \div 100 <= (n * 99) \div 100
    OBVIOUS
  <2>3. Rank(list, p) <= Rank(list, q)
    BY <2>1, <2>2 DEF Rank, Quantiles
  <2> QED
    BY <2>3, RankInSlice DEF Quantiles
<1> HIDE DEF a, b
<1>4. ASSUME b < a PROVE FALSE
  <2>1. UpTo(list, b) \subseteq Below(list, a)
    BY <1>1, <1>2, <1>4 DEF UpTo, Below
  <2>2. IsFiniteSet(Below(list, a))
    BY FS_Subset DEF Below
  <2>3. /\ Cardinality(UpTo(list, b)) <= Cardinality(Below(list, a))
        /\ Cardinality(UpTo(list, b)) \in Nat
        /\ Cardinality(Below(list, a)) \in Nat
    BY <2>1, <2>2, FS_Subset, FS_CardinalityType
  <2> QED
    BY <1>1, <1>2, <1>3, <2>3
<1> QED
  BY <1>1, <1>2, <1>4 DEF a, b
-----------------------------------------------------------------------------
(***************************************************************************)
(* The sorted slice.                                                       *)
(***************************************************************************)
\* What sort.Slice may leave: row lists the events, each once, by duration.
Sorted(row, list) ==
    /\ row \in Bijection(1..Cardinality(list), list)
    /\ \A j, k \in 1..Cardinality(list) : j <= k => row[j].dur <= row[k].dur

\* MetricRow's Percentile is the element of the sorted slice at that index,
\* whatever the order in which the query returned events of equal duration.
THEOREM PercentileIsIndexed ==
    ASSUME NEW list, IsFiniteSet(list), list # {},
           \A e \in list : e.dur \in Int,
           NEW q \in 0..99, NEW row, Sorted(row, list)
    PROVE  /\ Rank(list, q) < Cardinality(list)
           /\ Percentile(list, q) = row[Rank(list, q) + 1].dur
<1> DEFINE n == Cardinality(list)
           r == Rank(list, q)
           d == row[r + 1].dur
<1>1. n \in Nat /\ r \in Nat /\ r < n
  BY RankInSlice, FS_CardinalityType
<1>2. /\ row \in [1..n -> list]
      /\ \A e \in list : \E k \in 1..n : row[k] = e
      /\ \A j, k \in 1..n : row[j] = row[k] => j = k
  BY DEF Sorted, Bijection, Injection, Surjection, IsInjective
<1>3. \A j, k \in 1..n : j <= k => row[j].dur <= row[k].dur
  BY DEF Sorted
<1> HIDE DEF n, r
<1>4. r + 1 \in 1..n /\ row[r + 1] \in list /\ d \in Int
  BY <1>1, <1>2
<1> HIDE DEF d
<1>5. \A x : /\ IsFiniteSet(Below(list, x)) /\ Cardinality(Below(list, x)) \in Nat
             /\ IsFiniteSet(UpTo(list, x)) /\ Cardinality(UpTo(list, x)) \in Nat
  BY FS_Subset, FS_CardinalityType DEF Below, UpTo
<1>6. Cardinality(Below(list, d)) <= r
  <2> DEFINE f == [e \in Below(list, d) |-> CHOOSE k \in 1..n : row[k] = e]
  <2>1. ASSUME NEW e \in Below(list, d)
        PROVE  f[e] \in 1..r /\ row[f[e]] = e
    <3>1. e \in list /\ e.dur < d /\ e.dur \in Int
      BY DEF Below
    <3>2. f[e] \in 1..n /\ row[f[e]] = e
      BY <1>2, <3>1
    <3> HIDE DEF f
    <3>3. ~(r + 1 <= f[e])
      BY <1>3, <1>4, <3>1, <3>2 DEF d
    <3> QED
      BY <1>1, <3>2, <3>3
  <2> HIDE DEF f
  <2>2. f \in Injection(Below(list, d), 1..r)
    BY <2>1 DEF f, Injection, IsInjective
  <2>3. IsFiniteSet(1..r) /\ Cardinality(1..r) = r
    BY <1>1, FS_Interval
  <2>4. Cardinality(Below(list, d)) <= Cardinality(1..r)
    BY <2>2, <2>3, FS_Injection
  <2> QED
    BY <2>3, <2>4
<1>7. r < Cardinality(UpTo(list, d))
  <2> DEFINE g == [k \in 1..(r + 1) |-> row[k]]
  <2>1. ASSUME NEW k \in 1..(r + 1) PROVE row[k] \in UpTo(list, d)
    BY <1>1, <1>2, <1>3, <1>4 DEF UpTo, d
  <2>2. g \in Injection(1..(r + 1), UpTo(list, d))
    BY <1>1, <1>2, <2>1 DEF Injection, IsInjective
  <2> HIDE DEF g
  <2>3. Cardinality(1..(r + 1)) <= Cardinality(UpTo(list, d))
    BY <1>5, <2>2, FS_Injection
  <2> QED
    BY <1>1, <1>5, <2>3, FS_Interval
<1>8. d \in {e.dur : e \in list}
  BY <1>4 DEF d
<1>9. ASSUME NEW x \in {e.dur : e \in list}, Cardinality(Below(list, x)) <= r,
             r < Cardinality(UpTo(list, x))
      PROVE  x = d
  <2>1. ASSUME NEW y \in Int, NEW z \in Int, y < z
        PROVE  Cardinality(UpTo(list, y)) <= Cardinality(Below(list, z))
    <3>1. UpTo(list, y) \subseteq Below(list, z)
      BY <2>1 DEF UpTo, Below
    <3> QED
      BY <1>5, <3>1, FS_Subset
  <2>2. x \in Int
    OBVIOUS
  <2>3. ~(x < d) /\ ~(d < x)
    BY <1>1, <1>4, <1>5, <1>6, <1>7, <1>9, <2>1, <2>2
  <2> QED
    BY <1>4, <2>2, <2>3
<1>10. Percentile(list, q) =
         CHOOSE x \in {e.dur : e \in list} :
            Cardinality(Below(list, x)) <= r /\ r < Cardinality(UpTo(list, x))
  BY DEF Percentile, Below, UpTo, Rank, r
<1>11. Percentile(list, q) = d
  BY <1>6, <1>7, <1>8, <1>9, <1>10
<1> QED
  BY <1>1, <1>11 DEF n, r, d
=============================================================================
