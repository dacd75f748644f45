------------------------- MODULE PorthMetricProofs --------------------------
(***************************************************************************)
(* Proofs about PorthMetric: for every sequence of samples and every       *)
(* percentile.                                                             *)
(***************************************************************************)
EXTENDS PorthMetric, FiniteSetTheorems, TLAPS

(* Any samples can be put in order: the place of a sample is the number of *)
(* samples up to it, counting equal ones in the order of recording.        *)
LEMMA Sortable ==
  ASSUME NEW s \in Seq(Nat)
  PROVE  Orders(s) # {}
<1> DEFINE N == Len(s)
           D == 1..N
           Before(i, j) == s[i] < s[j] \/ (s[i] = s[j] /\ i <= j)
           UpTo(j) == {i \in D : Before(i, j)}
           rank == [j \in D |-> Cardinality(UpTo(j))]
<1>0. N \in Nat /\ DOMAIN s = D /\ \A i \in D : s[i] \in Nat
  OBVIOUS
<1>1. IsFiniteSet(D) /\ Cardinality(D) = N
  <2>1. IsFiniteSet(D) /\ Cardinality(D) = IF 1 > N THEN 0 ELSE N - 1 + 1
    BY <1>0, FS_Interval
  <2> QED
    BY <1>0, <2>1
<1> HIDE DEF N, D
<1>d. \A i \in D : i \in Nat /\ i >= 1
  BY <1>0 DEF D
<1>2. ASSUME NEW j \in D
      PROVE  IsFiniteSet(UpTo(j)) /\ Cardinality(UpTo(j)) \in D /\ UpTo(j) \subseteq D
  <2>1. UpTo(j) \in SUBSET D /\ j \in UpTo(j)
    BY <1>0, <1>d
  <2>2. IsFiniteSet(UpTo(j)) /\ Cardinality(UpTo(j)) <= Cardinality(D)
    BY <1>1, <2>1, FS_Subset
  <2>3. Cardinality(UpTo(j)) \in Nat
    BY <2>2, FS_CardinalityType
  <2>4. Cardinality(UpTo(j)) # 0
    BY <2>1, <2>2, FS_EmptySet
  <2> QED
    BY <1>0, <1>1, <2>1, <2>2, <2>3, <2>4 DEF D
<1>3. ASSUME NEW i \in D, NEW j \in D, i # j, Before(i, j)
      PROVE  rank[i] < rank[j]
  <2>1. j \notin UpTo(i)
    BY <1>0, <1>3, <1>d
  <2>2. UpTo(i) \in SUBSET UpTo(j)
    BY <1>0, <1>3, <1>d
  <2>3. j \in UpTo(j)
    BY <1>0, <1>d
  <2> HIDE DEF UpTo
  <2>4. /\ Cardinality(UpTo(i)) <= Cardinality(UpTo(j))
        /\ Cardinality(UpTo(j)) = Cardinality(UpTo(i)) => UpTo(j) = UpTo(i)
    BY <1>2, <2>2, FS_Subset
  <2>5. Cardinality(UpTo(i)) \in Nat /\ Cardinality(UpTo(j)) \in Nat
    BY <1>2, <1>d
  <2> QED
    BY <2>1, <2>3, <2>4, <2>5
<1>4. \A i, j \in D : i # j => Before(i, j) \/ Before(j, i)
  BY <1>0, <1>d
<1>5. rank \in [D -> D]
  BY <1>2
<1> HIDE DEF rank
<1>6. rank \in Surjection(D, D)
  <2>1. \A i, j \in D : rank[i] = rank[j] => i = j
    <3> SUFFICES ASSUME NEW i \in D, NEW j \in D, i # j PROVE rank[i] # rank[j]
      OBVIOUS
    <3>1. rank[i] \in Nat /\ rank[j] \in Nat
      BY <1>5, <1>d
    <3>2. rank[i] < rank[j] \/ rank[j] < rank[i]
      BY <1>3, <1>4
    <3> QED
      BY <3>1, <3>2
  <2>2. rank \in Injection(D, D)
    BY <1>5, <2>1 DEF Injection, IsInjective
  <2>3. Cardinality(D) = Cardinality(D) <=> rank \in Surjection(D, D)
    BY <1>1, <2>2, FS_Injection, Zenon
  <2> QED
    BY <2>3
<1>7. \A k \in D : \E i \in D : rank[i] = k
  BY <1>6 DEF Surjection
<1> DEFINE f == [k \in D |-> CHOOSE i \in D : rank[i] = k]
<1>8. f \in [D -> D] /\ \A k \in D : rank[f[k]] = k
  BY <1>7
<1> HIDE DEF f
<1>9. ASSUME NEW i \in D PROVE f[rank[i]] = i
  <2>1. rank[i] \in D /\ f[rank[i]] \in D /\ rank[f[rank[i]]] = rank[i]
    BY <1>5, <1>8
  <2>2. rank[i] \in Nat /\ ~(rank[i] < rank[i])
    BY <1>d, <2>1
  <2> QED
    BY <1>3, <1>4, <2>1, <2>2
<1>10. ASSUME NEW k \in D, NEW l \in D, k < l PROVE s[f[k]] <= s[f[l]]
  <2>1. /\ f[k] \in D /\ f[l] \in D /\ rank[f[k]] = k /\ rank[f[l]] = l
        /\ s[f[k]] \in Nat /\ s[f[l]] \in Nat /\ k \in Nat /\ l \in Nat
    BY <1>0, <1>8, <1>d
  <2>2. CASE f[k] = f[l]
    BY <2>1, <2>2
  <2>3. CASE f[k] # f[l] /\ s[f[l]] < s[f[k]]
    <3>1. rank[f[l]] < rank[f[k]]
      BY <1>3, <2>1, <2>3
    <3> QED
      BY <1>10, <2>1, <3>1
  <2> QED
    BY <2>1, <2>2, <2>3
<1>11. f \in Orders(s)
  BY <1>0, <1>5, <1>8, <1>9, <1>10 DEF Orders
<1> QED
  BY <1>11

(* The sorted copy is a rearrangement of the samples in ascending order.   *)
LEMMA SortedIsOrdered ==
  ASSUME NEW s \in Seq(Nat)
  PROVE  \E f \in Orders(s) : Sorted(s) = [k \in DOMAIN s |-> s[f[k]]]
<1> DEFINE f == CHOOSE g \in Orders(s) : TRUE
<1>1. f \in Orders(s)
  BY Sortable
<1>2. Sorted(s) = [k \in DOMAIN s |-> s[f[k]]]
  BY DEF Sorted
<1> QED
  BY <1>1, <1>2

(* What get_percentile_ns() returns is a percentile, for any samples: at    *)
(* most p of them lie below it, and more than p of them, or all, are not    *)
(* above it.                                                               *)
THEOREM PercentileSound ==
  ASSUME NEW s \in Seq(Nat), s # << >>, NEW p \in Nat
  PROVE  IsPercentile(s, p, Percentile(s, p))
<1> DEFINE N == Len(s)
           D == 1..N
           x == p * N
           idx == x \div 10000
           c == IF idx >= N THEN N - 1 ELSE idx
           v == Percentile(s, p)
<1>0. N \in Nat /\ N >= 1 /\ DOMAIN s = D /\ \A i \in D : s[i] \in Nat
  OBVIOUS
<1>1. x \in Nat
  BY <1>0
<1> HIDE DEF x
<1>2. idx \in Nat /\ 10000 * idx <= x /\ x < 10000 * (idx + 1)
  BY <1>1
<1> HIDE DEF idx
<1>3. c \in Nat /\ c + 1 \in D /\ c <= idx /\ (idx < N => c = idx) /\ (idx >= N => c + 1 = N)
  <2>1. CASE idx >= N
    <3>1. c = N - 1
      BY <2>1
    <3> HIDE DEF c, N
    <3> QED
      BY <1>0, <1>2, <2>1, <3>1
  <2>2. CASE ~(idx >= N)
    <3>1. c = idx
      BY <2>2
    <3> HIDE DEF c, N
    <3> QED
      BY <1>0, <1>2, <2>2, <3>1
  <2> QED
    BY <2>1, <2>2
<1>4. PICK f \in Orders(s) : Sorted(s) = [k \in DOMAIN s |-> s[f[k]]]
  BY SortedIsOrdered
<1>5. v = s[f[c + 1]]
  <2>1. v = Sorted(s)[c + 1]
    BY DEF Percentile, idx, x
  <2> QED
    BY <1>0, <1>3, <1>4, <2>1
<1> HIDE DEF c, v, N, D
<1>6. /\ f \in [D -> D]
      /\ \A i \in D : \E k \in D : f[k] = i
      /\ \A k, l \in D : k < l => s[f[k]] <= s[f[l]]
  BY <1>0 DEF Orders
<1>d. \A k \in D : k \in Nat /\ 1 <= k /\ k <= N
  BY <1>0 DEF D
<1>7. IsFiniteSet(D)
  BY <1>0, FS_Interval DEF D
<1>8. \A k, l \in D : f[k] = f[l] => k = l
  <2>1. f \in Surjection(D, D)
    BY <1>6 DEF Surjection
  <2>2. Cardinality(D) = Cardinality(D) <=> f \in Injection(D, D)
    BY <1>7, <2>1, FS_Surjection, Zenon
  <2> QED
    BY <2>2 DEF Injection, IsInjective
<1>9. v \in Nat
  BY <1>0, <1>3, <1>5, <1>6
<1> DEFINE below == {i \in D : s[i] < v}
           notAbove == {i \in D : s[i] <= v}
<1>10. IsFiniteSet(notAbove) /\ Cardinality(notAbove) \in Nat
  <2>1. notAbove \in SUBSET D
    OBVIOUS
  <2>2. IsFiniteSet(notAbove)
    BY <1>7, <2>1, FS_Subset
  <2> QED
    BY <2>2, FS_CardinalityType
<1>11. Cardinality(below) \in Nat /\ Cardinality(below) <= c
  <2> DEFINE g == [i \in below |-> CHOOSE k \in D : f[k] = i]
  <2>1. ASSUME NEW i \in below PROVE g[i] \in 1..c /\ f[g[i]] = i
    <3>1. g[i] \in D /\ f[g[i]] = i
      BY <1>6
    <3>2. s[f[g[i]]] < v /\ s[f[g[i]]] \in Nat
      BY <1>0, <3>1
    <3>3. ~(c + 1 < g[i]) /\ g[i] # c + 1
      BY <1>3, <1>5, <1>6, <1>9, <3>1, <3>2
    <3>4. g[i] \in Nat /\ 1 <= g[i]
      BY <1>d, <3>1
    <3> HIDE DEF g
    <3> QED
      BY <1>3, <3>1, <3>3, <3>4
  <2>2. g \in [below -> 1..c]
    BY <2>1
  <2> HIDE DEF g, below
  <2>3. g \in Injection(below, 1..c)
    BY <2>1, <2>2 DEF Injection, IsInjective
  <2>4. IsFiniteSet(1..c) /\ Cardinality(1..c) = IF 1 > c THEN 0 ELSE c - 1 + 1
    BY <1>3, FS_Interval
  <2>5. IsFiniteSet(below) /\ Cardinality(below) <= Cardinality(1..c)
    BY <2>3, <2>4, FS_Injection
  <2>6. Cardinality(below) \in Nat
    BY <2>5, FS_CardinalityType
  <2> QED
    BY <1>3, <2>4, <2>5, <2>6
<1>12. Cardinality(notAbove) >= c + 1
  <2> DEFINE h == [k \in 1..(c + 1) |-> f[k]]
  <2>1. \A k \in 1..(c + 1) : k \in D /\ (k < c + 1 \/ k = c + 1)
    BY <1>0, <1>3, <1>d DEF D
  <2>2. ASSUME NEW k \in 1..(c + 1) PROVE f[k] \in notAbove
    <3>1. k \in D /\ f[k] \in D /\ s[f[k]] \in Nat
      BY <1>0, <1>6, <2>1
    <3>2. CASE k = c + 1
      BY <1>5, <1>9, <3>1, <3>2
    <3>3. CASE k < c + 1
      BY <1>3, <1>5, <1>6, <3>1, <3>3
    <3> QED
      BY <2>1, <3>2, <3>3
  <2> HIDE DEF notAbove
  <2>3. h \in Injection(1..(c + 1), notAbove)
    <3>1. h \in [1..(c + 1) -> notAbove]
      BY <2>2
    <3>2. \A k, l \in 1..(c + 1) : h[k] = h[l] => k = l
      BY <1>8, <2>1
    <3> QED
      BY <3>1, <3>2 DEF Injection, IsInjective
  <2> HIDE DEF h
  <2>4. Cardinality(1..(c + 1)) <= Cardinality(notAbove)
    BY <1>10, <2>3, FS_Injection
  <2>5. Cardinality(1..(c + 1)) = IF 1 > c + 1 THEN 0 ELSE (c + 1) - 1 + 1
    BY <1>3, FS_Interval
  <2> QED
    BY <1>3, <2>4, <2>5
<1>13. idx >= N => notAbove = D
  <2> SUFFICES ASSUME idx >= N, NEW i \in D PROVE s[i] <= v
    OBVIOUS
  <2>1. PICK k \in D : f[k] = i
    BY <1>6
  <2>2. k < c + 1 \/ k = c + 1
    BY <1>0, <1>2, <1>3, <1>d
  <2>3. s[i] \in Nat
    BY <1>0
  <2> QED
    BY <1>3, <1>5, <1>6, <1>9, <2>1, <2>2, <2>3
<1> HIDE DEF below, notAbove
<1>14. 10000 * Cardinality(below) <= x
  BY <1>1, <1>2, <1>3, <1>11
<1>15. 10000 * Cardinality(notAbove) > x \/ notAbove = D
  BY <1>0, <1>1, <1>2, <1>3, <1>10, <1>12, <1>13
<1> QED
  BY <1>0, <1>14, <1>15 DEF IsPercentile, below, notAbove, v, x, N

=============================================================================
