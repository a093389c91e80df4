--------------------------- MODULE LatencyProofs ---------------------------
(***************************************************************************)
(* Lemmas about the statistics of a probe, for every number of samples,    *)
(* every time and every threshold.                                         *)
(***************************************************************************)
EXTENDS Latency, FoldFacts

Ascends(s) == \A j, k \in 1..Len(s) : j < k => s[j] <= s[k]

-----------------------------------------------------------------------------
(* The loops.                                                              *)

\* The partial sums of a sequence.
Sums(h, q) == h = [s \in SUBSET DOMAIN q |->
    IF s = {} THEN 0 ELSE h[s \ {Max(s)}] + q[Max(s)]]

LEMMA TotalIsLoop ==
    ASSUME NEW q \in Seq(Nat)
    PROVE  \E t : /\ t[0] = 0 /\ \A k \in 1..Len(q) : t[k] = t[k - 1] + q[k]
                  /\ Total(q) = t[Len(q)]
<1> DEFINE n == Len(q)
           op == [k \in 1..n |-> [v \in Int |-> v + q[k]]]
           sum == CHOOSE h : Sums(h, q)
           t == [k \in 0..n |-> sum[1..k]]
<1>1. n \in Nat /\ DOMAIN q = 1..n /\ \A k \in 1..n : q[k] \in Nat
  BY LenProperties, ElementOfSeq
<1>2. Total(q) = sum[1..n]
  <2>1. Total(q) = sum[DOMAIN q]
    BY DEF Total, FoldLeft, MapThenFoldSet, Sums
  <2> QED
    BY <1>1, <2>1
<1> HIDE DEF n, sum
<1>3. op \in [1..n -> [Int -> Int]] /\ \A k \in 1..n : \A v \in Int : op[k][v] = v + q[k]
  BY <1>1
<1> HIDE DEF op
<1>4. PICK g \in [SUBSET (1..n) -> Int] : FoldsDown(g, n, 0, op)
  <2>1. 0 \in Int
    OBVIOUS
  <2> QED
    BY <1>1, <1>3, <2>1, FoldLoop
<1>5. Sums(g, q)
  <2>1. \A s \in SUBSET (1..n) : s # {} => g[s] = g[s \ {Max(s)}] + q[Max(s)]
    <3> SUFFICES ASSUME NEW s \in SUBSET (1..n), s # {}
                 PROVE  g[s] = g[s \ {Max(s)}] + q[Max(s)]
      OBVIOUS
    <3>1. Max(s) \in s
      BY <1>1, MaxOfPrefixes
    <3>2. g[s] = op[Max(s)][g[s \ {Max(s)}]] /\ g[s \ {Max(s)}] \in Int
      BY <1>4 DEF FoldsDown
    <3> QED
      BY <1>3, <3>1, <3>2
  <2>2. g[{}] = 0 /\ g = [s \in SUBSET (1..n) |-> g[s]]
    BY <1>4 DEF FoldsDown
  <2> QED
    BY <1>1, <2>1, <2>2 DEF Sums
<1>6. Sums(sum, q)
  BY <1>5 DEF sum
<1>7. sum[{}] = 0 /\ \A s \in SUBSET (1..n) : s # {} => sum[s] = sum[s \ {Max(s)}] + q[Max(s)]
  BY <1>1, <1>6 DEF Sums
<1>8. ASSUME NEW k \in 1..n PROVE sum[1..k] = sum[1..(k - 1)] + q[k]
  <2>1. 1..k \in SUBSET (1..n) /\ 1..k # {}
    <3>1. k \in 1..k /\ \A i \in 1..k : i \in 1..n
      BY <1>1
    <3> QED
      BY <3>1
  <2>2. Max(1..k) = k /\ (1..k) \ {k} = 1..(k - 1)
    BY <1>1, MaxOfPrefixes
  <2> QED
    BY <1>7, <2>1, <2>2
<1>9. t[0] = 0 /\ \A k \in 1..n : t[k] = t[k - 1] + q[k]
  <2>1. 1..0 = {} /\ 0 \in 0..n
    BY <1>1
  <2>2. \A k \in 1..n : k \in 0..n /\ k - 1 \in 0..n
    BY <1>1
  <2>3. t[0] = sum[{}] /\ \A k \in 1..n : t[k] = sum[1..k] /\ t[k - 1] = sum[1..(k - 1)]
    BY <2>1, <2>2
  <2> HIDE DEF t
  <2> QED
    BY <1>7, <1>8, <2>3
<1>10. Total(q) = t[n]
  BY <1>1, <1>2
<1> HIDE DEF t
<1> QED
  BY <1>9, <1>10 DEF n

\* The loop that collects the samples within the fence.
Collects(h, q, fence) == h = [s \in SUBSET DOMAIN q |->
    IF s = {} THEN <<>>
    ELSE IF q[Max(s)] <= fence THEN Append(h[s \ {Max(s)}], q[Max(s)]) ELSE h[s \ {Max(s)}]]

LEMMA WithinIsLoop ==
    ASSUME NEW q \in Seq(Nat), NEW fence
    PROVE  \E w : /\ w[0] = <<>>
                  /\ \A k \in 1..Len(q) :
                        w[k] = IF q[k] <= fence THEN Append(w[k - 1], q[k]) ELSE w[k - 1]
                  /\ Within(q, fence) = w[Len(q)]
<1> DEFINE n == Len(q)
           V == Seq(Nat)
           op == [k \in 1..n |-> [v \in V |-> IF q[k] <= fence THEN Append(v, q[k]) ELSE v]]
           good == CHOOSE h : Collects(h, q, fence)
           w == [k \in 0..n |-> good[1..k]]
<1>1. n \in Nat /\ DOMAIN q = 1..n /\ \A k \in 1..n : q[k] \in Nat
  BY LenProperties, ElementOfSeq
<1>2. Within(q, fence) = good[1..n]
  <2>1. Within(q, fence) = good[DOMAIN q]
    BY DEF Within, FoldLeft, MapThenFoldSet, Collects
  <2> QED
    BY <1>1, <2>1
<1> HIDE DEF n, good
<1>3. /\ op \in [1..n -> [V -> V]]
      /\ \A k \in 1..n : \A v \in V :
            op[k][v] = IF q[k] <= fence THEN Append(v, q[k]) ELSE v
  BY <1>1, AppendProperties
<1> HIDE DEF op
<1>4. PICK g \in [SUBSET (1..n) -> V] : FoldsDown(g, n, <<>>, op)
  <2>1. <<>> \in V
    OBVIOUS
  <2> HIDE DEF V
  <2> QED
    BY <1>1, <1>3, <2>1, FoldLoop
<1> HIDE DEF V
<1>5. Collects(g, q, fence)
  <2>1. \A s \in SUBSET (1..n) : s # {} =>
           g[s] = IF q[Max(s)] <= fence THEN Append(g[s \ {Max(s)}], q[Max(s)])
                                        ELSE g[s \ {Max(s)}]
    <3> SUFFICES ASSUME NEW s \in SUBSET (1..n), s # {}
                 PROVE  g[s] = IF q[Max(s)] <= fence THEN Append(g[s \ {Max(s)}], q[Max(s)])
                                                     ELSE g[s \ {Max(s)}]
      OBVIOUS
    <3>1. Max(s) \in s
      BY <1>1, MaxOfPrefixes
    <3>2. g[s] = op[Max(s)][g[s \ {Max(s)}]] /\ g[s \ {Max(s)}] \in V
      BY <1>4 DEF FoldsDown
    <3> QED
      BY <1>3, <3>1, <3>2
  <2>2. g[{}] = <<>> /\ g = [s \in SUBSET (1..n) |-> g[s]]
    BY <1>4 DEF FoldsDown
  <2> QED
    BY <1>1, <2>1, <2>2 DEF Collects
<1>6. Collects(good, q, fence)
  BY <1>5 DEF good
<1>7. /\ good[{}] = <<>>
      /\ \A s \in SUBSET (1..n) : s # {} =>
            good[s] = IF q[Max(s)] <= fence THEN Append(good[s \ {Max(s)}], q[Max(s)])
                                            ELSE good[s \ {Max(s)}]
  BY <1>1, <1>6 DEF Collects
<1>8. ASSUME NEW k \in 1..n
      PROVE  good[1..k] = IF q[k] <= fence THEN Append(good[1..(k - 1)], q[k])
                                           ELSE good[1..(k - 1)]
  <2>1. 1..k \in SUBSET (1..n) /\ 1..k # {}
    <3>1. k \in 1..k /\ \A i \in 1..k : i \in 1..n
      BY <1>1
    <3> QED
      BY <3>1
  <2>2. Max(1..k) = k /\ (1..k) \ {k} = 1..(k - 1)
    BY <1>1, MaxOfPrefixes
  <2> QED
    BY <1>7, <2>1, <2>2
<1>9. /\ w[0] = <<>>
      /\ \A k \in 1..n : w[k] = IF q[k] <= fence THEN Append(w[k - 1], q[k]) ELSE w[k - 1]
  <2>1. 1..0 = {} /\ 0 \in 0..n
    BY <1>1
  <2>2. \A k \in 1..n : k \in 0..n /\ k - 1 \in 0..n
    BY <1>1
  <2>3. w[0] = good[{}] /\ \A k \in 1..n : w[k] = good[1..k] /\ w[k - 1] = good[1..(k - 1)]
    BY <2>1, <2>2
  <2> HIDE DEF w
  <2> QED
    BY <1>7, <1>8, <2>3
<1>10. Within(q, fence) = w[n]
  BY <1>1, <1>2
<1> HIDE DEF w
<1> QED
  BY <1>9, <1>10 DEF n

-----------------------------------------------------------------------------
(* Sorting.                                                                *)

\* However many of the smallest are put first, one by one, the samples remain.
LEMMA SelectionSort ==
    ASSUME NEW q \in Seq(Nat)
    PROVE  \E p \in Bijection(1..Len(q), 1..Len(q)) :
              \A j, k \in 1..Len(q) : j < k => q[p[j]] <= q[p[k]]
<1> DEFINE n == Len(q)
           D == 1..n
           First(p, k) == \A j \in 1..k : \A i \in D : j < i => q[p[j]] <= q[p[i]]
           T == {k \in 0..n : \E p \in Bijection(D, D) : First(p, k)}
<1>1. n \in Nat /\ \A k \in D : q[k] \in Nat
  BY LenProperties, ElementOfSeq
<1> HIDE DEF n
<1>2. 0 \in T
  <2> DEFINE id == [i \in D |-> i]
  <2>1. id \in Bijection(D, D)
    BY DEF Bijection, Injection, Surjection, IsInjective
  <2>2. First(id, 0) /\ 0 \in 0..n
    BY <1>1
  <2> QED
    BY <2>1, <2>2
<1>3. ASSUME NEW k \in 1..n, k - 1 \in T PROVE k \in T
  <2>1. PICK p \in Bijection(D, D) : First(p, k - 1)
    BY <1>3
  <2>2. /\ p \in [D -> D]
        /\ \A i, j \in D : p[i] = p[j] => i = j
        /\ \A x \in D : \E i \in D : p[i] = x
    BY DEF Bijection, Injection, Surjection, IsInjective
  <2> DEFINE Left == {q[p[i]] : i \in k..n}
  <2>3. k \in D /\ k..n \in SUBSET D /\ \A i \in k..n : i \in D
    BY <1>1
  <2>4. Left \in SUBSET Nat /\ Left # {}
    <3>1. k \in k..n
      BY <1>1
    <3>2. \A i \in k..n : p[i] \in D
      <4> HIDE DEF D
      <4> QED
        BY <2>2, <2>3
    <3>3. \A i \in k..n : q[p[i]] \in Nat
      <4> HIDE DEF D
      <4> QED
        BY <1>1, <3>2
    <3> QED
      BY <3>1, <3>3
  <2>5. PICK x \in Left : \A y \in Left : x <= y
    BY <2>4, LeastNatural
  <2>6. PICK m \in k..n : \A i \in k..n : q[p[m]] <= q[p[i]]
    BY <2>5
  <2> DEFINE r == [i \in D |-> IF i = k THEN p[m] ELSE IF i = m THEN p[k] ELSE p[i]]
  <2>7. m \in D
    BY <2>3
  <2>8. r \in [D -> D] /\ \A i \in D : r[i] = IF i = k THEN p[m] ELSE IF i = m THEN p[k] ELSE p[i]
    BY <2>2, <2>3, <2>7
  <2> HIDE DEF r, D, Left
  <2>9. \A i, j \in D : r[i] = r[j] => i = j
    BY <2>2, <2>3, <2>7, <2>8
  <2>10. \A x1 \in D : \E i \in D : r[i] = x1
    <3> SUFFICES ASSUME NEW x1 \in D PROVE \E i \in D : r[i] = x1
      OBVIOUS
    <3>1. PICK i \in D : p[i] = x1
      BY <2>2
    <3> QED
      BY <2>3, <2>7, <2>8, <3>1
  <2>11. r \in Bijection(D, D)
    BY <2>8, <2>9, <2>10 DEF Bijection, Injection, Surjection, IsInjective
  <2>12. First(r, k)
    <3> SUFFICES ASSUME NEW j \in 1..k, NEW i \in D, j < i PROVE q[r[j]] <= q[r[i]]
      OBVIOUS
    <3>1. /\ j \in D /\ (j = k \/ j \in 1..(k - 1))
          /\ i \in k..n \/ i \in 1..(k - 1)
      BY <1>1 DEF D
    <3>2. CASE j = k
      <4>1. i \in k..n /\ i # k
        BY <1>1, <3>1, <3>2
      <4>2. r[j] = p[m] /\ (r[i] = p[k] \/ r[i] = p[i]) /\ k \in k..n
        BY <1>1, <2>8, <3>1, <3>2
      <4> QED
        BY <2>6, <4>1, <4>2
    <3>3. CASE j \in 1..(k - 1)
      <4>1. j # k /\ j # m /\ j < k /\ j < m
        BY <1>1, <3>3
      <4>2. r[j] = p[j]
        BY <2>8, <3>1, <4>1
      <4>3. \A l \in D : j < l => q[p[j]] <= q[p[l]]
        BY <2>1, <3>3
      <4> QED
        BY <2>3, <2>7, <2>8, <4>1, <4>2, <4>3
    <3> QED
      BY <3>1, <3>2, <3>3
  <2>13. k \in 0..n
    BY <1>1
  <2> QED
    BY <2>11, <2>12, <2>13
<1> HIDE DEF T
<1>4. \A k \in 0..n : k \in T
  BY <1>1, <1>2, <1>3, UpTo
<1>5. PICK p \in Bijection(D, D) : First(p, n)
  <2>1. n \in 0..n
    BY <1>1
  <2>2. n \in T
    BY <1>4, <2>1
  <2> QED
    BY <2>2 DEF T
<1> QED
  BY <1>5 DEF n

\* What Sorted gives: as many samples, in ascending order.
THEOREM SortedFacts ==
    ASSUME NEW q \in Seq(Nat)
    PROVE  Sorted(q) \in Seq(Nat) /\ Len(Sorted(q)) = Len(q) /\ Ascends(Sorted(q))
<1> DEFINE n == Len(q)
           InOrder(s) == \A j, k \in DOMAIN s : j < k => s[j] <= s[k]
<1>1. n \in Nat /\ DOMAIN q = 1..n /\ \A k \in 1..n : q[k] \in Nat
  BY LenProperties, ElementOfSeq
<1>2. PICK p \in Bijection(1..n, 1..n) :
              \A j, k \in 1..n : j < k => q[p[j]] <= q[p[k]]
  BY SelectionSort
<1> HIDE DEF n
<1> DEFINE s == [k \in DOMAIN q |-> q[p[k]]]
<1>3. s \in Rearranged(q)
  BY <1>1 DEF Rearranged
<1>4. InOrder(s)
  BY <1>1, <1>2
<1>5. Sorted(q) \in Rearranged(q) /\ InOrder(Sorted(q))
  <2> HIDE DEF s
  <2> QED
    BY <1>3, <1>4 DEF Sorted
<1>6. PICK r \in Bijection(1..n, 1..n) : Sorted(q) = [k \in 1..n |-> q[r[k]]]
  BY <1>1, <1>5 DEF Rearranged
<1>7. \A k \in 1..n : r[k] \in 1..n
  BY DEF Bijection, Injection
<1>8. Sorted(q) \in [1..n -> Nat]
  BY <1>1, <1>6, <1>7
<1>9. Sorted(q) \in Seq(Nat) /\ DOMAIN Sorted(q) = 1..n
  BY <1>1, <1>8, SeqDef
<1>10. Len(Sorted(q)) = n
  BY <1>1, <1>9, LenProperties
<1> QED
  BY <1>5, <1>9, <1>10 DEF Ascends, n

-----------------------------------------------------------------------------
(* The fence.                                                              *)

\* The sample at or below the p-th percentile of n samples.
LowerRank(p, n) == 1 + ((p * (n - 1)) \div 100)

\* The ranks of the two quartiles.
LEMMA Quarters ==
    ASSUME NEW n \in Nat, n >= 2
    PROVE  /\ \A p \in {25, 75} : /\ LowerRank(p, n) \in 1..(n - 1)
                                  /\ (p * (n - 1)) % 100 \in {0, 25, 50, 75}
           /\ 4 * (n - LowerRank(75, n)) < n + 3
           /\ n > 2 => LowerRank(25, n) < LowerRank(75, n)
<1> DEFINE a == (n - 1) \div 4
           b == (n - 1) % 4
<1>1. a \in Nat /\ b \in {0, 1, 2, 3} /\ n - 1 = 4 * a + b
  OBVIOUS
<1> HIDE DEF a, b
<1>2. /\ (25 * (n - 1)) \div 100 = a /\ (25 * (n - 1)) % 100 = 25 * b
  <2>1. 25 * (n - 1) = 100 * a + 25 * b
    BY <1>1
  <2> QED
    BY <1>1, <2>1
<1> DEFINE c == (3 * b) \div 4
           e == (3 * b) % 4
<1>3. /\ c \in 0..2 /\ e \in {0, 1, 2, 3} /\ 3 * b = 4 * c + e
      /\ c <= b /\ (b = 0 => c = 0 /\ e = 0) /\ (b > 0 => c < b)
      /\ (b > 1 => c > 0)
  BY <1>1
<1> HIDE DEF c, e
<1>4. (75 * (n - 1)) \div 100 = 3 * a + c /\ (75 * (n - 1)) % 100 = 25 * e
  <2>1. 75 * (n - 1) = 100 * (3 * a + c) + 25 * e
    BY <1>1, <1>3
  <2> DEFINE g == 3 * a + c
  <2>2. g \in Nat
    BY <1>1, <1>3
  <2> HIDE DEF g
  <2>3. (100 * g + 25 * e) \div 100 = g /\ (100 * g + 25 * e) % 100 = 25 * e
    BY <1>3, <2>2
  <2> QED
    BY <2>1, <2>3 DEF g
<1>5. 25 * b \in {0, 25, 50, 75} /\ 25 * e \in {0, 25, 50, 75}
  BY <1>1, <1>3
<1>6. 1 + a \in 1..(n - 1) /\ 1 + (3 * a + c) \in 1..(n - 1)
  BY <1>1, <1>3
<1>7. 4 * (n - (1 + (3 * a + c))) < n + 3
  BY <1>1, <1>3
<1>8. n > 2 => a < 3 * a + c
  BY <1>1, <1>3
<1> DEFINE Rank(p) == /\ LowerRank(p, n) \in 1..(n - 1)
                      /\ (p * (n - 1)) % 100 \in {0, 25, 50, 75}
<1>9. LowerRank(25, n) = 1 + a /\ LowerRank(75, n) = 1 + (3 * a + c)
  BY <1>2, <1>4 DEF LowerRank
<1>10. Rank(25) /\ Rank(75)
  BY <1>2, <1>4, <1>5, <1>6, <1>9
<1>11. \A p \in {25, 75} : Rank(p)
  <2> HIDE DEF Rank
  <2> QED
    BY <1>10
<1>12. 4 * (n - LowerRank(75, n)) < n + 3
  BY <1>7, <1>9
<1>13. n > 2 => LowerRank(25, n) < LowerRank(75, n)
  BY <1>1, <1>3, <1>8, <1>9
<1> QED
  BY <1>11, <1>12, <1>13

\* A percentile lies between the samples of the ranks around it.
LEMMA PercentileBetween ==
    ASSUME NEW s \in Seq(Nat), Ascends(s), Len(s) >= 2, NEW p \in {25, 75},
           NEW lo, lo = LowerRank(p, Len(s))
    PROVE  /\ lo \in 1..(Len(s) - 1) /\ Percentile(s, p) \in Nat
           /\ s[lo] <= Percentile(s, p) /\ Percentile(s, p) <= s[lo + 1]
<1> DEFINE n == Len(s)
           rank == p * (n - 1)
           frac == rank % 100
           d == s[lo + 1] - s[lo]
<1>1. n \in Nat /\ \A k \in 1..n : s[k] \in Nat
  BY LenProperties, ElementOfSeq
<1>2. lo \in 1..(n - 1) /\ frac \in {0, 25, 50, 75}
  <2>1. n \in Nat /\ n >= 2 /\ lo = LowerRank(p, n) /\ p \in {25, 75}
    BY <1>1
  <2> DEFINE Rank(r) == /\ LowerRank(r, n) \in 1..(n - 1)
                        /\ (r * (n - 1)) % 100 \in {0, 25, 50, 75}
  <2> HIDE DEF n
  <2>2. \A r \in {25, 75} : Rank(r)
    BY ONLY <2>1, Quarters
  <2>3. Rank(p)
    <3> HIDE DEF Rank
    <3> QED
      BY ONLY <2>1, <2>2
  <2> QED
    BY ONLY <2>1, <2>3
<1> HIDE DEF n, frac
<1>3. lo \in 1..n /\ lo + 1 \in 1..n /\ lo < lo + 1
  BY <1>1, <1>2
<1>4. s[lo] \in Nat /\ s[lo + 1] \in Nat /\ s[lo] <= s[lo + 1]
  BY <1>1, <1>3 DEF Ascends, n
<1>5. Percentile(s, p) = IF frac = 0 THEN s[lo] ELSE s[lo] + (frac * d) \div 100
  BY DEF Percentile, LowerRank, n, frac
<1>6. d \in Nat /\ s[lo + 1] = s[lo] + d
  BY <1>4
<1> HIDE DEF d
<1> DEFINE x == (frac * d) \div 100
<1>7. x \in 0..d
  <2>1. CASE frac = 0
    BY <1>6, <2>1
  <2>2. CASE frac = 25
    BY <1>6, <2>2
  <2>3. CASE frac = 50
    BY <1>6, <2>3
  <2>4. CASE frac = 75
    BY <1>6, <2>4
  <2> QED
    BY <1>2, <2>1, <2>2, <2>3, <2>4
<1> HIDE DEF x
<1>8. Percentile(s, p) \in Nat /\ s[lo] <= Percentile(s, p) /\ Percentile(s, p) <= s[lo] + d
  <2>1. Percentile(s, p) = s[lo] \/ Percentile(s, p) = s[lo] + x
    BY <1>5 DEF x
  <2>2. x \in Nat /\ x <= d
    BY <1>6, <1>7
  <2> DEFINE P == Percentile(s, p)
             a == s[lo]
  <2>3. (P = a \/ P = a + x) /\ a \in Nat /\ x \in Nat /\ x <= d /\ d \in Nat
    BY <1>4, <1>6, <2>1, <2>2
  <2> HIDE DEF P, a
  <2>4. P \in Nat /\ a <= P /\ P <= a + d
    BY <2>3
  <2> QED
    BY <2>4 DEF P, a
<1> QED
  BY <1>2, <1>4, <1>6, <1>8 DEF n

\* The fence lies above the threshold and above three quarters of the samples.
LEMMA FenceAbove ==
    ASSUME NEW s \in Seq(Nat), Ascends(s), Len(s) >= 2, NEW threshold \in Int
    PROVE  /\ Fence(s, threshold) \in Int /\ Fence(s, threshold) >= threshold
           /\ \E lo \in 1..(Len(s) - 1) :
                 s[lo] <= Fence(s, threshold) /\ 4 * (Len(s) - lo) < Len(s) + 3
<1> DEFINE n == Len(s)
           q1 == Percentile(s, 25)
           q3 == Percentile(s, 75)
           lo1 == LowerRank(25, n)
           lo3 == LowerRank(75, n)
           high == q3 + (3 * (q3 - q1)) \div 2
<1>1. n \in Nat /\ \A k \in 1..n : s[k] \in Nat
  BY LenProperties, ElementOfSeq
<1>2. /\ lo1 \in 1..(n - 1) /\ q1 \in Nat /\ s[lo1] <= q1 /\ q1 <= s[lo1 + 1]
      /\ lo3 \in 1..(n - 1) /\ q3 \in Nat /\ s[lo3] <= q3 /\ q3 <= s[lo3 + 1]
  <2>1. lo1 \in 1..(n - 1) /\ q1 \in Nat /\ s[lo1] <= q1 /\ q1 <= s[lo1 + 1]
    BY PercentileBetween
  <2>2. lo3 \in 1..(n - 1) /\ q3 \in Nat /\ s[lo3] <= q3 /\ q3 <= s[lo3 + 1]
    BY PercentileBetween
  <2> QED
    BY ONLY <2>1, <2>2
<1>3. q1 <= q3
  <2>1. CASE n = 2
    <3> DEFINE d == s[2] - s[1]
    <3>1. 1 \in 1..Len(s) /\ 2 \in 1..Len(s) /\ 1 < 2
      BY <2>1
    <3>2. s[1] \in Nat /\ s[2] \in Nat /\ s[1] <= s[2]
      BY <1>1, <3>1 DEF Ascends
    <3>3. q1 = s[1] + (25 * d) \div 100 /\ q3 = s[1] + (75 * d) \div 100
      BY <2>1 DEF Percentile
    <3>4. d \in Nat
      BY <3>2
    <3> HIDE DEF d, q1, q3
    <3> QED
      BY <3>2, <3>3, <3>4
  <2>2. CASE n > 2
    <3>1. lo1 < lo3
      BY <1>1, <2>2, Quarters
    <3>2. lo1 \in Int /\ lo3 \in Int /\ lo1 < lo3
      BY <1>1, <1>2, <3>1
    <3> HIDE DEF lo1, lo3, q1, q3
    <3>3. lo1 + 1 <= lo3 /\ lo1 + 1 \in 1..n /\ lo3 \in 1..n
      BY <1>1, <1>2, <3>2
    <3>4. s[lo1 + 1] <= s[lo3] /\ s[lo1 + 1] \in Nat /\ s[lo3] \in Nat
      <4>1. \A j, k \in 1..n : j < k => s[j] <= s[k]
        BY DEF Ascends
      <4> DEFINE j == lo1 + 1
      <4>2. j \in 1..n /\ lo3 \in 1..n /\ (j = lo3 \/ j < lo3)
        BY <1>1, <1>2, <3>3
      <4> HIDE DEF j, n
      <4>3. s[j] \in Nat /\ s[lo3] \in Nat /\ (j = lo3 \/ s[j] <= s[lo3])
        BY <1>1, <4>1, <4>2
      <4>4. s[j] <= s[lo3]
        BY <4>3
      <4> QED
        BY <4>3, <4>4 DEF j
    <3> QED
      BY <1>2, <3>4
  <2>3. n \in Nat /\ n >= 2
    BY <1>1
  <2> HIDE DEF q1, q3, n
  <2>4. n = 2 \/ n > 2
    BY <2>3
  <2> QED
    BY <2>1, <2>2, <2>4
<1>4. 4 * (n - lo3) < n + 3
  BY <1>1, Quarters
<1> HIDE DEF lo1, lo3
<1>5. Fence(s, threshold) = Max({high, threshold})
  BY DEF Fence
<1> HIDE DEF q1, q3
<1>6. high \in Int /\ high >= q3
  BY <1>2, <1>3
<1> HIDE DEF high
<1>7. Fence(s, threshold) \in {high, threshold} /\ Fence(s, threshold) >= high
      /\ Fence(s, threshold) >= threshold
  <2> DEFINE S == {high, threshold}
  <2>1. S \in SUBSET Int /\ S # {} /\ high \in S /\ threshold \in S
    BY <1>6
  <2>2. IsFiniteSet(S)
    <3>1. IsFiniteSet({high})
      BY FS_Singleton
    <3>2. IsFiniteSet({high} \cup {threshold})
      BY <3>1, FS_AddElement
    <3>3. {high} \cup {threshold} = S
      OBVIOUS
    <3> QED
      BY <3>2, <3>3
  <2> HIDE DEF S
  <2>3. Max(S) \in S /\ \A x \in S : x <= Max(S)
    BY <2>1, <2>2, FiniteMax
  <2>4. Fence(s, threshold) = Max(S)
    BY <1>5 DEF S
  <2>5. Fence(s, threshold) \in S /\ \A x \in S : x <= Fence(s, threshold)
    BY <2>3, <2>4
  <2> QED
    BY <2>1, <2>5 DEF S
<1>8. lo3 \in 1..n /\ s[lo3] \in Nat
  BY <1>1, <1>2
<1>9. Fence(s, threshold) \in Int /\ s[lo3] <= Fence(s, threshold)
  <2> DEFINE f == Fence(s, threshold)
             g == s[lo3]
  <2>1. f \in {high, threshold} /\ f >= high /\ high >= q3 /\ high \in Int
    BY <1>6, <1>7
  <2>2. q3 \in Nat /\ g <= q3 /\ g \in Nat
    BY <1>2, <1>8
  <2> HIDE DEF f, g
  <2>3. f \in Int /\ g <= f
    BY <2>1, <2>2
  <2> QED
    BY <2>3 DEF f, g
<1> QED
  BY <1>2, <1>4, <1>7, <1>9

\* Of samples in ascending order, those within a fence are a prefix.
LEMMA WithinIsPrefix ==
    ASSUME NEW s \in Seq(Nat), Ascends(s), NEW fence \in Int
    PROVE  \E m \in 0..Len(s) :
              /\ Within(s, fence) = SubSeq(s, 1, m)
              /\ \A k \in 1..m : s[k] <= fence
              /\ \A k \in (m + 1)..Len(s) : s[k] > fence
<1> DEFINE n == Len(s)
           Above == {k \in 1..n : s[k] > fence}
<1>1. n \in Nat /\ \A k \in 1..n : s[k] \in Nat
  BY LenProperties, ElementOfSeq
<1>2. PICK m \in 0..n : /\ \A k \in 1..m : s[k] <= fence
                        /\ \A k \in (m + 1)..n : s[k] > fence
  <2>1. CASE Above = {}
    <3>1. n \in 0..n /\ \A k \in 1..n : s[k] <= fence
      BY <1>1, <2>1
    <3>2. (n + 1)..n = {}
      BY <1>1
    <3> QED
      BY <3>1, <3>2
  <2>2. CASE Above # {}
    <3>1. PICK x \in Above : \A y \in Above : x <= y
      <4>1. Above \in SUBSET Nat
        BY <1>1
      <4> HIDE DEF Above
      <4> QED
        BY <2>2, <4>1, LeastNatural
    <3> DEFINE m == x - 1
    <3>2. m \in 0..n /\ x \in 1..n /\ s[x] > fence
      BY <1>1, <3>1
    <3>3. \A k \in 1..m : s[k] <= fence
      <4> SUFFICES ASSUME NEW k \in 1..m PROVE s[k] <= fence
        OBVIOUS
      <4>1. k \in 1..n /\ k < x
        BY <1>1, <3>2
      <4> QED
        BY <1>1, <3>1, <4>1
    <3>4. \A k \in (m + 1)..n : s[k] > fence
      <4> SUFFICES ASSUME NEW k \in (m + 1)..n PROVE s[k] > fence
        OBVIOUS
      <4>1. k \in 1..n /\ (k = x \/ x < k)
        BY <1>1, <3>2
      <4>2. s[x] <= s[k] /\ s[k] \in Nat /\ s[x] \in Nat
        BY <1>1, <3>2, <4>1 DEF Ascends
      <4> QED
        BY <3>2, <4>2
    <3> QED
      BY <3>2, <3>3, <3>4
  <2> QED
    BY <2>1, <2>2
<1>3. PICK w : /\ w[0] = <<>>
               /\ \A k \in 1..n :
                     w[k] = IF s[k] <= fence THEN Append(w[k - 1], s[k]) ELSE w[k - 1]
               /\ Within(s, fence) = w[n]
  BY WithinIsLoop
<1> HIDE DEF n
<1> DEFINE T == {k \in 0..n : w[k] = SubSeq(s, 1, IF k <= m THEN k ELSE m)}
<1>4. 0 \in T
  <2>1. SubSeq(s, 1, 0) = <<>> /\ 0 <= m /\ 0 \in 0..n
    BY <1>1, <1>2, SubSeqEmpty
  <2> QED
    BY <1>3, <2>1
<1>5. ASSUME NEW k \in 1..n, k - 1 \in T PROVE k \in T
  <2>1. CASE k <= m
    <3>1. /\ k \in 1..m /\ k - 1 <= m /\ k \in 0..n
      BY <1>1, <1>2, <2>1
    <3>2. w[k] = Append(SubSeq(s, 1, k - 1), s[k])
      BY <1>2, <1>3, <1>5, <3>1
    <3>3. Append(SubSeq(s, 1, k - 1), s[k]) = SubSeq(s, 1, k)
      <4> DEFINE a == SubSeq(s, 1, k - 1)
                 b == SubSeq(s, 1, k)
                 e == s[k]
                 j == k - 1
      <4>1. /\ a \in Seq(Nat) /\ Len(a) = j /\ \A i \in 1..j : a[i] = s[i]
            /\ b \in Seq(Nat) /\ Len(b) = k /\ \A i \in 1..k : b[i] = s[i]
        <5>1. /\ \A i \in 1..j : s[i] \in Nat
              /\ \A i \in 1..k : s[i] \in Nat
              /\ k \in Nat \ {0} /\ j \in Nat
          BY <1>1, <1>2, <3>1
        <5>2. /\ a \in Seq(Nat) /\ Len(a) = (IF 1 <= j THEN j - 1 + 1 ELSE 0)
              /\ \A i \in 1..(j - 1 + 1) : a[i] = s[1 + i - 1]
          BY <5>1, SubSeqProperties
        <5>3. /\ b \in Seq(Nat) /\ Len(b) = (IF 1 <= k THEN k - 1 + 1 ELSE 0)
              /\ \A i \in 1..(k - 1 + 1) : b[i] = s[1 + i - 1]
          BY <5>1, SubSeqProperties
        <5> HIDE DEF a, b
        <5> QED
          BY <5>1, <5>2, <5>3
      <4>2. e \in Nat /\ k \in Nat \ {0}
        BY <1>1
      <4> HIDE DEF a, b, e
      <4>3. /\ Append(a, e) \in Seq(Nat) /\ Len(Append(a, e)) = j + 1
            /\ \A i \in 1..j : Append(a, e)[i] = a[i]
            /\ Append(a, e)[j + 1] = e
        BY <4>1, <4>2, AppendProperties
      <4>4. \A i \in 1..Len(Append(a, e)) : Append(a, e)[i] = b[i]
        <5> SUFFICES ASSUME NEW i \in 1..Len(Append(a, e)) PROVE Append(a, e)[i] = b[i]
          OBVIOUS
        <5>1. i \in 1..k /\ (i \in 1..j \/ i = k) /\ j + 1 = k
          BY <4>2, <4>3
        <5> QED
          BY <4>1, <4>3, <5>1 DEF e
      <4>5. Len(Append(a, e)) = Len(b)
        BY <4>1, <4>2, <4>3
      <4>6. Append(a, e) = b
        BY <4>1, <4>3, <4>4, <4>5, SeqEqual
      <4> QED
        BY <4>6 DEF a, b, e
    <3> QED
      BY <3>1, <3>2, <3>3, <2>1
  <2>2. CASE k > m
    <3>1. k \in (m + 1)..n /\ k \in 0..n /\ ~(k <= m) /\ (k - 1 <= m => k - 1 = m)
      BY <1>1, <1>2, <2>2
    <3>2. s[k] > fence /\ s[k] \in Nat
      BY <1>1, <1>2, <3>1
    <3>3. w[k] = w[k - 1]
      BY <1>3, <3>2
    <3> QED
      BY <1>5, <3>1, <3>3
  <2> QED
    BY <1>1, <1>2, <2>1, <2>2
<1>6. n \in T
  <2> HIDE DEF T
  <2>1. \A k \in 0..n : k \in T
    BY <1>1, <1>4, <1>5, UpTo
  <2> QED
    BY <1>1, <2>1
<1>7. Within(s, fence) = SubSeq(s, 1, m)
  <2>1. (IF n <= m THEN n ELSE m) = m
    BY <1>1, <1>2
  <2> QED
    BY <1>3, <1>6, <2>1
<1> QED
  BY <1>2, <1>7 DEF n

-----------------------------------------------------------------------------
(* The averages.                                                           *)

\* Products of naturals keep the order.
LEMMA TimesGrows ==
    ASSUME NEW a \in Nat, NEW b \in Nat, NEW c \in Nat, a <= b
    PROVE  a * c <= b * c
<1>1. PICK d \in Nat : b = a + d
  <2>1. b - a \in Nat /\ b = a + (b - a)
    OBVIOUS
  <2> QED
    BY <2>1
<1>2. b * c = a * c + d * c /\ d * c \in Nat /\ a * c \in Nat
  BY <1>1
<1> QED
  BY <1>2

\* A quotient is the largest number of times its divisor fits.
LEMMA QuotientIs ==
    ASSUME NEW a \in Nat, NEW b \in Nat \ {0}
    PROVE  /\ a \div b \in Nat /\ (a \div b) * b <= a
           /\ \A q \in Nat : q * b <= a => q <= a \div b
<1> DEFINE d == a \div b
           r == a % b
<1>1. d \in Nat /\ r \in Nat /\ r < b /\ a = d * b + r
  OBVIOUS
<1> HIDE DEF d, r
<1>2. ASSUME NEW q \in Nat, q * b <= a PROVE q <= d
  <2> SUFFICES ASSUME d + 1 <= q PROVE FALSE
    BY <1>1
  <2>1. (d + 1) * b <= q * b
    BY <1>1, TimesGrows
  <2>2. (d + 1) * b = d * b + b /\ d * b \in Nat /\ q * b \in Nat
    BY <1>1
  <2> QED
    BY <1>1, <1>2, <2>1, <2>2
<1>3. d * b <= a
  <2>1. d * b \in Nat
    BY <1>1
  <2> QED
    BY <1>1, <2>1
<1> QED
  BY <1>1, <1>2, <1>3 DEF d

\* Rounding keeps the order of quotients.
LEMMA RoundingGrows ==
    ASSUME NEW a \in Nat, NEW b \in Nat \ {0}, NEW c \in Nat, NEW d \in Nat \ {0},
           a * d <= c * b
    PROVE  RoundTo2(a, b) <= RoundTo2(c, d)
<1> DEFINE x == RoundTo2(a, b)
           q == x * 2
<1>1. 2 * a + b \in Nat /\ 2 * b \in Nat \ {0} /\ 2 * c + d \in Nat /\ 2 * d \in Nat \ {0}
  OBVIOUS
<1>2. x \in Nat /\ x * (2 * b) <= 2 * a + b
  BY <1>1, QuotientIs DEF RoundTo2
<1> HIDE DEF x
<1>3. q * b <= 2 * a + b
  BY <1>2
<1>4. (q * b) * d <= (2 * a + b) * d
  BY <1>1, <1>2, <1>3, TimesGrows
<1>5. (2 * a + b) * d = 2 * (a * d) + b * d /\ (2 * c + d) * b = 2 * (c * b) + b * d
  OBVIOUS
<1>6. (2 * a + b) * d <= (2 * c + d) * b
  <2>1. a * d \in Nat /\ c * b \in Nat /\ b * d \in Nat
    OBVIOUS
  <2> QED
    BY <1>5, <2>1
<1>7. (q * d) * b <= (2 * c + d) * b
  <2>1. (q * d) * b = (q * b) * d
    BY <1>2
  <2>2. (q * b) * d \in Nat /\ (2 * a + b) * d \in Nat /\ (2 * c + d) * b \in Nat
    BY <1>2
  <2> QED
    BY <1>4, <1>6, <2>1, <2>2
<1>8. q * d <= 2 * c + d
  <2> DEFINE u == q * d
             v == 2 * c + d
  <2>1. u \in Nat /\ v \in Nat /\ u * b <= v * b
    BY <1>2, <1>7
  <2> HIDE DEF u, v
  <2> SUFFICES ASSUME v + 1 <= u PROVE FALSE
    BY <2>1 DEF u, v
  <2>2. (v + 1) * b <= u * b
    BY <2>1, TimesGrows
  <2>3. (v + 1) * b = v * b + b /\ v * b \in Nat /\ u * b \in Nat
    BY <2>1
  <2> QED
    BY <2>1, <2>2, <2>3
<1>9. x * (2 * d) <= 2 * c + d
  <2>1. x * (2 * d) = q * d
    BY <1>2
  <2> QED
    BY <1>8, <2>1
<1> QED
  BY <1>1, <1>2, <1>9, QuotientIs DEF RoundTo2

\* The average of the smallest samples is at most that of all.
LEMMA PrefixAverage ==
    ASSUME NEW s \in Seq(Nat), Ascends(s), NEW m \in 1..Len(s)
    PROVE  Average(SubSeq(s, 1, m)) <= Average(s)
<1> DEFINE n == Len(s)
           q == SubSeq(s, 1, m)
           x == s[m]
<1>1. n \in Nat /\ m \in 1..n /\ \A k \in 1..n : s[k] \in Nat
  BY LenProperties, ElementOfSeq
<1>2. q \in Seq(Nat) /\ Len(q) = m /\ \A k \in 1..m : q[k] = s[k]
  <2>1. m \in Int /\ 1 <= m /\ \A k \in 1..m : s[k] \in Nat
    BY <1>1
  <2>2. /\ q \in Seq(Nat) /\ Len(q) = (IF 1 <= m THEN m - 1 + 1 ELSE 0)
        /\ \A i \in 1..(m - 1 + 1) : q[i] = s[1 + i - 1]
    BY <2>1, SubSeqProperties
  <2> HIDE DEF q
  <2> QED
    BY <2>1, <2>2
<1>3. PICK t : /\ t[0] = 0 /\ \A k \in 1..n : t[k] = t[k - 1] + s[k]
               /\ Total(s) = t[n]
  BY TotalIsLoop
<1> HIDE DEF q
<1>4. PICK u : /\ u[0] = 0 /\ \A k \in 1..m : u[k] = u[k - 1] + q[k]
               /\ Total(q) = u[m]
  BY <1>2, TotalIsLoop
<1> HIDE DEF n
<1>5. x \in Nat /\ (\A k \in 1..m : s[k] <= x) /\ (\A k \in (m + 1)..n : x <= s[k])
  <2>1. \A k \in 1..m : k \in 1..n /\ (k = m \/ k < m)
    BY <1>1
  <2>2. \A k \in (m + 1)..n : k \in 1..n /\ m < k
    BY <1>1
  <2>3. \A j, k \in 1..n : j < k => s[j] <= s[k]
    BY DEF Ascends, n
  <2>4. x \in Nat
    BY <1>1
  <2> QED
    BY <1>1, <2>1, <2>2, <2>3, <2>4
<1> HIDE DEF x
\* The sums of the prefix are those of the whole, and at most so many times x.
<1>6. \A k \in 0..m : t[k] \in Nat /\ u[k] = t[k] /\ t[k] <= k * x
  <2> DEFINE T == {k \in 0..m : t[k] \in Nat /\ u[k] = t[k] /\ t[k] <= k * x}
  <2>1. 0 \in T
    BY <1>1, <1>3, <1>4, <1>5
  <2>2. ASSUME NEW k \in 1..m, k - 1 \in T PROVE k \in T
    <3>1. k \in 1..n /\ k \in 0..m /\ k \in Nat
      BY <1>1
    <3>2. t[k] = t[k - 1] + s[k] /\ u[k] = t[k] /\ s[k] \in Nat /\ s[k] <= x
      BY <1>1, <1>2, <1>3, <1>4, <1>5, <2>2, <3>1
    <3>3. k * x = (k - 1) * x + x /\ (k - 1) * x \in Nat
      BY <1>5, <3>1
    <3>4. t[k - 1] \in Nat /\ t[k - 1] <= (k - 1) * x
      BY <2>2
    <3> DEFINE a == t[k - 1]
               b == t[k]
               c == (k - 1) * x
               g == s[k]
    <3>5. /\ a \in Nat /\ a <= c /\ b = a + g /\ g \in Nat /\ g <= x
          /\ k * x = c + x /\ c \in Nat /\ x \in Nat
      BY <1>5, <3>2, <3>3, <3>4
    <3> HIDE DEF a, b, c, g
    <3>6. b \in Nat /\ b <= k * x
      BY <3>5
    <3> QED
      BY <3>1, <3>2, <3>6 DEF b
  <2>3. m \in Nat
    BY <1>1
  <2> HIDE DEF T
  <2>4. \A k \in 0..m : k \in T
    BY <2>1, <2>2, <2>3, UpTo
  <2> QED
    BY <2>4 DEF T
\* Each of the rest adds at least x.
<1>7. \A k \in 0..(n - m) : t[m + k] \in Nat /\ t[m + k] >= t[m] + k * x
  <2> DEFINE d == n - m
             T == {k \in 0..d : t[m + k] \in Nat /\ t[m + k] >= t[m] + k * x}
  <2>1. d \in Nat /\ t[m] \in Nat /\ m + 0 = m
    BY <1>1, <1>6
  <2>2. 0 \in T
    BY <1>5, <2>1
  <2>3. ASSUME NEW k \in 1..d, k - 1 \in T PROVE k \in T
    <3>1. m + k \in (m + 1)..n /\ m + k \in 1..n /\ k \in 0..d /\ k \in Nat
          /\ m + k - 1 = m + (k - 1)
      BY <1>1
    <3>2. t[m + k] = t[m + (k - 1)] + s[m + k] /\ s[m + k] \in Nat /\ x <= s[m + k]
      <4> DEFINE j == m + k
      <4>1. j \in (m + 1)..n /\ j \in 1..n /\ j - 1 = m + (k - 1)
        BY <3>1
      <4> HIDE DEF j
      <4>2. t[j] = t[j - 1] + s[j] /\ s[j] \in Nat /\ x <= s[j]
        BY <1>1, <1>3, <1>5, <4>1
      <4> QED
        BY <4>1, <4>2 DEF j
    <3>3. k * x = (k - 1) * x + x /\ (k - 1) * x \in Nat
      BY <1>5, <3>1
    <3>4. t[m + (k - 1)] \in Nat /\ t[m + (k - 1)] >= t[m] + (k - 1) * x
      BY <2>3
    <3> DEFINE a == t[m + (k - 1)]
               b == t[m + k]
               c == (k - 1) * x
               g == s[m + k]
    <3>5. /\ a \in Nat /\ a >= t[m] + c /\ b = a + g /\ g \in Nat /\ x <= g
          /\ k * x = c + x /\ c \in Nat /\ t[m] \in Nat /\ x \in Nat
      BY <1>5, <2>1, <3>2, <3>3, <3>4
    <3> HIDE DEF a, b, c, g
    <3>6. b \in Nat /\ b >= t[m] + k * x
      BY <3>5
    <3> QED
      BY <3>1, <3>6 DEF b
  <2> HIDE DEF T, d
  <2>4. \A k \in 0..d : k \in T
    BY <2>1, <2>2, <2>3, UpTo
  <2> QED
    BY <2>4 DEF T, d
<1> DEFINE A == t[m]
           B == t[n]
           d == n - m
<1>8. A \in Nat /\ B \in Nat /\ A <= m * x /\ B >= A + d * x /\ d \in Nat /\ n = m + d
      /\ m \in Nat \ {0} /\ n \in Nat \ {0}
  <2>1. m \in 0..m /\ d \in 0..d /\ m + d = n /\ d \in Nat
    BY <1>1
  <2> QED
    BY <1>1, <1>6, <1>7, <2>1
<1>9. Total(q) = A /\ Total(s) = B
  <2>1. m \in 0..m
    BY <1>1
  <2> QED
    BY <1>3, <1>4, <1>6, <2>1
<1> HIDE DEF A, B, d
<1>10. A * n <= B * m
  <2>1. A * n = A * m + A * d /\ A * m \in Nat /\ A * d \in Nat
    BY <1>8
  <2>2. A * d <= (m * x) * d
    <3>1. m * x \in Nat
      BY <1>5, <1>8
    <3> QED
      BY <1>8, <3>1, TimesGrows
  <2>3. (A + d * x) * m <= B * m
    <3>1. A + d * x \in Nat
      BY <1>5, <1>8
    <3> QED
      BY <1>8, <3>1, TimesGrows
  <2>4. (A + d * x) * m = A * m + (m * x) * d /\ (m * x) * d \in Nat
    BY <1>5, <1>8
  <2>5. B * m \in Nat
    BY <1>8
  <2> QED
    BY <2>1, <2>2, <2>3, <2>4, <2>5
<1>11. Average(q) = RoundTo2(A, m) /\ Average(s) = RoundTo2(B, n)
  <2>1. Len(<<>>) = 0
    BY EmptySeq
  <2>2. q # <<>> /\ s # <<>>
    BY <1>2, <1>8, <2>1 DEF n
  <2> QED
    BY <1>2, <1>9, <2>2 DEF Average, n
<1> QED
  BY <1>8, <1>10, <1>11, RoundingGrows DEF q

-----------------------------------------------------------------------------
(* The filter.                                                             *)

\* What the filter leaves of samples in ascending order: the smallest, at least
\* two of them and three quarters of all.  What it takes lies above the threshold.
THEOREM SpikesOnly ==
    ASSUME NEW s \in Seq(Nat), Ascends(s), NEW threshold \in Int,
           NEW kept, kept = FilterAnomalyRTTs(s, threshold), kept # <<>>
    PROVE  /\ kept = SubSeq(s, 1, Len(kept))
           /\ \A k \in (Len(kept) + 1)..Len(s) : s[k] > threshold
           /\ Len(kept) >= 2 /\ 4 * (Len(s) - Len(kept)) < Len(s) + 3
           /\ Average(kept) <= Average(s)
<1> DEFINE n == Len(s)
           fence == Fence(s, threshold)
           good == Within(s, fence)
<1>1. n \in Nat /\ \A k \in 1..n : s[k] \in Nat
  BY LenProperties, ElementOfSeq
<1>2. kept = IF n < 2 \/ Len(good) < 2 \/ Len(good) = n THEN <<>> ELSE good
  BY DEF FilterAnomalyRTTs
<1>3. kept = good /\ ~(n < 2) /\ ~(Len(good) < 2)
  BY <1>2
<1>4. n >= 2
  BY <1>1, <1>3
<1>5. /\ fence \in Int /\ fence >= threshold
      /\ \E lo \in 1..(n - 1) : s[lo] <= fence /\ 4 * (n - lo) < n + 3
  BY <1>4, FenceAbove
<1> HIDE DEF fence
<1>6. PICK m \in 0..n : /\ good = SubSeq(s, 1, m)
                        /\ \A k \in (m + 1)..n : s[k] > fence
  BY <1>5, WithinIsPrefix
<1>7. Len(good) = m
  <2>1. m \in Int /\ \A k \in 1..m : s[k] \in Nat
    BY <1>1
  <2>2. Len(SubSeq(s, 1, m)) = IF 1 <= m THEN m - 1 + 1 ELSE 0
    BY <2>1, SubSeqProperties
  <2> QED
    BY <1>1, <1>6, <2>1, <2>2
<1>8. m \in 2..n /\ Len(kept) = m
  BY <1>1, <1>3, <1>7
<1> HIDE DEF n, good
<1>9. 4 * (n - m) < n + 3
  <2>1. PICK lo \in 1..(n - 1) : s[lo] <= fence /\ 4 * (n - lo) < n + 3
    BY <1>5
  <2>2. lo <= m
    <3> SUFFICES ASSUME ~(lo <= m) PROVE FALSE
      OBVIOUS
    <3>1. lo \in (m + 1)..n /\ lo \in 1..n
      BY <1>1, <1>8
    <3>2. s[lo] > fence /\ s[lo] \in Nat
      BY <1>1, <1>6, <3>1
    <3> QED
      BY <1>5, <2>1, <3>2
  <2> QED
    BY <1>1, <1>8, <2>1, <2>2
<1>10. \A k \in (m + 1)..n : s[k] > threshold
  <2> SUFFICES ASSUME NEW k \in (m + 1)..n PROVE s[k] > threshold
    OBVIOUS
  <2>1. k \in 1..n /\ s[k] > fence
    BY <1>1, <1>6, <1>8
  <2>2. s[k] \in Nat
    BY <1>1, <2>1
  <2> QED
    BY <1>5, <2>1, <2>2
<1>11. Average(kept) <= Average(s)
  <2>1. m \in 1..Len(s)
    BY <1>1, <1>8 DEF n
  <2> QED
    BY <1>3, <1>6, <2>1, PrefixAverage
<1> QED
  BY <1>1, <1>3, <1>6, <1>8, <1>9, <1>10, <1>11 DEF n

=============================================================================
