----------------------------- MODULE FoldFacts -----------------------------
(***************************************************************************)
(* Lemmas about the operators of the community modules that the            *)
(* specifications use on finite sets and sequences: Max, MapThenSumSet and *)
(* FoldLeft.  A proof by induction gives the induction lemma the set of    *)
(* the numbers, or of the subsets, for which its statement holds.          *)
(***************************************************************************)
EXTENDS Integers, FiniteSetsExt, FiniteSetTheorems, SequenceTheorems, TLAPS

-----------------------------------------------------------------------------
(* Induction.                                                              *)

LessThan == {pair \in Nat \X Nat : pair[1] < pair[2]}

LEMMA LeastNatural ==
    ASSUME NEW T \in SUBSET Nat, T # {}
    PROVE  \E x \in T : \A y \in T : x <= y
<1>1. IsWellFoundedOn(LessThan, Nat)
  BY NatLessThanWellFounded DEF OpToRel, LessThan
<1>2. PICK x \in T : \A y \in T : ~(<<y, x>> \in LessThan)
  BY <1>1, WFMin
<1>3. ASSUME NEW y \in T, y < x PROVE FALSE
  <2>1. <<y, x>> \in Nat \X Nat /\ <<y, x>>[1] < <<y, x>>[2]
    BY <1>3
  <2>2. <<y, x>> \in LessThan
    BY <2>1 DEF LessThan
  <2> QED
    BY <1>2, <2>2
<1>4. \A y \in T : x <= y
  <2> SUFFICES ASSUME NEW y \in T PROVE x <= y
    OBVIOUS
  <2>1. ~(y < x) /\ x \in Nat /\ y \in Nat
    BY <1>3
  <2> QED
    BY <2>1
<1> QED
  BY <1>4

\* Induction over 0..n.
LEMMA UpTo ==
    ASSUME NEW n \in Nat, NEW T, 0 \in T, \A k \in 1..n : k - 1 \in T => k \in T
    PROVE  \A k \in 0..n : k \in T
<1> DEFINE Bad == (0..n) \ T
<1>1. Bad = {}
  <2> SUFFICES ASSUME Bad # {} PROVE FALSE
    OBVIOUS
  <2>1. Bad \in SUBSET Nat
    OBVIOUS
  <2>2. PICK k \in Bad : \A j \in Bad : k <= j
    BY <2>1, LeastNatural
  <2>3. k \in 1..n /\ k - 1 \in 0..n /\ ~(k <= k - 1)
    OBVIOUS
  <2>4. k - 1 \in T
    BY <2>2, <2>3
  <2> QED
    BY <2>3, <2>4
<1> QED
  BY <1>1

\* Induction over the subsets of a finite set.
LEMMA Subsets ==
    ASSUME NEW S, IsFiniteSet(S), NEW T, {} \in T,
           \A s \in (SUBSET S) \ {{}} : (\A x \in s : s \ {x} \in T) => s \in T
    PROVE  \A s \in SUBSET S : s \in T
<1> DEFINE Bad == {Cardinality(s) : s \in (SUBSET S) \ T}
<1>1. \A s \in SUBSET S : IsFiniteSet(s) /\ Cardinality(s) \in Nat
  BY FS_Subset, FS_CardinalityType
<1>2. Bad = {}
  <2> SUFFICES ASSUME Bad # {} PROVE FALSE
    OBVIOUS
  <2>1. Bad \in SUBSET Nat
    BY <1>1
  <2>2. PICK n \in Bad : \A m \in Bad : n <= m
    BY <2>1, LeastNatural
  <2>3. PICK s \in (SUBSET S) \ T : Cardinality(s) = n
    OBVIOUS
  <2>4. PICK x \in s : s \ {x} \notin T
    OBVIOUS
  <2>5. Cardinality(s \ {x}) = n - 1 /\ n \in Nat
    BY <1>1, <2>3, FS_RemoveElement
  <2>6. n - 1 \in Bad /\ ~(n <= n - 1)
    BY <2>4, <2>5
  <2> QED
    BY <2>2, <2>6
<1> QED
  BY <1>2

-----------------------------------------------------------------------------
(* The largest element of a finite set of integers.                        *)

\* The first n elements of a list of integers have a largest one.
LEMMA LargestOfPrefix ==
    ASSUME NEW q, NEW n \in Nat \ {0}, \A i \in 1..n : q[i] \in Int
    PROVE  \E m \in 1..n : \A i \in 1..n : q[i] <= q[m]
<1> DEFINE Holds(k) == k = 0 \/ \E m \in 1..k : \A i \in 1..k : q[i] <= q[m]
           T == {k \in 0..n : Holds(k)}
<1>1. 0 \in T
  OBVIOUS
<1>2. ASSUME NEW k \in 1..n, k - 1 \in T PROVE k \in T
  <2>1. /\ q[k] \in Int /\ k \in 1..k
        /\ \A i \in 1..k : i = k \/ i \in 1..(k - 1)
        /\ \A i \in 1..(k - 1) : q[i] \in Int
    OBVIOUS
  <2>2. CASE k = 1
    BY <2>1, <2>2
  <2>3. CASE k # 1
    <3>1. PICK m \in 1..(k - 1) : \A i \in 1..(k - 1) : q[i] <= q[m]
      BY <1>2, <2>3
    <3>2. CASE q[k] <= q[m]
      <4>1. m \in 1..k /\ \A i \in 1..k : q[i] <= q[m]
        BY <2>1, <3>1, <3>2
      <4> QED
        BY <4>1
    <3>3. CASE ~(q[k] <= q[m])
      <4>1. \A i \in 1..k : q[i] <= q[k]
        BY <2>1, <3>1, <3>3
      <4> QED
        BY <2>1, <4>1
    <3> QED
      BY <3>2, <3>3
  <2> QED
    BY <2>2, <2>3
<1> HIDE DEF T
<1>3. n \in T
  BY <1>1, <1>2, UpTo
<1> QED
  BY <1>3 DEF T

\* Max is defined on the finite sets of integers.
LEMMA FiniteMax ==
    ASSUME NEW S \in SUBSET Int, IsFiniteSet(S), S # {}
    PROVE  Max(S) \in S /\ \A x \in S : x <= Max(S)
<1>1. PICK q \in Seq(S) : \A x \in S : \E i \in 1..Len(q) : q[i] = x
  BY DEF IsFiniteSet
<1>2. Len(q) \in Nat \ {0} /\ \A i \in 1..Len(q) : q[i] \in S
  <2>1. Len(q) \in Nat /\ \A i \in 1..Len(q) : q[i] \in S
    BY LenProperties, ElementOfSeq
  <2>2. 1..Len(q) # {}
    BY <1>1
  <2>3. Len(q) # 0
    BY <2>2
  <2> QED
    BY <2>1, <2>3
<1>3. PICK m \in 1..Len(q) : \A i \in 1..Len(q) : q[i] <= q[m]
  BY <1>2, LargestOfPrefix
<1>4. q[m] \in S /\ \A x \in S : q[m] >= x
  BY <1>1, <1>2, <1>3
<1>5. Max(S) \in S /\ \A x \in S : Max(S) >= x
  BY <1>4 DEF Max
<1> QED
  BY <1>5

\* The values of an integer function on a finite set, and one more value.
LEMMA FiniteValues ==
    ASSUME NEW S, IsFiniteSet(S), NEW V \in SUBSET Int, NEW f \in Surjection(S, V),
           NEW a \in Int
    PROVE  /\ Max(V \cup {a}) \in V \cup {a} /\ Max(V \cup {a}) \in Int
           /\ \A x \in V \cup {a} : x \in Int /\ x <= Max(V \cup {a})
<1> DEFINE T == V \cup {a}
<1>2. IsFiniteSet(V)
  BY FS_Surjection
<1>3. IsFiniteSet(T) /\ T \in SUBSET Int /\ T # {}
  BY <1>2, FS_AddElement
<1>4. Max(T) \in T /\ \A x \in T : x <= Max(T)
  BY <1>3, FiniteMax
<1> QED
  BY <1>3, <1>4

-----------------------------------------------------------------------------
(* Folds over finite sets.                                                 *)

\* g folds op over a subset, taking the picked element away first.
Folds(g, S, base, op, pick) == \A s \in SUBSET S :
    g[s] = IF s = {} THEN base ELSE op[pick[s]][g[s \ {pick[s]}]]

\* A function on the subsets of a finite set may be defined by taking one
\* element away at a time.
LEMMA FoldExists ==
    ASSUME NEW S, IsFiniteSet(S), NEW V, NEW base \in V, NEW op \in [S -> [V -> V]],
           NEW pick \in [(SUBSET S) \ {{}} -> S],
           \A s \in (SUBSET S) \ {{}} : pick[s] \in s
    PROVE  \E g \in [SUBSET S -> V] : Folds(g, S, base, op, pick)
<1> DEFINE Value(g, s) == IF s = {} THEN base ELSE op[pick[s]][g[s \ {pick[s]}]]
           Holds(n) == \E g \in [SUBSET S -> V] :
                          \A s \in SUBSET S : Cardinality(s) <= n => g[s] = Value(g, s)
           T == {n \in Nat : Holds(n)}
<1>1. \A s \in SUBSET S : /\ IsFiniteSet(s) /\ Cardinality(s) \in Nat
                          /\ Cardinality(s) = 0 <=> s = {}
  BY FS_Subset, FS_CardinalityType, FS_EmptySet
<1>2. \A s \in SUBSET S : s # {} =>
         /\ s \ {pick[s]} \in SUBSET S /\ pick[s] \in S
         /\ Cardinality(s \ {pick[s]}) = Cardinality(s) - 1
  BY <1>1, FS_RemoveElement
<1>3. \A g \in [SUBSET S -> V] : \A s \in SUBSET S : Value(g, s) \in V
  BY <1>2
<1>4. Holds(0)
  <2> DEFINE none == [s \in SUBSET S |-> base]
  <2>1. none \in [SUBSET S -> V]
    OBVIOUS
  <2>2. \A s \in SUBSET S : Cardinality(s) <= 0 => none[s] = Value(none, s)
    BY <1>1
  <2> QED
    BY <2>1, <2>2
<1>5. ASSUME NEW n \in Nat, Holds(n) PROVE Holds(n + 1)
  <2>1. PICK g \in [SUBSET S -> V] :
                \A s \in SUBSET S : Cardinality(s) <= n => g[s] = Value(g, s)
    BY <1>5
  <2> DEFINE h == [s \in SUBSET S |-> IF Cardinality(s) <= n THEN g[s] ELSE Value(g, s)]
  <2>2. h \in [SUBSET S -> V]
    <3> HIDE DEF Value
    <3> QED
      BY <1>3
  <2>3. ASSUME NEW s \in SUBSET S, Cardinality(s) <= n + 1 PROVE h[s] = Value(h, s)
    <3>1. h[s] = Value(g, s)
      <4> HIDE DEF Value
      <4> QED
        BY <2>1
    <3>2. CASE s = {}
      BY <3>1, <3>2
    <3>3. CASE s # {}
      <4>1. s \ {pick[s]} \in SUBSET S /\ Cardinality(s \ {pick[s]}) <= n
        <5>1. /\ s \ {pick[s]} \in SUBSET S
              /\ Cardinality(s \ {pick[s]}) = Cardinality(s) - 1
          BY <1>2, <3>3
        <5>2. Cardinality(s) \in Nat
          BY <1>1
        <5> QED
          BY <2>3, <5>1, <5>2
      <4>2. h[s \ {pick[s]}] = g[s \ {pick[s]}]
        BY <4>1
      <4> QED
        BY <3>1, <3>3, <4>2
    <3> QED
      BY <3>2, <3>3
  <2> HIDE DEF h, Value
  <2> QED
    BY <2>2, <2>3
<1> HIDE DEF Holds
<1>6. Cardinality(S) \in Nat /\ Holds(Cardinality(S))
  <2>1. Cardinality(S) \in Nat
    BY <1>1
  <2>2. 0 \in T
    BY <1>4
  <2>3. ASSUME NEW k \in 1..Cardinality(S), k - 1 \in T PROVE k \in T
    <3>1. k - 1 \in Nat /\ Holds(k - 1) /\ (k - 1) + 1 = k /\ k \in Nat
      BY <2>1, <2>3
    <3>2. Holds((k - 1) + 1)
      BY <1>5, <3>1
    <3> QED
      BY <3>1, <3>2
  <2> DEFINE n == Cardinality(S)
  <2> HIDE DEF T, n
  <2>4. \A k \in 0..n : k \in T
    <3>1. n \in Nat /\ \A k \in 1..n : k - 1 \in T => k \in T
      BY <2>1, <2>3 DEF n
    <3> QED
      BY <2>2, <3>1, UpTo
  <2>5. n \in T
    BY <2>1, <2>4 DEF n
  <2> QED
    BY <2>1, <2>5 DEF T, n
<1>7. PICK g \in [SUBSET S -> V] :
              \A s \in SUBSET S : Cardinality(s) <= Cardinality(S) => g[s] = Value(g, s)
  BY <1>6 DEF Holds
<1>8. \A s \in SUBSET S : g[s] = Value(g, s)
  BY <1>7, FS_Subset
<1> QED
  BY <1>8 DEF Folds

-----------------------------------------------------------------------------
(* Folds over sequences, which FoldLeft makes from the last element down.  *)

LEMMA MaxOfPrefixes ==
    ASSUME NEW n \in Nat
    PROVE  /\ IsFiniteSet(1..n)
           /\ \A s \in (SUBSET (1..n)) \ {{}} : Max(s) \in s
           /\ \A k \in 1..n : Max(1..k) = k /\ (1..k) \ {k} = 1..(k - 1)
<1>1. IsFiniteSet(1..n)
  BY FS_Interval
<1>2. \A s \in (SUBSET (1..n)) \ {{}} :
         Max(s) \in s /\ \A x \in s : x <= Max(s)
  <2> SUFFICES ASSUME NEW s \in (SUBSET (1..n)) \ {{}}
               PROVE  Max(s) \in s /\ \A x \in s : x <= Max(s)
    OBVIOUS
  <2>1. s \in SUBSET Int /\ s # {}
    OBVIOUS
  <2>2. IsFiniteSet(s)
    BY <1>1, FS_Subset
  <2> QED
    BY <2>1, <2>2, FiniteMax
<1>3. ASSUME NEW k \in 1..n PROVE Max(1..k) = k
  <2>1. k \in 1..k /\ 1..k \in (SUBSET (1..n)) \ {{}}
    OBVIOUS
  <2>2. Max(1..k) \in 1..k /\ k <= Max(1..k)
    BY <1>2, <2>1
  <2> QED
    BY <2>2
<1>4. \A k \in 1..n : (1..k) \ {k} = 1..(k - 1)
  OBVIOUS
<1> QED
  BY <1>1, <1>2, <1>3, <1>4

\* h folds op over the subsets of 1..n, taking the largest index away first.
FoldsDown(h, n, base, op) == h = [s \in SUBSET (1..n) |->
    IF s = {} THEN base ELSE op[Max(s)][h[s \ {Max(s)}]]]

\* Such a function exists, and its values on the prefixes are those of a loop.
LEMMA FoldLoop ==
    ASSUME NEW n \in Nat, NEW V, NEW base \in V, NEW op \in [1..n -> [V -> V]]
    PROVE  \E h \in [SUBSET (1..n) -> V] : FoldsDown(h, n, base, op)
<1> DEFINE pick == [s \in (SUBSET (1..n)) \ {{}} |-> Max(s)]
<1>1. /\ pick \in [(SUBSET (1..n)) \ {{}} -> 1..n]
      /\ \A s \in (SUBSET (1..n)) \ {{}} : pick[s] = Max(s) /\ pick[s] \in s
  BY MaxOfPrefixes
<1> HIDE DEF pick
<1> DEFINE S == 1..n
<1>2. /\ IsFiniteSet(S) /\ op \in [S -> [V -> V]]
      /\ pick \in [(SUBSET S) \ {{}} -> S]
      /\ \A s \in (SUBSET S) \ {{}} : pick[s] \in s
  BY <1>1, MaxOfPrefixes
<1> HIDE DEF S
<1>3. PICK h \in [SUBSET S -> V] : Folds(h, S, base, op, pick)
  BY <1>2, FoldExists
<1>4. \A s \in SUBSET S :
         h[s] = IF s = {} THEN base ELSE op[Max(s)][h[s \ {Max(s)}]]
  BY <1>1, <1>3 DEF Folds, S
<1> QED
  BY <1>3, <1>4 DEF FoldsDown, S

LEMMA FoldSteps ==
    ASSUME NEW n \in Nat, NEW base, NEW op, NEW h, FoldsDown(h, n, base, op)
    PROVE  /\ h[1..0] = base
           /\ \A k \in 1..n : h[1..k] = op[k][h[1..(k - 1)]]
<1>1. \A s \in SUBSET (1..n) :
         h[s] = IF s = {} THEN base ELSE op[Max(s)][h[s \ {Max(s)}]]
  BY DEF FoldsDown
<1>2. 1..0 = {} /\ {} \in SUBSET (1..n)
  OBVIOUS
<1>3. ASSUME NEW k \in 1..n PROVE h[1..k] = op[k][h[1..(k - 1)]]
  <2>1. 1..k \in SUBSET (1..n) /\ 1..k # {}
    OBVIOUS
  <2>2. Max(1..k) = k /\ (1..k) \ {k} = 1..(k - 1)
    BY MaxOfPrefixes
  <2> QED
    BY <1>1, <2>1, <2>2
<1> QED
  BY <1>1, <1>2, <1>3

=============================================================================
