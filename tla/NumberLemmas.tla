------------------------------ MODULE NumberLemmas ------------------------------
(***************************************************************************)
(* Least and greatest members of sets of numbers.                          *)
(***************************************************************************)
EXTENDS Naturals, FiniteSetTheorems, TLAPS

\* A downward closed bounded set of numbers is an interval.
LEMMA DownwardClosed ==
    ASSUME NEW N \in Nat, NEW T \in SUBSET (0..N), \A n \in T : 0..n \subseteq T
    PROVE  Cardinality(T) \in Nat /\ T = 0..(Cardinality(T) - 1)
<1> DEFINE k == Cardinality(T)
<1>1. IsFiniteSet(T) /\ k \in Nat
  <2>1. IsFiniteSet(0..N)
    BY FS_Interval
  <2>2. IsFiniteSet(T)
    BY <2>1, FS_Subset
  <2> QED
    BY <2>2, FS_CardinalityType
<1>2. ASSUME NEW n \in T PROVE n \in 0..(k - 1)
  <2>1. n \in Nat /\ n + 1 = Cardinality(0..n)
    BY FS_Interval
  <2>2. Cardinality(0..n) <= k
    BY <1>1, FS_Subset
  <2> HIDE DEF k
  <2> QED
    BY <1>1, <2>1, <2>2
<1>3. IsFiniteSet(0..(k - 1)) /\ Cardinality(0..(k - 1)) = k
  <2> HIDE DEF k
  <2> QED
    BY <1>1, FS_Interval
<1>4. T = 0..(k - 1)
  BY <1>2, <1>3, FS_Subset
<1> QED
  BY <1>1, <1>4

\* Every set of numbers that has a member has a least one.
LEMMA NatLeast ==
    ASSUME NEW S \in SUBSET Nat, S # {}
    PROVE  \E n \in S : \A m \in S : n <= m
<1>1. PICK top \in S : TRUE
  OBVIOUS
<1> DEFINE T == {n \in 0..top : \A m \in S : n < m}
<1>2. \A n \in T : 0..n \subseteq T
  OBVIOUS
<1>3. Cardinality(T) \in Nat /\ T = 0..(Cardinality(T) - 1)
  BY <1>1, <1>2, DownwardClosed
<1> DEFINE k == Cardinality(T)
<1>4. k \in Nat /\ k \notin T /\ \A n \in Nat : n < k => n \in T
  <2> HIDE DEF T
  <2> QED
    BY <1>3
<1>5. \A m \in S : k <= m
  <2> SUFFICES ASSUME NEW m \in S, m < k PROVE FALSE
    BY <1>4
  <2>1. m \in T
    BY <1>4
  <2> QED
    BY <2>1
<1>6. k \in S
  <2>1. k <= top
    BY <1>5
  <2>2. PICK m \in S : ~(k < m)
    BY <1>4, <2>1
  <2>3. m = k
    BY <1>4, <1>5, <2>2
  <2> QED
    BY <2>3
<1> QED
  BY <1>5, <1>6

\* Every set of numbers with a bound and a member has a greatest one.
LEMMA NatGreatest ==
    ASSUME NEW N \in Nat, NEW S \in SUBSET (0..N), S # {}
    PROVE  \E n \in S : \A m \in S : m <= n
<1> DEFINE T == {N - m : m \in S}
<1>1. T \in SUBSET Nat
  <2> SUFFICES ASSUME NEW m \in S PROVE N - m \in Nat
    OBVIOUS
  <2>1. m \in 0..N
    OBVIOUS
  <2> QED
    BY <2>1
<1>2. PICK t \in T : \A u \in T : t <= u
  <2>1. T # {}
    OBVIOUS
  <2> HIDE DEF T
  <2> QED
    BY <1>1, <2>1, NatLeast
<1>3. PICK n \in S : t = N - n
  BY <1>2
<1>4. ASSUME NEW m \in S PROVE m <= n
  <2>1. N - m \in T
    OBVIOUS
  <2>2. N - n <= N - m
    BY <2>1, <1>2, <1>3
  <2> QED
    BY <2>2
<1> QED
  BY <1>4
=============================================================================
