---------------------------- MODULE NaturalOrder ----------------------------
(***************************************************************************)
(* The least and the greatest of a set of natural numbers, which the       *)
(* operators Min and Max of the community modules return, and the places   *)
(* of its elements in their order.                                         *)
(***************************************************************************)
EXTENDS Integers, FiniteSetsExt, Functions, WellFoundedInduction, FiniteSetTheorems, TLAPS

LEMMA LeastNatural ==
  ASSUME NEW S \in SUBSET Nat, S # {}
  PROVE  \E m \in S : \A n \in S : m <= n
<1>1. PICK s \in S : s \in Nat
  OBVIOUS
<1> DEFINE T == {n \in S : n <= s}
           Below(t) == {n \in T : n < t}
           U == {Below(t) : t \in T}
<1>2. IsFiniteSet(T)
  <2>1. T \subseteq 0 .. s
    <3>1. \A n \in S : n \in Nat
      OBVIOUS
    <3>2. ASSUME NEW n \in S, n <= s PROVE n \in 0 .. s
      BY <1>1, <3>1, <3>2
    <3> QED
      BY <3>2
  <2>2. IsFiniteSet(0 .. s)
    BY <1>1, FS_Interval
  <2> QED
    BY <2>1, <2>2, FS_Subset
<1>3. IsWellFoundedOn(StrictSubsetOrdering(T), SUBSET T)
  BY <1>2, FS_StrictSubsetOrderingWellFounded, FS_FiniteSubsetsOfFinite
<1>4. U \subseteq SUBSET T /\ U # {}
  <2>1. s \in T
    BY <1>1
  <2>2. \A t \in T : Below(t) \subseteq T
    OBVIOUS
  <2> QED
    BY <2>1, <2>2
<1>5. PICK u \in U : \A v \in U : ~ (<<v, u>> \in StrictSubsetOrdering(T))
  <2> HIDE DEF U
  <2> QED
    BY <1>3, <1>4, WFMin
<1>6. PICK m \in T : u = Below(m)
  BY <1>5
<1>7. ASSUME NEW n \in T, n < m PROVE FALSE
  <2>1. /\ Below(n) \in U /\ Below(n) \in SUBSET T /\ Below(m) \in SUBSET T
    OBVIOUS
  <2>4. n \in Nat /\ m \in Nat /\ T \subseteq Nat
    OBVIOUS
  <2>5. Below(n) \subseteq Below(m)
    BY <1>7, <2>4
  <2>2. n \in Below(m) /\ n \notin Below(n)
    BY <1>7, <2>4
  <2>3. <<Below(n), Below(m)>> \in StrictSubsetOrdering(T)
    <3> HIDE DEF Below
    <3> QED
      BY <2>1, <2>2, <2>5 DEF StrictSubsetOrdering
  <2> QED
    BY <1>5, <1>6, <2>1, <2>3
<1>8. m <= s
  OBVIOUS
<1> QED
  BY <1>1, <1>7, <1>8

LEMMA MinOf ==
  ASSUME NEW S \in SUBSET Nat, S # {}
  PROVE  Min(S) \in S /\ \A n \in S : Min(S) <= n
<1>1. \E m \in S : \A n \in S : m <= n
  BY LeastNatural
<1> QED
  BY <1>1 DEF Min

LEMMA MaxOf ==
  ASSUME NEW S \in SUBSET Nat, S # {}, NEW b \in Nat, \A n \in S : n <= b
  PROVE  Max(S) \in S /\ \A n \in S : n <= Max(S)
<1> DEFINE U == {u \in Nat : \A n \in S : n <= u}
<1>1. PICK m \in U : \A u \in U : m <= u
  BY LeastNatural
<1>2. m \in S
  <2>1. SUFFICES ASSUME m \notin S PROVE FALSE
    OBVIOUS
  <2>2. \A n \in S : n < m
    BY <1>1, <2>1
  <2>6. PICK x \in S : x \in Nat
    OBVIOUS
  <2>3. m \in Nat /\ m # 0
    BY <2>2, <2>6
  <2>4. m - 1 \in Nat /\ \A n \in S : n <= m - 1
    BY <2>2, <2>3
  <2>5. m - 1 \in U
    BY <2>4
  <2> QED
    BY <1>1, <2>5
<1>3. \E x \in S : \A n \in S : x >= n
  BY <1>1, <1>2
<1>4. Max(S) \in S /\ \A n \in S : Max(S) >= n
  BY <1>3 DEF Max
<1> QED
  BY <1>4

Upto(S, k) == {l \in S : l <= k}

LEMMA RanksGrow ==
  ASSUME NEW S \in SUBSET Nat, IsFiniteSet(S), NEW k \in S, NEW m \in S, k < m
  PROVE  Cardinality(Upto(S, k)) < Cardinality(Upto(S, m))
<1>1. Upto(S, k) \subseteq Upto(S, m) /\ m \in Upto(S, m) /\ m \notin Upto(S, k)
  <2>1. k \in Nat /\ m \in Nat /\ \A l \in S : l \in Nat
    OBVIOUS
  <2>2. \A l \in S : l <= k => l <= m
    BY <2>1
  <2>3. ~ (m <= k) /\ m <= m
    BY <2>1
  <2> QED
    BY <2>1, <2>2, <2>3 DEF Upto
<1>2. IsFiniteSet(Upto(S, m))
  BY FS_Subset DEF Upto
<1> QED
  BY <1>1, <1>2, FS_Subset, FS_CardinalityType

(* Every place of a finite set of numbers is the place of one element.      *)
LEMMA RanksCover ==
  ASSUME NEW S \in SUBSET Nat, IsFiniteSet(S)
  PROVE  /\ \A k \in S : Cardinality(Upto(S, k)) \in 1 .. Cardinality(S)
         /\ \A n \in 1 .. Cardinality(S) : \E k \in S : Cardinality(Upto(S, k)) = n
         /\ \A k, m \in S : Cardinality(Upto(S, k)) = Cardinality(Upto(S, m)) => k = m
<1> DEFINE R == 1 .. Cardinality(S)
           f == [k \in S |-> Cardinality(Upto(S, k))]
<1>1. Cardinality(S) \in Nat
  BY FS_CardinalityType
<1>2. ASSUME NEW k \in S PROVE Cardinality(Upto(S, k)) \in R
  <2>1. Upto(S, k) \subseteq S /\ k \in Upto(S, k)
    BY DEF Upto
  <2>2. IsFiniteSet(Upto(S, k)) /\ Cardinality(Upto(S, k)) <= Cardinality(S)
    BY <2>1, FS_Subset
  <2>3. Cardinality(Upto(S, k)) \in Nat /\ Cardinality(Upto(S, k)) # 0
    BY <2>1, <2>2, FS_CardinalityType, FS_EmptySet
  <2> QED
    BY <1>1, <2>2, <2>3
<1>3. ASSUME NEW k \in S, NEW m \in S, Cardinality(Upto(S, k)) = Cardinality(Upto(S, m))
      PROVE  k = m
  <2>1. ~ (k < m) /\ ~ (m < k)
    <3>1. \A x \in S : Cardinality(Upto(S, x)) \in Nat
      BY <1>2
    <3> QED
      BY <1>3, <3>1, RanksGrow
  <2> QED
    BY <2>1
<1>4. f \in Injection(S, R)
  BY <1>2, <1>3 DEF Injection, IsInjective
<1>5. IsFiniteSet(R) /\ Cardinality(R) = Cardinality(S)
  BY <1>1, FS_Interval
<1>6. f \in Surjection(S, R)
  BY <1>4, <1>5, FS_Injection
<1>7. \A n \in R : \E k \in S : Cardinality(Upto(S, k)) = n
  BY <1>6 DEF Surjection
<1> QED
  BY <1>2, <1>3, <1>7
=============================================================================
