-------------------------- MODULE InductionLemmas --------------------------
(***************************************************************************)
(* What the proofs about more than one module need of the integers and of   *)
(* finite sets of them.  Induction over data is stated over a set, the set  *)
(* of the numbers that have the property in question, and a set has a least *)
(* element if it has any.                                                  *)
(***************************************************************************)
EXTENDS Integers, FiniteSets, FiniteSetsExt, FiniteSetTheorems, WellFoundedInduction, TLAPS

(* A set of natural numbers has a least one. *)
LEMMA LeastNatural ==
    ASSUME NEW T \in SUBSET Nat, T # {}
    PROVE  \E n \in T : \A k \in T : n <= k
<1> DEFINE R == {ss \in Nat \X Nat : ss[1] < ss[2]}
<1>1. IsWellFoundedOn(R, Nat)
  BY NatLessThanWellFounded DEF OpToRel
<1> HIDE DEF R
<1>2. PICK n \in T : \A k \in T : <<k, n>> \notin R
  BY <1>1, WFMin
<1>3. ASSUME NEW k \in T PROVE n <= k
  <2>1. k \in Nat /\ n \in Nat /\ <<k, n>> \notin R
    BY <1>2
  <2>2. ~(k < n)
    BY <2>1 DEF R
  <2>3. QED
    BY <2>1, <2>2
<1>4. QED
  BY <1>3

(* Induction from 0: a set that holds 0, and with a number its successor.  *)
LEMMA NaturalsFromZero ==
    ASSUME NEW S, 0 \in S, \A n \in Nat : n \in S => n + 1 \in S
    PROVE  Nat \subseteq S
<1>1. SUFFICES ASSUME Nat \ S # {} PROVE FALSE
  OBVIOUS
<1>2. PICK n \in Nat \ S : \A k \in Nat \ S : n <= k
  BY <1>1, LeastNatural
<1>3. n - 1 \in Nat /\ n - 1 \in S
  BY <1>2
<1>4. (n - 1) + 1 \in S
  BY <1>3
<1>5. QED
  BY <1>2, <1>4

(* The same up to a bound. *)
LEMMA NaturalsUpTo ==
    ASSUME NEW m \in Nat, NEW S, 0 \in S, \A n \in 0..(m - 1) : n \in S => n + 1 \in S
    PROVE  0..m \subseteq S
<1> DEFINE T == {n \in Nat : n <= m => n \in S}
<1>1. 0 \in T
  OBVIOUS
<1>2. ASSUME NEW n \in Nat, n \in T PROVE n + 1 \in T
  BY <1>2
<1> HIDE DEF T
<1>3. Nat \subseteq T
  BY <1>1, <1>2, NaturalsFromZero
<1>4. QED
  BY <1>3 DEF T

(* Integers bounded from below have a least one, and from above a greatest. *)
LEMMA MinOfBounded ==
    ASSUME NEW S \in SUBSET Int, S # {}, NEW low \in Int, \A x \in S : low <= x
    PROVE  Min(S) \in S /\ \A x \in S : Min(S) <= x
<1> DEFINE T == {n \in Nat : n + low \in S}
<1>1. \A x \in S : x - low \in T
  OBVIOUS
<1>2. T \in SUBSET Nat /\ T # {}
  BY <1>1
<1>3. PICK n \in T : \A k \in T : n <= k
  BY <1>2, LeastNatural
<1>4. n \in Nat /\ n + low \in S /\ \A y \in S : n + low <= y
  BY <1>1, <1>3
<1>5. \E z \in S : \A y \in S : z =< y
  BY <1>4
<1>6. QED
  BY <1>5 DEF Min

LEMMA MaxOfBounded ==
    ASSUME NEW S \in SUBSET Int, S # {}, NEW high \in Int, \A x \in S : x <= high
    PROVE  Max(S) \in S /\ \A x \in S : x <= Max(S)
<1> DEFINE T == {n \in Nat : high - n \in S}
<1>1. \A x \in S : high - x \in T
  OBVIOUS
<1>2. T \in SUBSET Nat /\ T # {}
  BY <1>1
<1>3. PICK n \in T : \A k \in T : n <= k
  BY <1>2, LeastNatural
<1>4. n \in Nat /\ high - n \in S /\ \A y \in S : y <= high - n
  BY <1>1, <1>3
<1>5. \E z \in S : \A y \in S : z >= y
  BY <1>4
<1>6. QED
  BY <1>5 DEF Max

(* A finite set of integers, bounded from below, has for every number less *)
(* than its size an element with that many elements before it.             *)
Below(S, d) == {e \in S : e < d}

LEMMA NthExists ==
    ASSUME NEW S \in SUBSET Int, IsFiniteSet(S), NEW low \in Int, \A x \in S : low <= x,
           NEW n \in Nat, n < Cardinality(S)
    PROVE  \E d \in S : Cardinality(Below(S, d)) = n
<1> DEFINE T == {k \in Nat : k < Cardinality(S) => \E d \in S : Cardinality(Below(S, d)) = k}
<1>1. Cardinality(S) \in Nat /\ \A d : IsFiniteSet(Below(S, d)) /\ Cardinality(Below(S, d)) \in Nat
  BY FS_CardinalityType, FS_Subset DEF Below
<1>0. \A x \in S : x \in Int
  OBVIOUS
<1>2. 0 \in T
  <2>1. SUFFICES ASSUME 0 < Cardinality(S) PROVE \E d \in S : Cardinality(Below(S, d)) = 0
    OBVIOUS
  <2>2. S # {}
    BY <2>1, FS_EmptySet
  <2>3. PICK m \in S : \A x \in S : m <= x
    BY <2>2, MinOfBounded
  <2>4. Below(S, m) = {}
    <3>1. ASSUME NEW x \in S PROVE ~(x < m)
      BY <2>3, <1>0
    <3>2. QED
      BY <3>1 DEF Below
  <2>5. QED
    BY <2>3, <2>4, FS_EmptySet
<1>3. ASSUME NEW k \in Nat, k \in T PROVE k + 1 \in T
  <2>1. SUFFICES ASSUME k + 1 < Cardinality(S)
                 PROVE  \E d \in S : Cardinality(Below(S, d)) = k + 1
    OBVIOUS
  <2>2. PICK d \in S : Cardinality(Below(S, d)) = k
    BY <2>1, <1>1, <1>3
  <2>3. d \notin Below(S, d) /\ d \in Int
    BY DEF Below
  <2>4. /\ IsFiniteSet(Below(S, d) \cup {d})
        /\ Cardinality(Below(S, d) \cup {d}) = k + 1
    BY <1>1, <2>2, <2>3, FS_AddElement
  <2> DEFINE Later == {e \in S : d < e}
  <2>5. Later # {}
    <3>1. SUFFICES ASSUME Later = {} PROVE FALSE
      OBVIOUS
    <3>2. S = Below(S, d) \cup {d}
      <4>1. ASSUME NEW x \in S PROVE x < d \/ x = d
        BY <3>1, <1>0
      <4>2. QED
        BY <4>1 DEF Below
    <3>3. Cardinality(S) = k + 1
      BY <3>2, <2>4
    <3>4. QED
      BY <3>3, <2>1
  <2>6. PICK m \in Later : \A x \in Later : m <= x
    BY <2>5, MinOfBounded
  <2> HIDE DEF Later
  <2>7. Below(S, m) = Below(S, d) \cup {d}
    <3>1. m \in S /\ d < m
      BY <2>6 DEF Later
    <3>2. ASSUME NEW x \in S, x < m PROVE x < d \/ x = d
      <4>1. x \notin Later
        BY <3>2, <3>1, <2>6, <1>0
      <4>2. QED
        BY <4>1, <1>0 DEF Later
    <3>3. ASSUME NEW x \in S, x < d PROVE x < m
      BY <3>1, <3>3, <1>0
    <3>4. QED
      BY <3>1, <3>2, <3>3 DEF Below
  <2>8. QED
    BY <2>4, <2>6, <2>7 DEF Later
<1> HIDE DEF T
<1>4. n \in T
  BY <1>2, <1>3, NaturalsFromZero
<1>5. QED
  BY <1>4 DEF T
=============================================================================
