------------------------------ MODULE Induction ------------------------------
(* Induction over a set of natural numbers.  The library's induction       *)
(* theorems take an operator, which the provers cannot instantiate.        *)
EXTENDS Naturals, FiniteSetTheorems, WellFoundedInduction, TLAPS

\* Initial segments of Nat are ordered as their last elements are.
LEMMA LeastElement ==
  ASSUME NEW S \in SUBSET Nat, S # {}
  PROVE  \E m \in S : \A k \in S : m <= k
<1> DEFINE below == {0 .. k : k \in S}
<1>1. below \subseteq FiniteSubsetsOf(Nat) /\ below # {}
  <2>1. \A k \in S : IsFiniteSet(0 .. k)
    BY FS_Interval
  <2>2. \A k \in S : 0 .. k \in SUBSET Nat
    OBVIOUS
  <2>3. QED
    BY <2>1, <2>2 DEF FiniteSubsetsOf
<1>2. PICK x \in below : \A y \in below : ~(<<y, x>> \in StrictSubsetOrdering(Nat))
  <2> HIDE DEF below
  <2>1. QED
    BY <1>1, WFMin, FS_StrictSubsetOrderingWellFounded
<1>3. PICK m \in S : x = 0 .. m
  BY <1>2
<1>4. ASSUME NEW k \in S, k < m
      PROVE  FALSE
  <2>1. 0 .. k \in SUBSET Nat /\ 0 .. m \in SUBSET Nat
    OBVIOUS
  <2>2. 0 .. k \subseteq 0 .. m /\ 0 .. k # 0 .. m
    BY <1>4
  <2>3. <<0 .. k, 0 .. m>> \in StrictSubsetOrdering(Nat)
    BY <2>1, <2>2 DEF StrictSubsetOrdering
  <2>4. QED
    BY <1>2, <1>3, <2>3
<1>5. QED
  BY <1>4

\* A set of natural numbers with 0, and with n + 1 for each of its n, is Nat.
LEMMA SetInduction ==
  ASSUME NEW S \in SUBSET Nat, 0 \in S, \A n \in S : n + 1 \in S
  PROVE  \A n \in Nat : n \in S
<1> SUFFICES ASSUME Nat \ S # {} PROVE FALSE
  OBVIOUS
<1>1. PICK m \in Nat \ S : \A k \in Nat \ S : m <= k
  BY LeastElement
<1>2. m - 1 \in Nat /\ m - 1 \notin Nat \ S
  BY <1>1
<1>3. QED
  BY <1>2

==============================================================================
