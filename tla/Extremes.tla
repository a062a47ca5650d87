------------------------------ MODULE Extremes ------------------------------
(* Facts about Min and Max of FiniteSetsExt, for sets of natural numbers.  *)
EXTENDS Integers, FiniteSetsExt, WellFoundedInduction, TLAPS

(* A set of natural numbers that is not empty has a least element.         *)
LEMMA MinProperties ==
  ASSUME NEW S \in SUBSET Nat, S # {}
  PROVE  Min(S) \in S /\ \A k \in S : Min(S) <= k
<1>1. PICK x \in S : \A y \in S : ~ (<<y, x>> \in OpToRel(<, Nat))
  BY NatLessThanWellFounded, WFMin
<1>2. \A y \in S : x <= y
  <2>1. \A y \in S : ~(y < x)
    BY <1>1 DEF OpToRel
  <2> QED
    BY <2>1
<1> QED
  BY <1>2 DEF Min

(* One that is bounded has a greatest.                                     *)
LEMMA MaxProperties ==
  ASSUME NEW n \in Nat, NEW S \in SUBSET (0 .. n), S # {}
  PROVE  Max(S) \in S /\ \A k \in S : Max(S) >= k
<1> DEFINE T == {j \in 0 .. n : n - j \in S}
<1>1. \A k \in S : k \in 0 .. n /\ n - k \in 0 .. n /\ n - (n - k) = k
  OBVIOUS
<1>2. \A k \in S : n - k \in T
  BY <1>1
<1>3. T \in SUBSET Nat /\ T # {}
  <2>1. T \in SUBSET Nat
    OBVIOUS
  <2>2. PICK k \in S : TRUE
    OBVIOUS
  <2>3. n - k \in T
    BY <1>2
  <2> HIDE DEF T
  <2> QED
    BY <2>1, <2>3
<1>4. PICK j \in T : \A k \in T : j <= k
  <2> HIDE DEF T
  <2> QED
    BY <1>3, MinProperties
<1>5. n - j \in S /\ j \in 0 .. n
  OBVIOUS
<1>6. \A k \in S : n - j >= k
  <2> SUFFICES ASSUME NEW k \in S PROVE n - j >= k
    OBVIOUS
  <2>1. j <= n - k
    BY <1>2, <1>4
  <2> QED
    BY <1>1, <1>5, <2>1
<1> QED
  BY <1>5, <1>6 DEF Max

(* Induction up to n, over the set of the numbers for which a claim holds. *)
LEMMA InductionUpTo ==
  ASSUME NEW n \in Nat, NEW S, 0 \in S, \A k \in 0 .. n - 1 : k \in S => k + 1 \in S
  PROVE  \A k \in 0 .. n : k \in S
<1> DEFINE Bad == {k \in 0 .. n : k \notin S}
<1>1. SUFFICES ASSUME Bad # {} PROVE FALSE
  OBVIOUS
<1>2. PICK k \in Bad : \A j \in Bad : k <= j
  <2>1. Bad \in SUBSET Nat
    OBVIOUS
  <2> HIDE DEF Bad
  <2> QED
    BY <1>1, <2>1, MinProperties
<1>3. k \in 1 .. n
  OBVIOUS
<1>4. k - 1 \in 0 .. n - 1 /\ k - 1 \notin Bad
  <2>1. k - 1 \in 0 .. n - 1 /\ ~(k <= k - 1)
    BY <1>3
  <2> HIDE DEF Bad
  <2> QED
    BY <1>2, <2>1
<1>5. k - 1 \in S /\ k = (k - 1) + 1
  BY <1>3, <1>4
<1> QED
  BY <1>4, <1>5
=============================================================================
