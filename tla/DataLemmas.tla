----------------------------- MODULE DataLemmas -----------------------------
(***************************************************************************)
(* Facts about numbers that the proofs of several parts need.              *)
(***************************************************************************)
EXTENDS Integers, FiniteSetsExt, FiniteSetTheorems, WellFoundedInduction, TLAPS

\* A set of naturals has a smallest element, which is its Min.
LEMMA MinOf ==
  ASSUME NEW S \in SUBSET Nat, S # {}
  PROVE  Min(S) \in S /\ \A x \in S : Min(S) <= x
<1>1. PICK m \in S : \A k \in S : ~(<<k, m>> \in OpToRel(<, Nat))
  <2>1. IsWellFoundedOn(OpToRel(<, Nat), Nat)
      BY NatLessThanWellFounded
  <2> QED
      BY <2>1, WFMin
<1>2. \A k \in S : m <= k
  <2> SUFFICES ASSUME NEW k \in S, ~(m <= k) PROVE FALSE
      OBVIOUS
  <2>1. <<k, m>> \in Nat \X Nat /\ k < m
      OBVIOUS
  <2>2. <<k, m>> \in OpToRel(<, Nat)
      BY <2>1, Zenon DEF OpToRel
  <2> QED
      BY <1>1, <2>2
<1> QED
    BY <1>2 DEF Min

\* A set of naturals that has a bound has a largest element, which is its Max.
LEMMA MaxOf ==
  ASSUME NEW n \in Nat, NEW S \in SUBSET (0 .. n), S # {}
  PROVE  Max(S) \in S /\ \A x \in S : x <= Max(S)
<1> DEFINE D == {n - x : x \in S}
<1>1. D \in SUBSET Nat /\ D # {}
  <2>1. \A x \in S : n - x \in Nat
      OBVIOUS
  <2> QED
      BY <2>1
<1>2. Min(D) \in D /\ \A d \in D : Min(D) <= d
  <2> HIDE DEF D
  <2> QED
      BY <1>1, MinOf
<1>3. PICK x \in S : Min(D) = n - x
    BY <1>2
<1>4. \A y \in S : y <= x
  <2> SUFFICES ASSUME NEW y \in S PROVE y <= x
      OBVIOUS
  <2>1. n - y \in D
      OBVIOUS
  <2>2. Min(D) <= n - y
      BY <1>2, <2>1
  <2> HIDE DEF D
  <2> QED
      BY <1>3, <2>2
<1> QED
    BY <1>4 DEF Max

\* The quotient and the remainder.
LEMMA ModOf ==
  ASSUME NEW a \in Nat, NEW n \in Nat \ {0}
  PROVE  a % n \in 0 .. n - 1 /\ a = n * (a \div n) + (a % n) /\ a \div n \in Nat
    OBVIOUS

\* Floor division by a positive number.
LEMMA FloorOf ==
  ASSUME NEW a \in Int, NEW n \in Nat \ {0}
  PROVE  a % n \in 0 .. n - 1 /\ a = n * (a \div n) + (a % n) /\ a \div n \in Int
    OBVIOUS

\* Multiples of a positive number are ordered as their factors.
LEMMA Factors ==
  ASSUME NEW n \in Nat \ {0}, NEW k \in Int, NEW m \in Int
  PROVE  k < m => n * k + n <= n * m
<1> SUFFICES ASSUME k < m PROVE n * k + n <= n * m
    OBVIOUS
<1>1. m - k - 1 \in Nat
    OBVIOUS
<1>2. n * (m - k - 1) \in Nat
    BY <1>1
<1>3. n * (m - k - 1) = n * m - n * k - n
    OBVIOUS
<1>4. n * m \in Int /\ n * k \in Int
    OBVIOUS
<1> QED
    BY <1>2, <1>3, <1>4

\* The remainder of a number that is less than twice the divisor.
LEMMA ModOnce ==
  ASSUME NEW d \in Nat \ {0}, NEW x \in Nat, x < 2 * d
  PROVE  x % d = IF x < d THEN x ELSE x - d
    OBVIOUS
=============================================================================
