------------------------------ MODULE Numbers -------------------------------
(***************************************************************************)
(* Lemmas about numbers: the least and the greatest of a set, induction    *)
(* over a set that 0 and with n also n + 1 is in, and remainders.          *)
(***************************************************************************)
EXTENDS Integers, WellFoundedInduction, TLAPS

LEMMA LeastNumber ==
    ASSUME NEW T \in SUBSET Nat, T # {}
    PROVE  \E n \in T : \A m \in T : n <= m
  <1> DEFINE R == OpToRel(<, Nat)
  <1>1. PICK n \in T : \A m \in T : <<m, n>> \notin R
    BY WFMin, NatLessThanWellFounded
  <1>2. \A m \in T : ~(m < n)
    BY <1>1 DEF OpToRel
  <1> QED
    BY <1>2

LEMMA GreatestNumber ==
    ASSUME NEW n \in Nat, NEW T \in SUBSET (0 .. n), T # {}
    PROVE  \E g \in T : \A m \in T : m <= g
  <1> DEFINE below == {n - m : m \in T}
  <1>1. below \in SUBSET Nat /\ below # {}
    <2>1. \A m \in T : n - m \in Nat
      OBVIOUS
    <2>2. PICK m \in T : TRUE
      OBVIOUS
    <2>3. n - m \in below
      OBVIOUS
    <2> QED
      BY <2>1, <2>3
  <1>2. PICK b \in below : \A k \in below : b <= k
    BY <1>1, LeastNumber
  <1>3. PICK g \in T : b = n - g
    BY <1>2
  <1>4. ASSUME NEW m \in T PROVE m <= g
    <2>1. n - g <= n - m
      BY <1>2, <1>3
    <2> QED
      BY <2>1
  <1> QED
    BY <1>4

\* What holds of 0, and with n of n + 1, holds of every number.
LEMMA SetInduction ==
    ASSUME NEW T, 0 \in T, \A n \in Nat : n \in T => n + 1 \in T
    PROVE  \A n \in Nat : n \in T
  <1> SUFFICES ASSUME Nat \ T # {} PROVE FALSE
    OBVIOUS
  <1>1. PICK n \in Nat \ T : \A m \in Nat \ T : n <= m
    BY LeastNumber
  <1>2. n - 1 \in Nat /\ n - 1 \in T
    BY <1>1
  <1> QED
    BY <1>1, <1>2

-----------------------------------------------------------------------------
(* Remainders.                                                             *)

LEMMA Remainder ==
    ASSUME NEW a \in Nat, NEW n \in Nat \ {0}
    PROVE  a % n \in 0 .. n - 1
  OBVIOUS

LEMMA RemainderBelow ==
    ASSUME NEW a \in Nat, NEW n \in Nat \ {0}, a < n
    PROVE  a % n = a /\ (a + n) % n = a
  OBVIOUS

LEMMA Quotient ==
    ASSUME NEW a \in Nat, NEW n \in Nat \ {0}
    PROVE  a \div n \in Nat /\ a = n * (a \div n) + (a % n)
  OBVIOUS

\* A number is a multiple of the divisor and a remainder in one way only.
LEMMA OneRemainder ==
    ASSUME NEW d \in Nat, NEW e \in Nat, NEW n \in Nat \ {0},
           NEW s \in 0 .. n - 1, NEW m \in 0 .. n - 1, n * d + s = n * e + m
    PROVE  s = m
  <1>1. n * (d - e) = m - s
    OBVIOUS
  <1>2. d - e >= 1 => n * (d - e) >= n
    OBVIOUS
  <1>3. d - e <= 0 - 1 => n * (d - e) <= 0 - n
    OBVIOUS
  <1> QED
    BY <1>1, <1>2, <1>3

LEMMA RemainderOf ==
    ASSUME NEW d \in Nat, NEW n \in Nat \ {0}, NEW s \in 0 .. n - 1
    PROVE  (n * d + s) % n = s
  <1>1. n * d + s \in Nat
    OBVIOUS
  <1> QED
    BY <1>1, Quotient, OneRemainder

=============================================================================
