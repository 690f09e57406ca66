---------------------------- MODULE NumberLemmas -----------------------------
(***************************************************************************)
(* What the proofs need of numbers: division with remainder, induction up  *)
(* to a number, and that functions defined step by step exist.             *)
(***************************************************************************)
EXTENDS Integers, TLAPS, WellFoundedInduction

-----------------------------------------------------------------------------
(***************************************************************************)
(* Division with remainder.                                                *)
(***************************************************************************)

(* Division with remainder, with the remainder in range.                   *)
LEMMA Division ==
  ASSUME NEW x \in Nat, NEW n \in Nat \ {0}
  PROVE  /\ x \div n \in Nat /\ x % n \in 0..(n - 1)
         /\ x = n * (x \div n) + (x % n)
OBVIOUS

(* A number that starts n copies of a number q less than k fits in k.      *)
LEMMA CopiesFit ==
  ASSUME NEW q \in Nat, NEW k \in Nat, NEW n \in Nat \ {0}, q < k
  PROVE  n * q + n <= n * k
<1>1. n * (q + 1) <= n * k
  OBVIOUS
<1> QED BY <1>1

(* A number less than m lies in a block before the m-th, when m is whole.  *)
LEMMA BlockBefore ==
  ASSUME NEW x \in Nat, NEW m \in Nat, NEW n \in Nat \ {0}, x < m, m % n = 0
  PROVE  x \div n < m \div n /\ m = n * (m \div n)
<1>1. /\ x = n * (x \div n) + (x % n) /\ m = n * (m \div n) + (m % n)
      /\ x \div n \in Nat /\ m \div n \in Nat /\ x % n \in 0..(n - 1)
  BY Division
<1>2. m = n * (m \div n)
  BY <1>1
<1>3. ASSUME m \div n <= x \div n PROVE FALSE
  <2>1. n * (m \div n) <= n * (x \div n)
    BY <1>1, <1>3
  <2> QED BY <1>1, <1>2, <2>1
<1> QED BY <1>1, <1>2, <1>3

(* A number below n is its own remainder, and n's own is 0.                *)
LEMMA RemainderInRange ==
  ASSUME NEW n \in Nat \ {0}, NEW x \in 0..(n - 1)
  PROVE  x % n = x
OBVIOUS

LEMMA RemainderOfSelf ==
  ASSUME NEW n \in Nat \ {0}
  PROVE  n % n = 0
OBVIOUS

(* A remainder is the only one, and goes on by one with its number.        *)
LEMMA RemainderUnique ==
  ASSUME NEW n \in Nat \ {0}, NEW q \in Nat, NEW r \in 0..(n - 1)
  PROVE  (n * q + r) % n = r
<1> DEFINE y == n * q + r
           d == y \div n
           m == y % n
<1>1. y \in Nat /\ n * q \in Nat
  OBVIOUS
<1>2. d \in Nat /\ m \in 0..(n - 1) /\ y = n * d + m
  BY <1>1, Division
<1> HIDE DEF d, m
<1>3. CASE d = q
  BY <1>2, <1>3
<1>4. CASE d < q
  <2>1. n * d + n <= n * q /\ n * d \in Nat
    BY <1>2, <1>4, CopiesFit
  <2> QED BY <1>1, <1>2, <2>1
<1>5. CASE q < d
  <2>1. n * q + n <= n * d
    BY <1>2, <1>5, CopiesFit
  <2> QED BY <1>1, <1>2, <2>1
<1>6. m = r
  BY <1>2, <1>3, <1>4, <1>5
<1> QED BY <1>6 DEF m

LEMMA RemainderStep ==
  ASSUME NEW n \in Nat \ {0}, NEW x \in Nat
  PROVE  (x + 1) % n = ((x % n) + 1) % n
<1> DEFINE q == x \div n
           r == x % n
<1>1. q \in Nat /\ r \in 0..(n - 1) /\ x = n * q + r
  BY Division
<1> HIDE DEF q, r
<1>2. CASE r + 1 < n
  <2>1. x + 1 = n * q + (r + 1) /\ r + 1 \in 0..(n - 1)
    BY <1>1, <1>2
  <2>2. (x + 1) % n = r + 1 /\ (r + 1) % n = r + 1
    BY <1>1, <2>1, RemainderUnique, RemainderInRange
  <2> QED BY <2>2 DEF r
<1>3. CASE r + 1 = n
  <2>1. n * (q + 1) = n * q + n
    BY <1>1
  <2>2. x + 1 = n * (q + 1) + 0 /\ q + 1 \in Nat /\ 0 \in 0..(n - 1)
    BY <1>1, <1>3, <2>1
  <2>3. (n * (q + 1) + 0) % n = 0
    BY <2>2, RemainderUnique
  <2>4. (r + 1) % n = 0
    BY <1>3, RemainderOfSelf
  <2> QED BY <2>2, <2>3, <2>4 DEF r
<1> QED BY <1>1, <1>2, <1>3

(* A whole round more leaves the same remainder.                           *)
LEMMA RemainderAgain ==
  ASSUME NEW n \in Nat \ {0}, NEW x \in Nat
  PROVE  (n + x) % n = x % n
<1> DEFINE q == x \div n
           r == x % n
<1>1. q \in Nat /\ r \in 0..(n - 1) /\ x = n * q + r
  BY Division
<1> HIDE DEF q, r
<1>2. n * (q + 1) = n * q + n
  BY <1>1
<1>3. n + x = n * (q + 1) + r /\ q + 1 \in Nat
  BY <1>1, <1>2
<1>4. (n * (q + 1) + r) % n = r
  BY <1>1, <1>3, RemainderUnique
<1> QED BY <1>3, <1>4 DEF r

(* Only the remainder of a summand counts.                                 *)
LEMMA RemainderOfSum ==
  ASSUME NEW n \in Nat \ {0}, NEW x \in Nat, NEW y \in Nat
  PROVE  (x + (y % n)) % n = (x + y) % n
<1> DEFINE q == y \div n
           r == y % n
           p == (x + r) \div n
           m == (x + r) % n
<1>1. q \in Nat /\ r \in 0..(n - 1) /\ y = n * q + r
  BY Division
<1>2. x + r \in Nat
  BY <1>1
<1>3. p \in Nat /\ m \in 0..(n - 1) /\ x + r = n * p + m
  BY <1>2, Division
<1> HIDE DEF q, r, p
<1>4. x + y = n * (p + q) + m /\ p + q \in Nat
  <2> HIDE DEF m
  <2>1. n * (p + q) = n * p + n * q /\ n * p \in Nat /\ n * q \in Nat
    BY <1>1, <1>3
  <2> QED BY <1>1, <1>3, <2>1
<1>5. (n * (p + q) + m) % n = m
  <2> HIDE DEF m
  <2> QED BY <1>3, <1>4, RemainderUnique
<1> QED BY <1>4, <1>5 DEF r

(* Counting within a mode line.                                            *)
LEMMA NextWithin ==
  ASSUME NEW n \in Nat \ {0}, NEW x \in 0..(n - 1)
  PROVE  (x + 1) % n = IF x + 1 = n THEN 0 ELSE x + 1
BY RemainderInRange, RemainderOfSelf

-----------------------------------------------------------------------------
(***************************************************************************)
(* Functions defined step by step, and induction along them.  An induction *)
(* is a set of counterexamples without a least element.                    *)
(***************************************************************************)

(* A set of natural numbers has a least element.                           *)
LEMMA LeastElement ==
  ASSUME NEW T, T \subseteq Nat, T # {}
  PROVE  \E x \in T : \A y \in T : x <= y
<1> DEFINE R == OpToRel(<, Nat)
<1>1. IsWellFoundedOn(R, Nat)
  BY NatLessThanWellFounded
<1>2. \A a, b \in Nat : a < b => <<a, b>> \in R
  BY DEF OpToRel
<1> HIDE DEF R
<1>3. T \subseteq Nat /\ T # {}
  OBVIOUS
<1>4. PICK x \in T : \A y \in T : ~ (<<y, x>> \in R)
  BY <1>1, <1>3, WFMin
<1>5. ASSUME NEW y \in T PROVE x <= y
  <2>1. x \in Nat /\ y \in Nat /\ ~ (<<y, x>> \in R)
    BY <1>4
  <2>2. ~ (y < x)
    BY <1>2, <2>1, Zenon
  <2> QED BY <2>1, <2>2
<1> QED BY <1>5

(* Induction up to m, for the set H of the numbers it holds of.            *)
LEMMA Induction ==
  ASSUME NEW m \in Nat, NEW H, 0 \in H, \A n \in 1..m : n - 1 \in H => n \in H
  PROVE  \A n \in 0..m : n \in H
<1> DEFINE T == {n \in 0..m : n \notin H}
<1> SUFFICES ASSUME T # {} PROVE FALSE
  OBVIOUS
<1>3. T \subseteq Nat
  OBVIOUS
<1>1. PICK x \in T : \A y \in T : x <= y
  BY <1>3, LeastElement
<1>2. x \in 1..m /\ x - 1 \in 0..m /\ x - 1 \notin T
  BY <1>1
<1> QED BY <1>1, <1>2

(* The iteration of a step function G exists.                              *)
IsIteration(w, m, a, G) == w[0] = a /\ \A n \in 1..m : w[n] = G[w[n - 1]]

LEMMA Iteration ==
  ASSUME NEW m \in Nat, NEW S, NEW a \in S, NEW G \in [S -> S]
  PROVE  \E w \in [0..m -> S] : IsIteration(w, m, a, G)
<1> DEFINE H == {n \in Nat : \E w \in [0..n -> S] : IsIteration(w, n, a, G)}
<1>1. 0 \in H
  <2>1. [n \in 0..0 |-> a] \in [0..0 -> S]
    OBVIOUS
  <2>2. IsIteration([n \in 0..0 |-> a], 0, a, G)
    BY DEF IsIteration
  <2> QED BY <2>1, <2>2
<1>2. ASSUME NEW n \in 1..m, n - 1 \in H PROVE n \in H
  <2>1. PICK w \in [0..(n - 1) -> S] : IsIteration(w, n - 1, a, G)
    BY <1>2
  <2> DEFINE v == [k \in 0..n |-> IF k = n THEN G[w[n - 1]] ELSE w[k]]
  <2>2. v \in [0..n -> S]
    <3>1. w[n - 1] \in S
      OBVIOUS
    <3>2. ASSUME NEW k \in 0..n, k # n PROVE w[k] \in S
      BY <3>2
    <3> QED BY <3>1, <3>2
  <2>3. IsIteration(v, n, a, G)
    <3>1. v[0] = a
      BY <2>1 DEF IsIteration
    <3>2. ASSUME NEW k \in 1..n PROVE v[k] = G[v[k - 1]]
      <4>1. v[k - 1] = w[k - 1]
        OBVIOUS
      <4>2. CASE k = n
        BY <4>1, <4>2
      <4>3. CASE k # n
        <5>1. k \in 1..(n - 1) /\ v[k] = w[k]
          BY <4>3
        <5>2. w[k] = G[w[k - 1]]
          BY <2>1, <5>1 DEF IsIteration
        <5> QED BY <4>1, <5>1, <5>2
      <4> QED BY <4>2, <4>3
    <3> QED BY <3>1, <3>2 DEF IsIteration
  <2> QED BY <2>2, <2>3
<1> HIDE DEF H
<1>3. m \in H
  <2>1. \A n \in 0..m : n \in H
    BY <1>1, <1>2, Induction
  <2> QED BY <2>1
<1> QED BY <1>3 DEF H

=============================================================================
