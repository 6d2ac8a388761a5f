------------------------------ MODULE Numbers ------------------------------
(***************************************************************************)
(* Facts about natural numbers that proofs of several components cite: the *)
(* least and the greatest element of a set, and division by a fixed size.  *)
(***************************************************************************)
EXTENDS Integers, FiniteSets, WellFoundedInduction, TLAPS

\* A non-empty set of numbers has a least one: what CHOOSE and Min rest on.
LEMMA LeastPosition ==
    ASSUME NEW S \in SUBSET Nat, S # {}
    PROVE  \E m \in S : \A n \in S : m <= n
<1> DEFINE R == OpToRel(<, Nat)
<1>1. \A x, y \in Nat : x < y => <<x, y>> \in R
  BY Zenon DEF OpToRel
<1>2. IsWellFoundedOn(R, Nat)
  BY NatLessThanWellFounded, Zenon
<1> HIDE DEF R
<1>3. PICK m \in S : \A n \in S : ~ (<<n, m>> \in R)
  BY <1>2, WFMin
<1>4. ASSUME NEW n \in S PROVE m <= n
  <2>1. ~ (n < m)
    BY <1>1, <1>3, Zenon
  <2>2. QED
    BY <2>1
<1>5. QED
  BY <1>3, <1>4

\* A set of positions up to k has a greatest one.
LEMMA GreatestPosition ==
    ASSUME NEW k \in Nat, NEW S \in SUBSET (0 .. k), S # {}
    PROVE  \E m \in S : \A n \in S : m >= n
<1> DEFINE T == {k - n : n \in S}
<1>1. T \in SUBSET Nat /\ T # {}
  <2>1. \A n \in S : k - n \in Nat
    OBVIOUS
  <2>2. PICK n \in S : TRUE
    OBVIOUS
  <2>3. k - n \in T
    BY <2>2
  <2>4. T \subseteq Nat
    BY <2>1
  <2>5. QED
    BY <2>3, <2>4
<1>2. PICK t \in T : \A u \in T : t <= u
  BY <1>1, LeastPosition, Zenon
<1>3. PICK m \in S : t = k - m
  BY <1>2
<1>4. ASSUME NEW n \in S PROVE m >= n
  <2>1. k - n \in T
    OBVIOUS
  <2>2. k - m <= k - n
    BY <1>2, <1>3, <2>1
  <2>3. QED
    BY <2>2
<1>5. QED
  BY <1>4

-----------------------------------------------------------------------------
(* Division by a size F.                                                   *)

LEMMA Times ==
    ASSUME NEW F \in Nat \ {0}, NEW a \in Nat, NEW b \in Nat
    PROVE  /\ F * a \in Nat /\ F * (a + 1) = F * a + F
           /\ a <= b <=> F * a <= F * b
           /\ a < b <=> F * a < F * b
           /\ a < b <=> F * a + F <= F * b
<1>1. F * a \in Nat /\ F * b \in Nat /\ F * (a + 1) = F * a + F /\ F * (b + 1) = F * b + F
  OBVIOUS
<1>2. ASSUME NEW x \in Nat, NEW y \in Nat, x < y PROVE F * x + F <= F * y
  BY <1>2
<1>3. QED
  BY <1>1, <1>2

LEMMA Division ==
    ASSUME NEW F \in Nat \ {0}, NEW n \in Nat
    PROVE  n \div F \in Nat /\ n % F \in 0 .. F - 1 /\ n = F * (n \div F) + (n % F)
OBVIOUS

\* The quotient is the greatest number of whole frames below n.
LEMMA Quotient ==
    ASSUME NEW F \in Nat \ {0}, NEW n \in Nat, NEW q \in Nat
    PROVE  q <= n \div F <=> F * q <= n
<1> DEFINE d == n \div F
<1>1. d \in Nat /\ F * d <= n /\ n < F * d + F
  BY Division
<1> HIDE DEF d
<1>2. q <= d => F * q <= n
  BY <1>1, Times
<1>3. d < q => n < F * q
  BY <1>1, Times
<1>4. F * q \in Nat
  BY Times
<1>5. q <= d <=> F * q <= n
  BY <1>1, <1>2, <1>3, <1>4
<1>6. QED
  BY <1>5 DEF d

LEMMA Multiple ==
    ASSUME NEW F \in Nat \ {0}, NEW q \in Nat
    PROVE  (F * q) \div F = q /\ (F * q) % F = 0
OBVIOUS
=============================================================================
