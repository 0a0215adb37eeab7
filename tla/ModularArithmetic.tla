------------------------- MODULE ModularArithmetic -------------------------
(***************************************************************************)
(* Remainders for an arbitrary modulus, which the provers know nothing of: *)
(* what wrapping counters and wrapping sequence numbers rest on.  And the  *)
(* least member of a set of numbers, which does the work of induction.     *)
(***************************************************************************)
EXTENDS Integers, WellFoundedInduction, TLAPS

\* Division with remainder, in the form the proofs use.
LEMMA Division ==
    ASSUME NEW m \in Nat \ {0}, NEW x \in Int
    PROVE  /\ x = ((x \div m) * m) + (x % m)
           /\ (x \div m) \in Int
           /\ (x % m) \in 0 .. m - 1
BY SMT

\* Two multiples of m that are less than m apart are the same multiple.
LEMMA MultiplesApart ==
    ASSUME NEW m \in Nat \ {0}, NEW i \in Int, NEW j \in Int,
           i * m - j * m < m, j * m - i * m < m
    PROVE  i = j
<1>1. ASSUME i >= j + 1 PROVE FALSE
  <2>1. (i - j) * m >= m
    BY <1>1
  <2> QED BY <2>1
<1>2. ASSUME j >= i + 1 PROVE FALSE
  <2>1. (j - i) * m >= m
    BY <1>2
  <2> QED BY <2>1
<1> QED BY <1>1, <1>2

\* The remainder is the only number of 0 .. m - 1 a multiple of m away.
LEMMA RemainderUnique ==
    ASSUME NEW m \in Nat \ {0}, NEW x \in Int, NEW q \in Int,
           NEW r \in 0 .. m - 1, x = q * m + r
    PROVE  x % m = r
<1> DEFINE k == x \div m
<1>1. x = (k * m) + (x % m) /\ (x % m) \in 0 .. m - 1 /\ k \in Int
  BY SMT
<1>2. k = q
  <2>1. k * m - q * m = r - (x % m)
    BY <1>1
  <2>2. k * m - q * m < m /\ q * m - k * m < m
    BY <1>1, <2>1
  <2> HIDE DEF k
  <2> QED BY <1>1, <2>2, MultiplesApart
<1> QED BY <1>1, <1>2

\* A distance of less than one turn is itself, or itself plus one turn.
LEMMA RemainderSmall ==
    ASSUME NEW m \in Nat \ {0}, NEW x \in Int, - m < x, x < m
    PROVE  x % m = IF x >= 0 THEN x ELSE x + m
<1>1. CASE x >= 0
  BY <1>1, RemainderUnique, x = (0 * m) + x
<1>2. CASE x < 0
  <2>1. x = ((-1) * m) + (x + m)
    OBVIOUS
  <2> QED BY <1>2, <2>1, RemainderUnique
<1> QED BY <1>1, <1>2

\* Adding whole turns does not change a remainder.
LEMMA RemainderOfTurns ==
    ASSUME NEW m \in Nat \ {0}, NEW u \in Int, NEW v \in Int, NEW c \in Int,
           u = (c * m) + v
    PROVE  u % m = v % m
<1> DEFINE d == v \div m
           r == v % m
<1>1. v = (d * m) + r /\ d \in Int /\ r \in 0 .. m - 1
  BY SMT
<1> HIDE DEF d, r
<1>2. u = ((c + d) * m) + r /\ c + d \in Int
  BY <1>1
<1>3. u % m = r
  BY <1>1, <1>2, RemainderUnique
<1> QED BY <1>3 DEF r

\* Reducing one operand of a difference does not change its remainder.
LEMMA RemainderOfDifference ==
    ASSUME NEW m \in Nat \ {0}, NEW x \in Int, NEW y \in Int
    PROVE  /\ ((x % m) - y) % m = (x - y) % m
           /\ (x - (y % m)) % m = (x - y) % m
<1> DEFINE j == x \div m
           k == y \div m
           a == x % m
           b == y % m
<1>1. x = (j * m) + a /\ y = (k * m) + b /\ {a, b, j, k} \subseteq Int
  BY SMT
<1> HIDE DEF a, b, j, k
<1>2. x - y = (j * m) + (a - y) /\ j \in Int /\ a - y \in Int /\ x - y \in Int
  BY <1>1
<1>3. x - b = (k * m) + (x - y) /\ k \in Int /\ x - b \in Int
  BY <1>1
<1>4. (x - y) % m = (a - y) % m
  BY <1>2, RemainderOfTurns, Zenon
<1>5. (x - b) % m = (x - y) % m
  BY <1>2, <1>3, RemainderOfTurns, Zenon
<1> QED BY <1>4, <1>5 DEF a, b

\* Two steps forward that together stay within one turn add up.
LEMMA RemaindersAdd ==
    ASSUME NEW m \in Nat \ {0}, NEW x \in Int, NEW y \in Int, NEW z \in Int,
           ((y - x) % m) + ((z - y) % m) < m
    PROVE  (z - x) % m = ((y - x) % m) + ((z - y) % m)
<1> DEFINE j == (y - x) \div m
           k == (z - y) \div m
           a == (y - x) % m
           b == (z - y) % m
<1>1. /\ y - x = (j * m) + a /\ z - y = (k * m) + b
      /\ j \in Int /\ k \in Int /\ a \in 0 .. m - 1 /\ b \in 0 .. m - 1
  BY SMT
<1>2. a + b < m
  OBVIOUS
<1> HIDE DEF a, b, j, k
<1>3. a + b \in 0 .. m - 1
  BY <1>1, <1>2
<1>4. z - x = ((j + k) * m) + (a + b) /\ j + k \in Int /\ z - x \in Int
  BY <1>1
<1>5. (z - x) % m = a + b
  BY <1>3, <1>4, RemainderUnique, Zenon
<1> QED BY <1>5 DEF a, b

\* Numbers less than m apart that agree modulo m are equal.
LEMMA SameRemainder ==
    ASSUME NEW m \in Nat \ {0}, NEW x \in Int, NEW y \in Int,
           (x % m) = (y % m), x - y < m, y - x < m
    PROVE  x = y
<1> DEFINE i == x \div m
           j == y \div m
<1>1. x = (i * m) + (x % m) /\ y = (j * m) + (y % m) /\ i \in Int /\ j \in Int
      /\ (x % m) \in Int
  BY SMT
<1> HIDE DEF i, j
<1>2. i * m - j * m < m /\ j * m - i * m < m
  BY <1>1
<1>3. i = j
  BY <1>1, <1>2, MultiplesApart, Zenon
<1> QED BY <1>1, <1>3

\* Reducing a number modulo a multiple of m first changes nothing.
LEMMA RemainderOfMultiple ==
    ASSUME NEW m \in Nat \ {0}, NEW k \in Nat \ {0}, NEW x \in Int
    PROVE  (x % (k * m)) % m = x % m
<1> DEFINE q == x \div (k * m)
           r == x % (k * m)
<1>1. k * m \in Nat \ {0}
  OBVIOUS
<1>2. x = (q * (k * m)) + r /\ q \in Int /\ r \in Int
  <2>1. x = (q * (k * m)) + r /\ q \in Int /\ r \in 0 .. (k * m) - 1
    BY <1>1, Division, Zenon
  <2> QED BY <2>1, <1>1
<1> HIDE DEF q, r
<1>3. x = ((q * k) * m) + r /\ q * k \in Int
  BY <1>2
<1>4. x % m = r % m
  BY <1>2, <1>3, RemainderOfTurns, Zenon
<1> QED BY <1>4 DEF r

\* A set of natural numbers that is not empty has a least member.
LEMMA LeastMember ==
    ASSUME NEW S, S \subseteq Nat, S # {}
    PROVE  \E x \in S : \A y \in S : x <= y
<1> DEFINE Less == {ss \in Nat \X Nat : ss[1] < ss[2]}
<1>1. IsWellFoundedOn(Less, Nat)
  BY NatLessThanWellFounded DEF OpToRel
<1>2. PICK x \in S : \A y \in S : ~ (<<y, x>> \in Less)
  <2> HIDE DEF Less
  <2> QED BY <1>1, WFMin
<1>3. ASSUME NEW y \in S PROVE x <= y
  <2>1. ~ (<<y, x>> \in Less) /\ x \in Nat /\ y \in Nat
    BY <1>2
  <2>2. y < x => <<y, x>> \in Less
    BY <2>1
  <2> QED BY <2>1, <2>2
<1> QED BY <1>3
=============================================================================
