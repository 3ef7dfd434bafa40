--------------------------- MODULE NaturalsLemmas ---------------------------
(***************************************************************************)
(* Facts about natural numbers that several proofs need: a set of them has *)
(* a least and, when bounded, a greatest element; products and quotients.  *)
(***************************************************************************)
EXTENDS Integers, WellFoundedInduction, TLAPS

(* A non-empty set of natural numbers has a least element. *)
LEMMA LeastNatural ==
    ASSUME NEW T \in SUBSET Nat, T # {}
    PROVE  \E x \in T : \A y \in T : x <= y
<1>. DEFINE R == {p \in Nat \X Nat : p[1] < p[2]}
<1>1. IsWellFoundedOn(R, Nat)
  BY NatLessThanWellFounded, Zenon DEF OpToRel
<1>2. \A x, y \in Nat : y < x => <<y, x>> \in R
  OBVIOUS
<1>. HIDE DEF R
<1>3. \E x \in T : \A y \in T : ~ (<<y, x>> \in R)
  BY <1>1, WFMin
<1>4. \A x, y \in T : ~(y < x) => x <= y
  OBVIOUS
<1>. QED  BY <1>2, <1>3, <1>4

(* A non-empty set of natural numbers below a bound has a greatest one. *)
LEMMA GreatestNatural ==
    ASSUME NEW T \in SUBSET Nat, T # {}, NEW b \in Nat, \A y \in T : y <= b
    PROVE  \E x \in T : \A y \in T : x >= y
<1>. DEFINE U == {n \in Nat : \A y \in T : y <= n}
<1>1. PICK u \in U : \A n \in U : u <= n
  <2>1. U \in SUBSET Nat /\ U # {}
    OBVIOUS
  <2>. HIDE DEF U
  <2>. QED  BY <2>1, LeastNatural
<1>2. u \in T
  <2>. SUFFICES ASSUME u \notin T PROVE FALSE
    OBVIOUS
  <2>1. \A y \in T : y \in Nat /\ y <= u /\ y # u
    OBVIOUS
  <2>2. u \in Nat /\ \A y \in T : y <= u - 1
    BY <2>1
  <2>3. u - 1 \in Nat
    <3>1. PICK t \in T : t \in Nat /\ t <= u - 1
      BY <2>1, <2>2
    <3>. QED  BY <2>2, <3>1
  <2>4. u - 1 \in U
    BY <2>2, <2>3
  <2>. QED  BY <1>1, <2>2, <2>4
<1>. QED  BY <1>2

(* Multiplying by a positive number keeps the order. *)
LEMMA TimesOrder ==
    ASSUME NEW k \in Nat \ {0}, NEW u \in Int, NEW v \in Int
    PROVE  /\ u >= v <=> k * u >= k * v
           /\ u > v <=> k * u > k * v
OBVIOUS

(* An exact quotient. *)
LEMMA ExactQuotient ==
    ASSUME NEW n \in Nat \ {0}, NEW a \in Nat \ {0}, n % a = 0
    PROVE  n = a * (n \div a) /\ n \div a \in Nat \ {0} /\ a <= n
<1>1. n \div a \in Int /\ n % a \in Int /\ n = a * (n \div a) + (n % a)
  OBVIOUS
<1>2. n = a * (n \div a)
  BY <1>1
<1>3. n \div a > 0
  BY <1>1, <1>2
<1>4. a <= n
  BY <1>1, <1>2, <1>3
<1>. QED  BY <1>1, <1>2, <1>3, <1>4

(* x/a against y/b, by cross-multiplying and by a common denominator. *)
LEMMA CrossMultiply ==
    ASSUME NEW a \in Nat \ {0}, NEW b \in Nat \ {0}, NEW qa \in Nat \ {0}, NEW qb \in Nat \ {0},
           a * qa = b * qb, NEW x \in Nat, NEW y \in Nat
    PROVE  /\ x * b >= y * a <=> x * qa >= y * qb
           /\ x * b > y * a <=> x * qa > y * qb
<1>1. qb * (x * b) = a * (x * qa) /\ qb * (y * a) = a * (y * qb)
  OBVIOUS
<1>2. /\ x * b \in Int /\ y * a \in Int /\ x * qa \in Int /\ y * qb \in Int
  OBVIOUS
<1>3. /\ x * b >= y * a <=> qb * (x * b) >= qb * (y * a)
      /\ x * b > y * a <=> qb * (x * b) > qb * (y * a)
  BY <1>2, TimesOrder
<1>4. /\ x * qa >= y * qb <=> a * (x * qa) >= a * (y * qb)
      /\ x * qa > y * qb <=> a * (x * qa) > a * (y * qb)
  BY <1>2, TimesOrder
<1>. QED  BY <1>1, <1>3, <1>4

=============================================================================
