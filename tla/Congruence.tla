------------------------------ MODULE Congruence ------------------------------
(***************************************************************************)
(* Facts that the proofs share: induction over the natural numbers,        *)
(* division with remainder, and arithmetic modulo m.                       *)
(***************************************************************************)
EXTENDS Integers, WellFoundedInduction, TLAPS

\* A nonempty set of natural numbers has a least element.
LEMMA LeastNatural ==
  ASSUME NEW T, T \subseteq Nat, T # {}
  PROVE  \E x \in T : \A y \in T : x <= y
  <1> DEFINE Below == {ss \in Nat \X Nat : ss[1] < ss[2]}
  <1>1. IsWellFoundedOn(Below, Nat)
    BY NatLessThanWellFounded, Zenon DEF OpToRel
  <1>2. \E x \in T : \A y \in T : ~(<<y, x>> \in Below)
    <2> HIDE DEF Below
    <2> QED
      BY <1>1, WFMin, Zenon
  <1>3. PICK x \in T : \A y \in T : ~(<<y, x>> \in Below)
    BY <1>2, Zenon
  <1>4. \A y \in T : ~(y < x)
    BY <1>3
  <1>5. \A y \in T : x <= y
    BY <1>4
  <1> QED
    BY <1>5

\* Induction on a set: the numbers for which a property holds.
LEMMA SetInduction ==
  ASSUME NEW S, S \subseteq Nat, 0 \in S, \A n \in S : n + 1 \in S
  PROVE  S = Nat
  <1>1. ASSUME Nat \ S # {} PROVE FALSE
    <2>1. PICK x \in Nat \ S : \A y \in Nat \ S : x <= y
      BY <1>1, LeastNatural
    <2>2. x # 0 /\ x - 1 \in Nat
      BY <2>1
    <2>3. x - 1 \in S
      BY <2>1, <2>2
    <2> QED
      BY <2>1, <2>3
  <1> QED
    BY <1>1

Congruent(a, b, m) == \E q \in Int : a - b = q * m

\* Division and remainder by a positive number, as used by Cast.
LEMMA DivMod ==
  ASSUME NEW a \in Int, NEW m \in Nat, m > 0
  PROVE  /\ a % m \in Int /\ 0 <= a % m /\ a % m < m
         /\ a \div m \in Int
         /\ a = m * (a \div m) + (a % m)
  OBVIOUS

\* The quotient of a number that is not negative is no larger.
LEMMA QuotientBelow ==
  ASSUME NEW a \in Int, a >= 0, NEW m \in Nat, m > 0
  PROVE  a \div m \in Int /\ 0 <= a \div m /\ a \div m <= a
  <1>1. /\ a % m \in Int /\ 0 <= a % m /\ a % m < m
        /\ a \div m \in Int /\ a = m * (a \div m) + (a % m)
    BY DivMod
  <1> DEFINE q == a \div m
             r == a % m
  <1>2. q \in Int /\ r \in Int /\ 0 <= r /\ r < m /\ a = m * q + r
    BY <1>1
  <1> HIDE DEF q, r
  <1>3. q >= 0
    <2>1. SUFFICES ASSUME q <= -1 PROVE FALSE
      BY <1>2
    <2>2. m * (-1 - q) >= 0 /\ m * (-1 - q) = -m - m * q
      BY <1>2, <2>1
    <2> QED
      BY <1>2, <2>2
  <1>4. (m - 1) * q >= 0 /\ (m - 1) * q = m * q - q
    BY <1>2, <1>3
  <1>5. q <= a
    BY <1>2, <1>4
  <1> QED
    BY <1>2, <1>3, <1>5 DEF q

\* A number below the modulus is its own remainder.
LEMMA SmallMod ==
  ASSUME NEW a \in Int, NEW m \in Nat, 0 <= a, a < m
  PROVE  a % m = a
  OBVIOUS

\* The remainder is congruent to the number.
LEMMA CongruentRemainder ==
  ASSUME NEW a \in Int, NEW m \in Nat, m > 0
  PROVE  Congruent(a % m, a, m)
  <1>1. /\ a % m \in Int /\ a \div m \in Int
        /\ a = m * (a \div m) + (a % m)
    BY DivMod
  <1>2. (a % m) - a = (-(a \div m)) * m
    BY <1>1
  <1> QED
    BY <1>1, <1>2 DEF Congruent

\* Congruence is the remainder of the difference being zero.
LEMMA CongruentIsMod ==
  ASSUME NEW a \in Int, NEW b \in Int, NEW m \in Nat, m > 0, Congruent(a, b, m)
  PROVE  (a - b) % m = 0
  <1>1. PICK q \in Int : a - b = q * m
    BY DEF Congruent
  <1>2. /\ (a - b) % m \in Int /\ (a - b) \div m \in Int
        /\ 0 <= (a - b) % m /\ (a - b) % m < m
        /\ a - b = m * ((a - b) \div m) + ((a - b) % m)
    BY DivMod
  <1> DEFINE d == q - ((a - b) \div m)
             r == (a - b) % m
  <1>3. d \in Int /\ r \in Int /\ d * m = r /\ 0 <= r /\ r < m
    BY <1>1, <1>2
  <1> HIDE DEF d, r
  <1>4. d < 1
    <2>1. SUFFICES ASSUME d >= 1 PROVE FALSE
      BY <1>3
    <2>2. (d - 1) * m >= 0
      BY <1>3, <2>1
    <2> QED
      BY <1>3, <2>2
  <1>5. d > -1
    <2>1. SUFFICES ASSUME d <= -1 PROVE FALSE
      BY <1>3
    <2>2. (-1 - d) * m >= 0
      BY <1>3, <2>1
    <2> QED
      BY <1>3, <2>2
  <1>6. d = 0
    BY <1>3, <1>4, <1>5
  <1> QED
    BY <1>3, <1>6 DEF r

\* A number without remainder is a multiple.
LEMMA NoRemainder ==
  ASSUME NEW a \in Int, NEW m \in Nat, m > 0, a % m = 0
  PROVE  Congruent(a, 0, m)
  <1>1. a = m * (a \div m) + (a % m) /\ a \div m \in Int
    BY DivMod
  <1>2. a - 0 = (a \div m) * m
    BY <1>1
  <1> QED
    BY Zenon, <1>1, <1>2 DEF Congruent

LEMMA CongruentReflexive ==
  ASSUME NEW a \in Int, NEW m \in Nat
  PROVE  Congruent(a, a, m)
  <1>1. a - a = 0 * m
    OBVIOUS
  <1> QED
    BY <1>1 DEF Congruent

LEMMA CongruentSymmetric ==
  ASSUME NEW a \in Int, NEW b \in Int, NEW m \in Nat, Congruent(a, b, m)
  PROVE  Congruent(b, a, m)
  <1>1. PICK q \in Int : a - b = q * m
    BY DEF Congruent
  <1>2. -q \in Int /\ b - a = (-q) * m
    BY <1>1
  <1> QED
    BY Zenon, <1>2 DEF Congruent

LEMMA CongruentTransitive ==
  ASSUME NEW a \in Int, NEW b \in Int, NEW c \in Int, NEW m \in Nat,
         Congruent(a, b, m), Congruent(b, c, m)
  PROVE  Congruent(a, c, m)
  <1>1. PICK q \in Int : a - b = q * m
    BY DEF Congruent
  <1>2. PICK p \in Int : b - c = p * m
    BY DEF Congruent
  <1>3. q + p \in Int /\ a - c = (q + p) * m
    BY <1>1, <1>2
  <1> QED
    BY Zenon, <1>3 DEF Congruent

\* Congruence modulo a number is congruence modulo its divisors.
LEMMA CongruentDivisor ==
  ASSUME NEW a \in Int, NEW b \in Int, NEW m \in Nat, NEW n \in Nat, NEW k \in Nat,
         n = k * m, Congruent(a, b, n)
  PROVE  Congruent(a, b, m)
  <1>1. PICK q \in Int : a - b = q * n
    BY DEF Congruent
  <1>2. a - b = (q * k) * m
    BY <1>1
  <1> QED
    BY <1>2 DEF Congruent

\* Congruent numbers have one remainder.
LEMMA SameRemainder ==
  ASSUME NEW a \in Int, NEW b \in Int, NEW m \in Nat, m > 0, Congruent(a, b, m)
  PROVE  a % m = b % m
  <1> DEFINE r == a % m
             s == b % m
  <1>1. /\ r \in Int /\ 0 <= r /\ r < m /\ s \in Int /\ 0 <= s /\ s < m
        /\ Congruent(r, a, m) /\ Congruent(s, b, m)
    BY DivMod, CongruentRemainder
  <1> HIDE DEF r, s
  <1>2. Congruent(r, s, m) /\ Congruent(s, r, m)
    BY Zenon, <1>1, CongruentSymmetric, CongruentTransitive
  <1>3. (r - s) % m = 0 /\ (s - r) % m = 0
    BY <1>1, <1>2, CongruentIsMod
  <1>4. CASE r >= s
    BY <1>1, <1>3, <1>4, SmallMod DEF r, s
  <1>5. CASE r < s
    BY <1>1, <1>3, <1>5, SmallMod DEF r, s
  <1> QED
    BY <1>1, <1>4, <1>5

\* Adding the modulus changes no remainder.
LEMMA ShiftMod ==
  ASSUME NEW a \in Int, NEW m \in Nat, m > 0
  PROVE  (a + m) % m = a % m
  <1>1. a + m \in Int /\ 1 \in Int /\ (a + m) - a = 1 * m
    OBVIOUS
  <1>2. Congruent(a + m, a, m)
    BY Zenon, <1>1 DEF Congruent
  <1> QED
    BY Zenon, <1>1, <1>2, SameRemainder

(* Wrapping counters and numbers of two digits *)

LEMMA TimesMonotone ==
  ASSUME NEW b \in Nat, NEW k \in Nat, NEW l \in Nat, k <= l
  PROVE  k * b <= l * b
<1>1. PICK d \in Nat : l = k + d
  BY l - k \in Nat
<1>2. l * b = k * b + d * b /\ k * b \in Nat /\ d * b \in Nat
  BY <1>1
<1> QED BY <1>2

LEMMA DivModUnique ==
  ASSUME NEW b \in Nat \ {0}, NEW q \in Nat, NEW r \in Nat, r < b
  PROVE  (q * b + r) \div b = q /\ (q * b + r) % b = r
<1> DEFINE n == q * b + r
           d == n \div b
           m == n % b
<1>1. n \in Nat OBVIOUS
<1>2. d \in Nat /\ m \in Nat /\ m < b /\ n = b * d + m
  BY <1>1, DivMod
<1>3. q * b \in Nat /\ d * b \in Nat /\ d * b + m = q * b + r
  BY <1>2
<1> HIDE DEF d, m
<1>4. ~ (d + 1 <= q)
  <2>1. SUFFICES ASSUME d + 1 <= q PROVE FALSE
    OBVIOUS
  <2>2. (d + 1) * b <= q * b
    BY <1>2, <2>1, TimesMonotone
  <2>3. (d + 1) * b = d * b + b
    BY <1>2
  <2> QED BY <1>2, <1>3, <2>2, <2>3
<1>5. ~ (q + 1 <= d)
  <2>1. SUFFICES ASSUME q + 1 <= d PROVE FALSE
    OBVIOUS
  <2>2. (q + 1) * b <= d * b
    BY <1>2, <2>1, TimesMonotone
  <2>3. (q + 1) * b = q * b + b
    OBVIOUS
  <2> QED BY <1>2, <1>3, <2>2, <2>3
<1>6. d = q
  BY <1>2, <1>4, <1>5
<1>7. m = r
  BY <1>2, <1>3, <1>6
<1> QED BY <1>6, <1>7 DEF d, m

\* A counter that wraps runs from m - 1 to 0.
LEMMA CountWraps ==
  ASSUME NEW m \in Nat, m > 0, NEW i \in 0 .. m - 1
  PROVE  /\ (i + 1) % m \in 0 .. m - 1
         /\ (i + 1) % m = IF i = m - 1 THEN 0 ELSE i + 1
<1>1. CASE i = m - 1
  <2>1. (1 * m + 0) % m = 0
    BY DivModUnique
  <2>2. i + 1 = 1 * m + 0
    BY <1>1
  <2> QED BY <1>1, <2>1, <2>2
<1>2. CASE i # m - 1
  <2>1. (i + 1) % m = i + 1
    BY <1>2, SmallMod
  <2> QED BY <1>2, <2>1
<1> QED BY <1>1, <1>2

\* The two digits of a number below b * b.
LEMMA TwoDigits ==
  ASSUME NEW b \in Nat \ {0}, NEW t \in 0 .. b * b - 1
  PROVE  /\ t % b \in 0 .. b - 1 /\ t \div b \in 0 .. b - 1
         /\ t = (t \div b) * b + (t % b)
<1> DEFINE q == t \div b
           r == t % b
<1>1. b * b \in Nat /\ t \in Nat /\ t < b * b
  OBVIOUS
<1>2. q \in Nat /\ r \in Nat /\ r < b /\ t = b * q + r
  BY <1>1, DivMod, QuotientBelow
<1> HIDE DEF q, r
<1>3. ~ (b <= q)
  <2>1. SUFFICES ASSUME b <= q PROVE FALSE
    OBVIOUS
  <2>2. b * b <= q * b
    BY <1>2, <2>1, TimesMonotone
  <2>3. q * b \in Nat /\ q * b = b * q
    BY <1>2
  <2> QED BY <1>1, <1>2, <2>2, <2>3
<1> QED BY <1>2, <1>3 DEF q, r

\* Swapping them gives a number below b * b, and swapping again the first one.
LEMMA DigitsSwap ==
  ASSUME NEW b \in Nat \ {0}, NEW t \in 0 .. b * b - 1,
         NEW u, u = (t % b) * b + (t \div b)
  PROVE  u \in 0 .. b * b - 1 /\ (u % b) * b + (u \div b) = t
<1> DEFINE q == t \div b
           r == t % b
<1>1. q \in 0 .. b - 1 /\ r \in 0 .. b - 1 /\ t = q * b + r /\ u = r * b + q
  BY TwoDigits
<1> HIDE DEF q, r
<1>2. (r + 1) * b <= b * b
  BY <1>1, TimesMonotone
<1>3. (r + 1) * b = r * b + b /\ r * b \in Nat /\ b * b \in Nat
  BY <1>1
<1>4. (r * b + q) \div b = r /\ (r * b + q) % b = q
  BY <1>1, DivModUnique
<1> QED BY <1>1, <1>2, <1>3, <1>4

===============================================================================
