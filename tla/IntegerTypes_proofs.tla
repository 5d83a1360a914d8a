------------------------ MODULE IntegerTypes_proofs -------------------------
(***************************************************************************)
(* Proofs about the integer types.  Their conversions and operators, for   *)
(* every four sizes each with twice the bits of the one before and for     *)
(* chains of any length; their accessors, for every width of object, int,  *)
(* byte and piece.                                                         *)
(***************************************************************************)
EXTENDS NumericChain, UintAccess, Congruence, TLAPS

-----------------------------------------------------------------------------
(* What the bits of a number determine: numbers and their bit patterns       *)
(* correspond, and & | ^ respect congruence modulo every size.  The weights  *)
(* are known by their recurrence alone, so most lemmas go by induction on a  *)
(* position.                                                                 *)

(* The weights.                                                            *)

\* The widths double, so they are ordered, and so are the positions.
LEMMA WidthIs ==
  /\ Width[4] \in Nat \ {0}
  /\ \A k \in Size : Width[k] \in Nat \ {0} /\ Width[k] <= Width[4]
  /\ \A k \in 1..3 : Width[k + 1] = Width[k] + Width[k]
  <1>1. /\ Width[1] \in Nat \ {0} /\ Width[2] \in Nat \ {0}
        /\ Width[3] \in Nat \ {0} /\ Width[4] \in Nat \ {0}
    BY WidthAssumption DEF Size
  <1>2. Width[2] = 2 * Width[1] /\ Width[3] = 2 * Width[2] /\ Width[4] = 2 * Width[3]
    <2>1. Width[1 + 1] = 2 * Width[1] /\ Width[2 + 1] = 2 * Width[2] /\ Width[3 + 1] = 2 * Width[3]
      BY WidthAssumption
    <2> QED
      BY <2>1
  <1> QED
    BY <1>1, <1>2 DEF Size

\* Every weight is a positive number, and twice the one before.
LEMMA WeightIs ==
  ASSUME NEW i \in 0 .. Width[4]
  PROVE  Weight[i] \in Nat /\ Weight[i] >= 1
  <1> DEFINE S == {n \in Nat : n <= Width[4] => Weight[n] >= 1}
  <1>1. 0 \in S
    BY WeightAssumption, WidthIs
  <1>2. \A n \in S : n + 1 \in S
    <2> SUFFICES ASSUME NEW n \in S, n + 1 <= Width[4] PROVE Weight[n + 1] >= 1
      OBVIOUS
    <2>1. n \in Position /\ n <= Width[4]
      BY WidthIs DEF Position
    <2>2. Weight[n] >= 1 /\ Weight[n + 1] = 2 * Weight[n] /\ Weight[n] \in Nat
      BY <2>1, WeightAssumption DEF Position
    <2> QED
      BY <2>2
  <1>3. S = Nat
    <2> HIDE DEF S
    <2>1. S \subseteq Nat
      BY DEF S
    <2> QED
      BY <1>1, <1>2, <2>1, SetInduction
  <1>4. i \in Nat /\ i <= Width[4]
    BY WidthIs
  <1> QED
    BY <1>3, <1>4, WeightAssumption

LEMMA WeightNext ==
  ASSUME NEW i \in Nat, i + 1 <= Width[4]
  PROVE  Weight[i + 1] = 2 * Weight[i]
  <1>1. i \in Position
    BY WidthIs DEF Position
  <1> QED
    BY <1>1, WeightAssumption

\* The weight of a sum of positions is the product of their weights.
LEMMA WeightSum ==
  ASSUME NEW i \in Nat, NEW j \in Nat, i + j <= Width[4]
  PROVE  Weight[i + j] = Weight[i] * Weight[j]
  <1> DEFINE S == {n \in Nat : i + n <= Width[4] => Weight[i + n] = Weight[i] * Weight[n]}
  <1>0. Weight[i] \in Nat
    BY WeightIs, WidthIs
  <1>1. 0 \in S
    <2>1. Weight[0] = 1 /\ i + 0 = i
      BY WeightAssumption
    <2> QED
      BY <1>0, <2>1
  <1>2. \A n \in S : n + 1 \in S
    <2> SUFFICES ASSUME NEW n \in S, i + (n + 1) <= Width[4]
                 PROVE  Weight[i + (n + 1)] = Weight[i] * Weight[n + 1]
      OBVIOUS
    <2>1. i + n \in Nat /\ (i + n) + 1 <= Width[4] /\ n \in Nat /\ n + 1 <= Width[4] /\ i + (n + 1) = (i + n) + 1
      BY WidthIs
    <2>2. Weight[(i + n) + 1] = 2 * Weight[i + n] /\ Weight[n + 1] = 2 * Weight[n]
      BY <2>1, WeightNext
    <2>3. Weight[i + n] = Weight[i] * Weight[n]
      BY <2>1, WidthIs
    <2>4. Weight[n] \in Nat
      BY <2>1, WeightIs, WidthIs
    <2>5. 2 * (Weight[i] * Weight[n]) = Weight[i] * (2 * Weight[n])
      BY <1>0, <2>4
    <2> QED
      BY <2>1, <2>2, <2>3, <2>5
  <1>3. S = Nat
    <2> HIDE DEF S
    <2>1. S \subseteq Nat
      BY DEF S
    <2> QED
      BY <1>1, <1>2, <2>1, SetInduction
  <1> QED
    BY <1>3

\* The sizes: the smallest has an even number of values, and each has the square
\* of the one before.
LEMMA ModulusSquares ==
  /\ Modulus \in [Size -> Nat]
  /\ Modulus[1] > 0 /\ Modulus[1] % 2 = 0
  /\ \A k \in 1..3 : Modulus[k + 1] = Modulus[k] * Modulus[k]
  <1>1. \A k \in Size : Modulus[k] = Weight[Width[k]]
    BY DEF Modulus
  <1>2. ASSUME NEW k \in Size PROVE Weight[Width[k]] \in Nat /\ Weight[Width[k]] >= 1
    <2>1. Width[k] \in 0 .. Width[4]
      BY WidthIs
    <2> QED
      BY <2>1, WeightIs
  <1>3. Modulus \in [Size -> Nat]
    BY <1>2 DEF Modulus
  <1>4. Modulus[1] > 0
    BY <1>1, <1>2 DEF Size
  <1>5. Modulus[1] % 2 = 0
    <2>1. 1 \in Size /\ Width[1] \in Nat \ {0} /\ Width[1] <= Width[4]
      BY WidthIs DEF Size
    <2>2. Width[1] - 1 \in Nat /\ (Width[1] - 1) + 1 = Width[1] /\ Width[1] - 1 \in 0 .. Width[4]
      BY <2>1, WidthIs
    <2>3. Weight[(Width[1] - 1) + 1] = 2 * Weight[Width[1] - 1] /\ Weight[Width[1] - 1] \in Nat
      BY <2>1, <2>2, WeightNext, WeightIs
    <2>4. Modulus[1] = 2 * Weight[Width[1] - 1]
      BY <1>1, <2>1, <2>2, <2>3
    <2> QED
      BY <2>3, <2>4
  <1>6. ASSUME NEW k \in 1..3 PROVE Modulus[k + 1] = Modulus[k] * Modulus[k]
    <2>1. k \in Size /\ k + 1 \in Size
      BY DEF Size
    <2>2. Width[k] \in Nat /\ Width[k + 1] = Width[k] + Width[k] /\ Width[k] + Width[k] <= Width[4]
      BY <2>1, WidthIs
    <2>3. Weight[Width[k] + Width[k]] = Weight[Width[k]] * Weight[Width[k]]
      BY <2>2, WeightSum
    <2> QED
      BY <1>1, <2>1, <2>2, <2>3
  <1> QED
    BY <1>3, <1>4, <1>5, <1>6

(* The bits of a number.                                                   *)

Bit(n, i) == (n \div Weight[i]) % 2

\* Division by v of a multiple of v and a rest.
LEMMA DivideMultiple ==
  ASSUME NEW v \in Nat, v > 0, NEW a \in Nat, NEW r \in Nat
  PROVE  (v * a + r) \div v = a + (r \div v)
  <1> DEFINE p == r \div v
             s == r % v
             q == (v * a + r) \div v
             u == (v * a + r) % v
  <1>1. /\ p \in Int /\ s \in Int /\ 0 <= s /\ s < v /\ r = v * p + s
    BY DivMod
  <1>2. v * a + r \in Int
    OBVIOUS
  <1>3. q \in Int /\ u \in Int /\ 0 <= u /\ u < v /\ v * a + r = v * q + u
    BY <1>2, DivMod
  <1> HIDE DEF p, s, q, u
  <1> DEFINE d == q - (a + p)
  <1>4. d \in Int /\ v * d = s - u
    <2>1. v * (q - (a + p)) = v * q - v * a - v * p
      BY <1>1, <1>3
    <2> QED
      BY <1>1, <1>3, <2>1
  <1>5. d = 0
    <2> HIDE DEF d
    <2>1. ASSUME d >= 1 PROVE FALSE
      <3>1. v * (d - 1) >= 0 /\ v * (d - 1) = v * d - v
        BY <1>4, <2>1
      <3> QED
        BY <1>1, <1>3, <1>4, <3>1
    <2>2. ASSUME d <= -1 PROVE FALSE
      <3>1. v * (-1 - d) >= 0 /\ v * (-1 - d) = -v - v * d
        BY <1>4, <2>2
      <3> QED
        BY <1>1, <1>3, <1>4, <3>1
    <2> QED
      BY <1>4, <2>1, <2>2
  <1> QED
    BY <1>1, <1>3, <1>5 DEF p, q

LEMMA EvenPlus ==
  ASSUME NEW a \in Nat, NEW b \in Nat
  PROVE  (2 * a + b) % 2 = b % 2
  OBVIOUS

\* The bits below position w are those of the remainder by the weight of w.
LEMMA BitOfRemainder ==
  ASSUME NEW n \in Nat, NEW w \in Nat, w <= Width[4], NEW i \in Nat, i < w
  PROVE  /\ n % Weight[w] \in Nat
         /\ Bit(n % Weight[w], i) = Bit(n, i)
  <1> DEFINE v == Weight[i]
             t == Weight[(w - i) - 1]
             q == n \div Weight[w]
             r == n % Weight[w]
  <1>1. /\ i \in 0 .. Width[4] /\ w \in 0 .. Width[4] /\ (w - i) - 1 \in 0 .. Width[4]
        /\ w - i \in Nat /\ i + (w - i) = w /\ ((w - i) - 1) + 1 = w - i
        /\ (w - i) - 1 \in Nat /\ w - i <= Width[4]
    BY WidthIs
  <1>2. v \in Nat /\ v >= 1 /\ t \in Nat /\ Weight[w] \in Nat /\ Weight[w] >= 1
    BY <1>1, WeightIs
  <1>3. Weight[w] = v * (2 * t)
    <2>1. Weight[i + (w - i)] = Weight[i] * Weight[w - i]
      BY <1>1, WeightSum
    <2>2. Weight[((w - i) - 1) + 1] = 2 * Weight[(w - i) - 1]
      BY <1>1, WeightNext
    <2> QED
      BY <1>1, <2>1, <2>2
  <1>4. q \in Int /\ r \in Int /\ 0 <= r /\ r < Weight[w] /\ n = Weight[w] * q + r
    <2> DEFINE m == Weight[w]
    <2>1. m \in Nat /\ m > 0 /\ n \in Int
      BY <1>2
    <2> HIDE DEF m
    <2>2. /\ n % m \in Int /\ 0 <= n % m /\ n % m < m
          /\ n \div m \in Int /\ n = m * (n \div m) + (n % m)
      BY <2>1, DivMod
    <2> QED
      BY <2>2 DEF m
  <1>5. q \in Nat
    BY <1>2, QuotientBelow
  <1>6. r \in Nat
    BY <1>4
  <1> HIDE DEF v, t, q, r
  <1>7. t * q \in Nat /\ 2 * (t * q) \in Nat /\ n = v * (2 * (t * q)) + r
    <2>1. (v * (2 * t)) * q = v * (2 * (t * q))
      BY <1>2, <1>5
    <2> QED
      BY <1>2, <1>3, <1>4, <1>5, <2>1
  <1>8. n \div v = 2 * (t * q) + (r \div v)
    BY <1>2, <1>6, <1>7, DivideMultiple
  <1>9. r \div v \in Nat
    BY <1>2, <1>6, QuotientBelow
  <1>10. (n \div v) % 2 = (r \div v) % 2
    <2> DEFINE a == t * q
               b == r \div v
    <2>1. a \in Nat /\ b \in Nat /\ n \div v = 2 * a + b
      BY <1>7, <1>8, <1>9
    <2> HIDE DEF a, b
    <2>2. (2 * a + b) % 2 = b % 2
      BY <2>1, EvenPlus
    <2> QED
      BY <2>1, <2>2 DEF b
  <1> QED
    BY <1>6, <1>10 DEF Bit, v, r

\* A number below twice the weight of w, split at position w.
LEMMA SplitAt ==
  ASSUME NEW n \in Nat, NEW w \in Nat, w <= Width[4], n < 2 * Weight[w]
  PROVE  /\ n % Weight[w] \in 0 .. Weight[w] - 1
         /\ Bit(n, w) \in {0, 1}
         /\ n = Weight[w] * Bit(n, w) + (n % Weight[w])
  <1> DEFINE v == Weight[w]
             q == n \div v
             r == n % v
  <1>1. v \in Nat /\ v >= 1
    <2>1. w \in 0 .. Width[4]
      BY WidthIs
    <2> QED
      BY <2>1, WeightIs
  <1>2. q \in Int /\ r \in Int /\ 0 <= r /\ r < v /\ n = v * q + r
    BY <1>1, DivMod
  <1>3. q >= 0
    BY <1>1, QuotientBelow
  <1>4. n < 2 * v
    OBVIOUS
  <1>5. Bit(n, w) = q % 2
    BY DEF Bit
  <1> HIDE DEF v, q, r
  <1>6. q <= 1
    <2>1. ASSUME q >= 2 PROVE FALSE
      <3>1. v * (q - 2) >= 0 /\ v * (q - 2) = v * q - 2 * v
        BY <1>1, <1>2, <2>1
      <3> QED
        BY <1>1, <1>2, <1>4, <3>1
    <2> QED
      BY <1>2, <2>1
  <1>7. q % 2 = q /\ q \in {0, 1}
    BY <1>2, <1>3, <1>6
  <1> QED
    BY <1>1, <1>2, <1>5, <1>7 DEF v, r

\* Two numbers below the weight of w that agree in every bit below w are equal.
LEMMA BitsDetermine ==
  ASSUME NEW w \in Nat, w <= Width[4],
         NEW n \in 0 .. Weight[w] - 1, NEW m \in 0 .. Weight[w] - 1,
         \A i \in 0 .. w - 1 : Bit(n, i) = Bit(m, i)
  PROVE  n = m
  <1> DEFINE Agree(x, a, b) == \A i \in 0 .. x - 1 : Bit(a, i) = Bit(b, i)
             S == {x \in Nat : x <= Width[4] =>
                     \A a, b \in 0 .. Weight[x] - 1 : Agree(x, a, b) => a = b}
  <1>1. 0 \in S
    BY WeightAssumption
  <1>2. \A x \in S : x + 1 \in S
    <2> SUFFICES ASSUME NEW x \in S, x + 1 <= Width[4],
                        NEW a \in 0 .. Weight[x + 1] - 1, NEW b \in 0 .. Weight[x + 1] - 1,
                        Agree(x + 1, a, b)
                 PROVE  a = b
      OBVIOUS
    <2>1. x \in Nat /\ x <= Width[4] /\ x \in 0 .. Width[4]
      BY WidthIs
    <2>2. Weight[x + 1] = 2 * Weight[x] /\ Weight[x] \in Nat /\ Weight[x] >= 1
      BY <2>1, WeightNext, WeightIs
    <2>3. a \in Nat /\ b \in Nat /\ a < 2 * Weight[x] /\ b < 2 * Weight[x]
      BY <2>2
    <2>4. a % Weight[x] \in 0 .. Weight[x] - 1 /\ b % Weight[x] \in 0 .. Weight[x] - 1
      BY <2>1, <2>3, SplitAt
    <2>5. Agree(x, a % Weight[x], b % Weight[x])
      <3> SUFFICES ASSUME NEW i \in 0 .. x - 1 PROVE Bit(a % Weight[x], i) = Bit(b % Weight[x], i)
        OBVIOUS
      <3>1. i \in Nat /\ i < x /\ i \in 0 .. (x + 1) - 1
        BY <2>1
      <3>2. Bit(a, i) = Bit(b, i)
        BY <3>1
      <3>3. Bit(a % Weight[x], i) = Bit(a, i) /\ Bit(b % Weight[x], i) = Bit(b, i)
        BY <2>1, <2>3, <3>1, BitOfRemainder
      <3> QED
        BY <3>2, <3>3
    <2>6. a % Weight[x] = b % Weight[x]
      BY <2>1, <2>4, <2>5
    <2>7. Bit(a, x) = Bit(b, x)
      <3>1. x \in 0 .. (x + 1) - 1
        BY <2>1
      <3> QED
        BY <3>1
    <2>8. /\ a = Weight[x] * Bit(a, x) + (a % Weight[x])
          /\ b = Weight[x] * Bit(b, x) + (b % Weight[x])
      BY <2>1, <2>3, SplitAt
    <2> QED
      BY <2>6, <2>7, <2>8, Zenon
  <1>3. S = Nat
    <2> HIDE DEF S
    <2>1. S \subseteq Nat
      BY DEF S
    <2> QED
      BY <1>1, <1>2, <2>1, SetInduction
  <1>4. Agree(w, n, m)
    OBVIOUS
  <1>5. w \in S
    BY <1>3
  <1> QED
    BY <1>4, <1>5

\* Every set of positions is the pattern of a number.
LEMMA PatternExists ==
  ASSUME NEW w \in Nat, w <= Width[4], NEW s \in SUBSET (0 .. w - 1)
  PROVE  \E n \in 0 .. Weight[w] - 1 : \A i \in 0 .. w - 1 : (Bit(n, i) = 1) <=> (i \in s)
  <1> DEFINE Has(x, p) ==
               \E n \in 0 .. Weight[x] - 1 : \A i \in 0 .. x - 1 : (Bit(n, i) = 1) <=> (i \in p)
             S == {x \in Nat : x <= Width[4] => \A p \in SUBSET (0 .. x - 1) : Has(x, p)}
  <1>1. 0 \in S
    <2>1. 0 \in 0 .. Weight[0] - 1
      BY WeightAssumption
    <2>2. \A i \in 0 .. 0 - 1 : FALSE
      OBVIOUS
    <2> QED
      BY <2>1, <2>2
  <1>2. \A x \in S : x + 1 \in S
    <2> SUFFICES ASSUME NEW x \in S, x + 1 <= Width[4], NEW p \in SUBSET (0 .. (x + 1) - 1)
                 PROVE  Has(x + 1, p)
      OBVIOUS
    <2>1. x \in Nat /\ x <= Width[4] /\ x \in 0 .. Width[4]
      BY WidthIs
    <2>2. Weight[x + 1] = 2 * Weight[x] /\ Weight[x] \in Nat /\ Weight[x] >= 1
      BY <2>1, WeightNext, WeightIs
    <2>3. p \ {x} \in SUBSET (0 .. x - 1)
      BY <2>1
    <2>4. PICK n \in 0 .. Weight[x] - 1 :
            \A i \in 0 .. x - 1 : (Bit(n, i) = 1) <=> (i \in p \ {x})
      BY <2>1, <2>3
    <2>5. PICK b \in {0, 1} : (b = 1) <=> (x \in p)
      OBVIOUS
    <2> DEFINE m == Weight[x] * b + n
    <2>6. m \in 0 .. Weight[x + 1] - 1 /\ m \in Nat /\ m < 2 * Weight[x]
      BY <2>2, <2>5
    <2>7. m % Weight[x] = n /\ Bit(m, x) = b
      <3>1. /\ m % Weight[x] \in 0 .. Weight[x] - 1 /\ Bit(m, x) \in {0, 1}
            /\ m = Weight[x] * Bit(m, x) + (m % Weight[x])
        <4> HIDE DEF m
        <4> QED
          BY <2>1, <2>6, SplitAt
      <3> DEFINE c == Bit(m, x)
                 r == m % Weight[x]
                 v == Weight[x]
      <3>2. /\ v \in Nat /\ v >= 1 /\ n \in 0 .. v - 1 /\ r \in 0 .. v - 1
            /\ b \in {0, 1} /\ c \in {0, 1} /\ v * b + n = v * c + r
        BY <2>2, <3>1
      <3> HIDE DEF c, r, v, m
      <3>3. b = c /\ r = n
        BY <3>2
      <3> QED
        BY <3>3 DEF c, r
    <2> HIDE DEF m
    <2>8. ASSUME NEW i \in 0 .. (x + 1) - 1 PROVE (Bit(m, i) = 1) <=> (i \in p)
      <3>1. CASE i = x
        BY <2>5, <2>7, <3>1
      <3>2. CASE i # x
        <4>1. i \in Nat /\ i < x /\ i \in 0 .. x - 1
          BY <2>1, <3>2
        <4>2. Bit(m % Weight[x], i) = Bit(m, i)
          BY <2>1, <2>6, <4>1, BitOfRemainder
        <4> QED
          BY <2>4, <2>7, <3>2, <4>1, <4>2
      <3> QED
        BY <3>1, <3>2
    <2> QED
      BY <2>6, <2>8
  <1>3. S = Nat
    <2> HIDE DEF S
    <2>1. S \subseteq Nat
      BY DEF S
    <2> QED
      BY <1>1, <1>2, <2>1, SetInduction
  <1>4. w \in S
    BY <1>3
  <1> QED
    BY <1>4

(* & | ^.                                                                  *)

\* The bits of what & | ^ compute.
LEMMA MaskedIs ==
  ASSUME NEW op \in MaskOp, NEW x \in Int, NEW y \in Int
  PROVE  /\ Masked(op, x, y) \in 0 .. Modulus[4] - 1
         /\ \A i \in Position :
              (Bit(Masked(op, x, y), i) = 1)
                <=> i \in Combined(op, Pattern[x % Modulus[4]], Pattern[y % Modulus[4]])
  <1> DEFINE s == Combined(op, Pattern[x % Modulus[4]], Pattern[y % Modulus[4]])
             u == Masked(op, x, y)
  <1>1. /\ Modulus[4] = Weight[Width[4]] /\ Modulus[4] \in Nat /\ Modulus[4] >= 1
        /\ Width[4] \in Nat
    <2>1. 4 \in Size /\ Width[4] \in 0 .. Width[4] /\ Width[4] \in Nat
      BY WidthIs DEF Size
    <2>2. Modulus[4] = Weight[Width[4]]
      BY <2>1 DEF Modulus
    <2> QED
      BY <2>1, <2>2, WeightIs
  <1>2. DOMAIN Pattern = 0 .. Modulus[4] - 1
    BY DEF Pattern
  <1>3. ASSUME NEW n \in 0 .. Modulus[4] - 1
        PROVE  /\ Pattern[n] \in SUBSET Position
               /\ \A i \in Position : i \in Pattern[n] <=> Bit(n, i) = 1
    BY DEF Pattern, Bit
  <1>4. x % Modulus[4] \in 0 .. Modulus[4] - 1 /\ y % Modulus[4] \in 0 .. Modulus[4] - 1
    <2> DEFINE m == Modulus[4]
    <2>1. m \in Nat /\ m > 0
      BY <1>1
    <2> HIDE DEF m
    <2>2. x % m \in Int /\ 0 <= x % m /\ x % m < m /\ y % m \in Int /\ 0 <= y % m /\ y % m < m
      BY <2>1, DivMod
    <2> QED
      BY <2>1, <2>2 DEF m
  <1>5. s \in SUBSET Position
    <2>1. Pattern[x % Modulus[4]] \in SUBSET Position /\ Pattern[y % Modulus[4]] \in SUBSET Position
      BY <1>3, <1>4
    <2>2. \A p \in SUBSET Position, q \in SUBSET Position : Combined(op, p, q) \in SUBSET Position
      BY Zenon DEF Combined, MaskOp
    <2> QED
      BY <2>1, <2>2
  <1>6. \E n \in DOMAIN Pattern : Pattern[n] = s
    <2>1. PICK n \in 0 .. Modulus[4] - 1 : \A i \in Position : (Bit(n, i) = 1) <=> (i \in s)
      <3> HIDE DEF s
      <3> QED
        BY <1>1, <1>5, PatternExists DEF Position
    <2>2. Pattern[n] = s
      BY <1>3, <1>5, <2>1
    <2> QED
      BY <1>2, <2>2
  <1>7. u = CHOOSE n \in DOMAIN Pattern : Pattern[n] = s
    BY <1>5 DEF Masked, NumberOf
  <1>8. u \in 0 .. Modulus[4] - 1 /\ Pattern[u] = s
    <2> HIDE DEF s, u
    <2> QED
      BY <1>2, <1>6, <1>7
  <1> QED
    BY <1>3, <1>8

\* & | ^ respect congruence modulo every size.
LEMMA CongruentMask ==
  ASSUME NEW k \in Size, NEW a \in Int, NEW b \in Int, NEW c \in Int, NEW d \in Int,
         Congruent(a, b, Modulus[k]), Congruent(c, d, Modulus[k]), NEW op \in MaskOp
  PROVE  Congruent(Masked(op, a, c), Masked(op, b, d), Modulus[k])
  <1> DEFINE w == Width[k]
             m == Modulus[4]
             u == Masked(op, a, c)
             v == Masked(op, b, d)
  <1>1. /\ w \in Nat /\ w <= Width[4] /\ Modulus[k] = Weight[w] /\ m = Weight[Width[4]]
        /\ Weight[w] \in Nat /\ Weight[w] >= 1 /\ m \in Nat /\ m >= 1
        /\ Width[4] \in Nat
    <2>1. /\ w \in Nat /\ w <= Width[4] /\ w \in 0 .. Width[4] /\ Width[4] \in 0 .. Width[4]
          /\ Width[4] \in Nat
      BY WidthIs
    <2>2. Modulus[k] = Weight[w] /\ m = Weight[Width[4]]
      BY DEF Modulus, Size
    <2> QED
      BY <2>1, <2>2, WeightIs
  <1>2. PICK t \in Nat : m = t * Weight[w]
    <2>1. Width[4] - w \in Nat /\ w + (Width[4] - w) = Width[4] /\ Width[4] - w \in 0 .. Width[4]
      BY <1>1
    <2>2. Weight[w + (Width[4] - w)] = Weight[w] * Weight[Width[4] - w]
      BY <1>1, <2>1, WeightSum
    <2>3. Weight[Width[4] - w] \in Nat
      BY <2>1, WeightIs
    <2>4. m = Weight[Width[4] - w] * Weight[w]
      BY <1>1, <2>1, <2>2, <2>3
    <2> QED
      BY <2>3, <2>4
  \* Congruent numbers have the same bits below w.
  <1>3. ASSUME NEW x \in Int, NEW y \in Int, Congruent(x, y, Modulus[k]), NEW i \in 0 .. w - 1
        PROVE  i \in Pattern[x % m] <=> i \in Pattern[y % m]
    <2>1. i \in Nat /\ i < w /\ i \in Position
      BY <1>1 DEF Position
    <2>2. ASSUME NEW z \in Int
          PROVE  /\ z % m \in 0 .. m - 1 /\ z % m \in Nat
                 /\ Congruent((z % m) % Weight[w], z, Weight[w])
                 /\ (z % m) % Weight[w] \in 0 .. Weight[w] - 1
      <3> DEFINE g == Weight[w]
      <3>0. m \in Nat /\ m > 0 /\ g \in Nat /\ g > 0 /\ m = t * g
        BY <1>1, <1>2
      <3> HIDE DEF m, g, w
      <3>1. z % m \in Int /\ 0 <= z % m /\ z % m < m
        BY <3>0, DivMod
      <3>2. Congruent(z % m, z, g)
        BY <3>0, <3>1, CongruentRemainder, CongruentDivisor
      <3>3. (z % m) % g \in Int /\ 0 <= (z % m) % g /\ (z % m) % g < g
        BY <3>0, <3>1, DivMod
      <3>4. Congruent((z % m) % g, z % m, g)
        BY <3>0, <3>1, CongruentRemainder
      <3>5. Congruent((z % m) % g, z, g)
        BY <3>0, <3>1, <3>2, <3>3, <3>4, CongruentTransitive
      <3> QED
        BY <3>0, <3>1, <3>3, <3>5 DEF g
    <2>3. (x % m) % Weight[w] = (y % m) % Weight[w]
      <3> DEFINE g == Weight[w]
                 p == (x % m) % g
                 q == (y % m) % g
      <3>1. /\ p \in 0 .. g - 1 /\ q \in 0 .. g - 1 /\ g \in Nat
            /\ Congruent(p, x, g) /\ Congruent(q, y, g) /\ Congruent(x, y, g)
        BY <1>1, <1>3, <2>2
      <3> HIDE DEF g, p, q
      <3>2. p \in Int /\ q \in Int
        BY <3>1
      <3>3. Congruent(p, q, g)
        BY <3>1, <3>2, CongruentTransitive, CongruentSymmetric
      <3>4. PICK e \in Int : p - q = e * g
        BY <3>3 DEF Congruent
      <3>5. e = 0
        <4>1. ASSUME e >= 1 PROVE FALSE
          <5>1. (e - 1) * g >= 0 /\ (e - 1) * g = e * g - g
            BY <3>1, <4>1
          <5> QED
            BY <3>1, <3>4, <5>1
        <4>2. ASSUME e <= -1 PROVE FALSE
          <5>1. (-1 - e) * g >= 0 /\ (-1 - e) * g = -g - e * g
            BY <3>1, <4>2
          <5> QED
            BY <3>1, <3>4, <5>1
        <4> QED
          BY <4>1, <4>2
      <3>6. p = q
        BY <3>1, <3>2, <3>4, <3>5
      <3> QED
        BY <3>6 DEF p, q, g
    <2>4. Bit(x % m, i) = Bit(y % m, i)
      <3> DEFINE X == x % m
                 Y == y % m
      <3>1. X \in Nat /\ Y \in Nat
        BY <2>2
      <3> HIDE DEF X, Y, w
      <3>2. Bit(X % Weight[w], i) = Bit(X, i) /\ Bit(Y % Weight[w], i) = Bit(Y, i)
        BY <1>1, <2>1, <3>1, BitOfRemainder
      <3> QED
        BY <2>3, <3>2 DEF X, Y
    <2> QED
      BY <2>1, <2>2, <2>4 DEF Pattern, Bit
  <1>4. u \in 0 .. m - 1 /\ v \in 0 .. m - 1
    BY MaskedIs
  <1>5. ASSUME NEW i \in 0 .. w - 1 PROVE (Bit(u, i) = 1) <=> (Bit(v, i) = 1)
    <2>1. i \in Position
      BY <1>1 DEF Position
    <2>2. /\ i \in Pattern[a % m] <=> i \in Pattern[b % m]
          /\ i \in Pattern[c % m] <=> i \in Pattern[d % m]
      BY <1>3
    <2>3. i \in Combined(op, Pattern[a % m], Pattern[c % m])
            <=> i \in Combined(op, Pattern[b % m], Pattern[d % m])
      <3> DEFINE A == Pattern[a % m]
                 B == Pattern[b % m]
                 C == Pattern[c % m]
                 D == Pattern[d % m]
      <3> HIDE DEF A, B, C, D
      <3>1. (i \in A <=> i \in B) /\ (i \in C <=> i \in D)
        BY <2>2 DEF A, B, C, D
      <3>2. i \in Combined(op, A, C) <=> i \in Combined(op, B, D)
        BY <3>1, Zenon DEF Combined, MaskOp
      <3> QED
        BY <3>2 DEF A, B, C, D
    <2>4. (Bit(u, i) = 1) <=> i \in Combined(op, Pattern[a % m], Pattern[c % m])
      BY <2>1, MaskedIs
    <2>5. (Bit(v, i) = 1) <=> i \in Combined(op, Pattern[b % m], Pattern[d % m])
      BY <2>1, MaskedIs
    <2> QED
      BY <2>3, <2>4, <2>5
  <1> HIDE DEF w, m, u, v
  <1>6. u \in Nat /\ v \in Nat
    BY <1>1, <1>4
  <1>7. ASSUME NEW n \in Nat, NEW i \in Nat PROVE Bit(n, i) \in {0, 1} \/ Weight[i] \notin Nat \ {0}
    <2>1. SUFFICES ASSUME Weight[i] \in Nat \ {0} PROVE Bit(n, i) \in {0, 1}
      OBVIOUS
    <2>2. n \div Weight[i] \in Int
      BY <2>1
    <2> QED
      BY <2>2 DEF Bit
  <1>8. \A i \in 0 .. w - 1 : Bit(u % Weight[w], i) = Bit(v % Weight[w], i)
    <2> SUFFICES ASSUME NEW i \in 0 .. w - 1 PROVE Bit(u % Weight[w], i) = Bit(v % Weight[w], i)
      OBVIOUS
    <2>1. i \in Nat /\ i < w /\ i \in 0 .. Width[4]
      BY <1>1
    <2>2. Weight[i] \in Nat \ {0}
      BY <2>1, WeightIs
    <2>3. Bit(u, i) \in {0, 1} /\ Bit(v, i) \in {0, 1}
      BY <1>6, <1>7, <2>1, <2>2
    <2>4. Bit(u % Weight[w], i) = Bit(u, i) /\ Bit(v % Weight[w], i) = Bit(v, i)
      BY <1>1, <1>6, <2>1, BitOfRemainder
    <2> QED
      BY <1>5, <2>3, <2>4
  <1> DEFINE g == Weight[w]
  <1>9. g \in Nat /\ g > 0 /\ Modulus[k] = g /\ u \in Int /\ v \in Int
    BY <1>1, <1>6
  <1>10. u % g \in 0 .. g - 1 /\ v % g \in 0 .. g - 1
    <2> HIDE DEF g
    <2>1. u % g \in Int /\ 0 <= u % g /\ u % g < g /\ v % g \in Int /\ 0 <= v % g /\ v % g < g
      BY <1>9, DivMod
    <2> QED
      BY <1>9, <2>1
  <1>11. u % g = v % g
    BY <1>1, <1>8, <1>10, BitsDetermine
  <1>12. Congruent(u, v, g)
    <2> HIDE DEF g
    <2>1. u % g \in Int /\ v % g \in Int
      BY <1>9, <1>10
    <2>2. Congruent(u, u % g, g) /\ Congruent(v % g, v, g)
      BY <1>9, <2>1, CongruentRemainder, CongruentSymmetric
    <2> QED
      BY <1>9, <1>11, <2>1, <2>2, CongruentTransitive
  <1> QED
    BY <1>9, <1>12 DEF u, v

-----------------------------------------------------------------------------
(* What the operators compute *)

\* What the three ring operations compute, one by one.
LEMMA ExactIs ==
  ASSUME NEW a, NEW b
  PROVE  /\ Exact("+", a, b) = a + b
         /\ Exact("-", a, b) = a - b
         /\ Exact("*", a, b) = a * b
         /\ Exact("/", a, b) = Quotient(a, b)
         /\ Exact("%", a, b) = Remainder(a, b)
         /\ \A op \in MaskOp : Exact(op, a, b) = Masked(op, a, b)
  <1>0. /\ "+" \notin MaskOp /\ "-" \notin MaskOp /\ "*" \notin MaskOp
        /\ "/" \notin MaskOp /\ "%" \notin MaskOp
    BY DEF MaskOp
  <1>1. /\ Exact("+", a, b) = a + b
        /\ Exact("-", a, b) = a - b
        /\ Exact("*", a, b) = a * b
        /\ Exact("/", a, b) = Quotient(a, b)
        /\ Exact("%", a, b) = Remainder(a, b)
    BY <1>0, Zenon DEF Exact
  <1>2. ASSUME NEW op \in MaskOp PROVE Exact(op, a, b) = Masked(op, a, b)
    <2>1. op # "+" /\ op # "-" /\ op # "*" /\ op # "/" /\ op # "%"
      BY DEF MaskOp
    <2> QED
      BY <2>1, Zenon DEF Exact
  <1> QED
    BY <1>1, <1>2

\* +, - and * respect congruence.
LEMMA CongruentRing ==
  ASSUME NEW a \in Int, NEW b \in Int, NEW c \in Int, NEW d \in Int, NEW m \in Nat,
         Congruent(a, b, m), Congruent(c, d, m), NEW op \in RingOp
  PROVE  Congruent(Exact(op, a, c), Exact(op, b, d), m)
  <1>1. PICK q \in Int : a - b = q * m
    BY DEF Congruent
  <1>2. PICK p \in Int : c - d = p * m
    BY DEF Congruent
  <1>3. CASE op = "+"
    <2>1. q + p \in Int /\ (a + c) - (b + d) = (q + p) * m
      BY <1>1, <1>2
    <2>2. Congruent(a + c, b + d, m)
      BY Zenon, <2>1 DEF Congruent
    <2> QED
      BY <1>3, <2>2, ExactIs
  <1>4. CASE op = "-"
    <2>1. q - p \in Int /\ (a - c) - (b - d) = (q - p) * m
      BY <1>1, <1>2
    <2>2. Congruent(a - c, b - d, m)
      BY Zenon, <2>1 DEF Congruent
    <2> QED
      BY <1>4, <2>2, ExactIs
  <1>5. CASE op = "*"
    <2>1. (a * c) - (b * d) = a * (c - d) + d * (a - b)
      OBVIOUS
    <2>2. a * p + d * q \in Int /\ (a * c) - (b * d) = (a * p + d * q) * m
      BY <1>1, <1>2, <2>1
    <2>3. Congruent(a * c, b * d, m)
      BY Zenon, <2>2 DEF Congruent
    <2> QED
      BY <1>5, <2>3, ExactIs
  <1> QED
    BY <1>3, <1>4, <1>5 DEF RingOp

\* So do + - * & | ^, modulo every size.
LEMMA CongruentExact ==
  ASSUME NEW k \in Size, NEW a \in Int, NEW b \in Int, NEW c \in Int, NEW d \in Int,
         Congruent(a, b, Modulus[k]), Congruent(c, d, Modulus[k]), NEW op \in ChainOp
  PROVE  Congruent(Exact(op, a, c), Exact(op, b, d), Modulus[k])
  <1>1. CASE op \in RingOp
    <2>1. Modulus[k] \in Nat
      BY ModulusSquares
    <2> QED
      BY <1>1, <2>1, CongruentRing
  <1>2. CASE op \in MaskOp
    <2>1. Exact(op, a, c) = Masked(op, a, c) /\ Exact(op, b, d) = Masked(op, b, d)
      BY <1>2, ExactIs
    <2> QED
      BY <1>2, <2>1, CongruentMask
  <1> QED
    BY <1>1, <1>2 DEF ChainOp

\* They compute integers.
LEMMA RingInt ==
  ASSUME NEW a \in Int, NEW b \in Int, NEW op \in ChainOp
  PROVE  Exact(op, a, b) \in Int
  <1>1. CASE op \in RingOp
    BY <1>1, ExactIs DEF RingOp
  <1>2. CASE op \in MaskOp
    <2>0. Exact(op, a, b) = Masked(op, a, b)
      BY <1>2, ExactIs
    <2>1. Exact(op, a, b) \in 0 .. Modulus[4] - 1
      BY <1>2, <2>0, MaskedIs
    <2>2. Modulus[4] \in Nat
      BY ModulusSquares DEF Size
    <2> QED
      BY <2>1, <2>2
  <1> QED
    BY <1>1, <1>2 DEF ChainOp

(* The sizes and the types.                                                *)

\* Every size has a positive, even number of values.
LEMMA ModulusEven ==
  \A k \in Size : /\ Modulus[k] \in Nat
                  /\ \E h \in Nat \ {0} : Modulus[k] = 2 * h /\ Modulus[k] \div 2 = h
  <1>1. \A m \in Nat : m > 0 /\ m % 2 = 0 =>
          \E h \in Nat \ {0} : m = 2 * h /\ m \div 2 = h
    OBVIOUS
  <1>2. \A h \in Nat \ {0} :
          /\ (2 * h) * (2 * h) = 2 * (2 * h * h)
          /\ 2 * h * h \in Nat \ {0}
          /\ (2 * (2 * h * h)) \div 2 = 2 * h * h
    OBVIOUS
  <1>3. \A k \in 1..3 :
          (\E h \in Nat \ {0} : Modulus[k] = 2 * h) =>
            \E h \in Nat \ {0} : Modulus[k + 1] = 2 * h /\ Modulus[k + 1] \div 2 = h
    BY <1>2, ModulusSquares
  <1>4. \E h \in Nat \ {0} : Modulus[1] = 2 * h /\ Modulus[1] \div 2 = h
    BY <1>1, ModulusSquares DEF Size
  <1>5. \E h \in Nat \ {0} : Modulus[2] = 2 * h /\ Modulus[2] \div 2 = h
    BY <1>3, <1>4
  <1>6. \E h \in Nat \ {0} : Modulus[3] = 2 * h /\ Modulus[3] \div 2 = h
    BY <1>3, <1>5
  <1>7. \E h \in Nat \ {0} : Modulus[4] = 2 * h /\ Modulus[4] \div 2 = h
    BY <1>3, <1>6
  <1> QED
    BY <1>4, <1>5, <1>6, <1>7, ModulusSquares DEF Size

\* The values of a smaller size divide those of a larger one evenly.
LEMMA ModulusDivides ==
  ASSUME NEW j \in Size, NEW k \in Size, j <= k
  PROVE  \E q \in Nat : Modulus[k] = q * Modulus[j]
  <1> DEFINE D(a, b) == \E q \in Nat : Modulus[b] = q * Modulus[a]
  <1>1. \A i \in Size : D(i, i)
    <2>1. \A i \in Size : Modulus[i] = 1 * Modulus[i]
      BY ModulusEven
    <2> QED
      BY <2>1
  <1>2. \A i \in 1..3, a \in Size : D(a, i) => D(a, i + 1)
    <2> SUFFICES ASSUME NEW i \in 1..3, NEW a \in Size, D(a, i) PROVE D(a, i + 1)
      OBVIOUS
    <2>1. PICK q \in Nat : Modulus[i] = q * Modulus[a]
      OBVIOUS
    <2>2. /\ Modulus[i] \in Nat /\ Modulus[a] \in Nat
          /\ Modulus[i + 1] = Modulus[i] * Modulus[i]
      BY ModulusEven, ModulusSquares DEF Size
    <2>3. Modulus[i] * q \in Nat /\ Modulus[i + 1] = (Modulus[i] * q) * Modulus[a]
      BY <2>1, <2>2
    <2> QED
      BY Zenon, <2>3
  <1> HIDE DEF D
  <1>3. D(1, 2) /\ D(2, 3) /\ D(3, 4)
    BY <1>1, <1>2 DEF Size
  <1>4. D(1, 3) /\ D(2, 4)
    BY <1>2, <1>3 DEF Size
  <1>5. D(1, 4)
    BY <1>2, <1>4 DEF Size
  <1>6. D(j, k)
    BY <1>1, <1>3, <1>4, <1>5 DEF Size
  <1> QED
    BY <1>6 DEF D

\* Operators compute in a type of one of the four sizes.
LEMMA CommonIsInteger ==
  ASSUME NEW a \in Type, NEW b \in Type
  PROVE  Common(a, b) \in IntegerType
  <1>1. LiftBool(a) \in IntegerType /\ LiftBool(b) \in IntegerType
    BY DEF LiftBool, Type, IntegerType, Signed, IntegerOf, IntSize, Size
  <1>2. \A t \in IntegerType : WidenSigned(t) \in IntegerType
    BY DEF WidenSigned, IntegerType, Signed, Unsigned, IntegerOf, Size
  <1> QED
    BY <1>1, <1>2 DEF Common, CommonInteger

\* Where the values of an integer type lie.
LEMMA RangeOf ==
  ASSUME NEW t \in IntegerType
  PROVE  /\ t # Bool /\ t.size \in Size /\ t.signed \in BOOLEAN
         /\ Modulus[t.size] \in Nat \ {0} /\ Lowest(t) \in Int /\ Lowest(t) <= 0
         /\ Values(t) = Lowest(t) .. Lowest(t) + Modulus[t.size] - 1
         /\ 0 \in Values(t)
  <1>1. t # Bool /\ t.size \in Size /\ t.signed \in BOOLEAN
    BY DEF IntegerType, Bool, IntegerOf, Size
  <1>2. PICK h \in Nat \ {0} : Modulus[t.size] = 2 * h /\ Modulus[t.size] \div 2 = h
    BY <1>1, ModulusEven
  <1> QED
    BY <1>1, <1>2 DEF Lowest, Highest, Values

\* A conversion to an integer type yields one of its values, congruent to the
\* value converted.
LEMMA CastCongruent ==
  ASSUME NEW t \in IntegerType, NEW v \in Int
  PROVE  Cast(t, v) \in Values(t) /\ Cast(t, v) \in Int /\ Congruent(Cast(t, v), v, Modulus[t.size])
  <1> DEFINE m == Modulus[t.size]
             lo == Lowest(t)
  <1>1. m \in Nat \ {0} /\ lo \in Int /\ Values(t) = lo .. lo + m - 1 /\ t # Bool
    BY RangeOf
  <1>2. Cast(t, v) = lo + ((v - lo) % m)
    BY <1>1 DEF Cast
  <1> HIDE DEF m, lo
  <1>3. v - lo \in Int /\ m \in Nat /\ m > 0
    BY <1>1
  <1>4. (v - lo) % m \in Int /\ 0 <= (v - lo) % m /\ (v - lo) % m < m
    BY <1>3, DivMod
  <1>5. PICK q \in Int : ((v - lo) % m) - (v - lo) = q * m
    BY <1>3, CongruentRemainder DEF Congruent
  <1>6. Cast(t, v) - v = q * m
    BY <1>1, <1>2, <1>4, <1>5
  <1>7. Cast(t, v) \in Int /\ Cast(t, v) \in Values(t)
    BY <1>1, <1>2, <1>4
  <1>8. Congruent(Cast(t, v), v, m)
    BY Zenon, <1>6 DEF Congruent
  <1> QED
    BY <1>7, <1>8 DEF m

\* A conversion keeps a value the type has.
LEMMA CastExact ==
  ASSUME NEW t \in IntegerType, NEW v \in Values(t)
  PROVE  Cast(t, v) = v
  <1> DEFINE m == Modulus[t.size]
             lo == Lowest(t)
  <1>1. m \in Nat \ {0} /\ lo \in Int /\ v \in lo .. lo + m - 1 /\ t # Bool
    BY RangeOf
  <1>2. Cast(t, v) = lo + ((v - lo) % m)
    BY <1>1 DEF Cast
  <1> HIDE DEF m, lo
  <1>3. (v - lo) % m = v - lo
    BY <1>1, SmallMod
  <1> QED
    BY <1>1, <1>2, <1>3

(* Typing, and the chain against mathematics.                              *)

IInv ==
  /\ TypeOK
  /\ defined => Congruent(obj.value, exact, Modulus[narrowest])

\* An operation in an integer type yields a value of the type.
LEMMA OutcomesTyped ==
  ASSUME NEW c \in IntegerType, NEW x \in Int, NEW y \in Int, NEW op \in ChainOp \union DivOp,
         NEW v \in Outcomes(op, c, x, y)
  PROVE  v \in Values(c) /\ v \in Int
  <1>1. CASE Defined(op, c, x, y)
    <2>1. v = Cast(c, Exact(op, x, y))
      BY <1>1 DEF Outcomes
    <2>2. Exact(op, x, y) \in Int
      <3>1. CASE op \in ChainOp
        BY <3>1, RingInt
      <3>2. CASE op \in DivOp
        <4>1. y # 0
          BY <1>1, <3>2 DEF Defined
        <4>2. /\ Magnitude(x) \in Nat /\ Magnitude(y) \in Nat
              /\ Magnitude(y) > 0
          BY <4>1 DEF Magnitude
        <4>3. Magnitude(x) \div Magnitude(y) \in Int
          BY <4>2, DivMod
        <4>4. Quotient(x, y) \in Int
          BY <4>3 DEF Quotient
        <4>5. Remainder(x, y) \in Int
          BY <4>4 DEF Remainder
        <4> QED
          BY <3>2, <4>4, <4>5, ExactIs DEF DivOp
      <3> QED
        BY <3>1, <3>2
    <2> QED
      BY <2>1, <2>2, CastCongruent
  <1>2. CASE ~Defined(op, c, x, y)
    BY <1>2, RangeOf DEF Outcomes
  <1> QED
    BY <1>1, <1>2

\* An object of an integer type with one of its values is an object.
LEMMA IsObject ==
  ASSUME NEW c \in IntegerType, NEW v \in Values(c)
  PROVE  [type |-> c, value |-> v] \in Object
  <1>1. v \in Int
    BY RangeOf
  <1> QED
    BY <1>1 DEF Object, Type

\* Reducing the exact result modulo the largest size keeps what it is congruent
\* to, modulo every size.
LEMMA ReducedExact ==
  ASSUME NEW e \in Int, NEW k \in Size
  PROVE  /\ e % Modulus[4] \in Int /\ e % Modulus[4] \in 0 .. Modulus[4] - 1
         /\ Congruent(e, e % Modulus[4], Modulus[k])
  <1>1. /\ Modulus[4] \in Nat /\ Modulus[4] > 0 /\ Modulus[k] \in Nat
        /\ 4 \in Size /\ k <= 4
    BY ModulusEven DEF Size
  <1>2. e % Modulus[4] \in Int /\ 0 <= e % Modulus[4] /\ e % Modulus[4] < Modulus[4]
    BY <1>1, DivMod
  <1>3. Congruent(e, e % Modulus[4], Modulus[4])
    BY <1>1, <1>2, CongruentRemainder, CongruentSymmetric
  <1>4. PICK q \in Nat : Modulus[4] = q * Modulus[k]
    BY <1>1, ModulusDivides
  <1>5. Congruent(e, e % Modulus[4], Modulus[k])
    BY <1>1, <1>2, <1>3, <1>4, CongruentDivisor
  <1> QED
    BY <1>1, <1>2, <1>5

\* The steps that replace the object by an outcome keep the invariant, when
\* what they compute is congruent to what the history variable computes.
LEMMA ComputedKeeps ==
  ASSUME IInv, defined, length' \in 0 .. MaxLength,
         NEW op \in ChainOp, NEW c \in IntegerType,
         NEW x \in Int, NEW y \in Int, NEW e \in Int,
         Congruent(Exact(op, x, y), e, Modulus[Smaller(narrowest, c.size)]),
         Computed(op, c, x, y, e)
  PROVE  IInv'
  <1> DEFINE k == Smaller(narrowest, c.size)
  <1>1. c.size \in Size /\ narrowest \in Size /\ k \in Size /\ k <= c.size
    BY RangeOf DEF IInv, TypeOK, Smaller, Size
  <1>2. Modulus[k] \in Nat /\ Modulus[c.size] \in Nat
    BY <1>1, ModulusEven
  <1>3. /\ exact' = e % Modulus[4] /\ narrowest' = k
        /\ defined' = (defined /\ Defined(op, c, x, y))
    BY DEF Computed
  <1>4. PICK v \in Outcomes(op, c, x, y) : obj' = [type |-> c, value |-> v]
    BY DEF Computed
  <1>5. v \in Values(c) /\ v \in Int
    BY OutcomesTyped
  <1> HIDE DEF k
  <1>6. /\ exact' \in Int /\ exact' \in 0 .. Modulus[4] - 1
        /\ Congruent(e, exact', Modulus[k])
    BY <1>1, <1>3, ReducedExact
  <1>7. TypeOK'
    <2>1. obj' \in Object
      BY <1>4, <1>5, IsObject
    <2>2. defined' \in BOOLEAN
      BY <1>3
    <2> QED
      BY <1>1, <1>3, <1>6, <2>1, <2>2 DEF TypeOK
  <1>8. ASSUME defined' PROVE Congruent(obj'.value, exact', Modulus[narrowest'])
    <2>1. v = Cast(c, Exact(op, x, y)) /\ Exact(op, x, y) \in Int
      BY <1>3, <1>4, <1>8, RingInt DEF Outcomes
    <2>2. Congruent(v, Exact(op, x, y), Modulus[c.size])
      BY <2>1, CastCongruent
    <2>3. PICK q \in Nat : Modulus[c.size] = q * Modulus[k]
      BY <1>1, ModulusDivides
    <2>4. Congruent(v, Exact(op, x, y), Modulus[k])
      BY <1>2, <1>5, <2>1, <2>2, <2>3, CongruentDivisor
    <2>5. Congruent(v, e, Modulus[k])
      BY <1>2, <1>5, <2>1, <2>4, CongruentTransitive DEF k
    <2>6. Congruent(v, exact', Modulus[k])
      BY <1>2, <1>5, <1>6, <2>5, CongruentTransitive
    <2> QED
      BY <1>3, <1>4, <2>6
  <1> QED
    BY <1>7, <1>8 DEF IInv

\* What the invariant says of the object, modulo any size as narrow.
LEMMA ObjectFacts ==
  ASSUME IInv, defined
  PROVE  /\ obj.type \in Type /\ obj.value \in Int /\ exact \in Int /\ narrowest \in Size
         /\ obj.type # Bool => obj.type \in IntegerType
         /\ \A k \in Size : k <= narrowest => Congruent(obj.value, exact, Modulus[k])
  <1>1. /\ obj.type \in Type /\ obj.value \in Int /\ exact \in 0 .. Modulus[4] - 1
        /\ narrowest \in Size
        /\ obj.type # Bool => obj.type \in IntegerType
    BY DEF IInv, TypeOK, Object, Type
  <1>2. exact \in Int
    BY <1>1, ModulusEven DEF Size
  <1>3. ASSUME NEW k \in Size, k <= narrowest
        PROVE  Congruent(obj.value, exact, Modulus[k])
    <2>1. PICK q \in Nat : Modulus[narrowest] = q * Modulus[k]
      BY <1>1, <1>3, ModulusDivides
    <2>2. /\ Modulus[narrowest] \in Nat /\ Modulus[k] \in Nat
          /\ Congruent(obj.value, exact, Modulus[narrowest])
      BY <1>1, ModulusEven DEF IInv
    <2> QED
      BY <1>1, <1>2, <2>1, <2>2, CongruentDivisor
  <1> QED
    BY <1>1, <1>2, <1>3

\* The narrower of two sizes.
LEMMA SmallerIs ==
  ASSUME NEW j \in Size, NEW k \in Size
  PROVE  Smaller(j, k) \in Size /\ Smaller(j, k) <= j /\ Smaller(j, k) <= k
  BY DEF Smaller, Size

\* A converted operand, modulo any size as narrow as the type.
LEMMA CastCongruentBelow ==
  ASSUME NEW c \in IntegerType, NEW v \in Int, NEW k \in Size, k <= c.size
  PROVE  Cast(c, v) \in Int /\ Congruent(Cast(c, v), v, Modulus[k])
  <1>1. /\ c.size \in Size /\ Modulus[k] \in Nat /\ Modulus[c.size] \in Nat
    BY RangeOf, ModulusEven
  <1>2. PICK q \in Nat : Modulus[c.size] = q * Modulus[k]
    BY <1>1, ModulusDivides
  <1> QED
    BY <1>1, <1>2, CastCongruent, CongruentDivisor

\* Binary operators, the object on the left.
LEMMA WithRightKeeps ==
  ASSUME IInv, defined, length' \in 0 .. MaxLength, NEW op \in ChainOp, NEW r \in Operand,
         WithRight(op, r)
  PROVE  IInv'
  <1> DEFINE c == Common(obj.type, r.type)
             k == Smaller(narrowest, c.size)
  <1>1. r.type \in Type /\ r.value \in Int
    BY OperandAssumption DEF Object
  <1>2. c \in IntegerType
    BY <1>1, ObjectFacts, CommonIsInteger
  <1>3. c.size \in Size /\ k \in Size /\ k <= narrowest /\ k <= c.size /\ Modulus[k] \in Nat
    BY <1>2, ObjectFacts, RangeOf, SmallerIs, ModulusEven
  <1>4. Computed(op, c, Cast(c, obj.value), Cast(c, r.value), Exact(op, exact, r.value))
    BY DEF WithRight, Binary, Left, Right
  <1> HIDE DEF c
  <1>5. /\ Cast(c, obj.value) \in Int /\ Congruent(Cast(c, obj.value), obj.value, Modulus[k])
        /\ Cast(c, r.value) \in Int /\ Congruent(Cast(c, r.value), r.value, Modulus[k])
        /\ Congruent(obj.value, exact, Modulus[k]) /\ exact \in Int /\ obj.value \in Int
    BY <1>1, <1>2, <1>3, ObjectFacts, CastCongruentBelow
  <1>6. Congruent(Cast(c, obj.value), exact, Modulus[k])
    BY <1>3, <1>5, CongruentTransitive
  <1>7. Congruent(Exact(op, Cast(c, obj.value), Cast(c, r.value)), Exact(op, exact, r.value), Modulus[k])
    BY <1>1, <1>3, <1>5, <1>6, CongruentExact
  <1>8. Exact(op, exact, r.value) \in Int
    BY <1>1, <1>5, RingInt
  <1> QED
    BY <1>2, <1>4, <1>5, <1>7, <1>8, ComputedKeeps

\* Binary operators, the object on the right.
LEMMA WithLeftKeeps ==
  ASSUME IInv, defined, length' \in 0 .. MaxLength, NEW op \in ChainOp, NEW l \in Operand,
         WithLeft(op, l)
  PROVE  IInv'
  <1> DEFINE c == Common(l.type, obj.type)
             k == Smaller(narrowest, c.size)
  <1>1. l.type \in Type /\ l.value \in Int
    BY OperandAssumption DEF Object
  <1>2. c \in IntegerType
    BY <1>1, ObjectFacts, CommonIsInteger
  <1>3. c.size \in Size /\ k \in Size /\ k <= narrowest /\ k <= c.size /\ Modulus[k] \in Nat
    BY <1>2, ObjectFacts, RangeOf, SmallerIs, ModulusEven
  <1>4. Computed(op, c, Cast(c, l.value), Cast(c, obj.value), Exact(op, l.value, exact))
    BY DEF WithLeft, Binary, Left, Right
  <1> HIDE DEF c
  <1>5. /\ Cast(c, obj.value) \in Int /\ Congruent(Cast(c, obj.value), obj.value, Modulus[k])
        /\ Cast(c, l.value) \in Int /\ Congruent(Cast(c, l.value), l.value, Modulus[k])
        /\ Congruent(obj.value, exact, Modulus[k]) /\ exact \in Int /\ obj.value \in Int
    BY <1>1, <1>2, <1>3, ObjectFacts, CastCongruentBelow
  <1>6. Congruent(Cast(c, obj.value), exact, Modulus[k])
    BY <1>3, <1>5, CongruentTransitive
  <1>7. Congruent(Exact(op, Cast(c, l.value), Cast(c, obj.value)), Exact(op, l.value, exact), Modulus[k])
    BY <1>1, <1>3, <1>5, <1>6, CongruentExact
  <1>8. Exact(op, l.value, exact) \in Int
    BY <1>1, <1>5, RingInt
  <1> QED
    BY <1>2, <1>4, <1>5, <1>7, <1>8, ComputedKeeps

\* Operations that compute in the type of the object, from any operand that is
\* congruent to what mathematics has: compound assignments, ++ and --.
LEMMA InPlaceKeeps ==
  ASSUME IInv, defined, length' \in 0 .. MaxLength, NEW op \in ChainOp, obj.type # Bool,
         NEW y \in Int, NEW d \in Int, Congruent(y, d, Modulus[obj.type.size]),
         Computed(op, obj.type, obj.value, y, Exact(op, exact, d))
  PROVE  IInv'
  <1> DEFINE c == obj.type
             k == Smaller(narrowest, c.size)
  <1>1. /\ c \in IntegerType /\ c.size \in Size /\ obj.value \in Int /\ exact \in Int
        /\ k \in Size /\ k <= narrowest /\ k <= c.size
        /\ Modulus[k] \in Nat /\ Modulus[c.size] \in Nat
        /\ Congruent(obj.value, exact, Modulus[k])
    BY ObjectFacts, RangeOf, SmallerIs, ModulusEven
  <1>2. PICK q \in Nat : Modulus[c.size] = q * Modulus[k]
    BY <1>1, ModulusDivides
  <1> HIDE DEF c, k
  <1>3. Congruent(y, d, Modulus[k])
    BY <1>1, <1>2, CongruentDivisor DEF c
  <1>4. Congruent(Exact(op, obj.value, y), Exact(op, exact, d), Modulus[k])
    BY <1>1, <1>3, CongruentExact
  <1>5. Exact(op, exact, d) \in Int
    BY <1>1, RingInt
  <1> QED
    BY <1>1, <1>4, <1>5, ComputedKeeps DEF c, k

\* Operations that subtract the object from a constant: unary - and ~.
LEMMA FromConstantKeeps ==
  ASSUME IInv, defined, length' \in 0 .. MaxLength, obj.type # Bool,
         NEW x \in Int, NEW e \in Int, e = x - exact,
         Computed("-", obj.type, x, obj.value, e)
  PROVE  IInv'
  <1> DEFINE c == obj.type
             k == Smaller(narrowest, c.size)
  <1>1. /\ c \in IntegerType /\ obj.value \in Int /\ exact \in Int
        /\ k \in Size /\ Modulus[k] \in Nat /\ Congruent(obj.value, exact, Modulus[k])
    BY ObjectFacts, RangeOf, SmallerIs, ModulusEven
  <1>2. "-" \in ChainOp /\ Congruent(x, x, Modulus[k])
    BY <1>1, CongruentReflexive DEF ChainOp, RingOp
  <1>3. Congruent(Exact("-", x, obj.value), Exact("-", x, exact), Modulus[k])
    BY <1>1, <1>2, CongruentExact
  <1>4. Congruent(Exact("-", x, obj.value), e, Modulus[k])
    BY <1>3, ExactIs
  <1> QED
    BY <1>1, <1>2, <1>4, ComputedKeeps

\* The chain starts again: from a value of the type, everything is exact.
LEMMA RestartKeeps ==
  ASSUME IInv, length' \in 0 .. MaxLength, defined' \in BOOLEAN,
         NEW t, NEW v \in Int, [type |-> t, value |-> v] \in Object, Restart(t, v)
  PROVE  IInv'
  <1>1. 4 \in Size
    BY DEF Size
  <1>2. /\ obj' = [type |-> t, value |-> v] /\ exact' = v % Modulus[4] /\ narrowest' = 4
    BY DEF Restart
  <1>3. exact' \in 0 .. Modulus[4] - 1 /\ Congruent(v, exact', Modulus[4])
    BY <1>1, <1>2, ReducedExact
  <1> QED
    BY <1>1, <1>2, <1>3 DEF IInv, TypeOK

LEMMA ConvertKeeps ==
  ASSUME IInv, defined, length' \in 0 .. MaxLength, NEW t \in Type, Convert(t)
  PROVE  IInv'
  <1>1. defined' = defined /\ defined' \in BOOLEAN
    BY DEF Convert, IInv, TypeOK
  <1>2. CASE t = Bool
    <2>1. Restart(t, Cast(t, obj.value))
      BY <1>2 DEF Convert
    <2>2. Cast(t, obj.value) \in {0, 1}
      BY <1>2 DEF Cast
    <2>3. [type |-> t, value |-> Cast(t, obj.value)] \in Object
      <3>1. Bool \notin IntegerType
        BY DEF Bool, IntegerOf, IntegerType, Size
      <3> QED
        BY <1>2, <2>2, <3>1 DEF Object, Type, Values, Lowest, Highest
    <2> QED
      BY <1>1, <2>1, <2>2, <2>3, RestartKeeps
  <1>3. CASE t # Bool
    <2> DEFINE v == Cast(t, obj.value)
               k == Smaller(narrowest, t.size)
    <2>1. /\ obj' = [type |-> t, value |-> v] /\ narrowest' = k /\ exact' = exact
      BY <1>3 DEF Convert
    <2>2. t \in IntegerType
      BY <1>3 DEF Type
    <2>3. /\ obj.value \in Int /\ exact \in Int /\ t.size \in Size /\ k \in Size
          /\ k <= narrowest /\ k <= t.size /\ Modulus[k] \in Nat
          /\ Congruent(obj.value, exact, Modulus[k])
      BY <2>2, ObjectFacts, RangeOf, SmallerIs, ModulusEven
    <2>4. v \in Values(t) /\ v \in Int
      BY <2>2, <2>3, CastCongruent
    <2> HIDE DEF k
    <2>5. Congruent(v, obj.value, Modulus[k])
      BY <2>2, <2>3, CastCongruentBelow
    <2>6. Congruent(v, exact, Modulus[k])
      BY <2>3, <2>4, <2>5, CongruentTransitive
    <2>7. obj' \in Object
      BY <2>1, <2>2, <2>4, IsObject
    <2>8. TypeOK'
      BY <1>1, <2>1, <2>3, <2>7 DEF IInv, TypeOK
    <2> QED
      BY <2>1, <2>6, <2>8 DEF IInv
  <1> QED
    BY <1>2, <1>3

LEMMA DivideInKeeps ==
  ASSUME IInv, length' \in 0 .. MaxLength, NEW op \in DivOp,
         NEW c \in IntegerType, NEW x \in Int, NEW y \in Int, DivideIn(op, c, x, y)
  PROVE  IInv'
  <1>1. PICK v \in Outcomes(op, c, x, y) : Restart(c, v)
    BY DEF DivideIn
  <1>2. v \in Values(c) /\ v \in Int
    BY OutcomesTyped
  <1>3. defined' \in BOOLEAN
    BY DEF DivideIn
  <1> QED
    BY <1>1, <1>2, <1>3, IsObject, RestartKeeps

\* A shift yields a value of the type of its left operand.
LEMMA ShiftTyped ==
  ASSUME NEW t \in IntegerType, NEW x \in Int, NEW n \in Int, NEW op,
         NEW v \in ShiftOutcomes(op, t, x, n)
  PROVE  v \in Values(t) /\ v \in Int
  <1>1. CASE ShiftDefined(t, n)
    <2>1. n \in 0 .. Width[4]
      <3>1. Promoted(t).size \in Size
        BY DEF Promoted, IntSize, Signed, IntegerOf, IntegerType, Size
      <3> QED
        BY <1>1, <3>1, WidthIs DEF ShiftDefined
    <2>2. Weight[n] \in Nat /\ Weight[n] >= 1
      BY <2>1, WeightIs
    <2>3. Shifted(op, x, n) \in Int
      BY <2>2, DivMod DEF Shifted
    <2> QED
      BY <1>1, <2>3, CastCongruent DEF ShiftOutcomes
  <1>2. CASE ~ShiftDefined(t, n)
    BY <1>2, RangeOf DEF ShiftOutcomes
  <1> QED
    BY <1>1, <1>2

\* A shift to the left is a multiplication.
LEMMA ShiftLeftKeeps ==
  ASSUME IInv, defined, length' \in 0 .. MaxLength, obj.type # Bool, NEW n \in Int, ShiftLeft(n)
  PROVE  IInv'
  <1> DEFINE c == obj.type
             k == Smaller(narrowest, c.size)
  <1>1. /\ c \in IntegerType /\ obj.value \in Int /\ exact \in Int
        /\ k \in Size /\ k <= c.size /\ Modulus[k] \in Nat /\ c.size \in Size
        /\ Congruent(obj.value, exact, Modulus[k])
    BY ObjectFacts, RangeOf, SmallerIs, ModulusEven
  <1>2. /\ defined' = (defined /\ ShiftDefined(c, n)) /\ narrowest' = k
        /\ exact' = IF defined' THEN (exact * Weight[n]) % Modulus[4] ELSE exact
    BY DEF ShiftLeft
  <1>3. PICK v \in ShiftOutcomes("<<", c, obj.value, n) : obj' = [type |-> c, value |-> v]
    BY DEF ShiftLeft
  <1> HIDE DEF c, k
  <1>4. v \in Values(c) /\ v \in Int
    BY <1>1, ShiftTyped
  <1>5. obj' \in Object
    BY <1>1, <1>3, <1>4, IsObject
  <1>6. defined' \in BOOLEAN
    BY <1>2
  <1>7. CASE ~defined'
    <2>1. exact' = exact
      BY <1>2, <1>7
    <2> QED
      BY <1>1, <1>2, <1>5, <1>6, <1>7, <2>1 DEF IInv, TypeOK
  <1>8. CASE defined'
    <2>1. ShiftDefined(c, n)
      BY <1>2, <1>8
    <2>2. n \in 0 .. Width[4]
      <3>1. Promoted(c).size \in Size
        BY <1>1 DEF Promoted, IntSize, Signed, IntegerOf, IntegerType, Size
      <3> QED
        BY <2>1, <3>1, WidthIs DEF ShiftDefined
    <2>3. Weight[n] \in Int
      BY <2>2, WeightIs
    <2>4. v = Cast(c, obj.value * Weight[n])
      BY <2>1 DEF ShiftOutcomes, Shifted
    <2>5. PICK e \in Int : e = exact * Weight[n]
      BY <1>1, <2>3
    <2>6. Congruent(obj.value * Weight[n], e, Modulus[k])
      <3>1. "*" \in ChainOp /\ Congruent(Weight[n], Weight[n], Modulus[k])
        BY <1>1, <2>3, CongruentReflexive DEF ChainOp, RingOp
      <3>2. Congruent(Exact("*", obj.value, Weight[n]), Exact("*", exact, Weight[n]), Modulus[k])
        BY <1>1, <2>3, <3>1, CongruentExact
      <3> QED
        BY <2>5, <3>2, ExactIs
    <2>7. obj.value * Weight[n] \in Int
      BY <1>1, <2>3
    <2>8. Congruent(v, obj.value * Weight[n], Modulus[k])
      BY <1>1, <2>4, <2>7, CastCongruentBelow
    <2>9. exact' = e % Modulus[4]
      BY <1>2, <1>8, <2>5
    <2>10. exact' \in Int /\ exact' \in 0 .. Modulus[4] - 1 /\ Congruent(e, exact', Modulus[k])
      BY <1>1, <2>9, ReducedExact
    <2>11. Congruent(v, e, Modulus[k])
      BY <1>1, <1>4, <2>6, <2>7, <2>8, CongruentTransitive
    <2>12. Congruent(v, exact', Modulus[k])
      BY <1>1, <1>4, <2>10, <2>11, CongruentTransitive
    <2>13. obj'.value = v
      BY <1>3
    <2> QED
      BY <1>1, <1>2, <1>5, <1>6, <2>10, <2>12, <2>13 DEF IInv, TypeOK
  <1> QED
    BY <1>7, <1>8

LEMMA ShiftFromKeeps ==
  ASSUME IInv, length' \in 0 .. MaxLength, NEW op, NEW l, l.type \in IntegerType, l.value \in Int,
         NEW n \in Int, ShiftFrom(op, l, n)
  PROVE  IInv'
  <1>1. PICK v \in ShiftOutcomes(op, l.type, l.value, n) : Restart(l.type, v)
    BY DEF ShiftFrom
  <1>2. v \in Values(l.type) /\ v \in Int
    BY ShiftTyped
  <1>3. defined' \in BOOLEAN
    BY DEF ShiftFrom
  <1> QED
    BY <1>1, <1>2, <1>3, IsObject, RestartKeeps

LEMMA BinaryShiftKeeps ==
  ASSUME IInv, defined, length' \in 0 .. MaxLength, NEW r \in Operand, BinaryShift(r)
  PROVE  IInv'
  <1>1. obj.type # Bool /\ r.type # Bool
    BY DEF BinaryShift
  <1>2. /\ r.type \in IntegerType /\ r.value \in Int
        /\ obj.type \in IntegerType /\ obj.value \in Int
    BY <1>1, OperandAssumption, ObjectFacts DEF Object, Type
  <1>3. \/ ShiftLeft(r.value) \/ ShiftFrom(">>", obj, r.value)
        \/ \E op \in {"<<", ">>"} : ShiftFrom(op, r, obj.value)
    BY DEF BinaryShift
  <1> QED
    BY <1>1, <1>2, <1>3, ShiftLeftKeeps, ShiftFromKeeps

LEMMA CompoundShiftKeeps ==
  ASSUME IInv, defined, length' \in 0 .. MaxLength, NEW r \in Operand, CompoundShift(r)
  PROVE  IInv'
  <1> DEFINE n == Cast(obj.type, r.value)
  <1>1. obj.type # Bool
    BY DEF CompoundShift
  <1>2. r.value \in Int /\ obj.type \in IntegerType /\ obj.value \in Int
    BY <1>1, OperandAssumption, ObjectFacts DEF Object
  <1>3. n \in Int
    BY <1>2, CastCongruent
  <1>4. ShiftLeft(n) \/ ShiftFrom("<<", obj, n) \/ ShiftFrom(">>", obj, n)
    BY DEF CompoundShift
  <1> HIDE DEF n
  <1> QED
    BY <1>1, <1>2, <1>3, <1>4, ShiftLeftKeeps, ShiftFromKeeps

\* Every step keeps the invariant, one case per action.
LEMMA StepKeeps == IInv /\ [Next]_vars => IInv'
  <1> SUFFICES ASSUME IInv, [Next]_vars PROVE IInv'
    OBVIOUS
  <1>1. CASE UNCHANGED vars
    BY <1>1 DEF vars, IInv, TypeOK
  <1>2. CASE Next
    <2>1. defined /\ length' \in 0 .. MaxLength
      BY <1>2, OperandAssumption DEF Next, IInv, TypeOK
    <2>2. ASSUME NEW op \in ChainOp, NEW r \in Operand, WithRight(op, r) PROVE IInv'
      BY <2>1, <2>2, WithRightKeeps
    <2>3. ASSUME NEW op \in ChainOp, NEW r \in Operand, WithLeft(op, r) PROVE IInv'
      BY <2>1, <2>3, WithLeftKeeps
    <2>4. ASSUME NEW op \in ChainOp, NEW r \in Operand, Compound(op, r) PROVE IInv'
      <3>1. r.value \in Int /\ obj.type \in IntegerType
        BY <2>1, <2>4, OperandAssumption, ObjectFacts DEF Object, Compound
      <3>2. /\ Cast(obj.type, r.value) \in Int
            /\ Congruent(Cast(obj.type, r.value), r.value, Modulus[obj.type.size])
        BY <3>1, CastCongruent
      <3> QED
        BY <2>1, <2>4, <3>1, <3>2, InPlaceKeeps DEF Compound
    <2>5. ASSUME NEW op \in {"+", "-"}, Step(op) PROVE IInv'
      <3>1. obj.type.size \in Size /\ op \in ChainOp
        BY <2>1, <2>5, ObjectFacts, RangeOf DEF Step, ChainOp, RingOp
      <3>2. Congruent(1, 1, Modulus[obj.type.size])
        BY <3>1, ModulusEven, CongruentReflexive
      <3> QED
        BY <2>1, <2>5, <3>1, <3>2, InPlaceKeeps DEF Step
    <2>6. CASE Negate
      <3>1. exact \in Int /\ -exact \in Int /\ -exact = 0 - exact
        BY <2>1, ObjectFacts
      <3> QED
        BY <2>1, <2>6, <3>1, FromConstantKeeps DEF Negate
    <2>7. CASE Complement
      <3>1. exact \in Int /\ -1 - exact \in Int /\ -1 \in Int
        BY <2>1, ObjectFacts
      <3> QED
        BY <2>1, <2>7, <3>1, FromConstantKeeps DEF Complement
    <2>8. ASSUME NEW t \in Type, Convert(t) PROVE IInv'
      BY <2>1, <2>8, ConvertKeeps
    <2>9. ASSUME NEW op \in DivOp, NEW l \in Object, NEW r \in Object, BinaryDivide(op, l, r)
          PROVE  IInv'
      <3>1. l.type \in Type /\ r.type \in Type /\ l.value \in Int /\ r.value \in Int
        BY DEF Object
      <3>2. Common(l.type, r.type) \in IntegerType
        BY <3>1, CommonIsInteger
      <3>3. Left(l, r) \in Int /\ Right(l, r) \in Int
        BY <3>1, <3>2, CastCongruent DEF Left, Right
      <3> QED
        BY <2>1, <2>9, <3>2, <3>3, DivideInKeeps DEF BinaryDivide
    <2>10. ASSUME NEW op \in DivOp, NEW r \in Operand, CompoundDivide(op, r) PROVE IInv'
      <3>1. r.value \in Int /\ obj.type \in IntegerType /\ obj.value \in Int
        BY <2>1, <2>10, OperandAssumption, ObjectFacts DEF Object, CompoundDivide
      <3>2. Cast(obj.type, r.value) \in Int
        BY <3>1, CastCongruent
      <3> QED
        BY <2>1, <2>10, <3>1, <3>2, DivideInKeeps DEF CompoundDivide
    <2>11. ASSUME NEW r \in Operand, BinaryShift(r) PROVE IInv'
      BY <2>1, <2>11, BinaryShiftKeeps
    <2>12. ASSUME NEW r \in Operand, CompoundShift(r) PROVE IInv'
      BY <2>1, <2>12, CompoundShiftKeeps
    <2>13. obj \in Object /\ Operand \subseteq Object
      BY OperandAssumption DEF IInv, TypeOK
    <2> QED
      BY <1>2, <2>2, <2>3, <2>4, <2>5, <2>6, <2>7, <2>8, <2>9, <2>10, <2>11, <2>12, <2>13
      DEF Next
  <1> QED
    BY <1>1, <1>2

LEMMA InitHolds == Init => IInv
  <1> SUFFICES ASSUME Init PROVE IInv
    OBVIOUS
  <1>1. obj \in Object /\ obj.value \in Int /\ 4 \in Size
    BY OperandAssumption DEF Init, Object, Size
  <1>2. exact \in 0 .. Modulus[4] - 1 /\ Congruent(obj.value, exact, Modulus[4])
    BY <1>1, ReducedExact DEF Init
  <1> QED
    BY <1>1, <1>2, OperandAssumption DEF Init, IInv, TypeOK

\* Objects hold values of their types throughout.
THEOREM Typing == Spec => []TypeOK
  <1>1. IInv => TypeOK
    BY DEF IInv
  <1> QED
    BY <1>1, InitHolds, StepKeeps, PTL DEF Spec

\* However long the chain and whatever the operands, the object holds the exact
\* result modulo the narrowest type a result had.
THEOREM ChainsAreExact == Spec => []CongruentToExact
  <1>1. IInv => CongruentToExact
    <2> SUFFICES ASSUME IInv, defined PROVE (obj.value - exact) % Modulus[narrowest] = 0
      BY DEF CongruentToExact
    <2>1. /\ obj.value \in Int /\ exact \in Int /\ narrowest \in Size
          /\ Modulus[narrowest] \in Nat /\ Modulus[narrowest] > 0
      BY ObjectFacts, ModulusEven
    <2> QED
      BY <2>1, CongruentIsMod DEF IInv
  <1> QED
    BY <1>1, InitHolds, StepKeeps, PTL DEF Spec

(* Comparisons, widening and undefined operations.                         *)

\* A larger size has at least twice the values.
LEMMA ModulusGrows ==
  ASSUME NEW j \in Size, NEW k \in Size, j < k
  PROVE  2 * Modulus[j] <= Modulus[k]
  <1>1. \A i \in Size : Modulus[i] \in Nat /\ Modulus[i] >= 2
    BY ModulusEven
  <1>2. \A m \in Nat : m >= 2 => 2 * m <= m * m
    <2> SUFFICES ASSUME NEW m \in Nat, m >= 2 PROVE 2 * m <= m * m
      OBVIOUS
    <2>1. (m - 2) * m >= 0
      OBVIOUS
    <2> QED
      BY <2>1
  <1>3. \A i \in 1..3 : 2 * Modulus[i] <= Modulus[i + 1]
    BY <1>1, <1>2, ModulusSquares DEF Size
  <1>4. 2 * Modulus[1] <= Modulus[2] /\ 2 * Modulus[2] <= Modulus[3] /\ 2 * Modulus[3] <= Modulus[4]
    BY <1>3
  <1> QED
    BY <1>1, <1>4 DEF Size

\* The ends of the integer types, by half of the number of values.
LEMMA Ends ==
  ASSUME NEW t \in IntegerType, NEW h \in Nat, Modulus[t.size] = 2 * h, Modulus[t.size] \div 2 = h
  PROVE  Values(t) = IF t.signed THEN -h .. h - 1 ELSE 0 .. 2 * h - 1
  BY RangeOf DEF Lowest

LEMMA CommonSymmetric ==
  ASSUME NEW a \in Type, NEW b \in Type
  PROVE  Common(a, b) = Common(b, a)
  <1>1. LiftBool(a) \in IntegerType /\ LiftBool(b) \in IntegerType
    BY DEF LiftBool, Type, IntegerType, Signed, IntegerOf, IntSize, Size
  <1>2. \A x \in IntegerType, y \in IntegerType :
          x.size = y.size /\ x.signed = y.signed => x = y
    BY DEF IntegerType
  <1> QED
    BY <1>1, <1>2 DEF Common, CommonInteger, WidenSigned, IntegerType, Size

\* Lifting Bool to the type of int's size keeps its values.
LEMMA LiftFits ==
  ASSUME NEW t \in Type, NEW v \in Values(t)
  PROVE  v \in Int /\ v \in Values(LiftBool(t))
  <1>1. CASE t = Bool
    <2>1. v \in 0..1
      BY <1>1 DEF Values, Lowest, Highest, Bool, IntegerOf, IntegerType, Size
    <2>2. LiftBool(t) = Signed(3) /\ Signed(3).size = 3 /\ Signed(3).signed /\ Signed(3) \in IntegerType
      BY <1>1 DEF LiftBool, IntSize, Signed, IntegerOf, IntegerType, Size
    <2>3. PICK h \in Nat \ {0} : Modulus[3] = 2 * h /\ Modulus[3] \div 2 = h
      BY ModulusEven DEF Size
    <2>4. Modulus[1] \in Nat /\ Modulus[1] >= 2 /\ 2 * Modulus[1] <= Modulus[3]
      BY ModulusGrows, ModulusEven DEF Size
    <2>5. Values(LiftBool(t)) = -h .. h - 1
      BY <2>2, <2>3, Ends
    <2> QED
      BY <2>1, <2>3, <2>4, <2>5
  <1>2. CASE t # Bool
    BY <1>2, RangeOf DEF LiftBool, Type
  <1> QED
    BY <1>1, <1>2

\* The common type has every value of an operand that is not negative, and
\* every value when it is signed.
LEMMA CommonFits ==
  ASSUME NEW a \in Type, NEW b \in Type, NEW v \in Values(a),
         Common(a, b).signed \/ v >= 0
  PROVE  v \in Values(Common(a, b))
  <1> DEFINE A == LiftBool(a)
             B == LiftBool(b)
             C == CommonInteger(A, B)
  <1>1. A \in IntegerType /\ B \in IntegerType
    BY DEF LiftBool, Type, IntegerType, Signed, IntegerOf, IntSize, Size
  <1>2. C = Common(a, b) /\ C \in IntegerType
    BY CommonIsInteger DEF Common
  <1>3. v \in Int /\ v \in Values(A)
    BY LiftFits
  <1>4. A.size \in Size /\ B.size \in Size /\ C.size \in Size
    BY <1>1, <1>2, RangeOf
  <1>5. PICK h \in Nat \ {0} : Modulus[A.size] = 2 * h /\ Modulus[A.size] \div 2 = h
    BY <1>4, ModulusEven
  <1>6. PICK g \in Nat \ {0} : Modulus[C.size] = 2 * g /\ Modulus[C.size] \div 2 = g
    BY <1>4, ModulusEven
  <1>7. Values(A) = IF A.signed THEN -h .. h - 1 ELSE 0 .. 2 * h - 1
    BY <1>1, <1>5, Ends
  <1>8. Values(C) = IF C.signed THEN -g .. g - 1 ELSE 0 .. 2 * g - 1
    BY <1>2, <1>6, Ends
  <1>9. C = A \/ A.size < C.size \/ (A.size = C.size /\ ~C.signed)
    BY <1>1 DEF CommonInteger, WidenSigned, Signed, Unsigned, IntegerOf, IntegerType, Size
  <1>10. CASE C = A
    BY <1>2, <1>3, <1>10
  <1>11. CASE A.size < C.size
    <2>1. 2 * h <= g
      BY <1>4, <1>5, <1>6, <1>11, ModulusGrows
    <2> QED
      BY <1>2, <1>3, <1>7, <1>8, <2>1
  <1>12. CASE A.size = C.size /\ ~C.signed
    <2>1. g = h
      BY <1>5, <1>6, <1>12
    <2> QED
      BY <1>2, <1>3, <1>7, <1>8, <1>12, <2>1
  <1> QED
    BY <1>9, <1>10, <1>11, <1>12

\* Comparisons follow the values, unless a negative one meets an unsigned
\* common type.
THEOREM ComparisonsFollowValues == Spec => []OrderKept
  <1>1. TypeOK => OrderKept
    <2> SUFFICES ASSUME TypeOK, NEW r \in Operand,
                        Common(obj.type, r.type).signed \/ (obj.value >= 0 /\ r.value >= 0)
                 PROVE  /\ Equal(obj, r) <=> obj.value = r.value
                        /\ Less(obj, r) <=> obj.value < r.value
      BY DEF OrderKept
    <2>1. /\ obj.type \in Type /\ obj.value \in Values(obj.type)
          /\ r.type \in Type /\ r.value \in Values(r.type)
      BY OperandAssumption DEF TypeOK, Object
    <2> DEFINE c == Common(obj.type, r.type)
    <2>2. c \in IntegerType /\ c = Common(r.type, obj.type)
      BY <2>1, CommonIsInteger, CommonSymmetric
    <2>3. obj.value \in Values(c) /\ r.value \in Values(c)
      BY <2>1, <2>2, CommonFits
    <2>4. Cast(c, obj.value) = obj.value /\ Cast(c, r.value) = r.value
      BY <2>2, <2>3, CastExact
    <2> QED
      BY <2>4 DEF Equal, Less, Left, Right
  <1> QED
    BY <1>1, Typing, PTL

\* The bounds of what the ring operations make of a value of a signed type and
\* one of the unsigned type of the same size, 2h values each, h > 1.
LEMMA MixedBounds ==
  ASSUME NEW h \in Nat, h > 1, NEW x \in -h .. h - 1, NEW y \in 0 .. 2 * h - 1
  PROVE  /\ x + y \in -(2 * h * h) .. 2 * h * h - 1
         /\ x - y \in -(2 * h * h) .. 2 * h * h - 1
         /\ y - x \in -(2 * h * h) .. 2 * h * h - 1
         /\ x * y \in -(2 * h * h) .. 2 * h * h - 1
  <1>1. h * h >= 2 * h
    <2>1. (h - 2) * h >= 0
      OBVIOUS
    <2> QED
      BY <2>1
  <1>2. x * y >= -(2 * h * h)
    <2>1. (x + h) * y >= 0 /\ h * (2 * h - y) >= 0
      OBVIOUS
    <2>2. (x + h) * y = x * y + h * y /\ h * (2 * h - y) = 2 * h * h - h * y
      OBVIOUS
    <2> QED
      BY <2>1, <2>2
  <1>3. x * y <= 2 * h * h - 1
    <2>1. (h - x) * y >= 0 /\ h * (2 * h - 1 - y) >= 0
      OBVIOUS
    <2>2. /\ (h - x) * y = h * y - x * y
          /\ h * (2 * h - 1 - y) = 2 * h * h - h - h * y
      OBVIOUS
    <2> QED
      BY <2>1, <2>2
  <1>4. x * y \in Int /\ h * h \in Int /\ 2 * h * h = 2 * (h * h)
    OBVIOUS
  <1> QED
    BY <1>1, <1>2, <1>3, <1>4

\* A defined operation whose exact result the type has, yields it.
LEMMA ExactOutcome ==
  ASSUME NEW c \in IntegerType, NEW x \in Int, NEW y \in Int, NEW op \in RingOp,
         Exact(op, x, y) \in Values(c), Exact(op, x, y) \in Values(Promoted(c))
  PROVE  Defined(op, c, x, y) /\ Outcomes(op, c, x, y) = {Exact(op, x, y)}
  <1>1. op # "/" /\ op # "%" /\ op \notin DivOp
    BY DEF RingOp, DivOp
  <1>2. Defined(op, c, x, y)
    BY <1>1 DEF Defined
  <1>3. Cast(c, Exact(op, x, y)) = Exact(op, x, y)
    BY CastExact
  <1> QED
    BY <1>2, <1>3 DEF Outcomes

\* A signed type wider than the smallest and its promotion have its values.
LEMMA PromotedFits ==
  ASSUME NEW c \in IntegerType, c.signed, NEW v \in Values(c)
  PROVE  v \in Values(Promoted(c))
  <1>1. CASE c.size < 3
    <2>1. /\ Promoted(c) = Signed(3) /\ Signed(3) \in IntegerType
          /\ Signed(3).size = 3 /\ Signed(3).signed
          /\ c.size \in Size /\ 3 \in Size
      BY <1>1 DEF Promoted, IntSize, Signed, IntegerOf, IntegerType, Size
    <2>2. PICK h \in Nat \ {0} : Modulus[c.size] = 2 * h /\ Modulus[c.size] \div 2 = h
      BY <2>1, ModulusEven
    <2>3. PICK g \in Nat \ {0} : Modulus[3] = 2 * g /\ Modulus[3] \div 2 = g
      BY <2>1, ModulusEven
    <2>4. 2 * h <= g
      BY <1>1, <2>1, <2>2, <2>3, ModulusGrows
    <2>5. Values(c) = -h .. h - 1
      BY <2>2, Ends
    <2>6. Values(Signed(3)) = -g .. g - 1
      BY <2>1, <2>3, Ends
    <2> QED
      BY <2>1, <2>4, <2>5, <2>6
  <1>2. CASE ~(c.size < 3)
    BY <1>2 DEF Promoted, IntSize
  <1> QED
    BY <1>1, <1>2

\* The operands of a widened operation, as their values are.
LEMMA WidenedExact ==
  ASSUME NEW a \in IntegerType, NEW b \in IntegerType, a.size = b.size, a.size < 4,
         a.signed # b.signed, Modulus[a.size] > 2,
         NEW x \in Values(a), NEW y \in Values(b), NEW op \in RingOp
  PROVE  /\ Cast(Common(a, b), x) = x /\ Cast(Common(a, b), y) = y
         /\ Defined(op, Common(a, b), x, y)
         /\ Outcomes(op, Common(a, b), x, y) = {Exact(op, x, y)}
  <1> DEFINE c == Common(a, b)
  <1>1. a.size \in 1..3 /\ a.size \in Size /\ a.size + 1 \in Size /\ a # Bool /\ b # Bool
    BY RangeOf DEF Size
  <1>2. /\ c \in IntegerType /\ c.signed /\ c.size = a.size + 1
    <2>1. LiftBool(a) = a /\ LiftBool(b) = b
      BY <1>1 DEF LiftBool
    <2>2. c = WidenSigned(a)
      BY <1>1, <2>1 DEF Common, CommonInteger
    <2>3. c = Signed(a.size + 1)
      BY <1>1, <2>2 DEF WidenSigned
    <2> QED
      BY <1>1, <2>3 DEF Signed, IntegerOf, IntegerType
  <1>3. PICK h \in Nat \ {0} : Modulus[a.size] = 2 * h /\ Modulus[a.size] \div 2 = h
    BY <1>1, ModulusEven
  <1>4. h > 1
    BY <1>3
  <1>5. PICK g \in Nat \ {0} : Modulus[c.size] = 2 * g /\ Modulus[c.size] \div 2 = g
    BY <1>1, <1>2, ModulusEven
  <1>6. g = 2 * h * h
    <2>1. Modulus[c.size] = (2 * h) * (2 * h)
      BY <1>1, <1>2, <1>3, ModulusSquares
    <2>2. (2 * h) * (2 * h) = 2 * (2 * h * h)
      OBVIOUS
    <2> QED
      BY <1>5, <2>1, <2>2
  <1>7. Values(c) = -g .. g - 1
    BY <1>2, <1>5, Ends
  <1>8. /\ Values(a) = IF a.signed THEN -h .. h - 1 ELSE 0 .. 2 * h - 1
        /\ Values(b) = IF b.signed THEN -h .. h - 1 ELSE 0 .. 2 * h - 1
    BY <1>3, Ends
  <1> HIDE DEF c
  <1>9. x \in Values(c) /\ y \in Values(c)
    <2>1. (h - 1) * h >= 0 /\ (h - 1) * h = h * h - h
      BY <1>4
    <2>2. h * h \in Int /\ g = 2 * (h * h)
      BY <1>6
    <2>3. 2 * h <= g
      BY <2>1, <2>2
    <2>4. x \in -h .. 2 * h - 1 /\ y \in -h .. 2 * h - 1
      BY <1>8
    <2> QED
      BY <1>7, <2>3, <2>4, <1>8
  <1>10. Exact(op, x, y) \in Values(c)
    <2>1. CASE a.signed
      <3>1. x \in -h .. h - 1 /\ y \in 0 .. 2 * h - 1
        BY <1>8, <2>1, RangeOf
      <3>2. x + y \in Values(c) /\ x - y \in Values(c) /\ x * y \in Values(c)
        BY <1>4, <1>6, <1>7, <3>1, MixedBounds
      <3> QED
        BY <3>2, ExactIs DEF RingOp
    <2>2. CASE ~a.signed
      <3>1. y \in -h .. h - 1 /\ x \in 0 .. 2 * h - 1
        BY <1>8, <2>2, RangeOf
      <3>2. y + x \in Values(c) /\ x - y \in Values(c) /\ y * x \in Values(c)
        BY <1>4, <1>6, <1>7, <3>1, MixedBounds
      <3>3. x + y = y + x /\ x * y = y * x
        BY <3>1
      <3> QED
        BY <3>2, <3>3, ExactIs DEF RingOp
    <2> QED
      BY <2>1, <2>2
  <1>11. Exact(op, x, y) \in Values(Promoted(c))
    BY <1>2, <1>10, PromotedFits
  <1>12. x \in Int /\ y \in Int
    BY <1>7, <1>9
  <1>13. Cast(c, x) = x /\ Cast(c, y) = y
    BY <1>2, <1>9, CastExact
  <1> QED
    BY <1>2, <1>10, <1>11, <1>12, <1>13, ExactOutcome DEF c

\* Widening two types of one size and different sign makes +, - and * exact and
\* defined.
THEOREM MixedSignsAreExact == Spec => []WideningIsExact
  <1>1. TypeOK => WideningIsExact
    <2> SUFFICES ASSUME TypeOK, NEW r \in Operand, NEW op \in RingOp,
                        obj.type # Bool, r.type # Bool,
                        obj.type.size = r.type.size, obj.type.size < 4,
                        obj.type.signed # r.type.signed, Modulus[obj.type.size] > 2
                 PROVE  Outcomes(op, Common(obj.type, r.type), Left(obj, r), Right(obj, r))
                          = {Exact(op, obj.value, r.value)}
      BY DEF WideningIsExact
    <2>1. /\ obj.type \in IntegerType /\ obj.value \in Values(obj.type)
          /\ r.type \in IntegerType /\ r.value \in Values(r.type)
      BY OperandAssumption DEF TypeOK, Object, Type
    <2> QED
      BY <2>1, WidenedExact DEF Left, Right
  <1> QED
    BY <1>1, Typing, PTL

\* The bounds of what the ring operations make of two values of a signed type,
\* and of what + and - make of two values of an unsigned one.
LEMMA NarrowBounds ==
  ASSUME NEW h \in Nat, h > 1, NEW x \in Int, NEW y \in Int
  PROVE  /\ x \in -h .. h - 1 /\ y \in -h .. h - 1 =>
               /\ x + y \in -(2 * h * h) .. 2 * h * h - 1
               /\ x - y \in -(2 * h * h) .. 2 * h * h - 1
               /\ x * y \in -(2 * h * h) .. 2 * h * h - 1
         /\ x \in 0 .. 2 * h - 1 /\ y \in 0 .. 2 * h - 1 =>
               /\ x + y \in -(2 * h * h) .. 2 * h * h - 1
               /\ x - y \in -(2 * h * h) .. 2 * h * h - 1
  <1>1. h * h >= 2 * h /\ h * h \in Int /\ 2 * h * h = 2 * (h * h)
    <2>1. (h - 2) * h >= 0
      OBVIOUS
    <2> QED
      BY <2>1
  <1>2. ASSUME x \in -h .. h - 1, y \in -h .. h - 1
        PROVE  x * y <= h * h /\ x * y >= -(h * h) /\ x * y \in Int
    <2>1. /\ (h - x) * (h + y) >= 0 /\ (h + x) * (h - y) >= 0
          /\ (h - x) * (h - y) >= 0 /\ (h + x) * (h + y) >= 0
      BY <1>2
    <2>2. /\ (h - x) * (h + y) = h * h + h * y - h * x - x * y
          /\ (h + x) * (h - y) = h * h - h * y + h * x - x * y
          /\ (h - x) * (h - y) = h * h - h * y - h * x + x * y
          /\ (h + x) * (h + y) = h * h + h * y + h * x + x * y
      OBVIOUS
    <2> QED
      BY <2>1, <2>2
  <1> QED
    BY <1>1, <1>2

\* In the narrow types int holds every sum and difference, and every product
\* but those of the larger unsigned one.
LEMMA NarrowIsDefined ==
  ASSUME NEW c \in IntegerType, c.size < 3, NEW x \in Values(c), NEW y \in Values(c),
         NEW op \in RingOp, op # "*" \/ c # Unsigned(2)
  PROVE  Exact(op, x, y) \in Values(Promoted(c))
  <1>1. /\ Promoted(c) = Signed(3) /\ Signed(3) \in IntegerType
        /\ Signed(3).size = 3 /\ Signed(3).signed
        /\ c.size \in Size /\ {1, 2, 3} \subseteq Size /\ (c.size = 1 \/ c.size = 2)
    BY DEF Promoted, IntSize, Signed, IntegerOf, IntegerType, Size
  <1>2. PICK h \in Nat \ {0} : Modulus[2] = 2 * h /\ Modulus[2] \div 2 = h
    BY <1>1, ModulusEven
  <1>3. PICK g \in Nat \ {0} : Modulus[3] = 2 * g /\ Modulus[3] \div 2 = g
    BY <1>1, ModulusEven
  <1>4. Modulus[1] \in Nat /\ Modulus[1] >= 2 /\ 2 * Modulus[1] <= Modulus[2]
    BY <1>1, ModulusEven, ModulusGrows
  <1>5. g = 2 * h * h
    <2>1. Modulus[3] = (2 * h) * (2 * h)
      BY <1>2, ModulusSquares
    <2>2. (2 * h) * (2 * h) = 2 * (2 * h * h)
      OBVIOUS
    <2> QED
      BY <1>3, <2>1, <2>2
  <1>6. Values(Promoted(c)) = -g .. g - 1
    BY <1>1, <1>3, Ends
  <1>7. h > 1
    BY <1>2, <1>4
  <1>8. \/ x \in -h .. h - 1 /\ y \in -h .. h - 1
        \/ c = Unsigned(2) /\ x \in 0 .. 2 * h - 1 /\ y \in 0 .. 2 * h - 1
    <2>1. CASE c.size = 1
      <3>1. PICK f \in Nat \ {0} : Modulus[c.size] = 2 * f /\ Modulus[c.size] \div 2 = f
        BY <1>1, ModulusEven
      <3>2. Values(c) = IF c.signed THEN -f .. f - 1 ELSE 0 .. 2 * f - 1
        BY <3>1, Ends
      <3>3. 2 * f <= h
        BY <1>2, <1>4, <2>1, <3>1
      <3> QED
        BY <3>2, <3>3
    <2>2. CASE c.size = 2 /\ c.signed
      BY <1>2, <2>2, Ends
    <2>3. CASE c.size = 2 /\ ~c.signed
      <3>1. c = Unsigned(2)
        BY <2>3 DEF IntegerType, Unsigned, IntegerOf
      <3>2. Values(c) = 0 .. 2 * h - 1
        BY <1>2, <2>3, Ends
      <3> QED
        BY <3>1, <3>2
    <2> QED
      BY <1>1, <2>1, <2>2, <2>3
  <1>9. x \in Int /\ y \in Int
    BY <1>8
  <1>10. CASE x \in -h .. h - 1 /\ y \in -h .. h - 1
    <2>1. x + y \in -g .. g - 1 /\ x - y \in -g .. g - 1 /\ x * y \in -g .. g - 1
      BY <1>5, <1>7, <1>9, <1>10, NarrowBounds
    <2> QED
      BY <1>6, <2>1, ExactIs DEF RingOp
  <1>11. CASE c = Unsigned(2) /\ x \in 0 .. 2 * h - 1 /\ y \in 0 .. 2 * h - 1
    <2>1. x + y \in -g .. g - 1 /\ x - y \in -g .. g - 1
      BY <1>5, <1>7, <1>9, <1>11, NarrowBounds
    <2> QED
      BY <1>6, <1>11, <2>1, ExactIs DEF RingOp
  <1> QED
    BY <1>8, <1>10, <1>11

\* Where +, - and * may be undefined although nothing is divided.
THEOREM UndefinedIsLocated == Spec => []UndefinedOnlyWhere
  <1>1. TypeOK => UndefinedOnlyWhere
    <2> SUFFICES ASSUME TypeOK, NEW r \in Operand, NEW op \in RingOp,
                        ~Defined(op, Common(obj.type, r.type), Left(obj, r), Right(obj, r))
                 PROVE  LET c == Common(obj.type, r.type) IN
                        \/ c.signed /\ c.size >= IntSize /\ c \in {LiftBool(obj.type), LiftBool(r.type)}
                        \/ op = "*" /\ c = Unsigned(IntSize - 1)
      BY DEF UndefinedOnlyWhere
    <2> DEFINE a == LiftBool(obj.type)
               b == LiftBool(r.type)
               c == Common(obj.type, r.type)
               x == Left(obj, r)
               y == Right(obj, r)
    <2>1. /\ obj.type \in Type /\ obj.value \in Values(obj.type) /\ obj.value \in Int
          /\ r.type \in Type /\ r.value \in Values(r.type) /\ r.value \in Int
      BY OperandAssumption DEF TypeOK, Object
    <2>2. a \in IntegerType /\ b \in IntegerType /\ c \in IntegerType
      BY <2>1, CommonIsInteger DEF LiftBool, Type, IntegerType, Signed, IntegerOf, IntSize, Size
    <2>3. x \in Values(c) /\ y \in Values(c)
      BY <2>1, <2>2, CastCongruent DEF Left, Right
    <2>4. op \notin DivOp /\ op # "%"
      BY DEF RingOp, DivOp
    <2>5. Promoted(c).signed /\ Exact(op, x, y) \notin Values(Promoted(c))
      BY <2>4 DEF Defined
    <2>6. CASE c.size < 3
      <3>1. op = "*" /\ c = Unsigned(2)
        BY <2>2, <2>3, <2>5, <2>6, NarrowIsDefined
      <3> QED
        BY <3>1 DEF IntSize
    <2>7. CASE ~(c.size < 3)
      <3>1. Promoted(c) = c /\ c.signed /\ c.size >= 3
        BY <2>2, <2>5, <2>7, RangeOf DEF Promoted, IntSize, Size
      <3>2. CASE c \in {a, b}
        BY <3>1, <3>2 DEF IntSize
      <3>3. CASE c \notin {a, b}
        <4>1. a.size = b.size /\ a.signed # b.signed /\ c = WidenSigned(a)
          BY <2>2, <3>3 DEF Common, CommonInteger, IntegerType, Size
        <4>2. a.size < 4 /\ c.size = a.size + 1 /\ a.size \in Size
          BY <2>2, <3>1, <4>1 DEF WidenSigned, Signed, Unsigned, IntegerOf, IntegerType, Size
        <4>3. Modulus[a.size] > 2
          <5>1. 1 \in Size /\ 1 < a.size /\ Modulus[1] \in Nat /\ Modulus[1] >= 2 /\ Modulus[a.size] \in Nat
            BY <3>1, <4>2, ModulusEven DEF Size
          <5> QED
            BY <4>2, <5>1, ModulusGrows
        <4>4. c = Common(a, b)
          BY <2>2, RangeOf DEF Common, LiftBool
        <4>5. obj.value \in Values(a) /\ r.value \in Values(b)
          BY <2>1, LiftFits
        <4>6. Cast(c, obj.value) = obj.value /\ Cast(c, r.value) = r.value
          BY <2>2, <4>1, <4>2, <4>3, <4>4, <4>5, WidenedExact
        <4>7. Defined(op, c, obj.value, r.value)
          BY <2>2, <4>1, <4>2, <4>3, <4>4, <4>5, WidenedExact
        <4> QED
          BY <4>6, <4>7 DEF Left, Right
      <3> QED
        BY <3>2, <3>3
    <2> QED
      BY <2>6, <2>7
  <1> QED
    BY <1>1, Typing, PTL

-----------------------------------------------------------------------------
(* Division and shifts *)

\* A quotient is no larger than the dividend, and as large only for a divisor
\* of 1 or -1.
LEMMA QuotientBounds ==
  ASSUME NEW x \in Int, NEW y \in Int, y # 0
  PROVE  \E q \in Nat : /\ q <= Magnitude(x)
                        /\ y \notin {1, -1} => 2 * q <= Magnitude(x)
                        /\ Quotient(x, y) = IF (x < 0) = (y < 0) THEN q ELSE -q
  <1> DEFINE a == Magnitude(x)
             b == Magnitude(y)
             q == a \div b
             r == a % b
  <1>1. a \in Nat /\ b \in Nat /\ b > 0 /\ (y \notin {1, -1} => b >= 2)
    BY DEF Magnitude
  <1>2. Quotient(x, y) = IF (x < 0) = (y < 0) THEN q ELSE -q
    BY DEF Quotient
  <1> HIDE DEF a, b
  <1>3. q \in Int /\ 0 <= q /\ q <= a
    BY <1>1, QuotientBelow
  <1>4. r \in Int /\ 0 <= r /\ a = b * q + r
    BY <1>1, DivMod
  <1> HIDE DEF q, r
  <1>5. ASSUME b >= 2 PROVE 2 * q <= a
    <2>1. (b - 2) * q >= 0 /\ (b - 2) * q = b * q - 2 * q
      BY <1>1, <1>3, <1>5
    <2> QED
      BY <1>1, <1>3, <1>4, <2>1
  <1>6. q \in Nat /\ q <= Magnitude(x) /\ (y \notin {1, -1} => 2 * q <= Magnitude(x))
    BY <1>1, <1>3, <1>5 DEF a
  <1> QED
    BY Zenon, <1>2, <1>6

\* In a range that reaches as far down as h, only -h by -1 leads out of it.
LEMMA QuotientLeaves ==
  ASSUME NEW h \in Nat, h > 0, NEW x \in Int, NEW y \in Int, y # 0, -h <= x, x < h,
         Quotient(x, y) \notin -h .. h - 1
  PROVE  x = -h /\ y = -1
  <1>1. PICK q \in Nat : /\ q <= Magnitude(x)
                         /\ y \notin {1, -1} => 2 * q <= Magnitude(x)
                         /\ Quotient(x, y) = IF (x < 0) = (y < 0) THEN q ELSE -q
    BY QuotientBounds
  <1>2. Magnitude(x) = (IF x < 0 THEN -x ELSE x) /\ Magnitude(x) <= h
    BY DEF Magnitude
  <1>3. (x < 0) = (y < 0) /\ q >= h
    <2>1. CASE (x < 0) = (y < 0)
      BY <1>1, <1>2, <2>1
    <2>2. CASE (x < 0) # (y < 0)
      <3>1. -q \notin -h .. h - 1
        BY <1>1, <2>2
      <3>2. q <= h
        BY <1>1, <1>2
      <3>3. -q \in -h .. h - 1
        BY <3>2
      <3> QED
        BY <3>1, <3>3
    <2> QED
      BY <2>1, <2>2
  <1>4. x = -h
    BY <1>1, <1>2, <1>3
  <1>5. y \in {1, -1}
    <2>1. SUFFICES ASSUME 2 * q <= Magnitude(x) PROVE FALSE
      BY <1>1
    <2> QED
      BY <1>2, <1>3, <2>1
  <1> QED
    BY <1>3, <1>4, <1>5

\* In one type: a division is undefined by zero, or for the lowest value of
\* int's size or more by -1.
LEMMA DivisionInType ==
  ASSUME NEW c \in IntegerType, NEW x \in Values(c), NEW y \in Values(c), NEW op \in DivOp,
         ~Defined(op, c, x, y), y # 0
  PROVE  c.signed /\ c.size >= IntSize /\ x = Lowest(c) /\ y = -1
  <1>1. x \in Int /\ y \in Int /\ c.size \in Size /\ c.signed \in BOOLEAN
    BY RangeOf
  <1>2. op \notin MaskOp /\ (op = "%" \/ op = "/")
    BY DEF DivOp, MaskOp
  <1>3. Promoted(c).signed /\ Quotient(x, y) \notin Values(Promoted(c))
    BY <1>2, ExactIs DEF Defined
  <1>4. PICK h \in Nat \ {0} : Modulus[c.size] = 2 * h /\ Modulus[c.size] \div 2 = h
    BY <1>1, ModulusEven
  <1>5. Values(c) = IF c.signed THEN -h .. h - 1 ELSE 0 .. 2 * h - 1
    BY <1>4, Ends
  <1>6. CASE c.size < IntSize
    <2>1. /\ Promoted(c) = Signed(3) /\ Signed(3) \in IntegerType
          /\ Signed(3).size = 3 /\ Signed(3).signed /\ 3 \in Size
      BY <1>6 DEF Promoted, IntSize, Signed, IntegerOf, IntegerType, Size
    <2>2. PICK g \in Nat \ {0} : Modulus[3] = 2 * g /\ Modulus[3] \div 2 = g
      BY <2>1, ModulusEven
    <2>3. Values(Promoted(c)) = -g .. g - 1
      BY <2>1, <2>2, Ends
    <2>4. 2 * (2 * h) <= 2 * g
      BY <1>1, <1>4, <1>6, <2>1, <2>2, ModulusGrows DEF IntSize
    <2>5. -g <= x /\ x < g /\ x # -g
      BY <1>1, <1>5, <2>4
    <2>6. x = -g
      BY <1>1, <1>3, <2>3, <2>5, QuotientLeaves
    <2> QED
      BY <2>5, <2>6
  <1>7. CASE ~(c.size < IntSize)
    <2>1. Promoted(c) = c /\ c.signed /\ c.size >= IntSize
      BY <1>1, <1>3, <1>7 DEF Promoted, IntSize, Size
    <2>2. x = -h /\ y = -1
      <3>1. Values(c) = -h .. h - 1
        BY <1>5, <2>1
      <3>2. -h <= x /\ x < h /\ Quotient(x, y) \notin -h .. h - 1
        BY <1>3, <2>1, <3>1
      <3> QED
        BY <1>1, <3>2, QuotientLeaves
    <2>3. Lowest(c) = -h
      BY <1>4, <2>1 DEF Lowest
    <2> QED
      BY <2>1, <2>2, <2>3
  <1> QED
    BY <1>6, <1>7

\* Converted to the common type, an operand is zero only if it was.
LEMMA CommonZero ==
  ASSUME NEW a \in Type, NEW b \in Type, NEW v \in Values(a), Cast(Common(a, b), v) = 0
  PROVE  v = 0
  <1> DEFINE c == Common(a, b)
             A == LiftBool(a)
             m == Modulus[c.size]
  <1>1. c \in IntegerType /\ A \in IntegerType /\ v \in Int /\ v \in Values(A)
    BY CommonIsInteger, LiftFits DEF LiftBool, Type, IntegerType, Signed, IntegerOf, IntSize, Size
  <1>2. CASE c.signed \/ v >= 0
    BY <1>1, <1>2, CommonFits, CastExact
  <1>3. CASE ~c.signed /\ v < 0
    <2>1. A.size \in Size /\ c.size \in Size /\ A.size <= c.size
      <3>1. LiftBool(b) \in IntegerType
        BY DEF LiftBool, Type, IntegerType, Signed, IntegerOf, IntSize, Size
      <3> QED
        BY <1>1, <3>1 DEF Common, CommonInteger, WidenSigned, Signed, Unsigned, IntegerOf,
                          IntegerType, Size
    <2>2. PICK g \in Nat \ {0} : Modulus[A.size] = 2 * g /\ Modulus[A.size] \div 2 = g
      BY <2>1, ModulusEven
    <2>3. -g <= v
      BY <1>1, <1>3, <2>2, Ends
    <2>4. m \in Nat /\ m > 0 /\ 2 * g <= m
      <3>1. m \in Nat /\ m > 0
        BY <2>1, ModulusEven
      <3>2. CASE A.size = c.size
        BY <2>2, <3>1, <3>2
      <3>3. CASE A.size < c.size
        BY <2>1, <2>2, <3>1, <3>3, ModulusGrows
      <3> QED
        BY <2>1, <3>2, <3>3 DEF Size
    <2> HIDE DEF m
    <2>5. Congruent(0, v, m)
      BY <1>1, CastCongruent DEF m
    <2>6. (0 - v) % m = 0
      BY <1>1, <2>4, <2>5, CongruentIsMod
    <2>7. 0 - v \in Int /\ 0 <= 0 - v /\ 0 - v < m
      BY <1>1, <1>3, <2>3, <2>4
    <2> QED
      BY <1>1, <2>4, <2>6, <2>7, SmallMod
  <1> QED
    BY <1>1, <1>2, <1>3

\* Where a division may be undefined: by zero, by what a compound division makes
\* a zero of, and for the lowest value by -1.
THEOREM UndefinedDivisionIsLocated == Spec => []DivisionUndefinedOnlyWhere
  <1>1. TypeOK => DivisionUndefinedOnlyWhere
    <2> DEFINE Overflows(t, x, y) == t.signed /\ t.size >= IntSize /\ x = Lowest(t) /\ y = -1
    <2>1. SUFFICES ASSUME TypeOK, NEW r \in Operand, NEW op \in DivOp
          PROVE  LET c == Common(obj.type, r.type) IN
                 /\ ~Defined(op, c, Left(obj, r), Right(obj, r)) =>
                      r.value = 0 \/ Overflows(c, obj.value, r.value)
                 /\ obj.type # Bool /\ ~Defined(op, obj.type, obj.value, Cast(obj.type, r.value)) =>
                      \/ r.value % Modulus[obj.type.size] = 0
                      \/ Overflows(obj.type, obj.value, Cast(obj.type, r.value))
      BY DEF DivisionUndefinedOnlyWhere
    <2>2. /\ obj.type \in Type /\ obj.value \in Values(obj.type) /\ obj.value \in Int
          /\ r.type \in Type /\ r.value \in Values(r.type) /\ r.value \in Int
      BY <2>1, OperandAssumption DEF TypeOK, Object
    <2> DEFINE c == Common(obj.type, r.type)
               x == Left(obj, r)
               y == Right(obj, r)
    <2>3. c \in IntegerType /\ c = Common(r.type, obj.type)
      BY <2>2, CommonIsInteger, CommonSymmetric
    <2>4. x = Cast(c, obj.value) /\ y = Cast(c, r.value) /\ x \in Values(c) /\ y \in Values(c)
      BY <2>2, <2>3, CastCongruent DEF Left, Right
    <2>5. ASSUME ~Defined(op, c, x, y), r.value # 0 PROVE Overflows(c, obj.value, r.value)
      <3>1. y # 0
        BY <2>2, <2>3, <2>4, <2>5, CommonZero
      <3>2. c.signed /\ c.size >= IntSize /\ x = Lowest(c) /\ y = -1
        BY <2>3, <2>4, <2>5, <3>1, DivisionInType
      <3>3. obj.value \in Values(c) /\ r.value \in Values(c)
        BY <2>2, <2>3, <3>2, CommonFits
      <3>4. x = obj.value /\ y = r.value
        BY <2>3, <2>4, <3>3, CastExact
      <3> QED
        BY <3>2, <3>4
    <2>6. ASSUME obj.type # Bool, ~Defined(op, obj.type, obj.value, Cast(obj.type, r.value)),
                 r.value % Modulus[obj.type.size] # 0
          PROVE  Overflows(obj.type, obj.value, Cast(obj.type, r.value))
      <3> DEFINE t == obj.type
                 z == Cast(t, r.value)
                 m == Modulus[t.size]
      <3>1. t \in IntegerType /\ m \in Nat /\ m > 0
        <4>1. t \in IntegerType
          BY <2>2, <2>6 DEF Type
        <4> QED
          BY <4>1, RangeOf
      <3>2. z \in Values(t) /\ z \in Int /\ Congruent(z, r.value, m)
        BY <2>2, <3>1, CastCongruent
      <3>3. z # 0
        <4>1. SUFFICES ASSUME z = 0 PROVE FALSE
          OBVIOUS
        <4>2. z % m = r.value % m
          <5> HIDE DEF z, m
          <5> QED
            BY <2>2, <3>1, <3>2, SameRemainder
        <4>3. 0 % m = 0
          <5> HIDE DEF m
          <5> QED
            BY <3>1, SmallMod
        <4> QED
          BY <2>6, <4>1, <4>2, <4>3
      <3> QED
        BY <2>2, <2>6, <3>1, <3>2, <3>3, DivisionInType
    <2> QED
      BY <2>5, <2>6
  <1> QED
    BY <1>1, Typing, PTL

\* What divides a number below it, or one no further below zero.
LEMMA FloorOfSmall ==
  ASSUME NEW x \in Int, NEW g \in Nat, g > 0, -g <= x, x < g
  PROVE  x \div g = IF x < 0 THEN -1 ELSE 0
  <1> DEFINE q == x \div g
             r == x % g
  <1>1. q \in Int /\ r \in Int /\ 0 <= r /\ r < g /\ x = g * q + r
    BY DivMod
  <1> HIDE DEF q, r
  <1>2. q <= 0
    <2>1. SUFFICES ASSUME q >= 1 PROVE FALSE
      BY <1>1
    <2>2. g * (q - 1) >= 0 /\ g * (q - 1) = g * q - g
      BY <1>1, <2>1
    <2> QED
      BY <1>1, <2>2
  <1>3. q >= -1
    <2>1. SUFFICES ASSUME q <= -2 PROVE FALSE
      BY <1>1
    <2>2. g * (-2 - q) >= 0 /\ g * (-2 - q) = -2 * g - g * q
      BY <1>1, <2>1
    <2> QED
      BY <1>1, <2>2
  <1>4. CASE q = 0
    BY <1>1, <1>4 DEF q
  <1>5. CASE q = -1
    BY <1>1, <1>5 DEF q
  <1> QED
    BY <1>1, <1>2, <1>3, <1>4, <1>5

\* A multiple of the number of values of a type is converted to zero.
LEMMA CastOfMultiple ==
  ASSUME NEW t \in IntegerType, NEW v \in Int, Congruent(v, 0, Modulus[t.size])
  PROVE  Cast(t, v) = 0
  <1> DEFINE m == Modulus[t.size]
             lo == Lowest(t)
  <1>1. m \in Nat /\ m > 0 /\ lo \in Int /\ 0 \in Values(t) /\ t # Bool
    BY RangeOf
  <1>2. Congruent(v - lo, 0 - lo, m)
    <2> HIDE DEF m, lo
    <2>1. Congruent(v, 0, m)
      BY DEF m
    <2>2. PICK q \in Int : v - 0 = q * m
      BY <2>1 DEF Congruent
    <2>3. (v - lo) - (0 - lo) = q * m
      BY <1>1, <2>2
    <2> QED
      BY Zenon, <2>3 DEF Congruent
  <1>3. (v - lo) % m = (0 - lo) % m
    <2> HIDE DEF m, lo
    <2>1. v - lo \in Int /\ 0 - lo \in Int
      BY <1>1
    <2> QED
      BY Zenon, <1>1, <1>2, <2>1, SameRemainder
  <1>4. Cast(t, v) = Cast(t, 0)
    BY <1>1, <1>3 DEF Cast
  <1>5. Cast(t, 0) = 0
    BY <1>1, CastExact
  <1> QED
    BY <1>4, <1>5

\* A shift by the width of a narrow type or more is defined up to that of int
\* and shifts every bit out.
THEOREM ShiftsDrain == Spec => []NarrowShiftsDrain
  <1>1. TypeOK => NarrowShiftsDrain
    <2> SUFFICES ASSUME TypeOK, NEW n \in Position, obj.type # Bool,
                        n >= Width[obj.type.size], n < Width[IntSize]
                 PROVE  /\ ShiftOutcomes("<<", obj.type, obj.value, n) = {0}
                        /\ ShiftOutcomes(">>", obj.type, obj.value, n)
                             = {IF obj.value < 0 THEN -1 ELSE 0}
      BY DEF NarrowShiftsDrain
    <2> DEFINE t == obj.type
               x == obj.value
               m == Modulus[t.size]
               g == Weight[n]
               w == Width[t.size]
    <2>1. t \in IntegerType /\ x \in Values(t) /\ x \in Int /\ t.size \in Size
      <3>1. t \in IntegerType /\ x \in Values(t) /\ x \in Int
        BY DEF TypeOK, Object, Type
      <3> QED
        BY <3>1, RangeOf
    <2>2. n \in Nat /\ w \in Nat /\ w <= n /\ n - w \in Nat /\ n <= Width[4]
      BY <2>1, WidthIs DEF Position
    <2>3. t.size < IntSize
      <3>1. Width[3] \in Nat /\ Width[4] \in Nat /\ Width[4] = Width[3] + Width[3]
        BY WidthIs DEF Size
      <3>2. Width[t.size] < Width[3]
        BY <2>2, <3>1 DEF IntSize
      <3>3. t.size # 3 /\ t.size # 4
        BY <3>1, <3>2
      <3> QED
        BY <2>1, <3>3 DEF Size, IntSize
    <2>4. ShiftDefined(t, n)
      <3>1. Promoted(t).size = IntSize
        BY <2>3 DEF Promoted, Signed, IntegerOf
      <3>2. Width[IntSize] \in Nat
        BY WidthIs DEF IntSize, Size
      <3> QED
        BY <2>2, <3>1, <3>2 DEF ShiftDefined
    <2>5. m \in Nat /\ m > 0 /\ g \in Nat /\ g = m * Weight[n - w] /\ Weight[n - w] \in Nat
          /\ Weight[n - w] >= 1
      <3>1. w + (n - w) = n /\ n - w \in 0 .. Width[4] /\ w \in 0 .. Width[4] /\ n \in 0 .. Width[4]
        BY <2>2, WidthIs
      <3>2. Weight[w + (n - w)] = Weight[w] * Weight[n - w]
        BY <2>2, <3>1, WeightSum
      <3>3. m = Weight[w]
        BY <2>1 DEF Modulus
      <3> QED
        BY <3>1, <3>2, <3>3, WeightIs
    <2>6. PICK h \in Nat \ {0} : m = 2 * h /\ m \div 2 = h
      BY <2>1, ModulusEven
    <2>7. Values(t) = IF t.signed THEN -h .. h - 1 ELSE 0 .. 2 * h - 1
      BY <2>1, <2>6, Ends
    <2> DEFINE f == Weight[n - w]
    <2>8. ShiftOutcomes("<<", t, x, n) = {0}
      <3>1. x * g \in Int /\ x * g - 0 = (x * f) * m
        <4> HIDE DEF f, g, m
        <4>1. g = m * f /\ f \in Nat
          BY <2>5 DEF f
        <4> QED
          BY <2>1, <2>5, <4>1
      <3>2. Congruent(x * g, 0, m)
        <4>1. x * f \in Int
          BY <2>1, <2>5
        <4> QED
          BY Zenon, <3>1, <4>1 DEF Congruent
      <3>3. Cast(t, x * g) = 0
        BY <2>1, <3>1, <3>2, CastOfMultiple
      <3> QED
        BY <2>4, <3>3 DEF ShiftOutcomes, Shifted
    <2>9. ShiftOutcomes(">>", t, x, n) = {IF x < 0 THEN -1 ELSE 0}
      <3>1. g >= m
        <4> HIDE DEF f, g, m
        <4>1. g = m * f /\ f \in Nat /\ f >= 1
          BY <2>5 DEF f
        <4>2. m * (f - 1) >= 0 /\ m * (f - 1) = m * f - m
          BY <2>5, <4>1
        <4> QED
          BY <2>5, <4>1, <4>2
      <3>2. -g <= x /\ x < g
        BY <2>1, <2>5, <2>6, <2>7, <3>1
      <3>3. x \div g = IF x < 0 THEN -1 ELSE 0
        <4> HIDE DEF g, m
        <4> QED
          BY <2>1, <2>5, <3>1, <3>2, FloorOfSmall
      <3>4. (IF x < 0 THEN -1 ELSE 0) \in Values(t)
        BY <2>1, <2>6, <2>7
      <3>5. Cast(t, x \div g) = IF x < 0 THEN -1 ELSE 0
        BY <2>1, <3>3, <3>4, CastExact
      <3> QED
        BY <2>4, <3>5 DEF ShiftOutcomes, Shifted
    <2> QED
      BY <2>8, <2>9
  <1> QED
    BY <1>1, Typing, PTL

-----------------------------------------------------------------------------
(* The accessors implement the row of bits *)

\* The object lies within the word its operators work in.
LEMMA Widths ==
  /\ Bits \in Nat /\ Word \in Nat /\ Bits <= Word
  /\ Ones(Bits) \subseteq Ones(Word) /\ Ones(Bits) \subseteq Nat
  BY AccessAssumption DEF Word, Ones

\* A step that writes a slice, bit by bit, is a write to the row.
LEMMA WritesSlice ==
  ASSUME NEW from \in Nat, NEW w \in Nat, NEW v \in SUBSET Ones(w), UNCHANGED out,
         data' \subseteq Ones(Bits),
         \A b \in Ones(Bits) :
           /\ b \in from .. from + w - 1 => (b \in data' <=> b - from \in v)
           /\ b \notin from .. from + w - 1 => (b \in data' <=> b \in data)
  PROVE  Row!Write(from, w, v)
  <1>1. Row!Bit = Ones(Bits)
    BY DEF Row!Bit, Ones
  <1>2. data' = {b \in Ones(Bits) :
                  IF b \in from .. from + w - 1 THEN b - from \in v ELSE b \in data}
    OBVIOUS
  <1> QED
    BY <1>1, <1>2 DEF Row!Write

\* A step that reads a slice, bit by bit, is a read of the row.
LEMMA ReadsSlice ==
  ASSUME NEW from \in Nat, NEW w \in Nat, UNCHANGED data,
         out' \subseteq Ones(w),
         \A k \in Ones(w) : k \in out' <=> from + k \in data
  PROVE  Row!Read(from, w)
  <1>1. out' = {k \in 0 .. w - 1 : from + k \in data}
    BY Zenon DEF Ones
  <1> QED
    BY <1>1 DEF Row!Read

\* The two shifts, bit by bit.
LEMMA Shifts ==
  ASSUME NEW s \in SUBSET Nat, NEW n \in Nat
  PROVE  /\ \A b \in Ones(Word) : b \in ShiftUp(s, n) <=> b - n \in s
         /\ \A k \in Nat : k \in ShiftDown(s, n) <=> k + n \in s
         /\ ShiftDown(s, n) \subseteq Nat
  <1>1. ASSUME NEW b \in Ones(Word) PROVE b \in ShiftUp(s, n) <=> b - n \in s
    <2>1. b \in Int
      BY Widths DEF Ones
    <2> QED
      BY <2>1 DEF ShiftUp
  <1>2. ASSUME NEW k \in Nat PROVE k \in ShiftDown(s, n) <=> k + n \in s
    <2>1. \A c \in s : c >= n /\ k = c - n => c = k + n
      OBVIOUS
    <2>2. k + n >= n /\ k = k + n - n
      OBVIOUS
    <2>3. k \in ShiftDown(s, n) <=> \E c \in s : c >= n /\ k = c - n
      BY DEF ShiftDown
    <2>4. k + n \in s => \E c \in s : c >= n /\ k = c - n
      BY <2>2
    <2>5. (\E c \in s : c >= n /\ k = c - n) => k + n \in s
      BY <2>1
    <2> QED
      BY <2>3, <2>4, <2>5
  <1>3. ShiftDown(s, n) \subseteq Nat
    <2>1. \A c \in s : c >= n => c - n \in Nat
      OBVIOUS
    <2>2. \A k \in ShiftDown(s, n) : \E c \in s : c >= n /\ k = c - n
      BY DEF ShiftDown
    <2> QED
      BY <2>1, <2>2
  <1> QED
    BY <1>1, <1>2, <1>3

\* A width and an index of the row.
Asked(w, i) == w \in PieceBits \union {1, ByteBits} /\ i \in 0 .. SizeRange - 1

LEMMA SliceSteps ==
  ASSUME NEW w, NEW i, Asked(w, i)
  PROVE  /\ \A v \in SUBSET Ones(w) :
              /\ (i * w) % ShiftRange < Word /\ Row!Write((i * w) % ShiftRange, w, v)
              /\ asked' = <<i, w, v>>
              => Row!Next
         /\ /\ (i * w) % SizeRange < Word /\ Row!Read((i * w) % SizeRange, w)
            /\ asked' = <<i, w>>
            => Row!Next
  BY Zenon DEF Asked, Row!Next, Row!WriteAt, Row!ReadAt, Ones

\* A turn is not empty, and what lies within the word has not turned.
LEMMA Turns ==
  /\ ShiftRange \in Nat /\ SizeRange \in Nat /\ ShiftRange > 0 /\ SizeRange > 0
  /\ \A n \in Nat : n < Word => n % ShiftRange = n /\ n % SizeRange = n
  <1>1. /\ ShiftRange \in Nat /\ SizeRange \in Nat /\ ShiftRange <= SizeRange
        /\ 0 < Word /\ Word \in Nat /\ Word <= ShiftRange
    BY AccessAssumption DEF Word
  <1>2. ASSUME NEW n \in Nat, n < Word PROVE n % ShiftRange = n /\ n % SizeRange = n
    <2>1. n < ShiftRange /\ n < SizeRange
      BY <1>1, <1>2
    <2> QED
      BY <1>1, <2>1, SmallMod
  <1> QED
    BY <1>1, <1>2

\* Truncating the index first does not change where the count of bits ends.
LEMMA TruncationIsATurn ==
  ASSUME NEW w \in Nat, NEW i \in Nat
  PROVE  SetPieceShift(w, i) = (i * w) % ShiftRange
  <1>1. ShiftRange \in Nat /\ ShiftRange > 0
    BY Turns
  <1> DEFINE r == i % ShiftRange
  <1>2. r \in Int /\ Congruent(r, i, ShiftRange)
    BY <1>1, DivMod, CongruentRemainder
  <1> HIDE DEF r
  <1>3. PICK q \in Int : r - i = q * ShiftRange
    BY <1>2 DEF Congruent
  <1>4. r * w - i * w = (q * w) * ShiftRange
    <2>1. r * w - i * w = (r - i) * w
      BY <1>2
    <2>2. (q * ShiftRange) * w = (q * w) * ShiftRange
      BY <1>1
    <2> QED
      BY <1>3, <2>1, <2>2
  <1>5. q * w \in Int /\ r * w \in Int /\ i * w \in Int
    BY <1>2
  <1>6. Congruent(r * w, i * w, ShiftRange)
    BY Zenon, <1>4, <1>5 DEF Congruent
  <1>7. (r * w) % ShiftRange = (i * w) % ShiftRange
    BY <1>1, <1>5, <1>6, SameRemainder
  <1> QED
    BY <1>7 DEF SetPieceShift, r

\* Where a slice starts is a natural number.
LEMMA StartsAreNatural ==
  ASSUME NEW w \in Nat, NEW i \in Nat
  PROVE  (i * w) % ShiftRange \in Nat /\ (i * w) % SizeRange \in Nat
  <1> DEFINE n == i * w
  <1>1. n \in Int
    OBVIOUS
  <1> HIDE DEF n
  <1>2. n % ShiftRange \in Nat /\ n % SizeRange \in Nat
    BY <1>1, Turns, DivMod
  <1> QED
    BY <1>2 DEF n

\* A byte of the object lies within the word.
LEMMA BytesUnturned ==
  ASSUME NEW i \in 0 .. SizeRange - 1, InByte(i)
  PROVE  /\ Asked(ByteBits, i) /\ ByteBits \in Nat /\ i \in Nat
         /\ i * ByteBits \in Nat /\ i * ByteBits < Word
  <1>1. ByteBits \in Nat \ {0} /\ i \in Nat
    BY AccessAssumption, Turns
  <1>2. i * ByteBits \in Nat /\ (i + 1) * ByteBits = i * ByteBits + ByteBits
    BY <1>1
  <1>3. i * ByteBits < Word
    BY <1>1, <1>2, Widths DEF InByte
  <1> QED
    BY <1>1, <1>2, <1>3 DEF Asked

\* data stays within the object, and every step is one of the row.
LEMMA PieceReads ==
  ASSUME data \subseteq Ones(Bits), NEW w \in Nat, NEW n \in Nat,
         out' = ShiftDown(data, n) \intersect Ones(w), UNCHANGED data
  PROVE  Row!Read(n, w)
  <1>1. data \in SUBSET Nat
    BY Widths
  <1>2. \A k \in Ones(w) : k \in Nat
    BY DEF Ones
  <1>3. ASSUME NEW k \in Ones(w) PROVE k \in out' <=> n + k \in data
    <2>1. k \in Nat /\ n + k = k + n
      BY <1>2
    <2>2. k \in ShiftDown(data, n) <=> k + n \in data
      BY <1>1, <2>1, Shifts
    <2> QED
      BY <2>1, <2>2
  <1> QED
    BY <1>3, ReadsSlice

LEMMA PieceWrites ==
  ASSUME data \subseteq Ones(Bits), NEW w \in Nat, NEW n \in Nat, NEW v \in SUBSET Ones(w),
         data' = Store((data \intersect Not(ShiftUp(Ones(w), n))) \union ShiftUp(v, n)),
         UNCHANGED out
  PROVE  Row!Write(n, w, v)
  <1>1. Ones(w) \in SUBSET Nat /\ v \in SUBSET Nat
    BY DEF Ones
  <1>2. ASSUME NEW b \in Ones(Bits)
        PROVE  /\ b \in n .. n + w - 1 => (b \in data' <=> b - n \in v)
               /\ b \notin n .. n + w - 1 => (b \in data' <=> b \in data)
    <2>1. b \in Ones(Word) /\ b \in Nat
      BY Widths
    <2>2. /\ b \in ShiftUp(Ones(w), n) <=> b - n \in Ones(w)
          /\ b \in ShiftUp(v, n) <=> b - n \in v
      BY <1>1, <2>1, Shifts
    <2>3. b - n \in Ones(w) <=> b \in n .. n + w - 1
      BY <2>1 DEF Ones
    <2>4. b \in data' <=> (b \in data /\ b \notin ShiftUp(Ones(w), n)) \/ b \in ShiftUp(v, n)
      BY <2>1 DEF Store, Not
    <2> QED
      BY <2>2, <2>3, <2>4
  <1>3. data' \subseteq Ones(Bits)
    BY DEF Store
  <1> QED
    BY <1>2, <1>3, WritesSlice

\* The bytes of the object are slices of ByteBits bits.
LEMMA ByteBounds ==
  ASSUME NEW i \in Nat, InByte(i)
  PROVE  /\ i * ByteBits \in Nat /\ ByteBits \in Nat
         /\ ByteAt(i) = i * ByteBits .. i * ByteBits + ByteBits - 1
         /\ ByteAt(i) \subseteq Ones(Bits)
  <1>1. ByteBits \in Nat /\ i * ByteBits \in Nat /\ (i + 1) * ByteBits = i * ByteBits + ByteBits
    BY AccessAssumption
  <1>2. i * ByteBits + ByteBits <= Bits
    BY <1>1 DEF InByte
  <1> QED
    BY <1>1, <1>2, Widths DEF ByteAt, Ones

LEMMA ByteReads ==
  ASSUME data \subseteq Ones(Bits), NEW i \in Nat, InByte(i), byte(i)
  PROVE  Row!Read(i * ByteBits, ByteBits)
  <1> DEFINE n == i * ByteBits
  <1>1. /\ n \in Nat /\ ByteBits \in Nat /\ ByteAt(i) = n .. n + ByteBits - 1
    BY ByteBounds
  <1>2. out' = {b - n : b \in data \intersect ByteAt(i)} /\ UNCHANGED data
    BY DEF byte
  <1> HIDE DEF n
  <1>3. out' \subseteq Ones(ByteBits)
    <2>1. \A b \in ByteAt(i) : b - n \in Ones(ByteBits)
      BY <1>1 DEF Ones
    <2> QED
      BY <1>2, <2>1
  <1>4. ASSUME NEW k \in Ones(ByteBits) PROVE k \in out' <=> n + k \in data
    <2>1. n + k \in ByteAt(i) /\ (n + k) - n = k
      BY <1>1 DEF Ones
    <2>2. \A b \in ByteAt(i) : b - n = k => b = n + k
      BY <1>1 DEF Ones
    <2> QED
      BY <1>2, <2>1, <2>2
  <1>5. Row!Read(n, ByteBits)
    BY <1>1, <1>2, <1>3, <1>4, ReadsSlice
  <1> QED
    BY <1>5 DEF n

LEMMA ByteWrites ==
  ASSUME data \subseteq Ones(Bits), NEW i \in Nat, InByte(i), NEW v \in SUBSET Ones(ByteBits),
         setByte(v, i)
  PROVE  Row!Write(i * ByteBits, ByteBits, v)
  <1> DEFINE n == i * ByteBits
  <1>1. /\ n \in Nat /\ ByteBits \in Nat /\ ByteAt(i) = n .. n + ByteBits - 1
        /\ ByteAt(i) \subseteq Ones(Bits)
    BY ByteBounds
  <1>2. data' = (data \ ByteAt(i)) \union {b + n : b \in v} /\ UNCHANGED out
    BY DEF setByte
  <1> HIDE DEF n
  <1>3. \A b \in v : b \in Nat /\ b + n \in ByteAt(i)
    BY <1>1 DEF Ones
  <1>4. data' \subseteq Ones(Bits)
    BY <1>1, <1>2, <1>3
  <1>5. ASSUME NEW b \in Ones(Bits)
        PROVE  /\ b \in n .. n + ByteBits - 1 => (b \in data' <=> b - n \in v)
               /\ b \notin n .. n + ByteBits - 1 => (b \in data' <=> b \in data)
    <2>1. b \in {c + n : c \in v} <=> b - n \in v
      <3>1. b \in Nat /\ (b - n) + n = b
        BY <1>1, Widths
      <3>2. \A c \in v : b = c + n => c = b - n
        BY <1>1, <1>3
      <3> QED
        BY <3>1, <3>2
    <2>2. b - n \in v => b \in ByteAt(i)
      BY <1>3, <2>1
    <2> QED
      BY <1>1, <1>2, <2>1, <2>2
  <1>6. Row!Write(n, ByteBits, v)
    BY <1>1, <1>2, <1>4, <1>5, WritesSlice
  <1> QED
    BY <1>6 DEF n

\* A bit is a slice of width one.
LEMMA BitReads ==
  ASSUME data \subseteq Ones(Bits), NEW i \in Nat, bit(i)
  PROVE  Row!Read(i, 1)
  <1>1. Ones(1) = {0}
    BY DEF Ones
  <1> QED
    BY <1>1, PieceReads DEF bit

LEMMA BitWrites ==
  ASSUME data \subseteq Ones(Bits), NEW i \in Nat, NEW v \in BOOLEAN, setBit(v, i)
  PROVE  Row!Write(i, 1, IF v THEN {0} ELSE {})
  <1>1. Ones(1) = {0}
    BY DEF Ones
  <1>2. ShiftUp({}, i) = {}
    BY DEF ShiftUp
  <1>3. CASE v
    <2>1. data' = Store(data \union ShiftUp({0}, i))
      BY <1>3 DEF setBit
    <2>2. data \subseteq Ones(Word)
      BY Widths
    <2>3. Store((data \intersect Not(ShiftUp({0}, i))) \union ShiftUp({0}, i))
            = Store(data \union ShiftUp({0}, i))
      BY <2>2 DEF Store, Not
    <2> QED
      BY <1>1, <1>3, <2>1, <2>3, PieceWrites DEF setBit
  <1>4. CASE ~v
    <2>1. data' = Store((data \intersect Not(ShiftUp({0}, i))) \union ShiftUp({}, i))
      BY <1>2, <1>4 DEF setBit
    <2> QED
      BY <1>1, <1>4, <2>1, PieceWrites DEF setBit
  <1> QED
    BY <1>3, <1>4

\* What a reader returns are positions in the object.
LEMMA ReadTyped ==
  ASSUME data \subseteq Ones(Bits), NEW n \in Nat, NEW w \in Nat, Row!Read(n, w)
  PROVE  out' \subseteq Ones(Bits) /\ data' = data
  <1>1. \A k \in 0 .. w - 1 : n + k \in data => k \in Ones(Bits)
    BY Widths DEF Ones
  <1> QED
    BY <1>1 DEF Row!Read

LEMMA WriteTyped ==
  ASSUME NEW n \in Nat, NEW w \in Nat, NEW v, Row!Write(n, w, v)
  PROVE  data' \subseteq Ones(Bits) /\ out' = out
  BY DEF Row!Write, Row!Bit, Ones

\* Every step of the accessors is a step of the row and keeps the object typed.
LEMMA StepIsRowStep == AccessTypeOK /\ [AccessNext]_accessVars => AccessTypeOK' /\ [Row!Next]_accessVars
  <1> SUFFICES ASSUME AccessTypeOK, [AccessNext]_accessVars PROVE AccessTypeOK' /\ [Row!Next]_accessVars
    OBVIOUS
  <1> USE DEF AccessTypeOK
  <1>1. CASE UNCHANGED accessVars
    BY <1>1 DEF accessVars
  <1>2. CASE AccessNext
    <2>1. PICK i \in 0 .. SizeRange - 1 :
            \/ i < Word /\ bit(i) /\ asked' = <<i, 1>>
            \/ i < Word /\ \E v \in BOOLEAN :
                 setBit(v, i) /\ asked' = <<i, 1, IF v THEN {0} ELSE {}>>
            \/ InByte(i) /\ byte(i) /\ asked' = <<i, ByteBits>>
            \/ InByte(i) /\ \E v \in SUBSET Ones(ByteBits) :
                 setByte(v, i) /\ asked' = <<i, ByteBits, v>>
            \/ \E w \in PieceBits : PieceShift(w, i) < Word /\ piece(w, i) /\ asked' = <<i, w>>
            \/ \E w \in PieceBits : SetPieceShift(w, i) < Word /\ \E v \in SUBSET Ones(w) :
                 setPiece(w, v, i) /\ asked' = <<i, w, v>>
      BY <1>2 DEF AccessNext
    <2>2. i \in Nat /\ i * 1 = i /\ Asked(1, i) /\ \A w \in PieceBits : Asked(w, i) /\ w \in Nat
      BY Turns, AccessAssumption DEF Asked
    <2>3. ASSUME NEW w \in Nat, Asked(w, i), NEW n \in Nat, n = (i * w) % SizeRange, n < Word,
                 Row!Read(n, w), asked' = <<i, w>>
          PROVE  AccessTypeOK' /\ Row!Next
      BY <2>3, SliceSteps, ReadTyped
    <2>4. ASSUME NEW w \in Nat, Asked(w, i), NEW n \in Nat, n = (i * w) % ShiftRange, n < Word,
                 NEW v \in SUBSET Ones(w), Row!Write(n, w, v), asked' = <<i, w, v>>
          PROVE  AccessTypeOK' /\ Row!Next
      BY <2>4, SliceSteps, WriteTyped
    <2>5. ASSUME i < Word, bit(i), asked' = <<i, 1>> PROVE AccessTypeOK' /\ Row!Next
      <3>1. Row!Read(i, 1) /\ i = (i * 1) % SizeRange
        BY <2>2, <2>5, BitReads, Turns
      <3> QED
        BY <2>2, <2>3, <2>5, <3>1
    <2>6. ASSUME i < Word, NEW v \in BOOLEAN, setBit(v, i),
                 asked' = <<i, 1, IF v THEN {0} ELSE {}>>
          PROVE  AccessTypeOK' /\ Row!Next
      <3> DEFINE u == IF v THEN {0} ELSE {}
      <3>1. u \in SUBSET Ones(1) /\ asked' = <<i, 1, u>>
        BY <2>6 DEF Ones
      <3>2. Row!Write(i, 1, u) /\ i = (i * 1) % ShiftRange
        BY <2>2, <2>6, BitWrites, Turns
      <3> HIDE DEF u
      <3> QED
        BY <2>2, <2>4, <2>6, <3>1, <3>2
    <2>7. ASSUME InByte(i), byte(i), asked' = <<i, ByteBits>> PROVE AccessTypeOK' /\ Row!Next
      <3>1. Row!Read(i * ByteBits, ByteBits)
        BY <2>2, <2>7, ByteReads
      <3>2. i * ByteBits = (i * ByteBits) % SizeRange
        BY <2>7, BytesUnturned, Turns
      <3> QED
        BY <2>3, <2>7, <3>1, <3>2, BytesUnturned
    <2>8. ASSUME InByte(i), NEW v \in SUBSET Ones(ByteBits), setByte(v, i),
                 asked' = <<i, ByteBits, v>>
          PROVE  AccessTypeOK' /\ Row!Next
      <3>1. Row!Write(i * ByteBits, ByteBits, v)
        BY <2>2, <2>8, ByteWrites
      <3>2. i * ByteBits = (i * ByteBits) % ShiftRange
        BY <2>8, BytesUnturned, Turns
      <3> QED
        BY <2>4, <2>8, <3>1, <3>2, BytesUnturned
    <2>9. ASSUME NEW w \in PieceBits, PieceShift(w, i) < Word, piece(w, i), asked' = <<i, w>>
          PROVE  AccessTypeOK' /\ Row!Next
      <3>1. PieceShift(w, i) = (i * w) % SizeRange /\ PieceShift(w, i) \in Nat /\ w \in Nat
        BY <2>2, StartsAreNatural DEF PieceShift
      <3>2. Row!Read(PieceShift(w, i), w)
        BY <2>9, <3>1, PieceReads DEF piece
      <3> QED
        BY <2>2, <2>3, <2>9, <3>1, <3>2
    <2>10. ASSUME NEW w \in PieceBits, SetPieceShift(w, i) < Word, NEW v \in SUBSET Ones(w),
                  setPiece(w, v, i), asked' = <<i, w, v>>
           PROVE  AccessTypeOK' /\ Row!Next
      <3>1. SetPieceShift(w, i) = (i * w) % ShiftRange /\ SetPieceShift(w, i) \in Nat /\ w \in Nat
        BY <2>2, StartsAreNatural, TruncationIsATurn
      <3>2. Row!Write(SetPieceShift(w, i), w, v)
        BY <2>10, <3>1, PieceWrites DEF setPiece
      <3> QED
        BY <2>2, <2>4, <2>10, <3>1, <3>2
    <2> QED
      BY <2>1, <2>5, <2>6, <2>7, <2>8, <2>9, <2>10
  <1> QED
    BY <1>1, <1>2

LEMMA InitIsRowInit == AccessInit => AccessTypeOK /\ Row!Init
  BY DEF AccessInit, AccessTypeOK, Row!Init, Row!Bit, Ones

\* The value keeps to the bits of its type.
THEOREM AccessTyping == AccessSpec => []AccessTypeOK
  BY InitIsRowInit, StepIsRowStep, PTL DEF AccessSpec

\* For every width of the type, of int, of a byte and of the pieces, and for
\* every index of which C++ defines the effect, however large: the accessors are
\* views of one row of bits, and a product that wraps names the slice at what is
\* left of it.
THEOREM AccessorsAgree == AccessSpec => ImplementsBitArray
  BY InitIsRowInit, StepIsRowStep, PTL DEF AccessSpec, ImplementsBitArray, Row!Spec, accessVars
=============================================================================
