-------------------------- MODULE FloatChain_proofs --------------------------
(***************************************************************************)
(* Proofs about Float32 and Float64, for every precision, range and unit   *)
(* and for chains of any length.  Rounding is known by its definition      *)
(* alone: the values of a type are a grid, and everything here follows     *)
(* from what rounding does to the points of a grid and between them.       *)
(***************************************************************************)
EXTENDS FloatChain, Congruence, TLAPS

-----------------------------------------------------------------------------
(* Powers of two.                                                          *)

LEMMA PowerIs ==
  ASSUME NEW i \in Exponent
  PROVE  Power[i] \in Nat /\ Power[i] >= 1
  <1> DEFINE S == {n \in Nat : n <= MaxExponent => Power[n] >= 1}
  <1>1. 0 \in S
    BY PowerAssumption
  <1>2. \A n \in S : n + 1 \in S
    <2> SUFFICES ASSUME NEW n \in S, n + 1 <= MaxExponent PROVE Power[n + 1] >= 1
      OBVIOUS
    <2>1. n \in 0 .. MaxExponent - 1 /\ n <= MaxExponent /\ n \in Exponent
      BY PowerAssumption DEF Exponent
    <2>2. Power[n] >= 1 /\ Power[n + 1] = 2 * Power[n] /\ Power[n] \in Nat
      BY <2>1, PowerAssumption
    <2> QED
      BY <2>2
  <1>3. S = Nat
    <2> HIDE DEF S
    <2>1. S \subseteq Nat
      BY DEF S
    <2> QED
      BY <1>1, <1>2, <2>1, SetInduction
  <1>4. i \in Nat /\ i <= MaxExponent
    BY PowerAssumption DEF Exponent
  <1> QED
    BY <1>3, <1>4, PowerAssumption

LEMMA PowerNext ==
  ASSUME NEW i \in Nat, i + 1 <= MaxExponent
  PROVE  Power[i + 1] = 2 * Power[i]
  <1>1. i \in 0 .. MaxExponent - 1
    BY PowerAssumption
  <1> QED
    BY <1>1, PowerAssumption

LEMMA PowerSum ==
  ASSUME NEW i \in Nat, NEW j \in Nat, i + j <= MaxExponent
  PROVE  Power[i + j] = Power[i] * Power[j]
  <1> DEFINE S == {n \in Nat : i + n <= MaxExponent => Power[i + n] = Power[i] * Power[n]}
  <1>a. MaxExponent \in Nat
    BY PowerAssumption
  <1>0. Power[i] \in Nat
    BY PowerIs, PowerAssumption DEF Exponent
  <1>1. 0 \in S
    <2>1. Power[0] = 1 /\ i + 0 = i
      BY PowerAssumption
    <2> QED
      BY <1>0, <2>1
  <1>2. \A n \in S : n + 1 \in S
    <2> SUFFICES ASSUME NEW n \in S, i + (n + 1) <= MaxExponent
                 PROVE  Power[i + (n + 1)] = Power[i] * Power[n + 1]
      BY <1>a
    <2>1. /\ i + n \in Nat /\ (i + n) + 1 <= MaxExponent /\ n \in Nat /\ n + 1 <= MaxExponent
          /\ i + (n + 1) = (i + n) + 1 /\ n \in Exponent /\ i + n <= MaxExponent
      <3>1. MaxExponent \in Nat /\ n \in Nat
        BY PowerAssumption
      <3>2. n <= MaxExponent /\ (i + n) + 1 <= MaxExponent
        BY <3>1
      <3> QED
        BY <3>1, <3>2 DEF Exponent
    <2>2. Power[(i + n) + 1] = 2 * Power[i + n] /\ Power[n + 1] = 2 * Power[n]
      BY <2>1, PowerNext
    <2>3. Power[i + n] = Power[i] * Power[n]
      BY <2>1, PowerAssumption
    <2>4. Power[n] \in Nat
      BY <2>1, PowerIs
    <2>5. 2 * (Power[i] * Power[n]) = Power[i] * (2 * Power[n])
      BY <1>0, <2>4
    <2> QED
      BY <2>1, <2>2, <2>3, <2>5
  <1>3. S = Nat
    <2> HIDE DEF S
    <2>1. S \subseteq Nat
      BY DEF S
    <2> QED
      BY <1>1, <1>2, <2>1, SetInduction
  <1> QED
    BY <1>3

\* A larger power is a multiple of a smaller one, and so larger.
LEMMA PowerDivides ==
  ASSUME NEW i \in Exponent, NEW j \in Exponent, i <= j
  PROVE  /\ \E q \in Nat \ {0} : Power[j] = q * Power[i]
         /\ Power[i] <= Power[j]
  <1>1. /\ j - i \in Nat /\ i \in Nat /\ (j - i) + i = j /\ (j - i) + i <= MaxExponent
        /\ j - i \in Exponent
    BY PowerAssumption DEF Exponent
  <1> DEFINE d == j - i
  <1>2. d \in Nat /\ d + i = j /\ d + i <= MaxExponent /\ d \in Exponent
    BY <1>1
  <1> HIDE DEF d
  <1>3. Power[d + i] = Power[d] * Power[i]
    BY <1>1, <1>2, PowerSum
  <1>4. Power[d] \in Nat \ {0} /\ Power[i] \in Nat
    BY <1>2, PowerIs
  <1>5. Power[j] = Power[d] * Power[i]
    BY <1>2, <1>3
  <1>6. (Power[d] - 1) * Power[i] >= 0 /\ (Power[d] - 1) * Power[i] = Power[d] * Power[i] - Power[i]
    BY <1>4
  <1>7. Power[i] <= Power[j]
    BY <1>4, <1>5, <1>6
  <1> QED
    BY Zenon, <1>4, <1>5, <1>7

LEMMA PowerRises ==
  ASSUME NEW i \in Exponent, NEW j \in Exponent, i < j
  PROVE  2 * Power[i] <= Power[j]
  <1>1. i + 1 \in Exponent /\ i + 1 <= j /\ i \in Nat /\ i + 1 <= MaxExponent
    BY PowerAssumption DEF Exponent
  <1>2. Power[i + 1] = 2 * Power[i]
    BY <1>1, PowerNext
  <1>3. Power[i + 1] <= Power[j]
    BY <1>1, PowerDivides
  <1> QED
    BY <1>2, <1>3

\* The product of two powers is a multiple of every power that is no larger.
LEMMA PowerDividesProduct ==
  ASSUME NEW i \in Exponent, NEW a \in Exponent, NEW b \in Exponent,
         Power[i] <= Power[a] * Power[b]
  PROVE  \E q \in Nat \ {0} : Power[a] * Power[b] = q * Power[i]
  <1>1. Power[i] \in Nat \ {0} /\ Power[a] \in Nat \ {0} /\ Power[b] \in Nat \ {0}
    BY PowerIs
  <1>2. a \in Nat /\ b \in Nat /\ i \in Nat /\ MaxExponent \in Nat
    BY PowerAssumption DEF Exponent
  <1>3. CASE a + b <= MaxExponent
    <2>1. Power[a + b] = Power[a] * Power[b]
      BY <1>2, <1>3, PowerSum
    <2>2. a + b \in Exponent
      BY <1>2, <1>3 DEF Exponent
    <2>3. i <= a + b
      <3>1. SUFFICES ASSUME a + b < i PROVE FALSE
        BY <1>2
      <3>2. 2 * Power[a + b] <= Power[i] /\ Power[a + b] \in Nat \ {0}
        BY <2>2, <3>1, PowerRises, PowerIs
      <3> QED
        BY <1>1, <2>1, <3>2
    <2>4. PICK q \in Nat \ {0} : Power[a + b] = q * Power[i]
      BY <2>2, <2>3, PowerDivides
    <2> QED
      BY Zenon, <2>1, <2>4
  <1>4. CASE ~(a + b <= MaxExponent)
    <2> DEFINE c == MaxExponent - a
               d == b - c
    <2>1. c \in Nat /\ d \in Nat /\ a + c = MaxExponent /\ c + d = b
      BY <1>2, <1>4 DEF Exponent
    <2>1a. c \in Exponent /\ d \in Exponent /\ MaxExponent \in Exponent /\ i <= MaxExponent /\ c + d <= MaxExponent /\ a + c <= MaxExponent
      BY <1>2, <1>4, <2>1 DEF Exponent
    <2> HIDE DEF c, d
    <2>2. Power[a + c] = Power[a] * Power[c] /\ Power[c + d] = Power[c] * Power[d]
      BY <1>2, <2>1, <2>1a, PowerSum
    <2>3. PICK q \in Nat \ {0} : Power[MaxExponent] = q * Power[i]
      BY <2>1a, PowerDivides
    <2>4. Power[c] \in Nat \ {0} /\ Power[d] \in Nat \ {0}
      BY <2>1a, PowerIs
    <2>5. Power[a] * Power[b] = Power[a] * (Power[c] * Power[d])
      BY <2>1, <2>2
    <2>6. Power[a] * Power[c] = q * Power[i]
      BY <2>1, <2>2, <2>3
    <2>7. Power[a] * (Power[c] * Power[d]) = (Power[a] * Power[c]) * Power[d]
      BY <1>1, <2>4
    <2>8. (q * Power[i]) * Power[d] = (q * Power[d]) * Power[i]
      BY <1>1, <2>3, <2>4
    <2>9. q * Power[d] \in Nat \ {0}
      <3>1. q >= 1 /\ Power[d] >= 1
        BY <2>4
      <3>2. (q - 1) * (Power[d] - 1) >= 0
        BY <2>4, <3>1
      <3>3. (q - 1) * (Power[d] - 1) = q * Power[d] - q - Power[d] + 1
        BY <2>4
      <3> QED
        BY <2>4, <3>1, <3>2, <3>3
    <2>10. Power[a] * Power[b] = (q * Power[d]) * Power[i]
      BY <2>5, <2>6, <2>7, <2>8
    <2> QED
      BY Zenon, <2>9, <2>10
  <1> QED
    BY <1>3, <1>4

-----------------------------------------------------------------------------
(* Rounding to the nearest multiple.                                       *)

\* The nearest multiple is at most half a gap away.
LEMMA NearestIs ==
  ASSUME NEW n \in Nat, NEW g \in Nat, g > 0
  PROVE  /\ Nearest(n, g) \in Nat
         /\ 2 * (Nearest(n, g) * g) <= 2 * n + g
         /\ 2 * n <= 2 * (Nearest(n, g) * g) + g
  <1> DEFINE q == n \div g
             r == n % g
  <1>1. q \in Int /\ r \in Int /\ 0 <= r /\ r < g /\ n = g * q + r /\ q >= 0
    BY DivMod, QuotientBelow
  <1>2. \/ Nearest(n, g) = q + 1 /\ 2 * r >= g
        \/ Nearest(n, g) = q /\ 2 * r <= g
    BY <1>1 DEF Nearest
  <1> HIDE DEF q, r
  <1>3. (q + 1) * g = g * q + g /\ q * g = g * q
    BY <1>1
  <1> QED
    BY <1>1, <1>2, <1>3

\* A multiple is nearest to itself.
LEMMA NearestExact ==
  ASSUME NEW k \in Nat, NEW g \in Nat, g > 0
  PROVE  Nearest(k * g, g) = k
  <1>1. (k * g + 0) \div g = k /\ (k * g + 0) % g = 0
    BY DivModUnique
  <1>2. k * g + 0 = k * g
    OBVIOUS
  <1>3. (k * g) \div g = k /\ (k * g) % g = 0
    BY <1>1, <1>2
  <1> DEFINE n == k * g
  <1>4. n \div g = k /\ n % g = 0
    BY <1>3
  <1> HIDE DEF n
  <1>5. Nearest(n, g) = k
    BY <1>4 DEF Nearest
  <1> QED
    BY <1>5 DEF n

\* Rounding never changes an order.
LEMMA NearestMonotone ==
  ASSUME NEW m \in Nat, NEW n \in Nat, NEW g \in Nat, g > 0, m <= n
  PROVE  Nearest(m, g) <= Nearest(n, g)
  <1> DEFINE q == m \div g
             r == m % g
             p == n \div g
             s == n % g
  <1>1. /\ q \in Int /\ r \in Int /\ 0 <= r /\ r < g /\ m = g * q + r /\ q >= 0
        /\ p \in Int /\ s \in Int /\ 0 <= s /\ s < g /\ n = g * p + s /\ p >= 0
    BY DivMod, QuotientBelow
  <1>2. /\ Nearest(m, g) = IF 2 * r > g \/ (2 * r = g /\ q % 2 = 1) THEN q + 1 ELSE q
        /\ Nearest(n, g) = IF 2 * s > g \/ (2 * s = g /\ p % 2 = 1) THEN p + 1 ELSE p
    BY DEF Nearest
  <1> HIDE DEF q, r, p, s
  <1>3. q <= p
    <2>1. SUFFICES ASSUME p + 1 <= q PROVE FALSE
      BY <1>1
    <2>2. (p + 1) * g <= q * g
      BY <1>1, <2>1, TimesMonotone
    <2>3. (p + 1) * g = g * p + g /\ q * g = g * q
      BY <1>1
    <2> QED
      BY <1>1, <2>2, <2>3
  <1>4. CASE q < p
    BY <1>1, <1>2, <1>4
  <1>5. CASE q = p
    <2>1. r <= s
      BY <1>1, <1>5
    <2> QED
      BY <1>1, <1>2, <1>5, <2>1
  <1> QED
    BY <1>1, <1>3, <1>4, <1>5

-----------------------------------------------------------------------------
(* The grid of a floating-point type: Steps(t) multiples of every doubling   *)
(* of the least magnitude Least(t).                                          *)

Least(t) == Smallest[t.size]
Steps(t) == Power[Precision[t.size]]

\* The magnitudes that rounding is asked about are below this.
Reach == Largest[4] * Largest[4]

OnGrid(t, n) ==
  \E k \in Nat, a, b \in Exponent :
    k <= Steps(t) /\ n = k * (Least(t) * (Power[a] * Power[b]))

LEMMA SizesAre ==
  /\ MaxExponent \in Nat
  /\ Width[4] \in Nat \ {0}
  /\ \A k \in Size : Width[k] \in Nat \ {0} /\ Width[k] <= Width[4]
  /\ Width[2] = Width[1] + Width[1] /\ Width[3] = Width[2] + Width[2] /\ Width[4] = Width[3] + Width[3]
  <1>1. /\ Width[1] \in Nat \ {0} /\ Width[2] \in Nat \ {0}
        /\ Width[3] \in Nat \ {0} /\ Width[4] \in Nat \ {0}
    BY WidthAssumption DEF Size
  <1>2. Width[2] = 2 * Width[1] /\ Width[3] = 2 * Width[2] /\ Width[4] = 2 * Width[3]
    <2>1. Width[1 + 1] = 2 * Width[1] /\ Width[2 + 1] = 2 * Width[2] /\ Width[3 + 1] = 2 * Width[3]
      BY WidthAssumption
    <2> QED
      BY <2>1
  <1> QED
    BY <1>1, <1>2, PowerAssumption DEF Size

LEMMA FormatIs ==
  ASSUME NEW t \in FloatingType
  PROVE  /\ t.size \in FloatSize
         /\ Format(t).smallest = Least(t) /\ Format(t).largest = Largest[t.size]
         /\ Power[Format(t).precision] = Steps(t)
         /\ Least(t) \in Nat \ {0} /\ Largest[t.size] \in Nat \ {0}
         /\ Precision[t.size] \in Exponent \ {0}
         /\ Steps(t) \in Nat \ {0} /\ Steps(t) % 2 = 0
         /\ Steps(t) * Least(t) * Power[MaxExponent] > Reach
  <1>1. t.size \in FloatSize
    BY DEF FloatingType, Float32, Float64, FloatOf, FloatSize, IntSize
  <1>2. Least(t) \in Nat \ {0} /\ Largest[t.size] \in Nat \ {0} /\ Precision[t.size] \in Nat \ {0}
    BY <1>1, FloatAssumption DEF Least
  <1>3. Precision[t.size] <= Width[4]
    <2>1. t.size = 3 \/ t.size = 4
      BY <1>1 DEF FloatSize, IntSize
    <2>2. Precision[3] \in Nat /\ Precision[4] \in Nat /\ Width[3] \in Nat /\ Width[4] \in Nat
      BY FloatAssumption, SizesAre DEF FloatSize, IntSize, Size
    <2> QED
      BY <2>1, <2>2, FloatAssumption
  <1>4. Precision[t.size] \in Exponent \ {0} /\ Precision[t.size] - 1 \in Nat
        /\ Precision[t.size] <= MaxExponent
    <2>1. Width[4] <= MaxExponent /\ MaxExponent \in Nat /\ Width[4] \in Nat
      BY FloatAssumption, SizesAre
    <2> QED
      BY <1>2, <1>3, <2>1 DEF Exponent
  <1>5. Steps(t) \in Nat \ {0} /\ Steps(t) % 2 = 0
    <2> DEFINE p == Precision[t.size] - 1
    <2>1. p \in Nat /\ p + 1 <= MaxExponent /\ p + 1 = Precision[t.size] /\ p \in Exponent
      BY <1>2, <1>4, SizesAre DEF Exponent
    <2> HIDE DEF p
    <2>2. Power[p + 1] = 2 * Power[p] /\ Power[p] \in Nat /\ Power[p] >= 1
      BY <2>1, PowerNext, PowerIs
    <2>3. \A x \in Nat : (2 * x) % 2 = 0
      OBVIOUS
    <2> QED
      BY <2>1, <2>2, <2>3 DEF Steps
  <1>6. Steps(t) * Least(t) * Power[MaxExponent] > Reach
    <2>1. Smallest[t.size] * Power[Precision[t.size]] * Power[MaxExponent] > Reach
      BY <1>1, FloatAssumption DEF Reach
    <2>2. Least(t) * Steps(t) = Steps(t) * Least(t)
      BY <1>2, <1>5
    <2> QED
      BY <2>1, <2>2 DEF Least, Steps
  <1> QED
    BY <1>1, <1>2, <1>4, <1>5, <1>6 DEF Format, Steps, Least

\* The distance between the values around num / den, and where num / den lies.
LEMMA SpacingIs ==
  ASSUME NEW t \in FloatingType, NEW num \in Nat, NEW den \in Nat, den > 0, num <= Reach
  PROVE  \E i \in Exponent :
           /\ Spacing(t, num, den) = Least(t) * Power[i]
           /\ num < (Steps(t) * (Least(t) * Power[i])) * den
           /\ i > 0 => num >= (Steps(t) * (Least(t) * Power[i - 1])) * den
  <1> DEFINE full == Least(t) * Steps(t) * den
             T == {i \in Exponent : num < full * Power[i]}
             Q(i) == num < full * Power[i] /\ (i > 0 => num >= full * Power[i - 1])
  <1>1. /\ Least(t) \in Nat \ {0} /\ Steps(t) \in Nat \ {0} /\ full \in Nat
        /\ \A i \in Exponent : Power[i] \in Nat \ {0}
        /\ MaxExponent \in Exponent /\ Exponent \subseteq Nat
    <2>1. Least(t) \in Nat \ {0} /\ Steps(t) \in Nat \ {0}
      BY FormatIs
    <2>2. full \in Nat
      BY <2>1
    <2> QED
      BY <2>1, <2>2, PowerIs, SizesAre DEF Exponent
  <1>2. ASSUME NEW i \in Exponent
        PROVE  full * Power[i] = (Steps(t) * (Least(t) * Power[i])) * den
    <2>1. \A l, s, d, p \in Nat : (l * s * d) * p = (s * (l * p)) * d
      OBVIOUS
    <2> QED
      BY <1>1, <2>1
  <1>3. MaxExponent \in T
    <2> DEFINE x == Steps(t) * Least(t) * Power[MaxExponent]
    <2>1. x > Reach /\ x \in Nat
      BY <1>1, FormatIs
    <2>2. full * Power[MaxExponent] = x * den
      <3>1. \A l, s, d, p \in Nat : (l * s * d) * p = (s * l * p) * d
        OBVIOUS
      <3> QED
        BY <1>1, <3>1
    <2> HIDE DEF x
    <2>3. x * (den - 1) >= 0 /\ x * (den - 1) = x * den - x /\ x * den \in Nat
      BY <2>1
    <2>4. Reach \in Nat
      <3>1. Largest[4] \in Nat
        BY FloatAssumption DEF FloatSize
      <3> QED
        BY <3>1 DEF Reach
    <2>5. num < full * Power[MaxExponent]
      BY <2>1, <2>2, <2>3, <2>4
    <2> QED
      BY <1>1, <2>5
  <1>4. \E i \in Exponent : Q(i)
    <2>1. PICK i \in T : \A j \in T : i <= j
      <3>1. T \subseteq Nat /\ T # {}
        BY <1>1, <1>3
      <3> HIDE DEF T
      <3> QED
        BY <3>1, LeastNatural
    <2>2. ASSUME i > 0 PROVE num >= full * Power[i - 1]
      <3>1. i - 1 \in Exponent /\ ~(i - 1 \in T)
        BY <1>1, <2>1, <2>2 DEF Exponent
      <3> QED
        BY <1>1, <3>1
    <2> QED
      BY <2>1, <2>2
  <1> DEFINE c == CHOOSE i \in Exponent : Q(i)
  <1>5. c \in Exponent /\ Q(c)
    <2> HIDE DEF Q
    <2> QED
      BY <1>4
  <1>6. Spacing(t, num, den) = Least(t) * Power[c]
    BY FormatIs DEF Spacing
  <1> HIDE DEF c
  <1>7. c > 0 => c - 1 \in Exponent
    BY <1>1, <1>5 DEF Exponent
  <1>8. num < (Steps(t) * (Least(t) * Power[c])) * den
    BY <1>2, <1>5
  <1>9. c > 0 => num >= (Steps(t) * (Least(t) * Power[c - 1])) * den
    BY <1>2, <1>5, <1>7
  <1> QED
    BY <1>5, <1>6, <1>8, <1>9

\* A magnitude rounds to a point of the grid, no further than half the distance
\* between the points around it.
LEMMA RoundedIs ==
  ASSUME NEW t \in FloatingType, NEW num \in Nat, NEW den \in Nat, den > 0, num <= Reach
  PROVE  \E i \in Exponent, k \in 0 .. Steps(t) :
           /\ RoundedUnits(t, num, den) = k * (Least(t) * Power[i])
           /\ k = Nearest(num, (Least(t) * Power[i]) * den)
           /\ Least(t) * Power[i] \in Nat \ {0}
           /\ num < (Steps(t) * (Least(t) * Power[i])) * den
           /\ i > 0 => num >= (Steps(t) * (Least(t) * Power[i - 1])) * den
  <1>1. PICK i \in Exponent :
           /\ Spacing(t, num, den) = Least(t) * Power[i]
           /\ num < (Steps(t) * (Least(t) * Power[i])) * den
           /\ i > 0 => num >= (Steps(t) * (Least(t) * Power[i - 1])) * den
    BY SpacingIs
  <1> DEFINE s == Least(t) * Power[i]
             g == s * den
             k == Nearest(num, g)
  <1>2. s \in Nat \ {0} /\ Steps(t) \in Nat
    <2>1. \A x, y \in Nat \ {0} : x * y \in Nat \ {0}
      OBVIOUS
    <2> QED
      BY <2>1, FormatIs, PowerIs
  <1>3. RoundedUnits(t, num, den) = k * s
    BY <1>1 DEF RoundedUnits
  <1>4. num < (Steps(t) * s) * den
    BY <1>1
  <1> HIDE DEF s
  <1>5. g \in Nat \ {0}
    <2>1. \A x, y \in Nat \ {0} : x * y \in Nat \ {0}
      OBVIOUS
    <2> QED
      BY <1>2, <2>1
  <1>6. k \in Nat /\ 2 * (k * g) <= 2 * num + g
    <2> HIDE DEF g
    <2> QED
      BY <1>5, NearestIs
  <1>7. g \in Nat \ {0} /\ num < Steps(t) * g
    <2>1. (Steps(t) * s) * den = Steps(t) * (s * den)
      BY <1>2
    <2> QED
      BY <1>4, <1>5, <2>1
  <1> HIDE DEF g, k
  <1>8. k <= Steps(t)
    <2>1. SUFFICES ASSUME Steps(t) + 1 <= k PROVE FALSE
      BY <1>2, <1>6
    <2>2. (Steps(t) + 1) * g <= k * g
      BY <1>2, <1>6, <1>7, <2>1, TimesMonotone
    <2>3. (Steps(t) + 1) * g = Steps(t) * g + g /\ Steps(t) * g \in Nat /\ k * g \in Nat
      BY <1>2, <1>6, <1>7
    <2> QED
      BY <1>6, <1>7, <2>2, <2>3
  <1>9. k \in 0 .. Steps(t)
    BY <1>2, <1>6, <1>8
  <1>10. /\ RoundedUnits(t, num, den) = k * (Least(t) * Power[i])
         /\ k = Nearest(num, (Least(t) * Power[i]) * den)
         /\ Least(t) * Power[i] \in Nat \ {0}
    BY <1>2, <1>3 DEF s, k, g
  <1> QED
    BY <1>1, <1>9, <1>10

\* A number that is a multiple of every power of two up to itself.
Doubled(m) ==
  m \in Nat \ {0} /\ \A j \in Exponent : Power[j] <= m => \E q \in Nat \ {0} : m = q * Power[j]

\* The spacing around a magnitude divides as many as a significand counts of such
\* multiples of the least magnitude, unless they fall short of it.
LEMMA SpacingDividesDoubled ==
  ASSUME NEW t \in FloatingType, NEW k \in Nat, k <= Steps(t), NEW m, Doubled(m),
         NEW n, n = k * (Least(t) * m), NEW i \in Exponent,
         i > 0 => n >= Steps(t) * (Least(t) * Power[i - 1])
  PROVE  \E q \in Nat : n = q * (Least(t) * Power[i])
  <1> DEFINE L == Least(t)
             p == Steps(t)
  <1>1. m \in Nat /\ \A j \in Exponent : Power[j] <= m => \E q \in Nat \ {0} : m = q * Power[j]
    BY DEF Doubled
  <1>2. /\ L \in Nat \ {0} /\ p \in Nat \ {0} /\ p % 2 = 0
        /\ Power[i] \in Nat \ {0}
    BY FormatIs, PowerIs
  <1>3. m \in Nat \ {0}
    BY DEF Doubled
  <1>4. k <= p /\ n = k * (L * m)
    OBVIOUS
  <1>5. CASE k = 0
    <2>1. n = 0 * (L * Power[i])
      BY <1>2, <1>3, <1>4, <1>5
    <2> QED
      BY <2>1
  <1>6. CASE Power[i] <= m
    <2>1. PICK q \in Nat \ {0} : m = q * Power[i]
      BY <1>1, <1>6
    <2>2. k * (L * (q * Power[i])) = (k * q) * (L * Power[i]) /\ k * q \in Nat
      BY <1>2
    <2>3. n = (k * q) * (L * Power[i])
      BY <1>4, <2>1, <2>2
    <2> QED
      BY <2>2, <2>3
  <1>7. CASE ~(Power[i] <= m) /\ k # 0
    <2>0. i \in Nat /\ 0 \in Exponent /\ (i > 0 => i - 1 \in Exponent /\ i - 1 \in Nat) /\ i <= MaxExponent
      BY SizesAre DEF Exponent
    <2>1. i > 0
      <3>1. Power[0] = 1
        BY PowerAssumption
      <3> QED
        BY <1>3, <1>7, <2>0, <3>1
    <2> DEFINE h == Power[i - 1]
    <2>2. h \in Nat \ {0} /\ Power[i] = 2 * h
      <3>1. (i - 1) + 1 = i /\ i - 1 \in Nat /\ (i - 1) + 1 <= MaxExponent
        BY <2>0, <2>1
      <3>2. Power[(i - 1) + 1] = 2 * Power[i - 1]
        BY <3>1, PowerNext
      <3> QED
        BY <2>0, <2>1, <3>1, <3>2, PowerIs
    <2>3. n >= p * (L * h)
      BY <2>1
    <2>4. h <= m => \E q \in Nat \ {0} : m = q * h
      BY <1>1, <2>0, <2>1
    <2> HIDE DEF h, p, L
    <2>5. h <= m
      <3>1. SUFFICES ASSUME m + 1 <= h PROVE FALSE
        BY <1>3, <2>2
      <3>2. L * m + L <= L * h
        <4>1. L * (h - (m + 1)) >= 0 /\ L * (h - (m + 1)) = L * h - L * m - L
          BY <1>2, <1>3, <2>2, <3>1
        <4>2. L * h \in Nat /\ L * m \in Nat
          BY <1>2, <1>3, <2>2
        <4> QED
          BY <1>2, <4>1, <4>2
      <3> DEFINE x == L * m
                 y == L * h
      <3>3. x \in Nat /\ y \in Nat /\ x + L <= y /\ n = k * x /\ n >= p * y
        BY <1>2, <1>3, <1>4, <2>2, <2>3, <3>2
      <3> HIDE DEF x, y
      <3>4. k * x <= p * x
        BY <1>2, <1>4, <3>3, TimesMonotone
      <3>5. p * (y - x) >= p /\ p * (y - x) = p * y - p * x
        <4>1. y - x >= 1
          BY <1>2, <3>3
        <4>2. p * (y - x - 1) >= 0 /\ p * (y - x - 1) = p * (y - x) - p
          BY <1>2, <3>3, <4>1
        <4>3. p * (y - x) = p * y - p * x
          BY <1>2, <3>3
        <4> QED
          BY <1>2, <3>3, <4>2, <4>3
      <3>6. p * x \in Nat /\ p * y \in Nat /\ k * x \in Nat
        BY <1>2, <3>3
      <3> QED
        BY <1>2, <3>3, <3>4, <3>5, <3>6
    <2>6. m = h
      <3>1. PICK q \in Nat \ {0} : m = q * h
        BY <2>4, <2>5
      <3>2. q < 2
        <4>1. SUFFICES ASSUME 2 <= q PROVE FALSE
          OBVIOUS
        <4>2. 2 * h <= q * h
          BY <2>2, <4>1, TimesMonotone
        <4> QED
          BY <1>2, <1>3, <1>7, <2>2, <3>1, <4>2
      <3>3. q = 1
        BY <3>2
      <3> QED
        BY <2>2, <3>1, <3>3
    <2>7. k = p
      <3>1. SUFFICES ASSUME k + 1 <= p PROVE FALSE
        BY <1>2, <1>4
      <3> DEFINE y == L * h
      <3>2. y \in Nat \ {0} /\ n = k * y /\ n >= p * y
        <4>1. \A x, z \in Nat \ {0} : x * z \in Nat \ {0}
          OBVIOUS
        <4> QED
          BY <1>2, <1>4, <2>2, <2>3, <2>6, <4>1
      <3> HIDE DEF y
      <3>3. (k + 1) * y <= p * y /\ (k + 1) * y = k * y + y
        BY <1>2, <3>1, <3>2, TimesMonotone
      <3>4. p * y \in Nat /\ k * y \in Nat
        BY <1>2, <3>2
      <3> QED
        BY <3>2, <3>3, <3>4
    <2>8. PICK c \in Nat : p = 2 * c
      <3>1. p \div 2 \in Nat /\ p = 2 * (p \div 2)
        BY <1>2
      <3> QED
        BY <3>1
    <2>9. (2 * c) * (L * h) = c * (L * (2 * h))
      BY <1>2, <2>2
    <2>10. n = c * (L * Power[i])
      BY <1>4, <2>2, <2>6, <2>7, <2>8, <2>9
    <2> QED
      BY <2>10 DEF L
  <1> QED
    BY <1>5, <1>6, <1>7

LEMMA ProductDoubled ==
  ASSUME NEW a \in Exponent, NEW b \in Exponent
  PROVE  Doubled(Power[a] * Power[b])
  <1>1. Power[a] \in Nat \ {0} /\ Power[b] \in Nat \ {0}
    BY PowerIs
  <1>2. \A x, y \in Nat \ {0} : x * y \in Nat \ {0}
    OBVIOUS
  <1> QED
    BY <1>1, <1>2, PowerDividesProduct DEF Doubled

\* In particular the points of the grid.
LEMMA SpacingDivides ==
  ASSUME NEW t \in FloatingType, NEW n \in Nat, OnGrid(t, n), NEW i \in Exponent,
         i > 0 => n >= Steps(t) * (Least(t) * Power[i - 1])
  PROVE  \E q \in Nat : n = q * (Least(t) * Power[i])
  <1>1. PICK k \in Nat, a \in Exponent, b \in Exponent :
          k <= Steps(t) /\ n = k * (Least(t) * (Power[a] * Power[b]))
    BY DEF OnGrid
  <1> DEFINE m == Power[a] * Power[b]
  <1>2. Doubled(m)
    BY ProductDoubled
  <1>3. n = k * (Least(t) * m)
    BY <1>1
  <1> HIDE DEF m
  <1> QED
    BY <1>1, <1>2, <1>3, SpacingDividesDoubled

LEMMA RoundedOnGrid ==
  ASSUME NEW t \in FloatingType, NEW num \in Nat, NEW den \in Nat, den > 0, num <= Reach
  PROVE  RoundedUnits(t, num, den) \in Nat /\ OnGrid(t, RoundedUnits(t, num, den))
  <1>1. PICK i \in Exponent, k \in 0 .. Steps(t) :
           /\ RoundedUnits(t, num, den) = k * (Least(t) * Power[i])
           /\ Least(t) * Power[i] \in Nat \ {0}
    BY RoundedIs
  <1>2. 0 \in Exponent /\ Power[0] = 1 /\ Power[i] * 1 = Power[i]
    BY PowerAssumption, PowerIs DEF Exponent
  <1>3. k \in Nat /\ k <= Steps(t)
    BY FormatIs
  <1>4. RoundedUnits(t, num, den) = k * (Least(t) * (Power[i] * Power[0]))
    BY <1>1, <1>2
  <1>5. RoundedUnits(t, num, den) \in Nat
    BY <1>1, <1>3
  <1> QED
    BY Zenon, <1>2, <1>3, <1>4, <1>5 DEF OnGrid

\* A point of the grid rounds to itself.
LEMMA GridExact ==
  ASSUME NEW t \in FloatingType, NEW n \in Nat, OnGrid(t, n), NEW den \in Nat, den > 0,
         n * den <= Reach
  PROVE  RoundedUnits(t, n * den, den) = n
  <1> DEFINE num == n * den
  <1>1. num \in Nat /\ num <= Reach
    OBVIOUS
  <1>2. PICK i \in Exponent, k \in 0 .. Steps(t) :
           /\ RoundedUnits(t, num, den) = k * (Least(t) * Power[i])
           /\ k = Nearest(num, (Least(t) * Power[i]) * den)
           /\ Least(t) * Power[i] \in Nat \ {0}
           /\ i > 0 => num >= (Steps(t) * (Least(t) * Power[i - 1])) * den
    BY <1>1, RoundedIs
  <1>3. i > 0 => n >= Steps(t) * (Least(t) * Power[i - 1])
    <2> SUFFICES ASSUME i > 0 PROVE n >= Steps(t) * (Least(t) * Power[i - 1])
      OBVIOUS
    <2> DEFINE x == Steps(t) * (Least(t) * Power[i - 1])
    <2>1. x \in Nat
      <3>1. i - 1 \in Exponent
        BY SizesAre DEF Exponent
      <3> QED
        BY <3>1, FormatIs, PowerIs
    <2>2. n * den >= x * den
      BY <1>2
    <2> HIDE DEF x
    <2>3. n >= x
      <3>1. SUFFICES ASSUME n + 1 <= x PROVE FALSE
        BY <2>1
      <3>2. (n + 1) * den <= x * den /\ (n + 1) * den = n * den + den
        BY <2>1, <3>1, TimesMonotone
      <3>3. x * den \in Nat /\ n * den \in Nat
        BY <2>1
      <3> QED
        BY <2>2, <3>2, <3>3
    <2> QED
      BY <2>3 DEF x
  <1>4. PICK q \in Nat : n = q * (Least(t) * Power[i])
    BY <1>3, SpacingDivides
  <1> DEFINE s == Least(t) * Power[i]
  <1>5. s \in Nat \ {0} /\ n = q * s /\ k = Nearest(num, s * den) /\ RoundedUnits(t, num, den) = k * s
    BY <1>2, <1>4
  <1> HIDE DEF s
  <1>6. num = q * (s * den) /\ s * den \in Nat /\ s * den > 0
    <2>1. (q * s) * den = q * (s * den)
      BY <1>5
    <2>2. \A x, y \in Nat \ {0} : x * y \in Nat /\ x * y > 0
      OBVIOUS
    <2> QED
      BY <1>5, <2>1, <2>2
  <1> HIDE DEF num
  <1>7. k = q
    BY <1>5, <1>6, NearestExact
  <1> QED
    BY <1>5, <1>7 DEF num

\* Rounding never changes an order.
LEMMA RoundedMonotone ==
  ASSUME NEW t \in FloatingType, NEW m \in Nat, NEW n \in Nat, m <= n, n <= Reach
  PROVE  RoundedUnits(t, m, 1) <= RoundedUnits(t, n, 1)
  <1> DEFINE L == Least(t)
             p == Steps(t)
             u == RoundedUnits(t, m, 1)
             v == RoundedUnits(t, n, 1)
  <1>0. Reach \in Nat /\ L \in Nat \ {0} /\ p \in Nat \ {0} /\ p % 2 = 0
    <2>1. Largest[4] \in Nat
      BY FloatAssumption DEF FloatSize
    <2> QED
      BY <2>1, FormatIs DEF Reach
  <1>1. PICK i \in Exponent, k \in 0 .. p :
           /\ u = k * (L * Power[i])
           /\ k = Nearest(m, (L * Power[i]) * 1)
           /\ L * Power[i] \in Nat \ {0}
           /\ m < (p * (L * Power[i])) * 1
           /\ i > 0 => m >= (p * (L * Power[i - 1])) * 1
    BY <1>0, RoundedIs
  <1>2. PICK j \in Exponent, l \in 0 .. p :
           /\ v = l * (L * Power[j])
           /\ l = Nearest(n, (L * Power[j]) * 1)
           /\ L * Power[j] \in Nat \ {0}
           /\ n < (p * (L * Power[j])) * 1
           /\ j > 0 => n >= (p * (L * Power[j - 1])) * 1
    BY RoundedIs
  <1>3. /\ (L * Power[i]) * 1 = L * Power[i] /\ (L * Power[j]) * 1 = L * Power[j]
        /\ (p * (L * Power[i])) * 1 = p * (L * Power[i])
        /\ i \in Nat /\ j \in Nat
        /\ j > 0 => /\ j - 1 \in Exponent /\ j - 1 \in Nat /\ Power[j - 1] \in Nat /\ Power[j] = 2 * Power[j - 1]
                    /\ (p * (L * Power[j - 1])) * 1 = p * (L * Power[j - 1])
    <2>1. i \in Nat /\ j \in Nat /\ (j > 0 => j - 1 \in Exponent /\ j - 1 \in Nat)
      BY SizesAre DEF Exponent
    <2>2. j > 0 => Power[j - 1] \in Nat
      BY <2>1, PowerIs
    <2>3. j > 0 => Power[j] = 2 * Power[j - 1]
      <3>1. j > 0 => (j - 1) + 1 = j /\ (j - 1) + 1 <= MaxExponent
        BY <2>1, SizesAre DEF Exponent
      <3>2. j > 0 => Power[(j - 1) + 1] = 2 * Power[j - 1]
        BY <2>1, <3>1, PowerNext
      <3> QED
        BY <3>1, <3>2
    <2> QED
      BY <1>0, <1>1, <1>2, <2>1, <2>2, <2>3
  <1> HIDE DEF L, p, u, v
  <1>4. CASE i = j
    <2> DEFINE s == L * Power[i]
    <2>1. s \in Nat /\ s > 0 /\ k = Nearest(m, s) /\ l = Nearest(n, s) /\ u = k * s /\ v = l * s
      BY <1>1, <1>2, <1>3, <1>4
    <2> HIDE DEF s
    <2>2. k <= l
      BY <2>1, NearestMonotone
    <2> QED
      BY <1>0, <1>1, <1>2, <2>1, <2>2, TimesMonotone DEF u, v
  <1>5. CASE j < i
    <2> DEFINE s == L * Power[j]
               r == L * Power[i - 1]
    <2>0. i - 1 \in Exponent /\ i > 0 /\ j <= i - 1
      BY <1>3, <1>5, SizesAre DEF Exponent
    <2>1. Power[j] <= Power[i - 1] /\ Power[j] \in Nat /\ Power[i - 1] \in Nat
      BY <2>0, PowerDivides, PowerIs
    <2>2. s <= r /\ s \in Nat /\ r \in Nat
      <3>1. L * (Power[i - 1] - Power[j]) >= 0
        BY <1>0, <2>1
      <3>2. L * (Power[i - 1] - Power[j]) = L * Power[i - 1] - L * Power[j]
        BY <1>0, <2>1
      <3>3. L * Power[i - 1] \in Nat /\ L * Power[j] \in Nat
        BY <1>0, <2>1
      <3> QED
        BY <3>1, <3>2, <3>3
    <2>3. n < p * s /\ m >= p * r
      <3>1. (p * r) * 1 = p * r /\ (p * s) * 1 = p * s
        BY <1>0, <2>2
      <3> QED
        BY <1>1, <1>2, <2>0, <3>1
    <2> HIDE DEF s, r
    <2>4. s * p <= r * p /\ s * p = p * s /\ r * p = p * r /\ s * p \in Nat /\ r * p \in Nat
      BY <1>0, <2>2, TimesMonotone
    <2> QED
      BY <2>3, <2>4
  <1>6. CASE i < j
    <2> DEFINE s == L * Power[i]
               r == L * Power[j - 1]
    <2>0. j > 0 /\ i <= j - 1 /\ j - 1 \in Exponent
      BY <1>3, <1>6
    <2>1. Power[i] <= Power[j - 1] /\ Power[i] \in Nat /\ Power[j - 1] \in Nat
      BY <2>0, PowerDivides, PowerIs
    <2>2. s <= r /\ s \in Nat /\ r \in Nat /\ L * Power[j] = 2 * r
      <3>1. L * (Power[j - 1] - Power[i]) >= 0
        BY <1>0, <2>1
      <3>2. L * (Power[j - 1] - Power[i]) = L * Power[j - 1] - L * Power[i]
        BY <1>0, <2>1
      <3>3. L * Power[j - 1] \in Nat /\ L * Power[i] \in Nat
        BY <1>0, <2>1
      <3>4. Power[j] = 2 * Power[j - 1]
        BY <1>3, <2>0
      <3>5. L * (2 * Power[j - 1]) = 2 * (L * Power[j - 1])
        BY <1>0, <2>1
      <3> QED
        BY <3>1, <3>2, <3>3, <3>4, <3>5
    <2>3. PICK c \in Nat : p = 2 * c
      <3>1. p \div 2 \in Nat /\ p = 2 * (p \div 2)
        BY <1>0
      <3> QED
        BY <3>1
    <2>4. /\ u = k * s /\ v = l * (2 * r) /\ l = Nearest(n, 2 * r) /\ n >= p * r
          /\ 2 * r \in Nat \ {0}
      BY <1>1, <1>2, <1>3, <2>0, <2>2
    <2> HIDE DEF s, r
    <2>5. n >= c * (2 * r)
      <3>1. (2 * c) * r = c * (2 * r)
        BY <2>2
      <3> QED
        BY <2>3, <2>4, <3>1
    <2>6. c <= l
      <3> DEFINE g == 2 * r
                 x == c * g
      <3>1. g \in Nat /\ g > 0 /\ x \in Nat /\ x <= n /\ l = Nearest(n, g)
        BY <2>2, <2>4, <2>5
      <3> HIDE DEF g
      <3>2. Nearest(x, g) = c
        BY <3>1, NearestExact
      <3> HIDE DEF x
      <3>3. Nearest(x, g) <= Nearest(n, g)
        BY <3>1, NearestMonotone
      <3> QED
        BY <3>1, <3>2, <3>3
    <2>7. c * (2 * r) <= v
      BY <1>2, <2>4, <2>6, TimesMonotone, <1>0
    <2>8. p * r = c * (2 * r)
      <3>1. (2 * c) * r = c * (2 * r)
        BY <2>2
      <3> QED
        BY <2>3, <3>1
    <2>9. u <= p * r
      <3>1. k * s <= p * s
        BY <1>0, <1>1, <2>2, TimesMonotone
      <3>2. s * p <= r * p /\ s * p = p * s /\ r * p = p * r /\ s * p \in Nat /\ r * p \in Nat
        BY <1>0, <2>2, TimesMonotone
      <3>3. k * s \in Nat
        BY <1>0, <1>1, <2>2
      <3> QED
        BY <2>4, <3>1, <3>2, <3>3
    <2>10. u \in Nat /\ v \in Nat /\ p * r \in Nat
      <3>1. k \in Nat /\ l \in Nat
        BY <1>0, <1>1, <1>2
      <3> QED
        BY <1>0, <2>2, <2>4, <3>1
    <2> QED
      BY <2>7, <2>8, <2>9, <2>10 DEF u, v
  <1> QED
    BY <1>3, <1>4, <1>5, <1>6

\* A magnitude that is no more than a point of the grid rounds to no more.
LEMMA RoundedBelow ==
  ASSUME NEW t \in FloatingType, NEW m \in Nat, NEW n \in Nat, m <= n, n <= Reach, OnGrid(t, n)
  PROVE  RoundedUnits(t, m, 1) <= n
  <1>1. n * 1 = n
    OBVIOUS
  <1>2. RoundedUnits(t, n * 1, 1) = n
    BY <1>1, GridExact
  <1> QED
    BY <1>1, <1>2, RoundedMonotone

-----------------------------------------------------------------------------
(* The integer types, and whole numbers on the grid.                       *)

\* The weights of the bits are powers of two.
LEMMA WeightIsPower ==
  ASSUME NEW i \in Nat, i <= Width[4]
  PROVE  Weight[i] = Power[i] /\ i \in Exponent
  <1>1. Width[4] \in Nat /\ MaxExponent \in Nat /\ Width[4] <= MaxExponent
    BY SizesAre, FloatAssumption
  <1> DEFINE S == {n \in Nat : n <= Width[4] => Weight[n] = Power[n]}
  <1>2. 0 \in S
    BY WeightAssumption, PowerAssumption
  <1>3. \A n \in S : n + 1 \in S
    <2> SUFFICES ASSUME NEW n \in S, n + 1 <= Width[4] PROVE Weight[n + 1] = Power[n + 1]
      BY <1>1
    <2>1. n \in Position /\ n \in Nat /\ n + 1 <= MaxExponent /\ n <= Width[4]
      BY <1>1 DEF Position
    <2>2. Weight[n + 1] = 2 * Weight[n] /\ Power[n + 1] = 2 * Power[n]
      BY <2>1, WeightAssumption, PowerNext
    <2> QED
      BY <2>1, <2>2
  <1>4. S = Nat
    <2> HIDE DEF S
    <2>1. S \subseteq Nat
      BY DEF S
    <2> QED
      BY <1>2, <1>3, <2>1, SetInduction
  <1>5. i \in Exponent
    BY <1>1 DEF Exponent
  <1> QED
    BY <1>4, <1>5

\* A size has a power of two of values, and half of it is one too.
LEMMA ModulusIs ==
  ASSUME NEW k \in Size
  PROVE  /\ Width[k] \in Nat \ {0} /\ Width[k] \in Exponent /\ Width[k] - 1 \in Exponent
         /\ Width[k] - 1 \in Nat
         /\ Modulus[k] = Power[Width[k]] /\ Modulus[k] \in Nat
         /\ Power[Width[k] - 1] \in Nat \ {0}
         /\ Modulus[k] = 2 * Power[Width[k] - 1]
         /\ Modulus[k] \div 2 = Power[Width[k] - 1]
         /\ Modulus[k] <= Modulus[4]
  <1> DEFINE w == Width[k] - 1
  <1>1. /\ Width[k] \in Nat \ {0} /\ Width[k] <= Width[4] /\ Width[4] \in Nat
        /\ w \in Nat /\ w <= Width[4] /\ w + 1 = Width[k] /\ w + 1 <= MaxExponent
    BY SizesAre, FloatAssumption
  <1>2. Width[k] \in Exponent /\ w \in Exponent /\ Width[4] \in Exponent
    <2>1. Width[4] <= Width[4]
      BY <1>1
    <2> QED
      BY <1>1, <2>1, WeightIsPower
  <1>3. Modulus[k] = Power[Width[k]] /\ Modulus[4] = Power[Width[4]]
    <2>1. Weight[Width[k]] = Power[Width[k]] /\ Weight[Width[4]] = Power[Width[4]]
      <3>1. Width[4] <= Width[4]
        BY <1>1
      <3> QED
        BY <1>1, <3>1, WeightIsPower
    <2> QED
      BY <2>1 DEF Modulus, Size
  <1> HIDE DEF w
  <1>4. Power[w + 1] = 2 * Power[w] /\ Power[w] \in Nat \ {0}
    BY <1>1, <1>2, PowerNext, PowerIs
  <1>5. (2 * Power[w]) \div 2 = Power[w]
    BY <1>4
  <1>6. Modulus[k] <= Modulus[4]
    BY <1>1, <1>2, <1>3, PowerDivides
  <1> QED
    BY <1>1, <1>2, <1>3, <1>4, <1>5, <1>6 DEF w

\* The values of the integer types and of Bool.
LEMMA ValuesAre ==
  ASSUME NEW t \in Type
  PROVE  /\ Values(t) \subseteq Int
         /\ 0 \in Values(t)
         /\ \A v \in Values(t) : Magnitude(v) \in Nat /\ Magnitude(v) <= Modulus[4]
         /\ t \in IntegerType =>
              /\ t # Bool /\ t.size \in Size /\ t.signed \in BOOLEAN
              /\ Lowest(t) = IF t.signed THEN -Power[Width[t.size] - 1] ELSE 0
              /\ Highest(t) = Lowest(t) + Modulus[t.size] - 1
              /\ Values(t) = Lowest(t) .. Highest(t)
              /\ \A v \in Values(t) : Magnitude(v) <= Modulus[t.size]
  <1>0. Modulus[4] \in Nat /\ Modulus[4] >= 1
    <2>1. 4 \in Size
      BY DEF Size
    <2>2. Modulus[4] = 2 * Power[Width[4] - 1] /\ Power[Width[4] - 1] \in Nat \ {0}
      BY <2>1, ModulusIs
    <2> QED
      BY <2>2
  <1>1. CASE t = Bool
    <2>1. t \notin IntegerType
      BY <1>1 DEF Bool, IntegerOf, IntegerType, Size
    <2>2. Values(t) = 0 .. 1
      BY <1>1, <2>1 DEF Values, Lowest, Highest
    <2> QED
      BY <1>0, <2>1, <2>2 DEF Magnitude
  <1>2. CASE t \in IntegerType
    <2>1. t # Bool /\ t.size \in Size /\ t.signed \in BOOLEAN
      BY <1>2 DEF IntegerType, Bool, IntegerOf, Size
    <2> DEFINE h == Power[Width[t.size] - 1]
    <2>2. h \in Nat \ {0} /\ Modulus[t.size] = 2 * h /\ Modulus[t.size] \div 2 = h /\ Modulus[t.size] <= Modulus[4]
      BY <2>1, ModulusIs
    <2> HIDE DEF h
    <2>3. /\ Lowest(t) = IF t.signed THEN -h ELSE 0
          /\ Highest(t) = Lowest(t) + Modulus[t.size] - 1
          /\ Values(t) = Lowest(t) .. Highest(t)
      BY <1>2, <2>1, <2>2 DEF Lowest, Highest, Values
    <2>4. Values(t) = IF t.signed THEN -h .. h - 1 ELSE 0 .. 2 * h - 1
      BY <2>1, <2>2, <2>3
    <2>5. \A v \in Values(t) : v \in Int /\ Magnitude(v) \in Nat /\ Magnitude(v) <= 2 * h
      BY <2>1, <2>2, <2>4 DEF Magnitude
    <2>6. 0 \in Values(t)
      BY <2>1, <2>2, <2>4
    <2>7. \A v \in Values(t) : Magnitude(v) <= Modulus[4]
      BY <1>0, <2>2, <2>5
    <2> QED
      BY <2>1, <2>2, <2>3, <2>5, <2>6, <2>7 DEF h
  <1> QED
    BY <1>1, <1>2 DEF Type

\* A conversion to an integer type yields one of its values, and keeps a value
\* the type has; so does one to Bool.
LEMMA CastIs ==
  ASSUME NEW t \in Type, NEW v \in Int
  PROVE  Cast(t, v) \in Values(t) /\ (v \in Values(t) => Cast(t, v) = v)
  <1>1. CASE t = Bool
    <2>1. t \notin IntegerType
      BY <1>1 DEF Bool, IntegerOf, IntegerType, Size
    <2>2. Values(t) = 0 .. 1
      BY <1>1, <2>1 DEF Values, Lowest, Highest
    <2> QED
      BY <1>1, <2>2 DEF Cast
  <1>2. CASE t \in IntegerType
    <2> DEFINE m == Modulus[t.size]
               lo == Lowest(t)
    <2>1. m \in Nat /\ m > 0 /\ lo \in Int /\ Values(t) = lo .. lo + m - 1 /\ t # Bool
      <3>1. t.size \in Size /\ t.signed \in BOOLEAN
        BY <1>2, ValuesAre
      <3>2. Power[Width[t.size] - 1] \in Nat \ {0} /\ Modulus[t.size] = 2 * Power[Width[t.size] - 1]
        BY <3>1, ModulusIs
      <3>3. /\ t # Bool /\ Lowest(t) = IF t.signed THEN -Power[Width[t.size] - 1] ELSE 0
            /\ Values(t) = Lowest(t) .. Lowest(t) + Modulus[t.size] - 1
        BY <1>2, ValuesAre, Zenon
      <3>4. lo \in Int
        BY <3>1, <3>2, <3>3
      <3>5. m \in Nat /\ m > 0
        BY <3>2
      <3> QED
        BY <3>3, <3>4, <3>5
    <2>2. Cast(t, v) = lo + ((v - lo) % m)
      BY <2>1 DEF Cast
    <2> HIDE DEF m, lo
    <2>3. v - lo \in Int /\ (v - lo) % m \in Int /\ 0 <= (v - lo) % m /\ (v - lo) % m < m
      BY <2>1, DivMod
    <2>4. ASSUME v \in Values(t) PROVE (v - lo) % m = v - lo
      BY <2>1, <2>4, SmallMod
    <2> QED
      BY <2>1, <2>2, <2>3, <2>4
  <1> QED
    BY <1>1, <1>2 DEF Type

\* What is known of the unit and of the ranges.
LEMMA RangesAre ==
  /\ Unit \in Nat \ {0} /\ Modulus[4] \in Nat /\ Modulus[4] >= 2 /\ Modulus[4] * Unit \in Nat
  /\ Reach \in Nat /\ Largest[4] \in Nat /\ 2 * Largest[4] <= Reach /\ Largest[4] * Unit <= Reach
  /\ \A k \in FloatSize :
       /\ Largest[k] \in Nat /\ Largest[k] <= Largest[4] /\ Modulus[4] * Unit <= Largest[k]
       /\ Largest[k] <= Reach
  <1>1. Unit \in Nat \ {0} /\ \A k \in FloatSize : Largest[k] \in Nat /\ Modulus[4] * Unit <= Largest[k]
    BY FloatAssumption
  <1>2. Modulus[4] \in Nat /\ Modulus[4] >= 2
    <2>1. 4 \in Size
      BY DEF Size
    <2>2. Modulus[4] = 2 * Power[Width[4] - 1] /\ Power[Width[4] - 1] \in Nat \ {0}
      BY <2>1, ModulusIs
    <2> QED
      BY <2>2
  <1>3. \A k \in FloatSize : Largest[k] <= Largest[4]
    BY <1>1, FloatAssumption DEF FloatSize, IntSize
  <1> DEFINE L == Largest[4]
             M == Modulus[4]
  <1>4. L \in Nat /\ M * Unit <= L /\ Reach = L * L
    BY <1>1 DEF FloatSize, Reach
  <1>4a. M \in Nat /\ M >= 2 /\ Unit \in Nat \ {0}
    BY <1>1, <1>2
  <1> HIDE DEF L, M
  <1>5. 2 * Unit <= M * Unit /\ M * Unit \in Nat /\ M * 1 <= M * Unit
    <2>1. 2 * Unit <= M * Unit
      BY <1>4a, TimesMonotone
    <2>2. (Unit - 1) * M >= 0 /\ (Unit - 1) * M = M * Unit - M
      BY <1>4a
    <2> QED
      BY <1>4a, <2>1, <2>2
  <1>6. Unit <= L /\ 2 <= L
    BY <1>4, <1>4a, <1>5
  <1>7. Unit * L <= L * L /\ 2 * L <= L * L /\ Unit * L = L * Unit
    BY <1>4, <1>4a, <1>6, TimesMonotone
  <1>8. Reach \in Nat /\ 2 * L <= Reach /\ L * Unit <= Reach
    BY <1>4, <1>4a, <1>7
  <1>9. \A k \in FloatSize : Largest[k] <= Reach
    BY <1>1, <1>3, <1>4, <1>8 DEF L
  <1> QED
    BY <1>1, <1>2, <1>3, <1>4, <1>5, <1>8, <1>9 DEF L, M

\* Every power of two is on the grid, and so is every whole number up to the
\* number of places of a significand.
LEMMA WholeOnGrid ==
  ASSUME NEW t \in FloatingType
  PROVE  /\ \A k \in Nat : k <= Steps(t) => OnGrid(t, k * Unit)
         /\ \A a \in Exponent : OnGrid(t, Power[a] * Unit)
  <1>1. PICK i \in Exponent : Unit = Least(t) * Power[i]
    BY FormatIs, FloatAssumption DEF Least
  <1>2. Least(t) \in Nat \ {0} /\ Power[i] \in Nat /\ Steps(t) \in Nat \ {0} /\ 0 \in Exponent /\ Power[0] = 1
    BY FormatIs, PowerIs, PowerAssumption DEF Exponent
  <1>3. ASSUME NEW k \in Nat, k <= Steps(t) PROVE OnGrid(t, k * Unit)
    <2>1. k * Unit = k * (Least(t) * (Power[i] * Power[0]))
      BY <1>1, <1>2
    <2> QED
      BY Zenon, <1>2, <1>3, <2>1 DEF OnGrid
  <1>4. ASSUME NEW a \in Exponent PROVE OnGrid(t, Power[a] * Unit)
    <2>1. Power[a] \in Nat
      BY PowerIs
    <2>2. Power[a] * (Least(t) * Power[i]) = 1 * (Least(t) * (Power[i] * Power[a]))
      BY <1>2, <2>1
    <2>3. Power[a] * Unit = 1 * (Least(t) * (Power[i] * Power[a])) /\ 1 \in Nat /\ 1 <= Steps(t)
      BY <1>1, <1>2, <2>2
    <2> QED
      BY Zenon, <2>3 DEF OnGrid
  <1> QED
    BY <1>3, <1>4

\* Zero is always there.
LEMMA ZeroRounds ==
  ASSUME NEW t \in FloatingType
  PROVE  RoundedUnits(t, 0, 1) = 0
  <1>1. 0 \in Nat /\ 0 <= Steps(t) /\ 0 * Unit = 0 /\ 0 * 1 = 0 /\ 0 <= Reach
    BY FormatIs, RangesAre
  <1>2. OnGrid(t, 0)
    BY <1>1, WholeOnGrid
  <1>3. RoundedUnits(t, 0 * 1, 1) = 0
    BY <1>1, <1>2, GridExact
  <1> QED
    BY <1>1, <1>3

-----------------------------------------------------------------------------
(* Values, conversions and operations.                                     *)

AnyType == Type \union FloatingType

\* A type is an integer type, Bool or a floating-point type.
LEMMA TypesAre ==
  /\ \A t \in FloatingType : t \notin Type
  /\ \A t \in AnyType : t \notin FloatingType => t \in Type
  /\ Bool \in Type /\ Bool \notin FloatingType
  /\ IntegerType \subseteq Type /\ Bool \notin IntegerType
  /\ \A t \in Type : t # Bool => t \in IntegerType
  <1>1. \A t \in FloatingType : t.size \in {3, 4} /\ DOMAIN t = {"size", "float"}
    BY DEF FloatingType, Float32, Float64, FloatOf
  <1>2. \A t \in IntegerType : DOMAIN t = {"size", "signed"} /\ t.size \in Size
    BY DEF IntegerType
  <1>3. DOMAIN Bool = {"size", "signed"} /\ Bool.size = 0
    BY DEF Bool, IntegerOf
  <1>4. \A t \in Type : DOMAIN t = {"size", "signed"}
    BY <1>2, <1>3 DEF Type
  <1>5. {"size", "signed"} # {"size", "float"}
    OBVIOUS
  <1>6. \A t \in FloatingType : t \notin Type
    BY <1>1, <1>4, <1>5
  <1>7. Bool \in Type /\ IntegerType \subseteq Type /\ Bool \notin IntegerType
    BY <1>2, <1>3 DEF Type, Size
  <1> QED
    BY <1>6, <1>7 DEF AnyType, Type

\* What every value of a type looks like.
LEMMA ValueIs ==
  ASSUME NEW t \in AnyType, NEW x, ValueOf(t, x)
  PROVE  /\ x.sign \in {1, -1} /\ x.units \in Nat /\ x.units <= Largest[4]
         /\ IsFinite(x) => x = Finite(x.sign, x.units)
         /\ ~IsFinite(x) => x = NaN \/ x = Infinity(x.sign)
         /\ ~IsFinite(x) => t \in FloatingType
  <1>0. Largest[4] \in Nat /\ \A k \in FloatSize : Largest[k] \in Nat /\ Largest[k] <= Largest[4]
    BY RangesAre
  <1>1. CASE t \in FloatingType
    <2>0. t.size \in FloatSize
      BY <1>1, FormatIs
    <2>1. CASE x = NaN
      BY <1>0, <1>1, <2>1 DEF NaN, IsFinite
    <2>2. CASE x \in {Infinity(1), Infinity(-1)}
      BY <1>0, <1>1, <2>2 DEF Infinity, IsFinite
    <2>3. CASE \E sign \in {1, -1} : /\ x = Finite(sign, x.units) /\ x.units \in 0 .. Largest[t.size]
      <3>1. PICK sign \in {1, -1} : x = Finite(sign, x.units)
        BY <2>3
      <3>2. x.units \in 0 .. Largest[t.size]
        BY <2>3
      <3>3. x.sign = sign /\ IsFinite(x)
        BY <3>1 DEF Finite, IsFinite
      <3>4. x.units \in Nat /\ x.units <= Largest[4]
        BY <1>0, <2>0, <3>2
      <3> QED
        BY <3>1, <3>3, <3>4
    <2> QED
      BY <1>1, <2>1, <2>2, <2>3 DEF ValueOf
  <1>2. CASE t \notin FloatingType
    <2>1. PICK v \in Values(t) : x = Number(v)
      BY <1>2 DEF ValueOf
    <2>2. v \in Int /\ Magnitude(v) \in Nat /\ Magnitude(v) <= Modulus[4]
      BY <1>2, TypesAre, ValuesAre
    <2>3. Magnitude(v) * Unit <= Modulus[4] * Unit
      BY <2>2, RangesAre, TimesMonotone
    <2>4. 4 \in FloatSize
      BY DEF FloatSize
    <2> DEFINE n == Magnitude(v) * Unit
               s == IF v < 0 THEN -1 ELSE 1
    <2>5. n \in Nat /\ n <= Largest[4] /\ x = Finite(s, n) /\ s \in {1, -1}
      <3>1. n \in Nat
        BY <2>2, RangesAre
      <3> QED
        BY <2>1, <2>3, <2>4, <3>1, RangesAre DEF Number
    <2> HIDE DEF n, s
    <2> QED
      BY <1>2, <2>5 DEF Finite, IsFinite
  <1> QED
    BY <1>1, <1>2

\* The whole number a value is truncated to.
LEMMA TruncatedIs ==
  ASSUME NEW t \in AnyType, NEW x, ValueOf(t, x)
  PROVE  Truncated(x) \in Int /\ Real(x) \in Int
  <1>1. x.sign \in {1, -1} /\ x.units \in Nat /\ Unit \in Nat \ {0}
    BY ValueIs, RangesAre
  <1>2. x.units \div Unit \in Int
    BY <1>1, QuotientBelow
  <1> QED
    BY <1>1, <1>2 DEF Truncated, Real

\* The result of rounding is a value of the type, and one that is finite is
\* a point of its grid.
LEMMA RoundedTyped ==
  ASSUME NEW t \in FloatingType, NEW s \in {1, -1}, NEW num \in Nat, NEW den \in Nat,
         den > 0, num <= Reach
  PROVE  ValueOf(t, Rounded(t, s, num, den))
  <1> DEFINE u == RoundedUnits(t, num, den)
  <1>1. u \in Nat /\ OnGrid(t, u)
    BY RoundedOnGrid
  <1>2. Rounded(t, s, num, den) = IF u > Largest[t.size] THEN Infinity(s) ELSE Finite(s, u)
    BY FormatIs DEF Rounded
  <1> HIDE DEF u
  <1>3. CASE u > Largest[t.size]
    BY <1>2, <1>3, Zenon DEF ValueOf
  <1>4. CASE ~(u > Largest[t.size])
    <2>1. Largest[t.size] \in Nat /\ Largest[t.size] <= Reach /\ Reach \in Nat
      BY FormatIs, RangesAre
    <2>2. u <= Reach /\ u * 1 = u /\ u \in 0 .. Largest[t.size]
      BY <1>1, <1>4, <2>1
    <2>3. RoundedUnits(t, u * 1, 1) = u
      BY <1>1, <2>2, GridExact
    <2> DEFINE x == Finite(s, u)
    <2>4. x = Finite(s, x.units) /\ x.units = u /\ Rounded(t, s, num, den) = x
      BY <1>2, <1>4 DEF Finite
    <2> HIDE DEF x
    <2> QED
      BY <2>2, <2>3, <2>4 DEF ValueOf
  <1> QED
    BY <1>3, <1>4

\* A conversion to a floating-point type gives a value of it, and leaves the
\* values it has as they are.
LEMMA FloatTyped ==
  ASSUME NEW s \in AnyType, NEW t \in FloatingType, NEW x, ValueOf(s, x)
  PROVE  ValueOf(t, Float(t, x))
  <1>1. x.sign \in {1, -1} /\ x.units \in Nat /\ x.units <= Largest[4]
    BY ValueIs
  <1>2. CASE IsFinite(x)
    <2>1. x.units <= Reach
      BY <1>1, RangesAre
    <2>2. ValueOf(t, Rounded(t, x.sign, x.units, 1))
      BY <1>1, <2>1, RoundedTyped
    <2> QED
      BY <1>2, <2>2 DEF Float
  <1>3. CASE ~IsFinite(x)
    <2>1. x = NaN \/ x = Infinity(x.sign)
      BY <1>3, ValueIs
    <2> QED
      BY <1>1, <1>3, <2>1 DEF Float, ValueOf
  <1> QED
    BY <1>2, <1>3

LEMMA NumberTyped ==
  ASSUME NEW t \in Type, NEW v \in Values(t)
  PROVE  ValueOf(t, Number(v))
  <1>1. t \notin FloatingType
    BY TypesAre
  <1> QED
    BY <1>1 DEF ValueOf

LEMMA ConvertedTyped ==
  ASSUME NEW s \in AnyType, NEW t \in AnyType, NEW x, ValueOf(s, x), NEW y \in Converted(s, t, x)
  PROVE  ValueOf(t, y)
  <1>1. CASE t \in FloatingType
    BY <1>1, FloatTyped DEF Converted
  <1>2. CASE t = Bool
    <2>1. y = Number(0) \/ y = Number(1)
      BY <1>2, TypesAre DEF Converted
    <2>2. Values(t) = 0 .. 1
      BY <1>2, TypesAre DEF Values, Lowest, Highest
    <2>3. 0 \in Values(t) /\ 1 \in Values(t) /\ t \in Type
      BY <1>2, <2>2, TypesAre
    <2> QED
      BY <2>1, <2>3, NumberTyped
  <1>3. CASE t \notin FloatingType /\ t # Bool
    <2>1. t \in Type
      BY <1>3, TypesAre
    <2>2. y = Number(Cast(t, Truncated(x))) \/ \E v \in Values(t) : y = Number(v)
      BY <1>3 DEF Converted
    <2>3. Cast(t, Truncated(x)) \in Values(t)
      BY <2>1, TruncatedIs, CastIs
    <2> QED
      BY <2>1, <2>2, <2>3, NumberTyped
  <1> QED
    BY <1>1, <1>2, <1>3

LEMMA OppositeTyped ==
  ASSUME NEW t \in FloatingType, NEW x, ValueOf(t, x)
  PROVE  ValueOf(t, Opposite(x))
  <1>0. t \in AnyType
    BY DEF AnyType
  <1>1. /\ x.sign \in {1, -1}
        /\ IsFinite(x) => x = Finite(x.sign, x.units)
        /\ ~IsFinite(x) => x = NaN \/ x = Infinity(x.sign)
    BY <1>0, ValueIs
  <1>2. CASE x = NaN
    BY <1>2 DEF Opposite
  <1>3. CASE ~IsFinite(x) /\ x # NaN
    <2>1. x = Infinity(x.sign) /\ Opposite(x) = [x EXCEPT !.sign = -x.sign]
      BY <1>1, <1>3 DEF Opposite
    <2>2. Opposite(x) = Infinity(-x.sign)
      BY <2>1 DEF Infinity
    <2>3. -x.sign \in {1, -1}
      BY <1>1
    <2> QED
      BY <2>2, <2>3 DEF ValueOf
  <1>4. CASE IsFinite(x) /\ x # NaN
    <2>1. x = Finite(x.sign, x.units) /\ Opposite(x) = [x EXCEPT !.sign = -x.sign]
      BY <1>1, <1>4 DEF Opposite
    <2>2. Opposite(x) = Finite(-x.sign, x.units) /\ -x.sign \in {1, -1}
      BY <1>1, <2>1 DEF Finite
    <2>3. x.units \in 0 .. Largest[t.size] /\ RoundedUnits(t, x.units, 1) = x.units
      BY <1>4 DEF ValueOf, IsFinite, Infinity
    <2>4. Opposite(x).units = x.units
      BY <2>2 DEF Finite
    <2> QED
      BY <2>2, <2>3, <2>4 DEF ValueOf
  <1> QED
    BY <1>2, <1>3, <1>4

LEMMA ZeroTyped ==
  ASSUME NEW t \in FloatingType, NEW s \in {1, -1}
  PROVE  ValueOf(t, Finite(s, 0))
  <1>1. RoundedUnits(t, 0, 1) = 0
    BY ZeroRounds
  <1>2. 0 \in 0 .. Largest[t.size]
    BY FormatIs
  <1>3. Finite(s, 0).units = 0
    BY DEF Finite
  <1> QED
    BY <1>1, <1>2, <1>3 DEF ValueOf

LEMMA SumTyped ==
  ASSUME NEW t \in FloatingType, NEW x, NEW y, ValueOf(t, x), ValueOf(t, y)
  PROVE  ValueOf(t, Sum(t, x, y))
  <1>0. t \in AnyType
    BY DEF AnyType
  <1> DEFINE s == Real(x) + Real(y)
  <1>1. /\ x.sign \in {1, -1} /\ x.units \in Nat /\ x.units <= Largest[4]
        /\ y.sign \in {1, -1} /\ y.units \in Nat /\ y.units <= Largest[4]
    BY <1>0, ValueIs
  <1>2. s \in Int /\ Magnitude(s) \in Nat /\ Magnitude(s) <= Reach
    BY <1>1, RangesAre DEF Real, Magnitude
  <1>3. Sum(t, x, y) \in {NaN, x, y, Finite(x.sign, 0), Finite(1, 0),
                          Rounded(t, -1, Magnitude(s), 1), Rounded(t, 1, Magnitude(s), 1)}
    BY DEF Sum
  <1> HIDE DEF s
  <1>4. ValueOf(t, Rounded(t, -1, Magnitude(s), 1)) /\ ValueOf(t, Rounded(t, 1, Magnitude(s), 1))
    BY <1>2, RoundedTyped
  <1>5. ValueOf(t, NaN)
    BY DEF ValueOf
  <1>6. ValueOf(t, Finite(x.sign, 0)) /\ ValueOf(t, Finite(1, 0))
    BY <1>1, ZeroTyped
  <1> QED
    BY <1>1, <1>3, <1>4, <1>5, <1>6

LEMMA SignProduct ==
  ASSUME NEW a \in {1, -1}, NEW b \in {1, -1}
  PROVE  a * b \in {1, -1}
  OBVIOUS

LEMMA ProductReach ==
  ASSUME NEW a \in Nat, NEW b \in Nat, a <= Largest[4], b <= Largest[4]
  PROVE  a * b \in Nat /\ a * b <= Reach
  <1> DEFINE L == Largest[4]
  <1>1. L \in Nat /\ a <= L /\ b <= L /\ Reach = L * L
    BY RangesAre DEF Reach
  <1> HIDE DEF L
  <1>2. a * b <= L * b /\ b * L <= L * L /\ b * L = L * b
    BY <1>1, TimesMonotone
  <1>3. a * b \in Nat /\ L * b \in Nat /\ L * L \in Nat
    BY <1>1
  <1> QED
    BY <1>1, <1>2, <1>3

LEMMA ProductTyped ==
  ASSUME NEW t \in FloatingType, NEW x, NEW y, ValueOf(t, x), ValueOf(t, y)
  PROVE  ValueOf(t, Product(t, x, y))
  <1>0. t \in AnyType
    BY DEF AnyType
  <1> DEFINE s == x.sign * y.sign
             n == x.units * y.units
  <1>1. /\ x.sign \in {1, -1} /\ x.units \in Nat /\ x.units <= Largest[4]
        /\ y.sign \in {1, -1} /\ y.units \in Nat /\ y.units <= Largest[4]
    BY <1>0, ValueIs
  <1>2. s \in {1, -1}
    BY <1>1, SignProduct
  <1>3. n \in Nat /\ n <= Reach
    BY <1>1, ProductReach
  <1>4. Product(t, x, y) \in {NaN, Infinity(s), Rounded(t, s, n, Unit)}
    BY DEF Product
  <1> HIDE DEF s, n
  <1>5. ValueOf(t, Rounded(t, s, n, Unit))
    BY <1>2, <1>3, RangesAre, RoundedTyped
  <1>6. ValueOf(t, NaN) /\ ValueOf(t, Infinity(s))
    BY <1>2 DEF ValueOf
  <1> QED
    BY <1>4, <1>5, <1>6

LEMMA RatioTyped ==
  ASSUME NEW t \in FloatingType, NEW x, NEW y, ValueOf(t, x), ValueOf(t, y)
  PROVE  ValueOf(t, Ratio(t, x, y))
  <1>0. t \in AnyType
    BY DEF AnyType
  <1> DEFINE s == x.sign * y.sign
             n == x.units * Unit
  <1>1. /\ x.sign \in {1, -1} /\ x.units \in Nat /\ x.units <= Largest[4]
        /\ y.sign \in {1, -1} /\ y.units \in Nat
    BY <1>0, ValueIs
  <1>2. s \in {1, -1}
    BY <1>1, SignProduct
  <1>3. n \in Nat /\ n <= Reach
    <2>1. x.units * Unit <= Largest[4] * Unit
      BY <1>1, RangesAre, TimesMonotone
    <2>2. x.units * Unit \in Nat /\ Largest[4] * Unit \in Nat
      BY <1>1, RangesAre
    <2> QED
      BY <2>1, <2>2, RangesAre
  <1>4. \/ Ratio(t, x, y) \in {NaN, Infinity(s), Finite(s, 0)}
        \/ IsFinite(y) /\ ~IsZero(y) /\ Ratio(t, x, y) = Rounded(t, s, n, y.units)
    BY DEF Ratio
  <1> HIDE DEF s, n
  <1>5. ASSUME IsFinite(y) /\ ~IsZero(y) PROVE ValueOf(t, Rounded(t, s, n, y.units))
    <2>1. y.units > 0
      BY <1>1, <1>5 DEF IsZero
    <2> QED
      BY <1>1, <1>2, <1>3, <2>1, RoundedTyped
  <1>6. ValueOf(t, NaN) /\ ValueOf(t, Infinity(s)) /\ ValueOf(t, Finite(s, 0))
    BY <1>2, ZeroTyped DEF ValueOf
  <1> QED
    BY <1>4, <1>5, <1>6

\* Which computation an operator is.
LEMMA ComputedIs ==
  ASSUME NEW t, NEW x, NEW y
  PROVE  /\ Computed("+", t, x, y) = Sum(t, x, y)
         /\ Computed("-", t, x, y) = Sum(t, x, Opposite(y))
         /\ Computed("*", t, x, y) = Product(t, x, y)
         /\ Computed("/", t, x, y) = Ratio(t, x, y)
  <1>1. /\ "+" # "-" /\ "+" # "*" /\ "+" # "/" /\ "-" # "*" /\ "-" # "/" /\ "*" # "/"
        /\ "-" # "+" /\ "*" # "+" /\ "/" # "+" /\ "*" # "-" /\ "/" # "-" /\ "/" # "*"
    OBVIOUS
  <1> QED
    BY <1>1, Zenon DEF Computed

LEMMA ComputedTyped ==
  ASSUME NEW op \in FloatOp, NEW t \in FloatingType, NEW x, NEW y, ValueOf(t, x), ValueOf(t, y)
  PROVE  ValueOf(t, Computed(op, t, x, y))
  <1>1. op \in {"+", "-", "*", "/"}
    BY DEF FloatOp, RingOp
  <1>2. ValueOf(t, Opposite(y))
    BY OppositeTyped
  <1>3. /\ ValueOf(t, Sum(t, x, y)) /\ ValueOf(t, Sum(t, x, Opposite(y)))
        /\ ValueOf(t, Product(t, x, y)) /\ ValueOf(t, Ratio(t, x, y))
    BY <1>2, SumTyped, ProductTyped, RatioTyped
  <1>4. CASE op = "+"
    BY <1>3, <1>4, ComputedIs, Zenon
  <1>5. CASE op = "-"
    BY <1>3, <1>5, ComputedIs, Zenon
  <1>6. CASE op = "*"
    BY <1>3, <1>6, ComputedIs, Zenon
  <1>7. CASE op = "/"
    BY <1>3, <1>7, ComputedIs, Zenon
  <1> QED
    BY <1>1, <1>4, <1>5, <1>6, <1>7

-----------------------------------------------------------------------------
(* Typing.                                                                 *)

Typed(o) ==
  /\ o.type \in AnyType /\ ValueOf(o.type, o.value)
  /\ o = [type |-> o.type, value |-> o.value]

LEMMA ExactIs ==
  ASSUME NEW a \in Int, NEW b \in Int
  PROVE  /\ Exact("+", a, b) = a + b
         /\ Exact("-", a, b) = a - b
         /\ Exact("*", a, b) = a * b
         /\ \A op \in RingOp : Exact(op, a, b) \in Int
  <1>1. /\ "+" # "-" /\ "+" # "*" /\ "-" # "*" /\ "-" # "+" /\ "*" # "+" /\ "*" # "-"
        /\ "+" # "/" /\ "+" # "%" /\ "-" # "/" /\ "-" # "%" /\ "*" # "/" /\ "*" # "%"
        /\ "+" \notin MaskOp /\ "-" \notin MaskOp /\ "*" \notin MaskOp
    BY DEF MaskOp
  <1>2. Exact("+", a, b) = a + b
    BY <1>1, Zenon DEF Exact
  <1>3. Exact("-", a, b) = a - b
    BY <1>1, Zenon DEF Exact
  <1>4. Exact("*", a, b) = a * b
    BY <1>1, Zenon DEF Exact
  <1> QED
    BY <1>2, <1>3, <1>4 DEF RingOp

LEMMA QuotientInt ==
  ASSUME NEW a \in Int, NEW b \in Int, b # 0
  PROVE  Exact("/", a, b) \in Int
  <1>1. /\ "/" # "+" /\ "/" # "-" /\ "/" # "*" /\ "+" # "/" /\ "-" # "/" /\ "*" # "/"
        /\ "/" # "%" /\ "%" # "/" /\ "/" \notin MaskOp
    BY DEF MaskOp
  <1>2. Exact("/", a, b) = Quotient(a, b)
    BY <1>1, Zenon DEF Exact
  <1>3. Magnitude(a) \in Nat /\ Magnitude(b) \in Nat /\ Magnitude(b) > 0
    BY DEF Magnitude
  <1>4. Magnitude(a) \div Magnitude(b) \in Int
    BY <1>3, DivMod
  <1> QED
    BY <1>2, <1>4 DEF Quotient

LEMMA CommonFloatIs ==
  ASSUME NEW a \in AnyType, NEW b \in AnyType
  PROVE  /\ CommonFloat(a, b) \in FloatingType
         /\ OneFloat(a, b) => CommonFloat(a, b) = Meeting(a, b)
         /\ CommonFloat(a, b) = CommonFloat(b, a)
  <1>1. Float32 \in FloatingType /\ Float64 \in FloatingType /\ FloatingType = {Float32, Float64}
    BY DEF FloatingType
  <1>2. Float32.size = 3 /\ Float64.size = 4 /\ Float32 # Float64
    BY DEF Float32, Float64, FloatOf
  <1> QED
    BY <1>1, <1>2 DEF CommonFloat, OneFloat, Meeting

LEMMA BinaryTyped ==
  ASSUME NEW op \in FloatOp, NEW l, NEW r, Typed(l), Typed(r)
  PROVE  Typed(BinaryResult(op, l, r))
  <1> DEFINE c == CommonFloat(l.type, r.type)
             x == Float(c, l.value)
             y == Float(c, r.value)
             z == Computed(op, c, x, y)
  <1>1. c \in FloatingType /\ c \in AnyType
    BY CommonFloatIs DEF Typed, AnyType
  <1>2. ValueOf(c, x) /\ ValueOf(c, y)
    BY <1>1, FloatTyped DEF Typed
  <1>3. BinaryResult(op, l, r) = [type |-> c, value |-> z]
    BY DEF BinaryResult
  <1> HIDE DEF c, x, y
  <1>4. ValueOf(c, z)
    BY <1>1, <1>2, ComputedTyped
  <1> HIDE DEF z
  <1> QED
    BY <1>1, <1>3, <1>4 DEF Typed

LEMMA CompoundTyped ==
  ASSUME NEW op \in FloatOp, NEW l, NEW r, Typed(l), Typed(r), l.type # Bool,
         NEW x \in CompoundResults(op, l, r)
  PROVE  ValueOf(l.type, x)
  <1> DEFINE t == l.type
  <1>1. t \in AnyType /\ ValueOf(t, l.value) /\ r.type \in AnyType /\ ValueOf(r.type, r.value)
    BY DEF Typed
  <1>2. CASE t \in FloatingType
    <2>1. x = Computed(op, t, l.value, Float(t, r.value))
      BY <1>2 DEF CompoundResults
    <2>2. ValueOf(t, Float(t, r.value))
      BY <1>1, <1>2, FloatTyped
    <2> QED
      BY <1>1, <1>2, <2>1, <2>2, ComputedTyped
  <1>3. CASE t \notin FloatingType
    <2>1. t \in Type /\ t \in IntegerType
      BY <1>1, <1>3, TypesAre
    <2>2. CASE \E v \in Values(t) : x = Number(v)
      BY <2>1, <2>2, NumberTyped
    <2>3. CASE CompoundDefined(op, l, r) /\
               \E y \in Converted(r.type, t, r.value) :
                 x = Number(Cast(t, Exact(op, Truncated(l.value), Truncated(y))))
      <3>1. PICK y \in Converted(r.type, t, r.value) :
              x = Number(Cast(t, Exact(op, Truncated(l.value), Truncated(y))))
        BY <2>3
      <3> DEFINE a == Truncated(l.value)
                 b == Truncated(y)
      <3>2. a \in Int /\ b \in Int
        BY <1>1, ConvertedTyped, TruncatedIs
      <3>3. op \in RingOp \/ op = "/"
        BY DEF FloatOp
      <3>4. op = "/" => b # 0
        <4>1. Defined(op, t, a, b)
          BY <1>3, <2>3 DEF CompoundDefined
        <4> QED
          BY <4>1 DEF Defined, DivOp
      <3>5. Exact(op, a, b) \in Int
        BY <3>2, <3>3, <3>4, ExactIs, QuotientInt
      <3>6. Cast(t, Exact(op, a, b)) \in Values(t)
        BY <2>1, <3>5, CastIs
      <3> QED
        BY <2>1, <3>1, <3>6, NumberTyped
    <2> QED
      BY <1>3, <2>2, <2>3 DEF CompoundResults
  <1> QED
    BY <1>2, <1>3

LEMMA OperandTyped ==
  \A r \in Operands : Typed(r)
  BY OperandAssumption DEF Typed, AnyType

LEMMA TypeOKIs ==
  TypeOK <=> /\ Typed(obj)
             /\ exact \in Int /\ fits \in BOOLEAN /\ length \in 0 .. MaxLength
  BY DEF TypeOK, Typed, AnyType

LEMMA OneTyped ==
  ASSUME NEW t \in FloatingType
  PROVE  ValueOf(t, Number(1))
  <1>1. Number(1) = Finite(1, Unit)
    BY RangesAre DEF Number, Magnitude
  <1>2. 1 \in Nat /\ 1 <= Steps(t) /\ 1 * Unit = Unit /\ Unit * 1 = Unit /\ Unit \in Nat /\ Unit <= Reach
        /\ Unit <= Largest[t.size] /\ Largest[t.size] \in Nat
    <2>1. 1 * Unit <= Modulus[4] * Unit
      BY RangesAre, TimesMonotone
    <2>2. t.size \in FloatSize /\ Steps(t) \in Nat \ {0}
      BY FormatIs
    <2> QED
      BY <2>1, <2>2, RangesAre
  <1>3. OnGrid(t, Unit)
    BY <1>2, WholeOnGrid
  <1>4. RoundedUnits(t, Unit, 1) = Unit
    BY <1>2, <1>3, GridExact
  <1>5. Finite(1, Unit).units = Unit /\ Unit \in 0 .. Largest[t.size]
    BY <1>2 DEF Finite
  <1> QED
    BY <1>1, <1>4, <1>5 DEF ValueOf

\* What each step makes of the object and of the number it stands for.
LEMMA StepTyped == TypeOK /\ Next => TypeOK'
  <1> SUFFICES ASSUME TypeOK, Next PROVE TypeOK'
    OBVIOUS
  <1>1. Typed(obj) /\ exact \in Int /\ fits \in BOOLEAN /\ length \in 0 .. MaxLength /\ length < MaxLength
        /\ MaxLength \in Nat
    BY TypeOKIs, FloatAssumption DEF Next
  <1> DEFINE Result(o, v) == /\ obj' = o /\ (exact' = v \/ exact' = 0)
                             /\ fits' \in BOOLEAN /\ length' = length + 1
  <1>2. SUFFICES \E o, v : Result(o, v) /\ Typed(o) /\ v \in Int
    <2>1. PICK o, v : Result(o, v) /\ Typed(o) /\ v \in Int
      BY <1>2, Zenon
    <2>2. Typed(obj')
      BY <2>1, Zenon
    <2>3. exact' \in Int
      BY <2>1
    <2>4. length' \in 0 .. MaxLength
      BY <1>1, <2>1
    <2>5. fits' \in BOOLEAN
      BY <2>1
    <2> QED
      BY <2>2, <2>3, <2>4, <2>5 DEF TypeOK, Typed, AnyType
  <1>3. ASSUME NEW o, NEW v, NEW held, Become(o, v, held) PROVE Result(o, v)
    <2>1. obj' = o /\ length' = length + 1 /\ (exact' = v \/ exact' = 0)
      BY <1>3, Zenon DEF Become
    <2>2. fits' = (fits /\ held)
      BY <1>3, Zenon DEF Become
    <2>3. (fits /\ held) \in BOOLEAN
      OBVIOUS
    <2>4. fits' \in BOOLEAN
      BY <2>2, <2>3, Zenon
    <2> QED
      BY <2>1, <2>4, Zenon
  <1> HIDE DEF Result
  <1>4. ASSUME NEW op \in FloatOp, NEW r \in Operands, Binary(op, r)
        PROVE  \E o, v : Result(o, v) /\ Typed(o) /\ v \in Int
    <2> DEFINE y == Truncated(r.value)
               a == IF op \in RingOp THEN Exact(op, exact, y) ELSE 0
               b == IF op \in RingOp THEN Exact(op, y, exact) ELSE 0
    <2>1. Typed(r) /\ y \in Int
      BY OperandTyped, TruncatedIs DEF Typed
    <2>2. a \in Int /\ b \in Int
      <3> HIDE DEF y
      <3>1. op \in RingOp => Exact(op, exact, y) \in Int
        BY <1>1, <2>1, ExactIs
      <3>2. op \in RingOp => Exact(op, y, exact) \in Int
        BY <1>1, <2>1, ExactIs
      <3> QED
        BY <3>1, <3>2
    <2>3. Typed(BinaryResult(op, obj, r)) /\ Typed(BinaryResult(op, r, obj))
      BY <1>1, <2>1, BinaryTyped
    <2>4. \/ \E held : Become(BinaryResult(op, obj, r), a, held)
          \/ \E held : Become(BinaryResult(op, r, obj), b, held)
      BY <1>4, Zenon DEF Binary
    <2> HIDE DEF a, b
    <2>5. Result(BinaryResult(op, obj, r), a) \/ Result(BinaryResult(op, r, obj), b)
      BY <1>3, <2>4, Zenon
    <2> QED
      BY <2>2, <2>3, <2>5, Zenon
  <1>5. ASSUME NEW op \in FloatOp, NEW r \in Operands, Compound(op, r)
        PROVE  \E o, v : Result(o, v) /\ Typed(o) /\ v \in Int
    <2> DEFINE y == Truncated(r.value)
               a == IF op \in RingOp THEN Exact(op, exact, y) ELSE 0
    <2>1. Typed(r) /\ y \in Int
      BY OperandTyped, TruncatedIs DEF Typed
    <2>2. a \in Int
      BY <1>1, <2>1, ExactIs
    <2>3. PICK x \in CompoundResults(op, obj, r) : \E held : Become([obj EXCEPT !.value = x], a, held)
      BY <1>5, Zenon DEF Compound
    <2>4. obj.type # Bool
      BY <1>5 DEF Compound
    <2>5. ValueOf(obj.type, x)
      BY <1>1, <2>1, <2>4, CompoundTyped
    <2>6. [obj EXCEPT !.value = x] = [type |-> obj.type, value |-> x]
      BY <1>1 DEF Typed
    <2>7. Typed([obj EXCEPT !.value = x])
      BY <1>1, <2>5, <2>6 DEF Typed
    <2> HIDE DEF a
    <2>8. Result([obj EXCEPT !.value = x], a)
      BY <1>3, <2>3, Zenon
    <2> QED
      BY <2>2, <2>7, <2>8, Zenon
  <1>6. ASSUME NEW op \in {"+", "-"}, Step(op)
        PROVE  \E o, v : Result(o, v) /\ Typed(o) /\ v \in Int
    <2> DEFINE x == Computed(op, obj.type, obj.value, Number(1))
               a == Exact(op, exact, 1)
    <2>1. obj.type \in FloatingType /\ Become([obj EXCEPT !.value = x], a, Held(op, obj.type, exact, 1))
      BY <1>6 DEF Step
    <2>2. op \in FloatOp /\ op \in RingOp
      BY DEF FloatOp, RingOp
    <2>3. a \in Int
      BY <1>1, <2>2, ExactIs
    <2>4. ValueOf(obj.type, x)
      BY <1>1, <2>1, <2>2, OneTyped, ComputedTyped DEF Typed
    <2> HIDE DEF x, a
    <2>5. [obj EXCEPT !.value = x] = [type |-> obj.type, value |-> x]
      BY <1>1 DEF Typed
    <2>6. Typed([obj EXCEPT !.value = x])
      BY <1>1, <2>4, <2>5 DEF Typed
    <2>7. Result([obj EXCEPT !.value = x], a)
      BY <1>3, <2>1, Zenon
    <2> QED
      BY <2>3, <2>6, <2>7, Zenon
  <1>7. ASSUME Negate
        PROVE  \E o, v : Result(o, v) /\ Typed(o) /\ v \in Int
    <2> DEFINE x == Opposite(obj.value)
    <2>1. obj.type \in FloatingType /\ Become([obj EXCEPT !.value = x], -exact, TRUE)
      BY <1>7 DEF Negate
    <2>2. ValueOf(obj.type, x)
      BY <1>1, <2>1, OppositeTyped DEF Typed
    <2> HIDE DEF x
    <2>3. [obj EXCEPT !.value = x] = [type |-> obj.type, value |-> x] /\ -exact \in Int
      BY <1>1 DEF Typed
    <2>4. Typed([obj EXCEPT !.value = x])
      BY <1>1, <2>2, <2>3 DEF Typed
    <2>5. Result([obj EXCEPT !.value = x], -exact)
      BY <1>3, <2>1, Zenon
    <2> QED
      BY <2>3, <2>4, <2>5, Zenon
  <1>8. ASSUME NEW t \in Type \union FloatingType, Convert(t)
        PROVE  \E o, v : Result(o, v) /\ Typed(o) /\ v \in Int
    <2> DEFINE a == IF t = Bool THEN Cast(t, exact) ELSE exact
    <2>1. PICK x \in Converted(obj.type, t, obj.value) :
            \E held : Become([type |-> t, value |-> x], a, held)
      BY <1>8, Zenon DEF Convert
    <2>2. ValueOf(t, x) /\ t \in AnyType
      BY <1>1, ConvertedTyped DEF AnyType, Typed
    <2>3. Typed([type |-> t, value |-> x])
      BY <2>2 DEF Typed
    <2>4. a \in Int
      BY <1>1 DEF Cast
    <2> HIDE DEF a
    <2>5. Result([type |-> t, value |-> x], a)
      BY <1>3, <2>1, Zenon
    <2> QED
      BY <2>3, <2>4, <2>5, Zenon
  <1> QED
    BY <1>4, <1>5, <1>6, <1>7, <1>8, Zenon DEF Next

LEMMA InitTyped == Init => TypeOK
  <1> SUFFICES ASSUME Init PROVE TypeOK
    OBVIOUS
  <1>1. Typed(obj)
    BY OperandTyped DEF Init
  <1>2. fits \in BOOLEAN
    BY DEF Init, IsWhole
  <1>3. Truncated(obj.value) \in Int
    BY <1>1, TruncatedIs DEF Typed
  <1>4. exact \in Int
    BY <1>3 DEF Init
  <1>5. length \in 0 .. MaxLength
    BY FloatAssumption DEF Init
  <1> QED
    BY <1>1, <1>2, <1>4, <1>5, TypeOKIs

\* Every value a chain comes by is a value of its type: rounding, the conversions
\* and the operators never leave the format of a Float32 or a Float64, nor the
\* range of an integer.
THEOREM FloatTyping == Spec => []TypeOK
  <1>1. TypeOK /\ UNCHANGED vars => TypeOK'
    BY DEF TypeOK, vars
  <1> QED
    BY <1>1, InitTyped, StepTyped, PTL DEF Spec

-----------------------------------------------------------------------------
(* Whole numbers.                                                          *)

\* A value stands for a whole number.
Stands(x, v) ==
  /\ IsFinite(x) /\ x.sign \in {1, -1}
  /\ x.units = Magnitude(v) * Unit /\ x.sign * Magnitude(v) = v

LEMMA MagnitudeIs ==
  ASSUME NEW v \in Int
  PROVE  /\ Magnitude(v) \in Nat /\ Magnitude(-v) = Magnitude(v)
         /\ (Magnitude(v) = 0 <=> v = 0)
  BY DEF Magnitude

LEMMA StandsWhole ==
  ASSUME NEW v \in Int, NEW x, Stands(x, v)
  PROVE  IsWhole(x) /\ Truncated(x) = v /\ (IsZero(x) <=> v = 0)
  <1> DEFINE m == Magnitude(v)
             n == x.units
  <1>1. m \in Nat /\ Unit \in Nat \ {0} /\ n = m * Unit /\ x.sign * m = v /\ x.sign \in {1, -1}
        /\ (m = 0 <=> v = 0)
    BY MagnitudeIs, RangesAre DEF Stands
  <1> HIDE DEF m, n
  <1>2. (m * Unit + 0) \div Unit = m /\ (m * Unit + 0) % Unit = 0
    BY <1>1, DivModUnique
  <1>3. m * Unit + 0 = n
    BY <1>1
  <1>4. n \div Unit = m /\ n % Unit = 0
    BY <1>2, <1>3
  <1>5. n = 0 <=> m = 0
    <2>1. m > 0 => m * Unit >= Unit
      <3>1. m > 0 => (m - 1) * Unit >= 0 /\ (m - 1) * Unit = m * Unit - Unit
        BY <1>1
      <3>2. m * Unit \in Nat
        BY <1>1
      <3> QED
        BY <1>1, <3>1, <3>2
    <2>2. 0 * Unit = 0
      BY <1>1
    <2> QED
      BY <1>1, <2>1, <2>2
  <1> QED
    BY <1>1, <1>4, <1>5 DEF IsWhole, Truncated, IsZero, Stands, n

LEMMA WholeStands ==
  ASSUME NEW t \in AnyType, NEW x, ValueOf(t, x), IsWhole(x), NEW v, Truncated(x) = v
  PROVE  v \in Int /\ Stands(x, v)
  <1> DEFINE n == x.units
             q == n \div Unit
  <1>1. n \in Nat /\ Unit \in Nat \ {0} /\ x.sign \in {1, -1} /\ n % Unit = 0 /\ v = x.sign * q /\ IsFinite(x)
    BY ValueIs, RangesAre DEF IsWhole, Truncated
  <1>2. q \in Int /\ q >= 0 /\ n = Unit * q + (n % Unit)
    <2>1. n \in Int /\ n >= 0 /\ Unit \in Nat /\ Unit > 0
      BY <1>1
    <2> HIDE DEF n
    <2>2. q \in Int /\ n = Unit * q + (n % Unit)
      BY <2>1, DivMod
    <2>3. q >= 0
      BY <2>1, QuotientBelow
    <2> QED
      BY <2>2, <2>3
  <1> DEFINE k == x.sign
  <1>2a. n \in Nat /\ n % Unit = 0 /\ k \in {1, -1} /\ v = k * q
    BY <1>1
  <1> HIDE DEF q, n, k
  <1>3. n = q * Unit /\ q \in Nat
    <2>1. Unit \in Nat \ {0}
      BY RangesAre
    <2>2. q \in Nat
      BY <1>2
    <2>3. Unit * q + 0 = q * Unit
      BY <2>1, <2>2
    <2> QED
      BY <1>2, <1>2a, <2>2, <2>3
  <1>4. v \in Int /\ Magnitude(v) = q
    BY <1>2a, <1>3 DEF Magnitude
  <1> QED
    BY <1>1, <1>2a, <1>3, <1>4 DEF Stands, n, k

LEMMA NumberStands ==
  ASSUME NEW v \in Int
  PROVE  Stands(Number(v), v)
  BY DEF Number, Stands, Finite, IsFinite, Magnitude

\* A significand has no more places than the largest integer type has values.
LEMMA StepsBelow ==
  ASSUME NEW t \in FloatingType
  PROVE  Steps(t) <= Modulus[4]
  <1>1. t.size = 3 \/ t.size = 4
    BY FormatIs DEF FloatSize, IntSize
  <1>2. Precision[3] \in Nat /\ Precision[4] \in Nat /\ Width[3] \in Nat /\ Width[4] \in Nat /\ Width[3] <= Width[4]
    BY FloatAssumption, SizesAre DEF FloatSize, IntSize, Size
  <1>3. Precision[t.size] <= Width[4] /\ Precision[t.size] \in Exponent
    BY <1>1, <1>2, FloatAssumption, FormatIs
  <1>4. Modulus[4] = Power[Width[4]] /\ Width[4] \in Exponent
    BY ModulusIs DEF Size
  <1> QED
    BY <1>3, <1>4, PowerDivides DEF Steps

\* Rounding keeps a whole number that the significand has a place for.
LEMMA RoundedStands ==
  ASSUME NEW t \in FloatingType, NEW v \in Int, Magnitude(v) <= Steps(t),
         NEW s \in {1, -1}, s * Magnitude(v) = v,
         NEW den \in Nat, den > 0, (Magnitude(v) * Unit) * den <= Reach
  PROVE  Rounded(t, s, (Magnitude(v) * Unit) * den, den) = Finite(s, Magnitude(v) * Unit)
         /\ Stands(Finite(s, Magnitude(v) * Unit), v)
  <1> DEFINE m == Magnitude(v)
             n == m * Unit
  <1>1. m \in Nat /\ n \in Nat /\ Unit \in Nat \ {0} /\ m <= Steps(t) /\ n * den <= Reach
    BY MagnitudeIs, RangesAre
  <1>2. OnGrid(t, n)
    BY <1>1, WholeOnGrid
  <1>3. n <= Largest[t.size] /\ n \in Nat /\ Largest[t.size] \in Nat
    <2>1. m <= Modulus[4] /\ Modulus[4] \in Nat /\ Steps(t) \in Nat
      BY <1>1, StepsBelow, FormatIs, RangesAre
    <2>2. m * Unit <= Modulus[4] * Unit /\ Modulus[4] * Unit \in Nat
      BY <1>1, <2>1, TimesMonotone
    <2>3. Modulus[4] * Unit <= Largest[t.size] /\ Largest[t.size] \in Nat
      BY FormatIs, RangesAre
    <2> QED
      BY <1>1, <2>2, <2>3
  <1>4. Stands(Finite(s, n), v)
    BY DEF Stands, Finite, IsFinite
  <1> HIDE DEF n
  <1>5. RoundedUnits(t, n * den, den) = n
    BY <1>1, <1>2, GridExact
  <1>6. Rounded(t, s, n * den, den) = Finite(s, n)
    BY <1>3, <1>5, FormatIs DEF Rounded
  <1> QED
    BY <1>4, <1>6 DEF n

LEMMA FloatStands ==
  ASSUME NEW t \in FloatingType, NEW r \in AnyType, NEW x, ValueOf(r, x), NEW v \in Int, Stands(x, v),
         Magnitude(v) <= Steps(t)
  PROVE  Float(t, x) = x /\ Stands(Float(t, x), v)
  <1> DEFINE n == Magnitude(v) * Unit
  <1>1. /\ x.sign \in {1, -1} /\ x.units = n /\ x.units \in Nat /\ x.units <= Largest[4]
        /\ IsFinite(x) /\ x = Finite(x.sign, x.units) /\ x.sign * Magnitude(v) = v
    BY ValueIs DEF Stands
  <1>2. n \in Nat /\ n * 1 = n /\ n <= Reach
    BY <1>1, RangesAre
  <1>3. Rounded(t, x.sign, n * 1, 1) = Finite(x.sign, n)
    BY <1>1, <1>2, RoundedStands
  <1>4. Float(t, x) = Rounded(t, x.sign, n, 1)
    BY <1>1 DEF Float
  <1> HIDE DEF n
  <1> QED
    BY <1>1, <1>2, <1>3, <1>4

LEMMA OppositeStands ==
  ASSUME NEW x, NEW v \in Int, Stands(x, v), x = Finite(x.sign, x.units)
  PROVE  Stands(Opposite(x), -v)
  <1>1. x # NaN /\ x.sign \in {1, -1} /\ x.units = Magnitude(v) * Unit /\ x.sign * Magnitude(v) = v
    BY DEF Stands, NaN, IsFinite
  <1>2. Opposite(x) = Finite(-x.sign, x.units)
    BY <1>1 DEF Opposite, Finite
  <1>3. Magnitude(-v) = Magnitude(v) /\ Magnitude(v) \in Nat /\ -v \in Int
    BY MagnitudeIs
  <1>4. -x.sign \in {1, -1} /\ (-x.sign) * Magnitude(v) = -v
    BY <1>1, <1>3
  <1> QED
    BY <1>1, <1>2, <1>3, <1>4 DEF Stands, Finite, IsFinite

LEMMA SumStands ==
  ASSUME NEW t \in FloatingType, NEW x, NEW y, ValueOf(t, x), ValueOf(t, y),
         NEW a \in Int, NEW b \in Int, Stands(x, a), Stands(y, b), Magnitude(a + b) <= Steps(t)
  PROVE  Stands(Sum(t, x, y), a + b)
  <1>0. t \in AnyType
    BY DEF AnyType
  <1> DEFINE s == Real(x) + Real(y)
             c == a + b
             n == Magnitude(c) * Unit
  <1>1. /\ IsFinite(x) /\ IsFinite(y) /\ x # NaN /\ y # NaN
        /\ x.sign \in {1, -1} /\ y.sign \in {1, -1}
        /\ x.units = Magnitude(a) * Unit /\ y.units = Magnitude(b) * Unit
        /\ x.sign * Magnitude(a) = a /\ y.sign * Magnitude(b) = b
    BY DEF Stands, NaN, IsFinite
  <1>2. Real(x) = a * Unit /\ Real(y) = b * Unit
    <2>1. Magnitude(a) \in Nat /\ Magnitude(b) \in Nat /\ Unit \in Nat
      BY MagnitudeIs, RangesAre
    <2>2. \A k \in {1, -1}, m \in Nat : k * (m * Unit) = (k * m) * Unit
      BY <2>1
    <2> QED
      BY <1>1, <2>1, <2>2 DEF Real
  <1>3. c \in Int /\ s = c * Unit /\ Unit \in Nat \ {0}
    <2>1. (a + b) * Unit = a * Unit + b * Unit
      BY RangesAre
    <2> QED
      BY <1>2, <2>1, RangesAre
  <1>4. Magnitude(s) = n /\ n \in Nat /\ (s = 0 <=> c = 0) /\ (s < 0 <=> c < 0)
    <2> HIDE DEF c, s
    <2>1. /\ c > 0 => c * Unit > 0
          /\ c < 0 => c * Unit < 0 /\ -(c * Unit) = (-c) * Unit
          /\ c = 0 => c * Unit = 0
      <3>1. c > 0 => (c - 1) * Unit >= 0 /\ (c - 1) * Unit = c * Unit - Unit
        BY <1>3
      <3>2. c < 0 => (-1 - c) * Unit >= 0 /\ (-1 - c) * Unit = -Unit - c * Unit /\ -(c * Unit) = (-c) * Unit
        BY <1>3
      <3>3. c * Unit \in Int
        BY <1>3
      <3> QED
        BY <1>3, <3>1, <3>2, <3>3
    <2>2. s \in Int
      BY <1>3
    <2>3. n \in Nat
      BY <1>3, MagnitudeIs
    <2> QED
      BY <1>3, <2>1, <2>2, <2>3 DEF Magnitude
  <1>5. Magnitude(s) <= Reach
    <2>1. /\ x.units \in Nat /\ x.units <= Largest[4]
          /\ y.units \in Nat /\ y.units <= Largest[4]
      BY <1>0, ValueIs
    <2>2. x.sign \in {1, -1} /\ y.sign \in {1, -1}
      BY <1>1
    <2> QED
      BY <2>1, <2>2, RangesAre DEF Real, Magnitude
  <1>6. Sum(t, x, y) = IF s = 0 THEN Finite(IF x.sign = y.sign THEN x.sign ELSE 1, 0)
                       ELSE Rounded(t, IF s < 0 THEN -1 ELSE 1, Magnitude(s), 1)
    BY <1>1 DEF Sum
  <1> HIDE DEF s
  <1>7. CASE s = 0
    <2>1. \E k \in {1, -1} : Sum(t, x, y) = Finite(k, 0)
      BY <1>1, <1>6, <1>7
    <2>2. c = 0 /\ Magnitude(c) = 0 /\ 0 * Unit = 0 /\ Magnitude(c) * Unit = 0
      BY <1>3, <1>4, <1>7 DEF Magnitude
    <2>3. \A k \in {1, -1} : Stands(Finite(k, 0), c)
      BY <2>2 DEF Stands, Finite, IsFinite
    <2> QED
      BY <2>1, <2>3
  <1>8. CASE s # 0
    <2> DEFINE k == IF s < 0 THEN -1 ELSE 1
    <2>1. k \in {1, -1} /\ k * Magnitude(c) = c
      BY <1>3, <1>4, <1>8 DEF Magnitude
    <2>2. Sum(t, x, y) = Rounded(t, k, n, 1) /\ n * 1 = n /\ n <= Reach
      BY <1>4, <1>5, <1>6, <1>8
    <2> HIDE DEF k, c
    <2>3. Magnitude(c) <= Steps(t)
      BY DEF c
    <2>4. Rounded(t, k, n * 1, 1) = Finite(k, n) /\ Stands(Finite(k, n), c)
      BY <1>3, <2>1, <2>2, <2>3, RoundedStands
    <2>5. Stands(Sum(t, x, y), c)
      BY <2>2, <2>4
    <2> QED
      BY <2>5 DEF c
  <1> QED
    BY <1>7, <1>8

LEMMA ProductStands ==
  ASSUME NEW t \in FloatingType, NEW x, NEW y, ValueOf(t, x), ValueOf(t, y),
         NEW a \in Int, NEW b \in Int, Stands(x, a), Stands(y, b), Magnitude(a * b) <= Steps(t)
  PROVE  Stands(Product(t, x, y), a * b)
  <1>0. t \in AnyType
    BY DEF AnyType
  <1> DEFINE m == Magnitude(a)
             n == Magnitude(b)
             j == x.sign
             k == y.sign
             c == a * b
  <1>1. /\ IsFinite(x) /\ IsFinite(y) /\ x # NaN /\ y # NaN
        /\ j \in {1, -1} /\ k \in {1, -1} /\ m \in Nat /\ n \in Nat /\ Unit \in Nat \ {0}
        /\ x.units = m * Unit /\ y.units = n * Unit
        /\ j * m = a /\ k * n = b
    BY MagnitudeIs, RangesAre DEF Stands, NaN, IsFinite
  <1>2. Product(t, x, y) = Rounded(t, j * k, x.units * y.units, Unit)
    BY <1>1 DEF Product
  <1>3. x.units * y.units \in Nat /\ x.units * y.units <= Reach
    <2>1. x.units \in Nat /\ x.units <= Largest[4] /\ y.units \in Nat /\ y.units <= Largest[4]
      BY <1>0, ValueIs
    <2> QED
      BY <2>1, ProductReach
  <1>3a. c \in Int /\ Magnitude(c) <= Steps(t)
    OBVIOUS
  <1> HIDE DEF m, n, j, k
  <1>4. j * k \in {1, -1} /\ c = (j * k) * (m * n) /\ Magnitude(c) = m * n
    <2>1. j * k \in {1, -1} /\ m * n \in Nat
      BY <1>1, SignProduct
    <2>2. c = (j * k) * (m * n)
      <3>1. (j * m) * (k * n) = (j * k) * (m * n)
        BY <1>1
      <3> QED
        BY <1>1, <3>1
    <2> DEFINE p == m * n
               s == j * k
    <2>3. p \in Nat /\ s \in {1, -1} /\ c = s * p
      BY <2>1, <2>2
    <2> HIDE DEF p, s, c
    <2>4. Magnitude(c) = p
      BY <2>3 DEF Magnitude
    <2> QED
      BY <2>1, <2>2, <2>4 DEF p
  <1>5. x.units * y.units = (Magnitude(c) * Unit) * Unit
    <2>1. (m * Unit) * (n * Unit) = ((m * n) * Unit) * Unit
      BY <1>1
    <2> QED
      BY <1>1, <1>4, <2>1
  <1> DEFINE s == j * k
             d == Magnitude(c)
  <1>6. s \in {1, -1} /\ s * d = c /\ c \in Int /\ d <= Steps(t) /\ (d * Unit) * Unit <= Reach
        /\ Unit \in Nat /\ Unit > 0
    BY <1>1, <1>3, <1>3a, <1>4, <1>5
  <1> HIDE DEF s, c
  <1>7. Rounded(t, s, (d * Unit) * Unit, Unit) = Finite(s, d * Unit) /\ Stands(Finite(s, d * Unit), c)
    BY <1>6, RoundedStands
  <1>8. Stands(Product(t, x, y), c)
    BY <1>2, <1>5, <1>7 DEF s
  <1> QED
    BY <1>8 DEF c

LEMMA ComputedStands ==
  ASSUME NEW op \in RingOp, NEW t \in FloatingType, NEW x, NEW y, ValueOf(t, x), ValueOf(t, y),
         NEW a \in Int, NEW b \in Int, Stands(x, a), Stands(y, b),
         Magnitude(Exact(op, a, b)) <= Steps(t)
  PROVE  Stands(Computed(op, t, x, y), Exact(op, a, b))
  <1>1. op \in {"+", "-", "*"}
    BY DEF RingOp
  <1>2. CASE op = "+"
    <2>1. Exact(op, a, b) = a + b /\ Computed(op, t, x, y) = Sum(t, x, y)
      BY <1>2, ExactIs, ComputedIs
    <2>2. Magnitude(a + b) <= Steps(t)
      BY <2>1
    <2> QED
      BY <2>1, <2>2, SumStands
  <1>3. CASE op = "-"
    <2>1. Exact(op, a, b) = a - b /\ Computed(op, t, x, y) = Sum(t, x, Opposite(y))
      BY <1>3, ExactIs, ComputedIs
    <2>2. y = Finite(y.sign, y.units)
      <3>1. t \in AnyType
        BY DEF AnyType
      <3> QED
        BY <3>1, ValueIs DEF Stands
    <2>3. -b \in Int /\ a + (-b) = a - b /\ Stands(Opposite(y), -b) /\ ValueOf(t, Opposite(y))
      BY <2>2, OppositeStands, OppositeTyped
    <2>4. Magnitude(a + (-b)) <= Steps(t)
      BY <2>1, <2>3
    <2>5. Stands(Sum(t, x, Opposite(y)), a + (-b))
      BY <2>3, <2>4, SumStands
    <2> QED
      BY <2>1, <2>3, <2>5
  <1>4. CASE op = "*"
    <2>1. Exact(op, a, b) = a * b /\ Computed(op, t, x, y) = Product(t, x, y)
      BY <1>4, ExactIs, ComputedIs
    <2>2. Magnitude(a * b) <= Steps(t)
      BY <2>1
    <2> QED
      BY <2>1, <2>2, ProductStands
  <1> QED
    BY <1>1, <1>2, <1>3, <1>4

LEMMA BinaryStands ==
  ASSUME NEW op \in RingOp, NEW l, NEW r, Typed(l), Typed(r), NEW a \in Int, NEW b \in Int,
         Stands(l.value, a), Stands(r.value, b),
         Held(op, CommonFloat(l.type, r.type), a, b)
  PROVE  Stands(BinaryResult(op, l, r).value, Exact(op, a, b))
  <1> DEFINE c == CommonFloat(l.type, r.type)
             x == Float(c, l.value)
             y == Float(c, r.value)
  <1>1. c \in FloatingType
    BY CommonFloatIs DEF Typed
  <1>2. /\ Magnitude(a) <= Steps(c) /\ Magnitude(b) <= Steps(c)
        /\ Magnitude(Exact(op, a, b)) <= Steps(c)
    BY <1>1 DEF Held, Holds, Steps
  <1>3. BinaryResult(op, l, r).value = Computed(op, c, x, y)
    BY DEF BinaryResult
  <1> HIDE DEF c
  <1>4. Stands(x, a) /\ Stands(y, b) /\ ValueOf(c, x) /\ ValueOf(c, y)
    BY <1>1, <1>2, FloatStands, FloatTyped DEF Typed
  <1> HIDE DEF x, y
  <1> QED
    BY <1>1, <1>2, <1>3, <1>4, ComputedStands

\* An integer type and its promotion.
LEMMA PromotedFits ==
  ASSUME NEW t \in IntegerType, Promoted(t).signed, NEW v \in Values(t)
  PROVE  v \in Values(Promoted(t))
  <1>1. CASE t.size < 3
    <2> DEFINE g == Power[Width[3] - 1]
    <2>1. /\ Promoted(t) = Signed(3) /\ Signed(3) \in IntegerType /\ Signed(3) \in Type
          /\ Signed(3).size = 3 /\ Signed(3).signed = TRUE
          /\ t.size \in Size /\ 3 \in Size /\ t \in Type
      BY <1>1 DEF Promoted, IntSize, Signed, IntegerOf, IntegerType, Size, Type
    <2>2. g \in Nat \ {0} /\ Modulus[3] = 2 * g
      BY <2>1, ModulusIs
    <2>3. Modulus[t.size] <= g
      <3>1. t.size = 1 \/ t.size = 2
        BY <1>1, <2>1 DEF Size
      <3>2. /\ Width[1] \in Nat \ {0} /\ Width[2] \in Nat \ {0} /\ Width[3] \in Nat \ {0}
            /\ Width[2] = Width[1] + Width[1] /\ Width[3] = Width[2] + Width[2]
        BY SizesAre DEF Size
      <3>3. Width[t.size] <= Width[3] - 1
        BY <3>1, <3>2
      <3>4. Width[t.size] \in Exponent /\ Width[3] - 1 \in Exponent /\ Modulus[t.size] = Power[Width[t.size]]
        BY <2>1, ModulusIs
      <3> QED
        BY <3>3, <3>4, PowerDivides
    <2> HIDE DEF g
    <2>4. Values(Signed(3)) = -g .. g - 1
      <3>1. Lowest(Signed(3)) = -g /\ Highest(Signed(3)) = -g + 2 * g - 1
            /\ Values(Signed(3)) = Lowest(Signed(3)) .. Highest(Signed(3))
        <4>1. /\ Lowest(Signed(3)) = IF Signed(3).signed THEN -Power[Width[Signed(3).size] - 1] ELSE 0
              /\ Highest(Signed(3)) = Lowest(Signed(3)) + Modulus[Signed(3).size] - 1
              /\ Values(Signed(3)) = Lowest(Signed(3)) .. Highest(Signed(3))
          BY <2>1, ValuesAre, Zenon
        <4> QED
          BY <2>1, <2>2, <4>1 DEF g
      <3> QED
        BY <2>2, <3>1
    <2>5. v \in Int /\ -g <= v /\ v <= g - 1
      <3> DEFINE h == Power[Width[t.size] - 1]
      <3>1. /\ Lowest(t) = IF t.signed THEN -h ELSE 0
            /\ Highest(t) = Lowest(t) + Modulus[t.size] - 1
            /\ Values(t) = Lowest(t) .. Highest(t)
        BY <2>1, ValuesAre, Zenon
      <3>2. h \in Nat \ {0} /\ Modulus[t.size] = 2 * h
        BY <2>1, ModulusIs
      <3> HIDE DEF h
      <3>3. v >= -h /\ v <= 2 * h - 1 /\ v \in Int
        BY <3>1, <3>2
      <3> QED
        BY <2>2, <2>3, <3>2, <3>3
    <2> QED
      BY <2>1, <2>2, <2>4, <2>5
  <1>2. CASE ~(t.size < 3)
    BY <1>2 DEF Promoted, IntSize
  <1> QED
    BY <1>1, <1>2

\* A conversion to an integer type is defined for a number the type has.
LEMMA ConvertedHolds ==
  ASSUME NEW s, NEW t \in IntegerType, NEW x, NEW v \in Values(t), Stands(x, v)
  PROVE  ConvertDefined(s, t, x) /\ Converted(s, t, x) = {Number(v)}
  <1>1. t \in Type /\ t # Bool /\ t \notin FloatingType /\ v \in Int
    BY TypesAre, ValuesAre
  <1>2. Truncated(x) = v /\ IsFinite(x)
    BY <1>1, StandsWhole DEF Stands
  <1>3. ConvertDefined(s, t, x)
    BY <1>2 DEF ConvertDefined
  <1>4. Cast(t, v) = v
    BY <1>1, CastIs
  <1> QED
    BY <1>1, <1>2, <1>3, <1>4 DEF Converted

LEMMA CompoundStands ==
  ASSUME NEW op \in RingOp, NEW l, NEW r, Typed(l), Typed(r), l.type # Bool,
         NEW a \in Int, NEW b \in Int, Stands(l.value, a), Stands(r.value, b),
         Held(op, l.type, a, b), NEW x \in CompoundResults(op, l, r)
  PROVE  Stands(x, Exact(op, a, b))
  <1> DEFINE t == l.type
             e == Exact(op, a, b)
  <1>1. t \in AnyType /\ ValueOf(t, l.value) /\ r.type \in AnyType /\ ValueOf(r.type, r.value) /\ e \in Int
    BY ExactIs DEF Typed
  <1>2. Holds(t, a) /\ Holds(t, b) /\ Holds(t, e)
    BY DEF Held
  <1>3. CASE t \in FloatingType
    <2>1. Magnitude(a) <= Steps(t) /\ Magnitude(b) <= Steps(t) /\ Magnitude(e) <= Steps(t)
      BY <1>2, <1>3 DEF Holds, Steps
    <2> DEFINE y == Float(t, r.value)
    <2>2. x = Computed(op, t, l.value, y)
      BY <1>3 DEF CompoundResults
    <2>3. Stands(y, b) /\ ValueOf(t, y)
      BY <1>1, <1>3, <2>1, FloatStands, FloatTyped
    <2> HIDE DEF y, t
    <2> QED
      BY <1>1, <1>3, <2>1, <2>2, <2>3, ComputedStands DEF t
  <1>4. CASE t \notin FloatingType
    <2>1. t \in Type /\ t \in IntegerType
      BY <1>1, <1>4, TypesAre
    <2>2. a \in Values(t) /\ b \in Values(t) /\ e \in Values(t)
      BY <1>2, <1>4 DEF Holds
    <2>3. ConvertDefined(r.type, t, r.value) /\ Converted(r.type, t, r.value) = {Number(b)}
      BY <2>1, <2>2, ConvertedHolds
    <2>4. Truncated(l.value) = a /\ Truncated(Number(b)) = b
      BY NumberStands, StandsWhole
    <2>5. Defined(op, t, a, b)
      <3>1. op \notin DivOp /\ op # "%" /\ op \notin MaskOp
        BY DEF RingOp, DivOp, MaskOp
      <3>2. Promoted(t).signed => e \in Values(Promoted(t))
        BY <2>1, <2>2, PromotedFits
      <3> QED
        BY <3>1, <3>2 DEF Defined
    <2>6. CompoundDefined(op, l, r)
      BY <2>3, <2>4, <2>5 DEF CompoundDefined
    <2>7. CompoundResults(op, l, r) =
            {Number(Cast(t, Exact(op, Truncated(l.value), Truncated(y)))) : y \in {Number(b)}}
      BY <1>4, <2>3, <2>6 DEF CompoundResults
    <2>8. x = Number(Cast(t, e))
      BY <2>4, <2>7
    <2>9. Cast(t, e) = e
      BY <1>1, <2>1, <2>2, CastIs
    <2> QED
      BY <1>1, <2>8, <2>9, NumberStands
  <1> QED
    BY <1>3, <1>4

LEMMA ConvertStands ==
  ASSUME NEW s \in AnyType, NEW t \in AnyType, NEW x, ValueOf(s, x), NEW v \in Int, Stands(x, v),
         t = Bool \/ Holds(t, v), NEW y \in Converted(s, t, x)
  PROVE  Stands(y, IF t = Bool THEN Cast(t, v) ELSE v)
  <1>1. CASE t = Bool
    <2>1. y = Number(IF IsZero(x) THEN 0 ELSE 1)
      BY <1>1, TypesAre DEF Converted
    <2>2. Cast(t, v) = IF IsZero(x) THEN 0 ELSE 1
      BY <1>1, StandsWhole DEF Cast
    <2>3. Cast(t, v) \in Int
      BY <2>2
    <2> QED
      BY <1>1, <2>1, <2>2, <2>3, NumberStands
  <1>2. CASE t \in FloatingType
    <2>1. t # Bool /\ Magnitude(v) <= Steps(t)
      BY <1>2, TypesAre DEF Holds, Steps
    <2>2. y = Float(t, x)
      BY <1>2 DEF Converted
    <2> QED
      BY <1>2, <2>1, <2>2, FloatStands
  <1>3. CASE t # Bool /\ t \notin FloatingType
    <2>1. t \in IntegerType /\ v \in Values(t)
      BY <1>3, TypesAre DEF Holds
    <2>2. y = Number(v)
      BY <2>1, ConvertedHolds
    <2> QED
      BY <1>3, <2>2, NumberStands
  <1> QED
    BY <1>1, <1>2, <1>3

LEMMA StepWhole == TypeOK /\ WholeNumbersSurvive /\ Next => WholeNumbersSurvive'
  <1> SUFFICES ASSUME TypeOK, WholeNumbersSurvive, Next, fits'
               PROVE  IsWhole(obj'.value) /\ Truncated(obj'.value) = exact'
    BY DEF WholeNumbersSurvive
  <1>1. Typed(obj) /\ exact \in Int
    BY TypeOKIs
  <1>2. fits => Stands(obj.value, exact)
    BY <1>1, WholeStands DEF WholeNumbersSurvive, Typed
  <1>3. SUFFICES \E o, v : obj' = o /\ exact' = v /\ v \in Int /\ Stands(o.value, v)
    BY StandsWhole
  <1>4. ASSUME NEW r \in Operands, IsWhole(r.value)
        PROVE  Typed(r) /\ Truncated(r.value) \in Int /\ Stands(r.value, Truncated(r.value))
    <2>1. Typed(r)
      BY OperandTyped
    <2> QED
      BY <1>4, <2>1, WholeStands DEF Typed
  <1>5. ASSUME NEW op \in FloatOp, NEW r \in Operands, Binary(op, r)
        PROVE  \E o, v : obj' = o /\ exact' = v /\ v \in Int /\ Stands(o.value, v)
    <2> DEFINE y == Truncated(r.value)
               t == Meeting(obj.type, r.type)
               a == IF op \in RingOp THEN Exact(op, exact, y) ELSE 0
               b == IF op \in RingOp THEN Exact(op, y, exact) ELSE 0
    <2>1. /\ t = CommonFloat(obj.type, r.type) /\ t = CommonFloat(r.type, obj.type)
          /\ Typed(r)
      BY <1>1, <1>5, OperandTyped, CommonFloatIs DEF Binary, Typed
    <2> HIDE DEF t
    <2>2. CASE Become(BinaryResult(op, obj, r), a, IsWhole(r.value) /\ Held(op, t, exact, y))
      <3>1. /\ obj' = BinaryResult(op, obj, r) /\ exact' = a /\ fits
            /\ IsWhole(r.value) /\ Held(op, t, exact, y)
        BY <2>2, Zenon DEF Become
      <3>2. op \in RingOp /\ y \in Int /\ Stands(r.value, y)
        BY <1>4, <3>1 DEF Held
      <3>3. a = Exact(op, exact, y) /\ a \in Int
        BY <1>1, <3>2, ExactIs
      <3> HIDE DEF a, y
      <3>4. Stands(BinaryResult(op, obj, r).value, a)
        BY <1>1, <1>2, <2>1, <3>1, <3>2, <3>3, BinaryStands
      <3> QED
        BY <3>1, <3>3, <3>4, Zenon
    <2>3. CASE Become(BinaryResult(op, r, obj), b, IsWhole(r.value) /\ Held(op, t, y, exact))
      <3>1. /\ obj' = BinaryResult(op, r, obj) /\ exact' = b /\ fits
            /\ IsWhole(r.value) /\ Held(op, t, y, exact)
        BY <2>3, Zenon DEF Become
      <3>2. op \in RingOp /\ y \in Int /\ Stands(r.value, y)
        BY <1>4, <3>1 DEF Held
      <3>3. b = Exact(op, y, exact) /\ b \in Int
        BY <1>1, <3>2, ExactIs
      <3> HIDE DEF b, y
      <3>4. Stands(BinaryResult(op, r, obj).value, b)
        BY <1>1, <1>2, <2>1, <3>1, <3>2, <3>3, BinaryStands
      <3> QED
        BY <3>1, <3>3, <3>4, Zenon
    <2> QED
      BY <1>5, <2>2, <2>3, Zenon DEF Binary, t
  <1>6. ASSUME NEW op \in FloatOp, NEW r \in Operands, Compound(op, r)
        PROVE  \E o, v : obj' = o /\ exact' = v /\ v \in Int /\ Stands(o.value, v)
    <2> DEFINE y == Truncated(r.value)
               a == IF op \in RingOp THEN Exact(op, exact, y) ELSE 0
    <2>1. PICK x \in CompoundResults(op, obj, r) :
            Become([obj EXCEPT !.value = x], a, IsWhole(r.value) /\ Held(op, obj.type, exact, y))
      BY <1>6, Zenon DEF Compound
    <2>2. /\ obj' = [obj EXCEPT !.value = x] /\ exact' = a /\ fits
          /\ IsWhole(r.value) /\ Held(op, obj.type, exact, y) /\ obj.type # Bool
      BY <1>6, <2>1, Zenon DEF Compound, Become
    <2>3. op \in RingOp /\ Typed(r) /\ y \in Int /\ Stands(r.value, y)
      BY <1>4, <2>2 DEF Held
    <2>4. a = Exact(op, exact, y) /\ a \in Int
      BY <1>1, <2>3, ExactIs
    <2>5. [obj EXCEPT !.value = x] = [type |-> obj.type, value |-> x]
      BY <1>1 DEF Typed
    <2> HIDE DEF a, y
    <2>6. Stands(x, a)
      BY <1>1, <1>2, <2>2, <2>3, <2>4, CompoundStands
    <2>7. Stands([obj EXCEPT !.value = x].value, a)
      BY <2>5, <2>6
    <2> QED
      BY <2>2, <2>4, <2>7, Zenon
  <1>7. ASSUME NEW op \in {"+", "-"}, Step(op)
        PROVE  \E o, v : obj' = o /\ exact' = v /\ v \in Int /\ Stands(o.value, v)
    <2> DEFINE t == obj.type
               x == Computed(op, t, obj.value, Number(1))
               a == Exact(op, exact, 1)
    <2>1. t \in FloatingType /\ Become([obj EXCEPT !.value = x], a, Held(op, t, exact, 1))
      BY <1>7 DEF Step
    <2>2. obj' = [obj EXCEPT !.value = x] /\ exact' = a /\ fits /\ Held(op, t, exact, 1)
      BY <2>1, Zenon DEF Become
    <2>3. op \in RingOp /\ a \in Int /\ Magnitude(a) <= Steps(t)
      BY <1>1, <2>1, <2>2, ExactIs DEF RingOp, Held, Holds, Steps
    <2>4. Stands(Number(1), 1) /\ ValueOf(t, Number(1)) /\ ValueOf(t, obj.value)
      BY <1>1, <2>1, NumberStands, OneTyped DEF Typed
    <2>5. [obj EXCEPT !.value = x].value = x
      BY <1>1 DEF Typed
    <2>6. Stands(x, a)
      BY <1>1, <1>2, <2>1, <2>2, <2>3, <2>4, ComputedStands
    <2> HIDE DEF x, a
    <2>7. Stands([obj EXCEPT !.value = x].value, a)
      BY <2>5, <2>6
    <2> QED
      BY <2>2, <2>3, <2>7, Zenon
  <1>8. ASSUME Negate
        PROVE  \E o, v : obj' = o /\ exact' = v /\ v \in Int /\ Stands(o.value, v)
    <2> DEFINE x == Opposite(obj.value)
    <2>1. obj.type \in FloatingType /\ Become([obj EXCEPT !.value = x], -exact, TRUE)
      BY <1>8 DEF Negate
    <2>2. obj' = [obj EXCEPT !.value = x] /\ exact' = -exact /\ fits
      BY <2>1, Zenon DEF Become
    <2>3. Stands(obj.value, exact) /\ IsFinite(obj.value)
      BY <1>2, <2>2 DEF Stands
    <2>4. obj.value = Finite(obj.value.sign, obj.value.units)
      BY <1>1, <2>3, ValueIs DEF Typed
    <2>5. Stands(x, -exact) /\ -exact \in Int
      BY <1>1, <2>3, <2>4, OppositeStands
    <2>6. [obj EXCEPT !.value = x].value = x
      BY <1>1 DEF Typed
    <2> HIDE DEF x
    <2>7. Stands([obj EXCEPT !.value = x].value, -exact)
      BY <2>5, <2>6
    <2> QED
      BY <2>2, <2>5, <2>7, Zenon
  <1>9. ASSUME NEW t \in Type \union FloatingType, Convert(t)
         PROVE  \E o, v : obj' = o /\ exact' = v /\ v \in Int /\ Stands(o.value, v)
    <2> DEFINE a == IF t = Bool THEN Cast(t, exact) ELSE exact
    <2>1. PICK x \in Converted(obj.type, t, obj.value) :
            Become([type |-> t, value |-> x], a, t = Bool \/ Holds(t, exact))
      BY <1>9, Zenon DEF Convert
    <2>2. obj' = [type |-> t, value |-> x] /\ exact' = a /\ fits /\ (t = Bool \/ Holds(t, exact))
      BY <2>1, Zenon DEF Become
    <2>3. a \in Int
      BY <1>1 DEF Cast
    <2>4. t \in AnyType
      BY DEF AnyType
    <2>5. Stands(x, a)
      BY <1>1, <1>2, <2>2, <2>4, ConvertStands DEF Typed
    <2> HIDE DEF a
    <2>6. Stands([type |-> t, value |-> x].value, a)
      BY <2>5
    <2> QED
      BY <2>2, <2>3, <2>6, Zenon
  <1> QED
    BY <1>5, <1>6, <1>7, <1>8, <1>9, Zenon DEF Next

\* Whole numbers survive any chain of operations and conversions on which each
\* type met on the way has a place for them, whatever the precisions are.
THEOREM WholeNumbers == Spec => []WholeNumbersSurvive
  <1>1. Init => WholeNumbersSurvive
    BY DEF Init, WholeNumbersSurvive
  <1>2. WholeNumbersSurvive /\ UNCHANGED vars => WholeNumbersSurvive'
    BY DEF WholeNumbersSurvive, vars
  <1> QED
    BY <1>1, <1>2, StepWhole, FloatTyping, PTL DEF Spec

-----------------------------------------------------------------------------
(* Comparisons.                                                            *)

\* A type meets another in one that is at least as large, and in Float64 unless
\* it is a floating-point type.
Meets(s, c) ==
  /\ s \in AnyType /\ c \in FloatingType
  /\ IF s \in FloatingType THEN s.size <= c.size ELSE c = Float64

LEMMA CommonMeets ==
  ASSUME NEW a \in AnyType, NEW b \in AnyType, OneFloat(a, b)
  PROVE  Meets(a, CommonFloat(a, b)) /\ Meets(b, CommonFloat(a, b))
  <1>1. Float32.size = 3 /\ Float64.size = 4 /\ FloatingType = {Float32, Float64}
    BY DEF Float32, Float64, FloatOf, FloatingType
  <1>2. \A t \in FloatingType : t.size \in {3, 4} /\ t.size <= 4
    BY <1>1
  <1>3. CASE a \in FloatingType /\ b \in FloatingType
    BY <1>1, <1>2, <1>3 DEF CommonFloat, Meets
  <1>4. CASE ~(a \in FloatingType /\ b \in FloatingType)
    BY <1>1, <1>2, <1>4 DEF CommonFloat, Meets, OneFloat
  <1> QED
    BY <1>3, <1>4

\* Whatever a Float32 is, a Float64 can be.
LEMMA GridsNest ==
  ASSUME NEW s \in FloatingType, NEW c \in FloatingType, s.size <= c.size,
         NEW n \in Nat, n <= Reach, RoundedUnits(s, n, 1) = n
  PROVE  OnGrid(c, n)
  <1>1. CASE s = c
    <2>1. OnGrid(s, RoundedUnits(s, n, 1))
      BY RoundedOnGrid
    <2> QED
      BY <1>1, <2>1
  <1>2. CASE s # c
    <2>1. s.size = 3 /\ c.size = 4
      <3>1. Float32.size = 3 /\ Float64.size = 4 /\ FloatingType = {Float32, Float64}
        BY DEF Float32, Float64, FloatOf, FloatingType
      <3> QED
        BY <1>2, <3>1
    <2>2. PICK i \in Exponent, k \in 0 .. Steps(s) : n = k * (Least(s) * Power[i])
      BY RoundedIs
    <2>3. PICK j \in Exponent : Least(s) = Least(c) * Power[j]
      BY <2>1, FloatAssumption DEF Least
    <2>4. Steps(s) <= Steps(c)
      <3>1. Precision[3] \in Nat /\ Precision[4] \in Nat /\ Precision[3] <= Precision[4]
        BY FloatAssumption DEF FloatSize, IntSize
      <3>2. Precision[s.size] \in Exponent /\ Precision[c.size] \in Exponent
        BY FormatIs
      <3> QED
        BY <2>1, <3>1, <3>2, PowerDivides DEF Steps
    <2>5. /\ k \in Nat /\ k <= Steps(c) /\ Least(c) \in Nat /\ Power[i] \in Nat /\ Power[j] \in Nat
      <3>1. Steps(s) \in Nat /\ Steps(c) \in Nat /\ Least(c) \in Nat
        BY FormatIs
      <3>2. k \in Nat /\ k <= Steps(s)
        BY <3>1
      <3> QED
        BY <2>4, <3>1, <3>2, PowerIs
    <2>6. (Least(c) * Power[j]) * Power[i] = Least(c) * (Power[j] * Power[i])
      BY <2>5
    <2>7. n = k * (Least(c) * (Power[j] * Power[i]))
      BY <2>2, <2>3, <2>6
    <2> QED
      BY Zenon, <2>5, <2>7 DEF OnGrid
  <1> QED
    BY <1>1, <1>2

\* What a conversion to the common type does to a finite value: it moves the
\* magnitude to the nearest point of the grid, which is in range, and moves only
\* that of an integer.
LEMMA FloatShape ==
  ASSUME NEW s \in AnyType, NEW c \in FloatingType, s \in FloatingType => s.size <= c.size,
         NEW x, ValueOf(s, x), IsFinite(x)
  PROVE  /\ Float(c, x) = Finite(x.sign, RoundedUnits(c, x.units, 1))
         /\ RoundedUnits(c, x.units, 1) \in Nat
         /\ RoundedUnits(c, x.units, 1) <= Largest[4]
         /\ s \in FloatingType => RoundedUnits(c, x.units, 1) = x.units
  <1> DEFINE n == x.units
             u == RoundedUnits(c, n, 1)
  <1>1. n \in Nat /\ n <= Largest[4] /\ n <= Reach /\ n * 1 = n
    BY ValueIs, RangesAre
  <1>2. u \in Nat
    BY <1>1, RoundedOnGrid
  <1>3. c.size \in FloatSize /\ Largest[c.size] \in Nat /\ Largest[c.size] <= Largest[4]
        /\ Modulus[4] * Unit <= Largest[c.size] /\ Largest[4] \in Nat
    BY FormatIs, RangesAre
  <1>4. u <= Largest[c.size] /\ (s \in FloatingType => u = n)
    <2>1. CASE s \in FloatingType
      <3>1. RoundedUnits(s, n, 1) = n /\ n <= Largest[s.size]
        <4>1. n \in 0 .. Largest[s.size] /\ RoundedUnits(s, n, 1) = n
          BY <2>1 DEF ValueOf, IsFinite, NaN, Infinity
        <4>2. Largest[s.size] \in Nat
          BY <2>1, FormatIs
        <4> QED
          BY <4>1, <4>2
      <3>2. OnGrid(c, n)
        BY <1>1, <2>1, <3>1, GridsNest
      <3>3. RoundedUnits(c, n * 1, 1) = n
        BY <1>1, <3>2, GridExact
      <3>4. Largest[s.size] <= Largest[c.size]
        <4>1. s.size \in {3, 4} /\ c.size \in {3, 4} /\ s.size <= c.size
          BY <2>1, FormatIs DEF FloatSize, IntSize
        <4>2. Largest[3] <= Largest[4] /\ Largest[3] \in Nat /\ Largest[4] \in Nat
          BY RangesAre DEF FloatSize, IntSize
        <4> QED
          BY <4>1, <4>2
      <3>5. Largest[s.size] \in Nat
        BY <2>1, FormatIs
      <3> QED
        BY <1>1, <1>3, <3>1, <3>3, <3>4, <3>5
    <2>2. CASE s \notin FloatingType
      <3>1. PICK v \in Values(s) : x = Number(v)
        BY <2>2 DEF ValueOf
      <3>2. v \in Int /\ Magnitude(v) \in Nat /\ Magnitude(v) <= Modulus[4] /\ n = Magnitude(v) * Unit
        BY <2>2, <3>1, TypesAre, ValuesAre DEF Number, Finite
      <3> DEFINE m == Modulus[4] * Unit
      <3>3. n <= m /\ m \in Nat
        BY <3>2, RangesAre, TimesMonotone
      <3>4. m <= Reach /\ OnGrid(c, m)
        <4>1. Modulus[4] = Power[Width[4]] /\ Width[4] \in Exponent
          BY ModulusIs DEF Size
        <4>2. m <= Largest[4]
          BY RangesAre DEF FloatSize
        <4> QED
          BY <3>3, <4>1, <4>2, RangesAre, WholeOnGrid
      <3> HIDE DEF m
      <3>5. u <= m
        BY <1>1, <3>3, <3>4, RoundedBelow
      <3> QED
        BY <1>2, <1>3, <2>2, <3>3, <3>5 DEF m
    <2> QED
      BY <2>1, <2>2
  <1>5. Float(c, x) = Finite(x.sign, u)
    BY <1>2, <1>3, <1>4, FormatIs DEF Float, Rounded
  <1> QED
    BY <1>1, <1>2, <1>3, <1>4, <1>5

\* An infinity is beyond every finite magnitude.
Extent(x) == IF IsFinite(x) THEN x.units ELSE Largest[4] + 1

LEMMA ExtentIs ==
  ASSUME NEW s, NEW c, Meets(s, c), NEW x, ValueOf(s, x), x # NaN
  PROVE  /\ x.sign \in {1, -1} /\ x.units \in Nat /\ x.units <= Largest[4]
         /\ Extent(x) \in Nat /\ Rank(x) = x.sign * Extent(x)
         /\ Float(c, x) # NaN /\ Float(c, x).class = x.class
         /\ Extent(Float(c, x)) = IF IsFinite(x) THEN RoundedUnits(c, x.units, 1) ELSE Largest[4] + 1
         /\ Extent(Float(c, x)) \in Nat /\ Rank(Float(c, x)) = x.sign * Extent(Float(c, x))
         /\ Float(c, x).sign = x.sign
         /\ IsFinite(x) => RoundedUnits(c, x.units, 1) \in Nat /\ RoundedUnits(c, x.units, 1) <= Largest[4]
  <1> DEFINE u == RoundedUnits(c, x.units, 1)
  <1>1. /\ s \in AnyType /\ c \in FloatingType /\ (s \in FloatingType => s.size <= c.size)
        /\ Largest[4] \in Nat
    BY RangesAre DEF Meets
  <1>2. x.sign \in {1, -1} /\ x.units \in Nat /\ x.units <= Largest[4]
    BY <1>1, ValueIs
  <1>3. CASE IsFinite(x)
    <2>1. Float(c, x) = Finite(x.sign, u) /\ u \in Nat /\ u <= Largest[4]
      BY <1>1, <1>3, FloatShape
    <2> HIDE DEF u
    <2>2. IsFinite(Float(c, x)) /\ Float(c, x).units = u /\ Float(c, x).sign = x.sign
          /\ Float(c, x) # NaN /\ Float(c, x).class = x.class
      BY <1>3, <2>1 DEF Finite, IsFinite, NaN
    <2> QED
      BY <1>2, <1>3, <2>1, <2>2 DEF Extent, Rank, Real, u
  <1>4. CASE ~IsFinite(x)
    <2>1. Float(c, x) = x
      BY <1>4 DEF Float
    <2> QED
      BY <1>1, <1>2, <1>4, <2>1 DEF Extent, Rank
  <1> QED
    BY <1>3, <1>4

LEMMA SignedOrder ==
  ASSUME NEW a \in {1, -1}, NEW b \in {1, -1}, NEW e \in Nat, NEW f \in Nat, NEW g \in Nat, NEW h \in Nat,
         e <= g => f <= h, g <= e => h <= f, e = 0 => f = 0, g = 0 => h = 0, a * e <= b * g
  PROVE  a * f <= b * h
  <1>1. CASE a = 1 /\ b = 1
    BY <1>1
  <1>2. CASE a = -1 /\ b = -1
    BY <1>2
  <1>3. CASE a = -1 /\ b = 1
    BY <1>3
  <1>4. CASE a = 1 /\ b = -1
    BY <1>4
  <1> QED
    BY <1>1, <1>2, <1>3, <1>4

\* Converting two values to the type they meet in never changes their order.
LEMMA RankMonotone ==
  ASSUME NEW s, NEW r, NEW c, Meets(s, c), Meets(r, c), NEW x, NEW y, ValueOf(s, x), ValueOf(r, y),
         x # NaN, y # NaN, Rank(x) <= Rank(y)
  PROVE  Rank(Float(c, x)) <= Rank(Float(c, y))
  <1> DEFINE e == Extent(x)
             f == Extent(Float(c, x))
             g == Extent(y)
             h == Extent(Float(c, y))
  <1>1. c \in FloatingType /\ Largest[4] \in Nat /\ Largest[4] <= Reach /\ Reach \in Nat
    BY RangesAre DEF Meets, FloatSize
  <1>2. /\ x.sign \in {1, -1} /\ e \in Nat /\ Rank(x) = x.sign * e
        /\ f \in Nat /\ Rank(Float(c, x)) = x.sign * f
        /\ x.units \in Nat /\ x.units <= Reach
        /\ IsFinite(x) => f = RoundedUnits(c, x.units, 1) /\ f <= Largest[4] /\ e <= Largest[4] /\ e = x.units
        /\ ~IsFinite(x) => e = Largest[4] + 1 /\ f = Largest[4] + 1
    BY <1>1, ExtentIs DEF Extent
  <1>3. /\ y.sign \in {1, -1} /\ g \in Nat /\ Rank(y) = y.sign * g
        /\ h \in Nat /\ Rank(Float(c, y)) = y.sign * h
        /\ y.units \in Nat /\ y.units <= Reach
        /\ IsFinite(y) => h = RoundedUnits(c, y.units, 1) /\ h <= Largest[4] /\ g <= Largest[4] /\ g = y.units
        /\ ~IsFinite(y) => g = Largest[4] + 1 /\ h = Largest[4] + 1
    BY <1>1, ExtentIs DEF Extent
  <1> HIDE DEF e, f, g, h
  <1>4. (e <= g => f <= h) /\ (g <= e => h <= f)
    <2>1. CASE IsFinite(x) /\ IsFinite(y)
      BY <1>1, <1>2, <1>3, <2>1, RoundedMonotone
    <2>2. CASE ~IsFinite(x) \/ ~IsFinite(y)
      BY <1>1, <1>2, <1>3, <2>2
    <2> QED
      BY <2>1, <2>2
  <1>5. (e = 0 => f = 0) /\ (g = 0 => h = 0)
    BY <1>1, <1>2, <1>3, ZeroRounds
  <1> QED
    BY <1>2, <1>3, <1>4, <1>5, SignedOrder

\* It moves only integers wider than the precision of a Float64.
LEMMA FloatKeeps ==
  ASSUME NEW s, NEW c, Meets(s, c), NEW x, ValueOf(s, x),
         s \in IntegerType => Width[s.size] <= Precision[4]
  PROVE  Float(c, x) = x
  <1>1. s \in AnyType /\ c \in FloatingType
    BY DEF Meets
  <1>2. CASE ~IsFinite(x)
    BY <1>2 DEF Float
  <1>3. CASE IsFinite(x) /\ s \in FloatingType
    <2>1. Float(c, x) = Finite(x.sign, x.units)
      BY <1>1, <1>3, FloatShape DEF Meets
    <2> QED
      BY <1>1, <1>3, <2>1, ValueIs
  <1>4. CASE s \notin FloatingType
    <2>1. c = Float64 /\ c.size = 4
      BY <1>4 DEF Meets, Float64, FloatOf
    <2>2. PICK v \in Values(s) : x = Number(v)
      BY <1>4 DEF ValueOf
    <2>3. s \in Type /\ v \in Int /\ Stands(x, v) /\ Magnitude(v) \in Nat
      BY <1>1, <1>4, <2>2, TypesAre, ValuesAre, NumberStands, MagnitudeIs
    <2>4. Magnitude(v) <= Steps(c)
      <3>1. Steps(c) \in Nat \ {0} /\ Steps(c) = Power[Precision[4]] /\ Precision[4] \in Exponent
        BY <1>1, <2>1, FormatIs DEF Steps
      <3>2. CASE s = Bool
        <4>1. Values(s) = 0 .. 1
          BY <3>2, TypesAre DEF Values, Lowest, Highest
        <4>2. v = 0 \/ v = 1
          BY <4>1
        <4> QED
          BY <3>1, <4>2 DEF Magnitude
      <3>3. CASE s \in IntegerType
        <4>1. s.size \in Size /\ Magnitude(v) <= Modulus[s.size]
          BY <2>3, <3>3, ValuesAre
        <4>2. Modulus[s.size] = Power[Width[s.size]] /\ Width[s.size] \in Exponent /\ Modulus[s.size] \in Nat
          BY <4>1, ModulusIs
        <4>3. Power[Width[s.size]] <= Power[Precision[4]]
          BY <3>1, <3>3, <4>2, PowerDivides
        <4> QED
          BY <2>3, <3>1, <4>1, <4>2, <4>3
      <3> QED
        BY <2>3, <3>2, <3>3, TypesAre
    <2> QED
      BY <1>1, <2>3, <2>4, FloatStands
  <1> QED
    BY <1>2, <1>3, <1>4

\* Two values of a floating-point type are equal when neither is below the other.
LEMMA EqualIsRank ==
  ASSUME NEW c \in FloatingType, NEW x, NEW y, ValueOf(c, x), ValueOf(c, y), x # NaN, y # NaN
  PROVE  /\ Rank(x) \in Int
         /\ (x.class = y.class /\ Real(x) = Real(y) /\ (IsFinite(x) \/ x.sign = y.sign)) <=> Rank(x) = Rank(y)
  <1>0. c \in AnyType /\ Largest[4] \in Nat
    BY RangesAre DEF AnyType
  <1>1. /\ x.sign \in {1, -1} /\ x.units \in Nat /\ x.units <= Largest[4]
        /\ y.sign \in {1, -1} /\ y.units \in Nat /\ y.units <= Largest[4]
        /\ ~IsFinite(x) => x = Infinity(x.sign)
        /\ ~IsFinite(y) => y = Infinity(y.sign)
    BY <1>0, ValueIs
  <1>2. CASE IsFinite(x) /\ IsFinite(y)
    BY <1>1, <1>2 DEF Rank, Real, IsFinite
  <1>3. CASE ~IsFinite(x) /\ ~IsFinite(y)
    <2>1. x.class = "infinite" /\ y.class = "infinite" /\ x.units = 0 /\ y.units = 0
      BY <1>1, <1>3 DEF Infinity
    <2>2. Real(x) = 0 /\ Real(y) = 0 /\ Rank(x) = x.sign * (Largest[4] + 1) /\ Rank(y) = y.sign * (Largest[4] + 1)
      BY <1>1, <1>3, <2>1 DEF Real, Rank
    <2>3. Rank(x) \in Int /\ (Rank(x) = Rank(y) <=> x.sign = y.sign)
      BY <1>0, <1>1, <2>2
    <2> QED
      BY <1>3, <2>1, <2>2, <2>3
  <1>4. CASE IsFinite(x) /\ ~IsFinite(y)
    <2>1. x.class = "finite" /\ y.class = "infinite"
      BY <1>1, <1>4 DEF Infinity, IsFinite
    <2>2. Rank(x) = x.sign * x.units /\ Rank(y) = y.sign * (Largest[4] + 1)
      BY <1>4 DEF Real, Rank
    <2>3. Rank(x) \in Int /\ Rank(x) # Rank(y)
      BY <1>0, <1>1, <2>2
    <2> QED
      BY <2>1, <2>3
  <1>5. CASE ~IsFinite(x) /\ IsFinite(y)
    <2>1. y.class = "finite" /\ x.class = "infinite"
      BY <1>1, <1>5 DEF Infinity, IsFinite
    <2>2. Rank(y) = y.sign * y.units /\ Rank(x) = x.sign * (Largest[4] + 1)
      BY <1>5 DEF Real, Rank
    <2>3. Rank(x) \in Int /\ Rank(x) # Rank(y)
      BY <1>0, <1>1, <2>2
    <2> QED
      BY <2>1, <2>3
  <1> QED
    BY <1>2, <1>3, <1>4, <1>5

\* How two objects compare, one of them of a floating-point type.
LEMMA Compares ==
  ASSUME NEW l, NEW r, Typed(l), Typed(r), OneFloat(l.type, r.type)
  PROVE  LET wide == \E o \in {l, r} : o.type \in IntegerType /\ Width[o.type.size] > Precision[4]
         IN IF NaN \in {l.value, r.value}
              THEN ~FloatLess(l, r) /\ ~FloatLess(r, l) /\ ~FloatEqual(l, r)
              ELSE /\ FloatLess(l, r) => Rank(l.value) < Rank(r.value)
                   /\ FloatLess(r, l) => Rank(r.value) < Rank(l.value)
                   /\ FloatEqual(l, r) <=> ~FloatLess(l, r) /\ ~FloatLess(r, l)
                   /\ ~wide => (FloatEqual(l, r) <=> Rank(l.value) = Rank(r.value))
  <1> DEFINE c == CommonFloat(l.type, r.type)
             a == l.value
             b == r.value
             x == Float(c, a)
             y == Float(c, b)
             wide == \E o \in {l, r} : o.type \in IntegerType /\ Width[o.type.size] > Precision[4]
             equal == x.class = y.class /\ Real(x) = Real(y) /\ (IsFinite(x) \/ x.sign = y.sign)
  <1>1. /\ l.type \in AnyType /\ r.type \in AnyType /\ ValueOf(l.type, a) /\ ValueOf(r.type, b)
        /\ Meets(l.type, c) /\ Meets(r.type, c) /\ c \in FloatingType
        /\ CommonFloat(r.type, l.type) = c
    BY CommonMeets, CommonFloatIs DEF Typed, Meets
  <1>2. /\ FloatLess(l, r) <=> x # NaN /\ y # NaN /\ Rank(x) < Rank(y)
        /\ FloatLess(r, l) <=> x # NaN /\ y # NaN /\ Rank(y) < Rank(x)
        /\ FloatEqual(l, r) <=> x # NaN /\ y # NaN /\ equal
    BY <1>1 DEF FloatLess, FloatEqual
  <1>3. ValueOf(c, x) /\ ValueOf(c, y)
    BY <1>1, FloatTyped
  <1>4. CASE NaN \in {a, b}
    <2>1. NaN \in {x, y}
      BY <1>4 DEF Float, NaN, IsFinite
    <2> QED
      BY <1>2, <1>4, <2>1
  <1>5. CASE NaN \notin {a, b}
    <2>1. x # NaN /\ y # NaN
      BY <1>1, <1>5, ExtentIs
    <2>2. (Rank(a) <= Rank(b) => Rank(x) <= Rank(y)) /\ (Rank(b) <= Rank(a) => Rank(y) <= Rank(x))
      BY <1>1, <1>5, RankMonotone
    <2>3. Rank(a) \in Int /\ Rank(b) \in Int
      <3>1. /\ a.sign \in {1, -1} /\ Extent(a) \in Nat /\ Rank(a) = a.sign * Extent(a)
            /\ b.sign \in {1, -1} /\ Extent(b) \in Nat /\ Rank(b) = b.sign * Extent(b)
        BY <1>1, <1>5, ExtentIs
      <3> QED
        BY <3>1
    <2>4. Rank(x) \in Int /\ Rank(y) \in Int /\ (equal <=> Rank(x) = Rank(y))
      BY <1>1, <1>3, <2>1, EqualIsRank
    <2>5. ~wide => x = a /\ y = b
      <3> SUFFICES ASSUME ~wide PROVE x = a /\ y = b
        OBVIOUS
      <3>1. ASSUME NEW o \in {l, r}, o.type \in IntegerType PROVE Width[o.type.size] <= Precision[4]
        <4>1. o.type.size \in Size
          BY <3>1, TypesAre, ValuesAre
        <4>2. Width[o.type.size] \in Nat /\ Precision[4] \in Nat
          BY <4>1, SizesAre, FloatAssumption DEF FloatSize
        <4> QED
          BY <3>1, <4>2
      <3>2. /\ l.type \in IntegerType => Width[l.type.size] <= Precision[4]
            /\ r.type \in IntegerType => Width[r.type.size] <= Precision[4]
        BY <3>1
      <3> HIDE DEF c
      <3> QED
        BY <1>1, <3>2, FloatKeeps
    <2> HIDE DEF x, y, equal, wide
    <2>6. FloatLess(l, r) => Rank(a) < Rank(b)
      BY <1>2, <2>2, <2>3, <2>4
    <2>7. FloatLess(r, l) => Rank(b) < Rank(a)
      BY <1>2, <2>2, <2>3, <2>4
    <2>8. FloatEqual(l, r) <=> ~FloatLess(l, r) /\ ~FloatLess(r, l)
      BY <1>2, <2>1, <2>4
    <2>9. ~wide => (FloatEqual(l, r) <=> Rank(a) = Rank(b))
      BY <1>2, <2>1, <2>4, <2>5
    <2> QED
      BY <1>5, <2>6, <2>7, <2>8, <2>9 DEF wide
  <1> QED
    BY <1>4, <1>5

\* The order of two numbers one of which is a Float32 or a Float64 is never
\* reversed by comparing them, only a NaN is unordered, and a tie of different
\* values takes an integer wider than the precision of a Float64.
THEOREM FloatComparisons == Spec => []ComparisonsFollowValues
  <1>1. TypeOK => ComparisonsFollowValues
    <2> SUFFICES ASSUME TypeOK PROVE ComparisonsFollowValues
      OBVIOUS
    <2>1. Typed(obj) /\ \A r \in Operands : Typed(r)
      BY TypeOKIs, OperandTyped
    <2> QED
      BY <2>1, Compares DEF ComparisonsFollowValues
  <1> QED
    BY <1>1, FloatTyping, PTL

-----------------------------------------------------------------------------
(* From an integer to a floating-point number and back.                    *)

\* A number below 2^w is moved by at most half of the last bit that a significand
\* of p bits keeps of it, which counts 2^(w - p).
LEMMA RoundedNear ==
  ASSUME NEW t \in FloatingType, NEW w \in Exponent, NEW d \in Nat, Precision[t.size] + d = w,
         NEW m \in Nat, m < Power[w], m * Unit <= Reach
  PROVE  /\ d \in Exponent
         /\ 2 * RoundedUnits(t, m * Unit, 1) <= 2 * (m * Unit) + Unit * Power[d]
         /\ 2 * (m * Unit) <= 2 * RoundedUnits(t, m * Unit, 1) + Unit * Power[d]
  <1> DEFINE L == Least(t)
             p == Steps(t)
             n == m * Unit
             u == RoundedUnits(t, n, 1)
             D == Power[d]
  <1>1. PICK j \in Exponent : Unit = L * Power[j]
    BY FormatIs, FloatAssumption DEF Least
  <1>2. /\ L \in Nat \ {0} /\ p \in Nat \ {0} /\ Unit \in Nat \ {0} /\ n \in Nat /\ n <= Reach
        /\ p = Power[Precision[t.size]] /\ Power[j] \in Nat \ {0} /\ Power[w] \in Nat \ {0}
    BY FormatIs, RangesAre, PowerIs DEF Steps
  <1>3. d \in Exponent /\ D \in Nat \ {0} /\ Power[w] = p * D
    <2>1. Precision[t.size] \in Nat /\ Precision[t.size] + d <= MaxExponent /\ w \in Nat /\ MaxExponent \in Nat
      BY FormatIs, SizesAre DEF Exponent
    <2>2. Power[Precision[t.size] + d] = Power[Precision[t.size]] * Power[d]
      BY <2>1, PowerSum
    <2>3. d \in Exponent
      BY <2>1 DEF Exponent
    <2> QED
      BY <1>2, <2>2, <2>3, PowerIs
  <1>4. PICK i \in Exponent, k \in 0 .. p :
           /\ u = k * (L * Power[i])
           /\ k = Nearest(n, (L * Power[i]) * 1)
           /\ L * Power[i] \in Nat \ {0}
           /\ i > 0 => n >= (p * (L * Power[i - 1])) * 1
    <2>1. 1 \in Nat /\ 1 > 0 /\ n \in Nat /\ n <= Reach
      BY <1>2
    <2> HIDE DEF n
    <2>2. \E i \in Exponent, k \in 0 .. Steps(t) :
            /\ RoundedUnits(t, n, 1) = k * (Least(t) * Power[i])
            /\ k = Nearest(n, (Least(t) * Power[i]) * 1)
            /\ Least(t) * Power[i] \in Nat \ {0}
            /\ i > 0 => n >= (Steps(t) * (Least(t) * Power[i - 1])) * 1
      BY <2>1, RoundedIs
    <2> QED
      BY <2>2
  <1> DEFINE s == L * Power[i]
             e == Unit * D
  <1>5. s \in Nat /\ s > 0 /\ s * 1 = s /\ u = k * s /\ k = Nearest(n, s)
    BY <1>4
  <1>6. s <= e
    <2>1. L <= Unit /\ Unit <= e /\ e \in Nat
      <3>1. L * (Power[j] - 1) >= 0 /\ L * (Power[j] - 1) = L * Power[j] - L
        BY <1>2
      <3>2. Unit * (D - 1) >= 0 /\ Unit * (D - 1) = Unit * D - Unit
        BY <1>2, <1>3
      <3>3. L * Power[j] \in Nat /\ Unit * D \in Nat
        BY <1>2, <1>3
      <3> QED
        BY <1>1, <1>2, <3>1, <3>2, <3>3
    <2>2. CASE i = 0
      <3>1. Power[i] = 1 /\ s = L
        BY <1>2, <2>2, PowerAssumption
      <3> QED
        BY <1>2, <2>1, <3>1
    <2>3. CASE i # 0
      <3>1. i > 0 /\ i - 1 \in Exponent /\ i - 1 \in Nat /\ (i - 1) + 1 = i /\ (i - 1) + 1 <= MaxExponent
        BY <2>3, SizesAre DEF Exponent
      <3> DEFINE h == Power[i - 1]
                 g == D * Power[j]
      <3>2. h \in Nat \ {0} /\ Power[(i - 1) + 1] = 2 * Power[i - 1] /\ Power[i] = 2 * h
        BY <3>1, PowerNext, PowerIs
      <3>3. g \in Nat \ {0} /\ e = L * g
        <4>1. (L * Power[j]) * D = L * (D * Power[j])
          BY <1>2, <1>3
        <4>2. \A x, y \in Nat \ {0} : x * y \in Nat \ {0}
          OBVIOUS
        <4> QED
          BY <1>1, <1>2, <1>3, <4>1, <4>2
      <3>4. n >= p * (L * h)
        <4>1. (p * (L * h)) * 1 = p * (L * h)
          BY <1>2, <3>2
        <4> QED
          BY <1>4, <3>1, <4>1
      <3>5. n < p * (L * g)
        <4>1. m + 1 <= p * D /\ p * D \in Nat
          BY <1>2, <1>3
        <4>2. (m + 1) * Unit <= (p * D) * Unit /\ (m + 1) * Unit = n + Unit
          BY <1>2, <4>1, TimesMonotone
        <4>3. (p * D) * (L * Power[j]) = p * (L * (D * Power[j]))
          BY <1>2, <1>3
        <4>4. (p * D) * Unit = p * (L * g)
          BY <1>1, <4>3
        <4>5. p * (L * g) \in Nat
          BY <1>2, <3>3
        <4> QED
          BY <1>2, <4>2, <4>4, <4>5
      <3>6. h <= g => \E q \in Nat \ {0} : g = q * h
        BY <1>3, <3>1, PowerDividesProduct
      <3> HIDE DEF h, g, L, p, n
      <3>7. h < g
        <4>1. SUFFICES ASSUME g <= h PROVE FALSE
          BY <3>2, <3>3
        <4>2. g * (L * p) <= h * (L * p)
          BY <1>2, <3>2, <3>3, <4>1, TimesMonotone
        <4>3. g * (L * p) = p * (L * g) /\ h * (L * p) = p * (L * h)
          BY <1>2, <3>2, <3>3
        <4>4. p * (L * g) \in Nat /\ p * (L * h) \in Nat
          BY <1>2, <3>2, <3>3
        <4> QED
          BY <1>2, <3>4, <3>5, <4>2, <4>3, <4>4
      <3>8. PICK q \in Nat \ {0} : g = q * h
        BY <3>2, <3>3, <3>6, <3>7
      <3>9. q >= 2
        BY <3>2, <3>3, <3>7, <3>8
      <3>10. 2 * h <= g
        BY <3>2, <3>8, <3>9, TimesMonotone
      <3>11. (2 * h) * L <= g * L /\ (2 * h) * L = L * (2 * h) /\ g * L = L * g
        BY <1>2, <3>2, <3>3, <3>10, TimesMonotone
      <3> QED
        BY <1>5, <2>1, <3>2, <3>3, <3>11
    <2> QED
      BY <2>2, <2>3
  <1>7. 2 * u <= 2 * n + s /\ 2 * n <= 2 * u + s
    <2> HIDE DEF s, u, n
    <2>1. /\ k \in Nat /\ 2 * (Nearest(n, s) * s) <= 2 * n + s
          /\ 2 * n <= 2 * (Nearest(n, s) * s) + s
      BY <1>2, <1>5, NearestIs
    <2> QED
      BY <1>5, <2>1
  <1>8. u \in Nat /\ e \in Nat
    BY <1>2, <1>3, RoundedOnGrid
  <1> HIDE DEF s, u, n, e
  <1>9. 2 * u <= 2 * n + e /\ 2 * n <= 2 * u + e
    BY <1>2, <1>5, <1>6, <1>7, <1>8
  <1> QED
    BY <1>3, <1>9 DEF u, n, e

\* Truncating it moves it no further.
LEMMA TruncatedNear ==
  ASSUME NEW U \in Nat \ {0}, NEW d \in Nat, NEW m \in Nat, NEW u \in Nat,
         2 * u <= 2 * (m * U) + U * (2 * d), 2 * (m * U) <= 2 * u + U * (2 * d),
         NEW q, q = u \div U
  PROVE  q \in Nat /\ q - m <= d /\ m - q <= d
  <1>1. u \div U \in Int /\ u % U \in Int /\ 0 <= u % U /\ u % U < U /\ u = U * (u \div U) + (u % U)
        /\ u \div U >= 0
    BY DivMod, QuotientBelow
  <1> DEFINE r == u % U
  <1>2. q \in Nat /\ r \in Nat /\ r < U /\ u = U * q + r
    BY <1>1
  <1> HIDE DEF r
  <1>3. q - m <= d
    <2>1. SUFFICES ASSUME m + d + 1 <= q PROVE FALSE
      BY <1>2
    <2>2. (m + d + 1) * U <= q * U
      BY <1>2, <2>1, TimesMonotone
    <2>3. (m + d + 1) * U = m * U + d * U + U /\ q * U = U * q /\ U * (2 * d) = 2 * (d * U)
      BY <1>2
    <2>4. m * U \in Nat /\ d * U \in Nat /\ q * U \in Nat
      BY <1>2
    <2> QED
      BY <1>2, <2>2, <2>3, <2>4
  <1>4. m - q <= d
    <2>1. SUFFICES ASSUME q + d + 1 <= m PROVE FALSE
      BY <1>2
    <2>2. (q + d + 1) * U <= m * U
      BY <1>2, <2>1, TimesMonotone
    <2>3. (q + d + 1) * U = q * U + d * U + U /\ q * U = U * q /\ U * (2 * d) = 2 * (d * U)
      BY <1>2
    <2>4. m * U \in Nat /\ d * U \in Nat /\ q * U \in Nat
      BY <1>2
    <2> QED
      BY <1>2, <2>2, <2>3, <2>4
  <1> QED
    BY <1>2, <1>3, <1>4

\* The values of an integer type of w bits, h being 2^(w - 1).
LEMMA IntegerRange ==
  ASSUME NEW t \in IntegerType, NEW v \in Values(t), NEW h, h = Power[Width[t.size] - 1]
  PROVE  /\ t \in Type /\ t # Bool /\ t.size \in Size /\ t \notin FloatingType
         /\ v \in Int /\ h \in Nat \ {0} /\ Power[Width[t.size]] = 2 * h
         /\ Values(t) = Lowest(t) .. Highest(t)
         /\ \/ Lowest(t) = -h /\ Highest(t) = h - 1
            \/ Lowest(t) = 0 /\ Highest(t) = 2 * h - 1
         /\ Magnitude(v) \in Nat /\ Magnitude(v) < Power[Width[t.size]]
         /\ Magnitude(v) <= Modulus[4]
  <1>1. t \in Type /\ t \notin FloatingType
    BY TypesAre
  <1>2. /\ t # Bool /\ t.size \in Size
        /\ Lowest(t) = IF t.signed THEN -h ELSE 0
        /\ Highest(t) = Lowest(t) + Modulus[t.size] - 1
        /\ Values(t) = Lowest(t) .. Highest(t)
    BY <1>1, ValuesAre, Zenon
  <1>3. h \in Nat \ {0} /\ Modulus[t.size] = 2 * h /\ Power[Width[t.size]] = 2 * h
    BY <1>2, ModulusIs
  <1>4. \/ Lowest(t) = -h /\ Highest(t) = h - 1
        \/ Lowest(t) = 0 /\ Highest(t) = 2 * h - 1
    <2>1. CASE t.signed
      <3>1. Lowest(t) = -h
        BY <1>2, <2>1
      <3> QED
        BY <1>2, <1>3, <3>1
    <2>2. CASE ~t.signed
      <3>1. Lowest(t) = 0
        BY <1>2, <2>2
      <3> QED
        BY <1>2, <1>3, <3>1
    <2> QED
      BY <2>1, <2>2
  <1>5. v \in Int /\ Lowest(t) <= v /\ v <= Highest(t)
    BY <1>2, <1>3, <1>4
  <1>6. Magnitude(v) \in Nat /\ Magnitude(v) < 2 * h
    BY <1>3, <1>4, <1>5 DEF Magnitude
  <1>7. Magnitude(v) <= Modulus[4]
    BY <1>1, ValuesAre
  <1> QED
    BY <1>1, <1>2, <1>3, <1>4, <1>5, <1>6, <1>7

\* An integer of the type made a number of type f: its sign and its magnitude.
LEMMA IntegerAsFloat ==
  ASSUME NEW t \in IntegerType, NEW f \in FloatingType, NEW v \in Values(t),
         NEW m, m = Magnitude(v), NEW u, u = RoundedUnits(f, m * Unit, 1),
         NEW s, s = IF v < 0 THEN -1 ELSE 1
  PROVE  /\ Float(f, Number(v)) = Finite(s, u)
         /\ IsFinite(Finite(s, u)) /\ Truncated(Finite(s, u)) = s * (u \div Unit)
         /\ u \in Nat /\ u \div Unit \in Nat /\ m * Unit <= Reach
  <1>1. t \in Type /\ t \in AnyType /\ t \notin FloatingType /\ v \in Int
    BY TypesAre, IntegerRange DEF AnyType
  <1>2. ValueOf(t, Number(v)) /\ Number(v) = Finite(s, m * Unit)
    BY <1>1, NumberTyped DEF Number
  <1>3. IsFinite(Number(v)) /\ Number(v).units = m * Unit /\ Number(v).sign = s
    BY <1>2 DEF Finite, IsFinite
  <1>4. Float(f, Number(v)) = Finite(s, u) /\ u \in Nat
    BY <1>1, <1>2, <1>3, FloatShape
  <1>5. Unit \in Nat \ {0}
    BY RangesAre
  <1>6. u \div Unit \in Nat
    BY <1>4, <1>5, QuotientBelow
  <1>7. m * Unit <= Reach
    <2>1. m \in Nat /\ m <= Modulus[4]
      BY IntegerRange
    <2>2. m * Unit <= Modulus[4] * Unit
      BY <2>1, RangesAre, TimesMonotone
    <2>3. Largest[4] \in Nat /\ Modulus[4] * Unit <= Largest[4] /\ Largest[4] <= Reach
      BY RangesAre DEF FloatSize
    <2> QED
      BY <1>5, <2>1, <2>2, <2>3, RangesAre
  <1> QED
    BY <1>4, <1>6, <1>7 DEF IsFinite, Finite, Truncated

\* A signed type has the opposite of the power of two that it has not itself:
\* what is below zero is never rounded out of the type.
LEMMA NegativeStays ==
  ASSUME NEW t \in IntegerType, NEW f \in FloatingType, NEW v \in Values(t), v < 0
  PROVE  Truncated(Float(f, Number(v))) \in Values(t)
  <1> DEFINE m == Magnitude(v)
             n == m * Unit
             u == RoundedUnits(f, n, 1)
             q == u \div Unit
             h == Power[Width[t.size] - 1]
  <1>1. v \in Int /\ h \in Nat \ {0} /\ Lowest(t) = -h /\ Highest(t) = h - 1
        /\ Values(t) = Lowest(t) .. Highest(t)
    <2>1. /\ v \in Int /\ h \in Nat \ {0} /\ Values(t) = Lowest(t) .. Highest(t)
          /\ \/ Lowest(t) = -h /\ Highest(t) = h - 1
             \/ Lowest(t) = 0 /\ Highest(t) = 2 * h - 1
      BY IntegerRange
    <2> QED
      BY <2>1
  <1>2. m \in Nat /\ m <= h
    BY <1>1 DEF Magnitude
  <1>3. Truncated(Float(f, Number(v))) = (-1) * q /\ q \in Nat /\ u \in Nat
    BY IntegerAsFloat
  <1>4. u <= h * Unit
    <2>1. n <= h * Unit /\ n \in Nat /\ h * Unit \in Nat /\ Unit \in Nat \ {0}
      <3>1. Unit \in Nat \ {0} /\ h \in Nat /\ n = m * Unit
        BY <1>1, RangesAre
      <3> HIDE DEF h, m, n
      <3>2. m * Unit <= h * Unit
        BY <1>2, <3>1, TimesMonotone
      <3>3. m * Unit \in Nat /\ h * Unit \in Nat
        BY <1>2, <3>1
      <3> QED
        BY <3>1, <3>2, <3>3
    <2>2. OnGrid(f, h * Unit)
      <3>1. Width[t.size] - 1 \in Exponent
        BY IntegerRange, ModulusIs
      <3> QED
        BY <3>1, WholeOnGrid
    <2>3. h * Unit <= Reach
      <3>1. -h \in Values(t)
        BY <1>1
      <3>2. Magnitude(-h) * Unit <= Reach
        BY <3>1, IntegerAsFloat
      <3> QED
        BY <1>1, <3>2 DEF Magnitude
    <2> HIDE DEF n, h
    <2> QED
      BY <2>1, <2>2, <2>3, RoundedBelow
  <1>5. q <= h
    <2> HIDE DEF n, h, u
    <2>1. u = Unit * q + (u % Unit) /\ u % Unit \in Nat /\ Unit \in Nat \ {0}
      BY <1>3, RangesAre, DivMod
    <2> HIDE DEF q
    <2>2. SUFFICES ASSUME h + 1 <= q PROVE FALSE
      BY <1>1, <1>3
    <2>3. (h + 1) * Unit <= q * Unit
      BY <1>1, <1>3, <2>1, <2>2, TimesMonotone
    <2>4. (h + 1) * Unit = h * Unit + Unit /\ q * Unit = Unit * q
      BY <1>1, <1>3, <2>1
    <2>5. h * Unit \in Nat /\ q * Unit \in Nat
      BY <1>1, <1>3, <2>1
    <2> QED
      BY <1>3, <1>4, <2>1, <2>3, <2>4, <2>5
  <1> HIDE DEF q, h
  <1> QED
    BY <1>1, <1>3, <1>5

\* The round trip of an integer v of type t over type f.
LEMMA RoundTrip ==
  ASSUME NEW t \in IntegerType, NEW f \in FloatingType, NEW v \in Values(t),
         NEW there, there = Float(f, Number(v)),
         NEW lost, lost = Width[t.size] - Precision[f.size]
  PROVE  IF ConvertDefined(f, t, there)
           THEN \A back \in Converted(f, t, there) :
                  IF lost <= 0 THEN back = Number(v)
                  ELSE 2 * Magnitude(Truncated(back) - v) <= Power[lost]
           ELSE lost > 0 /\ 2 * (Highest(t) + 1 - v) <= Power[lost]
  <1> DEFINE w == Width[t.size]
             p == Precision[f.size]
             m == Magnitude(v)
  <1>1. /\ t \in Type /\ t # Bool /\ t \notin FloatingType /\ t \in AnyType /\ t.size \in Size
        /\ v \in Int /\ m \in Nat /\ m < Power[w]
    BY IntegerRange DEF AnyType
  <1>2. w \in Nat \ {0} /\ w \in Exponent /\ p \in Nat /\ p \in Exponent /\ lost \in Int
    BY <1>1, ModulusIs, FormatIs DEF Exponent
  <1>3. CASE lost <= 0
    <2>1. Power[w] <= Steps(f) /\ Power[w] \in Nat /\ Steps(f) \in Nat
      BY <1>2, <1>3, PowerDivides, PowerIs DEF Steps
    <2>2. Stands(there, v)
      <3>1. ValueOf(t, Number(v)) /\ Stands(Number(v), v)
        BY <1>1, NumberTyped, NumberStands
      <3>2. Magnitude(v) <= Steps(f)
        BY <1>1, <2>1
      <3> QED
        BY <1>1, <3>1, <3>2, FloatStands
    <2>3. ConvertDefined(f, t, there) /\ Converted(f, t, there) = {Number(v)}
      BY <2>2, ConvertedHolds
    <2> QED
      BY <1>3, <2>3
  <1>4. CASE lost > 0
    <2> DEFINE u == RoundedUnits(f, m * Unit, 1)
               q == u \div Unit
               s == IF v < 0 THEN -1 ELSE 1
               D == Power[lost - 1]
               T == Truncated(there)
    <2>1. /\ there = Finite(s, u) /\ IsFinite(there) /\ T = s * q
          /\ u \in Nat /\ q \in Nat /\ m * Unit <= Reach
      BY IntegerAsFloat
    <2>2. s \in {1, -1} /\ v = s * m /\ (v >= 0 => s = 1)
      BY <1>1 DEF Magnitude
    <2>3. /\ lost \in Exponent
          /\ 2 * u <= 2 * (m * Unit) + Unit * Power[lost]
          /\ 2 * (m * Unit) <= 2 * u + Unit * Power[lost]
      <3>1. lost \in Nat /\ p + lost = w
        BY <1>2, <1>4
      <3> QED
        BY <1>1, <1>2, <2>1, <3>1, RoundedNear
    <2>4. D \in Nat \ {0} /\ Power[lost] = 2 * D
      <3>1. lost - 1 \in Exponent /\ lost - 1 \in Nat /\ (lost - 1) + 1 = lost /\ (lost - 1) + 1 <= MaxExponent
        BY <1>2, <1>4, <2>3, SizesAre DEF Exponent
      <3>2. Power[(lost - 1) + 1] = 2 * Power[lost - 1]
        BY <3>1, PowerNext
      <3> QED
        BY <3>1, <3>2, PowerIs
    <2>5. q - m <= D /\ m - q <= D
      <3>1. Unit \in Nat \ {0}
        BY RangesAre
      <3> HIDE DEF u, m, D
      <3> QED
        BY <1>1, <2>1, <2>3, <2>4, <3>1, TruncatedNear
    <2>6. CASE ConvertDefined(f, t, there)
      <3>1. T \in Values(t) /\ Cast(t, T) = T /\ T \in Int
        <4>1. T \in Values(t)
          BY <2>6 DEF ConvertDefined
        <4> QED
          BY <1>1, <4>1, ValuesAre, CastIs
      <3>2. Converted(f, t, there) = {Number(T)}
        BY <1>1, <2>6, <3>1 DEF Converted
      <3>3. Truncated(Number(T)) = T
        BY <3>1, NumberStands, StandsWhole
      <3>4. 2 * Magnitude(T - v) <= Power[lost]
        <4>1. T - v = s * (q - m)
          BY <1>1, <2>1, <2>2
        <4> HIDE DEF T, s, q, D, m
        <4> QED
          BY <1>1, <2>1, <2>2, <2>4, <2>5, <4>1 DEF Magnitude
      <3> HIDE DEF T
      <3> QED
        BY <1>2, <1>4, <2>6, <3>2, <3>3, <3>4
    <2>7. CASE ~ConvertDefined(f, t, there)
      <3>1. T \notin Values(t)
        BY <2>1, <2>7 DEF ConvertDefined
      <3>2. v >= 0
        BY <1>1, <3>1, NegativeStays
      <3>3. T = q /\ v = m
        BY <1>1, <2>1, <2>2, <3>2
      <3>4. Lowest(t) \in Int /\ Lowest(t) <= 0 /\ Highest(t) \in Int /\ Values(t) = Lowest(t) .. Highest(t)
        <4> DEFINE h == Power[Width[t.size] - 1]
        <4>1. /\ h \in Nat \ {0} /\ Values(t) = Lowest(t) .. Highest(t)
              /\ \/ Lowest(t) = -h /\ Highest(t) = h - 1
                 \/ Lowest(t) = 0 /\ Highest(t) = 2 * h - 1
          BY IntegerRange
        <4> HIDE DEF h
        <4> QED
          BY <4>1
      <3>5. q \in Nat /\ q \notin Values(t)
        BY <2>1, <3>1, <3>3
      <3> HIDE DEF T, q, D, m
      <3>6. Highest(t) + 1 <= q
        BY <3>4, <3>5
      <3>7. 2 * (Highest(t) + 1 - v) <= Power[lost]
        <4> DEFINE hi == Highest(t)
        <4>1. hi \in Int /\ hi + 1 <= q /\ q - v <= D /\ q \in Nat /\ v \in Int /\ D \in Nat
          BY <1>1, <2>4, <2>5, <3>3, <3>4, <3>5, <3>6
        <4> HIDE DEF hi
        <4>2. 2 * (hi + 1 - v) <= 2 * D
          BY <4>1
        <4> QED
          BY <2>4, <4>2 DEF hi
      <3> QED
        BY <1>4, <2>7, <3>7
    <2> QED
      BY <2>6, <2>7
  <1> QED
    BY <1>2, <1>3, <1>4

\* An integer made a floating-point number and back is itself if the precision
\* is no less than its width; otherwise it has moved by at most half of the last
\* bit that was kept, or the way back is undefined, which takes a value that
\* close to the upper end of the type.
THEOREM FloatRoundTrips == Spec => []RoundTrips
  <1>1. TypeOK => RoundTrips
    <2> SUFFICES ASSUME TypeOK, NEW f \in FloatingType, obj.type \in IntegerType
                 PROVE  LET t == obj.type
                            there == Float(f, obj.value)
                            lost == Width[t.size] - Precision[f.size]
                        IN IF ConvertDefined(f, t, there)
                             THEN \A back \in Converted(f, t, there) :
                                    IF lost <= 0 THEN back = obj.value
                                    ELSE 2 * Magnitude(Truncated(back) - Truncated(obj.value)) <= Power[lost]
                             ELSE lost > 0 /\ 2 * (Highest(t) + 1 - Truncated(obj.value)) <= Power[lost]
      BY DEF RoundTrips
    <2>1. obj.type \notin FloatingType /\ ValueOf(obj.type, obj.value)
      BY TypesAre, TypeOKIs DEF Typed
    <2>2. PICK v \in Values(obj.type) : obj.value = Number(v)
      BY <2>1 DEF ValueOf
    <2>3. Truncated(obj.value) = v
      BY <2>2, IntegerRange, NumberStands, StandsWhole
    <2> QED
      BY <2>2, <2>3, RoundTrip
  <1> QED
    BY <1>1, FloatTyping, PTL

-----------------------------------------------------------------------------
(* Rounding twice: to a Float64 and then to a Float32.                     *)

\* The distance between the values of a type, doubled i times.
Gap(t, i) == Least(t) * Power[i]

\* It is the distance around num / den.
Around(t, i, num, den) ==
  /\ i \in Exponent
  /\ num < (Steps(t) * Gap(t, i)) * den
  /\ i > 0 => num >= (Steps(t) * Gap(t, i - 1)) * den

LEMMA GapIs ==
  ASSUME NEW t \in FloatingType, NEW i \in Exponent
  PROVE  /\ Gap(t, i) \in Nat \ {0} /\ Least(t) <= Gap(t, i) /\ i \in Nat
         /\ i > 0 => i - 1 \in Exponent /\ Gap(t, i) = 2 * Gap(t, i - 1)
  <1>1. Least(t) \in Nat \ {0} /\ Power[i] \in Nat \ {0} /\ i \in Nat /\ i <= MaxExponent /\ MaxExponent \in Nat
    BY FormatIs, PowerIs, SizesAre DEF Exponent
  <1>2. Gap(t, i) \in Nat \ {0} /\ Least(t) <= Gap(t, i)
    <2> DEFINE L == Least(t)
               h == Power[i]
    <2>1. L \in Nat \ {0} /\ h \in Nat \ {0}
      BY <1>1
    <2> HIDE DEF L, h
    <2>2. L * (h - 1) >= 0 /\ L * (h - 1) = L * h - L /\ L * h \in Nat
      BY <2>1
    <2>3. L * h >= L /\ L * h \in Nat \ {0}
      BY <2>1, <2>2
    <2> QED
      BY <2>3 DEF L, h, Gap
  <1>3. ASSUME i > 0 PROVE i - 1 \in Exponent /\ Gap(t, i) = 2 * Gap(t, i - 1)
    <2>1. i - 1 \in Nat /\ i - 1 \in Exponent /\ (i - 1) + 1 = i /\ (i - 1) + 1 <= MaxExponent
      BY <1>1, <1>3 DEF Exponent
    <2>2. Power[(i - 1) + 1] = 2 * Power[i - 1] /\ Power[i - 1] \in Nat
      BY <2>1, PowerNext, PowerIs
    <2>3. Least(t) * (2 * Power[i - 1]) = 2 * (Least(t) * Power[i - 1])
      BY <1>1, <2>2
    <2> QED
      BY <2>1, <2>2, <2>3 DEF Gap
  <1> QED
    BY <1>1, <1>2, <1>3

\* The longer of two distances is a multiple of the shorter, and if they differ,
\* at least twice as long.
LEMMA GapsDivide ==
  ASSUME NEW t \in FloatingType, NEW i \in Exponent, NEW j \in Exponent
  PROVE  /\ i <= j => \E q \in Nat \ {0} : Gap(t, j) = q * Gap(t, i)
         /\ i < j => 2 * Gap(t, i) <= Gap(t, j)
  <1>1. Least(t) \in Nat \ {0} /\ Power[i] \in Nat \ {0} /\ Power[j] \in Nat \ {0} /\ i \in Nat /\ j \in Nat
    BY FormatIs, PowerIs, SizesAre DEF Exponent
  <1>2. ASSUME i <= j PROVE \E q \in Nat \ {0} : Gap(t, j) = q * Gap(t, i)
    <2>1. PICK q \in Nat \ {0} : Power[j] = q * Power[i]
      BY <1>2, PowerDivides
    <2>2. Least(t) * (q * Power[i]) = q * (Least(t) * Power[i])
      BY <1>1, <2>1
    <2>3. Gap(t, j) = q * Gap(t, i)
      BY <2>1, <2>2 DEF Gap
    <2> QED
      BY <2>1, <2>3
  <1>3. ASSUME i < j PROVE 2 * Gap(t, i) <= Gap(t, j)
    <2>1. 2 * Power[i] <= Power[j]
      BY <1>3, PowerRises
    <2>2. (2 * Power[i]) * Least(t) <= Power[j] * Least(t)
      BY <1>1, <2>1, TimesMonotone
    <2>3. (2 * Power[i]) * Least(t) = 2 * (Least(t) * Power[i]) /\ Power[j] * Least(t) = Least(t) * Power[j]
      BY <1>1
    <2> QED
      BY <2>2, <2>3 DEF Gap
  <1> QED
    BY <1>2, <1>3

\* What rounding does, in these terms.
LEMMA RoundedGap ==
  ASSUME NEW t \in FloatingType, NEW num \in Nat, NEW den \in Nat, den > 0, num <= Reach
  PROVE  \E i \in Exponent, k \in Nat :
           /\ Around(t, i, num, den)
           /\ k <= Steps(t) /\ k = Nearest(num, Gap(t, i) * den)
           /\ RoundedUnits(t, num, den) = k * Gap(t, i)
  <1>1. PICK i \in Exponent, k \in 0 .. Steps(t) :
           /\ RoundedUnits(t, num, den) = k * (Least(t) * Power[i])
           /\ k = Nearest(num, (Least(t) * Power[i]) * den)
           /\ num < (Steps(t) * (Least(t) * Power[i])) * den
           /\ i > 0 => num >= (Steps(t) * (Least(t) * Power[i - 1])) * den
    BY RoundedIs
  <1>2. k \in Nat /\ k <= Steps(t)
    BY FormatIs
  <1>3. Around(t, i, num, den)
    BY <1>1 DEF Around, Gap
  <1> QED
    BY <1>1, <1>2, <1>3 DEF Gap

\* Only one distance is that around a magnitude.
LEMMA AroundUnique ==
  ASSUME NEW t \in FloatingType, NEW num \in Nat, NEW den \in Nat, den > 0,
         NEW i, NEW j, Around(t, i, num, den), Around(t, j, num, den)
  PROVE  i = j
  <1>1. ASSUME NEW a, NEW b, Around(t, a, num, den), Around(t, b, num, den), a < b
        PROVE  FALSE
    <2> DEFINE p == Steps(t)
               x == p * Gap(t, a)
               y == p * Gap(t, b - 1)
    <2>1. a \in Exponent /\ b \in Exponent /\ a \in Nat /\ b \in Nat /\ p \in Nat \ {0}
      BY <1>1, GapIs, FormatIs DEF Around
    <2>2. b > 0 /\ b - 1 \in Exponent /\ a <= b - 1
      BY <1>1, <2>1, GapIs
    <2>3. num < x * den /\ num >= y * den
      BY <1>1, <2>2 DEF Around
    <2>4. Gap(t, a) \in Nat /\ Gap(t, b - 1) \in Nat /\ Gap(t, a) <= Gap(t, b - 1)
      <3>1. Gap(t, a) \in Nat \ {0} /\ Gap(t, b - 1) \in Nat \ {0}
        BY <2>1, <2>2, GapIs
      <3>2. CASE a = b - 1
        BY <3>1, <3>2
      <3>3. CASE a < b - 1
        <4>1. 2 * Gap(t, a) <= Gap(t, b - 1)
          BY <2>1, <2>2, <3>3, GapsDivide
        <4> QED
          BY <3>1, <4>1
      <3> QED
        BY <2>1, <2>2, <3>2, <3>3
    <2>5. x \in Nat /\ y \in Nat /\ x <= y
      <3>1. Gap(t, a) * p <= Gap(t, b - 1) * p
        BY <2>1, <2>4, TimesMonotone
      <3> QED
        BY <2>1, <2>4, <3>1
    <2> HIDE DEF x, y
    <2>6. x * den <= y * den /\ x * den \in Nat /\ y * den \in Nat
      BY <2>5, TimesMonotone
    <2> QED
      BY <2>3, <2>6
  <1>2. i \in Nat /\ j \in Nat
    BY GapIs DEF Around
  <1> QED
    BY <1>1, <1>2

\* A point of the grid that a magnitude does not exceed is not exceeded by what
\* the magnitude rounds to, and the same from below.
LEMMA FractionBelow ==
  ASSUME NEW t \in FloatingType, NEW num \in Nat, NEW den \in Nat, den > 0, num <= Reach,
         NEW g \in Nat, OnGrid(t, g), num <= g * den
  PROVE  RoundedUnits(t, num, den) <= g
  <1>1. PICK i \in Exponent, k \in Nat :
           /\ Around(t, i, num, den) /\ k = Nearest(num, Gap(t, i) * den)
           /\ RoundedUnits(t, num, den) = k * Gap(t, i)
    BY RoundedGap
  <1> DEFINE s == Gap(t, i)
  <1>2. s \in Nat \ {0}
    BY GapIs
  <1>3. i > 0 => g >= Steps(t) * Gap(t, i - 1)
    <2> SUFFICES ASSUME i > 0 PROVE g >= Steps(t) * Gap(t, i - 1)
      OBVIOUS
    <2> DEFINE x == Steps(t) * Gap(t, i - 1)
    <2>1. x \in Nat
      <3>1. Gap(t, i - 1) \in Nat \ {0} /\ Steps(t) \in Nat \ {0}
        BY GapIs, FormatIs
      <3> QED
        BY <3>1
    <2>2. x * den <= num
      BY <1>1 DEF Around
    <2> HIDE DEF x
    <2>3. x <= g
      <3>1. SUFFICES ASSUME g + 1 <= x PROVE FALSE
        BY <2>1
      <3>2. (g + 1) * den <= x * den /\ (g + 1) * den = g * den + den
        BY <2>1, <3>1, TimesMonotone
      <3>3. g * den \in Nat /\ x * den \in Nat
        BY <2>1
      <3> QED
        BY <2>2, <3>2, <3>3
    <2> QED
      BY <2>3 DEF x
  <1>4. PICK q \in Nat : g = q * s
    BY <1>3, SpacingDivides DEF Gap
  <1>5. k = Nearest(num, s * den) /\ RoundedUnits(t, num, den) = k * s
    BY <1>1
  <1> HIDE DEF s
  <1> DEFINE e == s * den
  <1>6. e \in Nat /\ e > 0 /\ g * den = q * e
    <2>1. \A x, y \in Nat \ {0} : x * y \in Nat /\ x * y > 0
      OBVIOUS
    <2>2. (q * s) * den = q * (s * den)
      BY <1>2
    <2> QED
      BY <1>2, <1>4, <2>1, <2>2
  <1> HIDE DEF e
  <1>7. k <= q
    <2>1. q * e \in Nat /\ num <= q * e
      BY <1>6
    <2>2. Nearest(q * e, e) = q
      BY <1>6, NearestExact
    <2>3. Nearest(num, e) <= Nearest(q * e, e)
      BY <1>6, <2>1, NearestMonotone
    <2> QED
      BY <1>5, <2>2, <2>3 DEF e
  <1>8. k * s <= q * s
    BY <1>2, <1>7, TimesMonotone
  <1> QED
    BY <1>4, <1>5, <1>8

LEMMA FractionAbove ==
  ASSUME NEW t \in FloatingType, NEW num \in Nat, NEW den \in Nat, den > 0, num <= Reach,
         NEW g \in Nat, OnGrid(t, g), g * den <= num
  PROVE  g <= RoundedUnits(t, num, den)
  <1>1. PICK i \in Exponent, k \in Nat :
           /\ Around(t, i, num, den) /\ k = Nearest(num, Gap(t, i) * den)
           /\ RoundedUnits(t, num, den) = k * Gap(t, i)
    BY RoundedGap
  <1> DEFINE s == Gap(t, i)
             e == s * den
  <1>2. s \in Nat \ {0} /\ Steps(t) \in Nat \ {0} /\ Steps(t) % 2 = 0
    BY GapIs, FormatIs
  <1>3. ASSUME NEW q \in Nat, q * s * den <= num PROVE q * s <= RoundedUnits(t, num, den)
    <2>1. k = Nearest(num, e) /\ RoundedUnits(t, num, den) = k * s
      BY <1>1
    <2> HIDE DEF s
    <2>2. e \in Nat /\ e > 0 /\ q * e <= num /\ q * e \in Nat
      <3>1. \A x, y \in Nat \ {0} : x * y \in Nat /\ x * y > 0
        OBVIOUS
      <3>2. q * s * den = q * (s * den)
        BY <1>2
      <3>3. e \in Nat /\ e > 0
        BY <1>2, <3>1
      <3> QED
        BY <1>3, <3>2, <3>3
    <2> HIDE DEF e
    <2>3. Nearest(q * e, e) = q
      BY <2>2, NearestExact
    <2>4. Nearest(q * e, e) <= Nearest(num, e)
      BY <2>2, NearestMonotone
    <2>5. q <= k
      BY <2>1, <2>3, <2>4
    <2> QED
      BY <1>2, <2>1, <2>5, TimesMonotone
  <1>4. CASE i > 0 => g >= Steps(t) * Gap(t, i - 1)
    <2>1. PICK q \in Nat : g = q * s
      BY <1>4, SpacingDivides DEF Gap
    <2> QED
      BY <1>3, <2>1
  <1>5. CASE i > 0 /\ ~(g >= Steps(t) * Gap(t, i - 1))
    <2> DEFINE h == Gap(t, i - 1)
    <2>1. h \in Nat \ {0} /\ s = 2 * h
      BY <1>5, GapIs
    <2>2. PICK c \in Nat : Steps(t) = 2 * c
      <3>1. Steps(t) \div 2 \in Nat /\ Steps(t) = 2 * (Steps(t) \div 2)
        BY <1>2
      <3> QED
        BY <3>1
    <2>3. Steps(t) * h = c * s
      BY <2>1, <2>2
    <2>4. (Steps(t) * h) * den <= num
      BY <1>1, <1>5 DEF Around
    <2>5. c * s <= RoundedUnits(t, num, den)
      BY <1>3, <2>3, <2>4
    <2>6. RoundedUnits(t, num, den) \in Nat
      BY RoundedOnGrid
    <2> HIDE DEF s, h
    <2>7. c * s \in Nat /\ g < c * s
      BY <1>2, <1>5, <2>3 DEF h
    <2> QED
      BY <2>5, <2>6, <2>7
  <1> QED
    BY <1>4, <1>5

LEMMA SinglesAre ==
  /\ Float32 \in FloatingType /\ Float64 \in FloatingType /\ Float32 # Float64
  /\ FloatingType = {Float32, Float64} /\ Float32.size = 3 /\ Float64.size = 4
  /\ Least(Float32) = Smallest[3] /\ Least(Float64) = Smallest[4]
  /\ Steps(Float32) = Power[Precision[3]] /\ Steps(Float64) = Power[Precision[4]]
  /\ 3 \in FloatSize /\ 4 \in FloatSize
  <1>1. Float32.size = 3 /\ Float64.size = 4 /\ FloatingType = {Float32, Float64}
    BY DEF Float32, Float64, FloatOf, FloatingType
  <1> QED
    BY <1>1 DEF Least, Steps, FloatSize, IntSize

\* A significand of a Float64 has room for the product of two of a Float32 and
\* for two bits more.
LEMMA StepsAre ==
  /\ Steps(Float32) \in Nat /\ Steps(Float32) >= 2 /\ Steps(Float64) \in Nat
  /\ 4 * (Steps(Float32) * Steps(Float32)) <= Steps(Float64)
  /\ 2 * Steps(Float32) + 1 <= Steps(Float64)
  <1> DEFINE p == Precision[3]
             r == Precision[4]
             s == Steps(Float32)
  <1>1. /\ p \in Nat \ {0} /\ r \in Nat /\ r >= 2 * p + 2 /\ r <= MaxExponent /\ MaxExponent \in Nat
        /\ r \in Exponent /\ p \in Exponent
    <2>1. Float32 \in FloatingType /\ Float64 \in FloatingType /\ Float32.size = 3 /\ Float64.size = 4
      BY SinglesAre
    <2>2. p \in Exponent \ {0} /\ r \in Exponent \ {0}
      BY <2>1, FormatIs
    <2> QED
      BY <2>2, FloatAssumption, SizesAre DEF Exponent
  <1>2. s \in Nat \ {0} /\ s % 2 = 0 /\ Steps(Float64) \in Nat \ {0} /\ s = Power[p] /\ Steps(Float64) = Power[r]
    BY SinglesAre, FormatIs
  <1>3. s >= 2
    <2> HIDE DEF s
    <2> QED
      BY <1>2
  <1>4. Power[2 * p + 2] = 4 * (s * s) /\ 2 * p + 2 \in Exponent
    <2>1. /\ p + p \in Nat /\ (p + p) + 1 \in Nat /\ ((p + p) + 1) + 1 <= MaxExponent
          /\ (p + p) + 1 <= MaxExponent /\ p + p <= MaxExponent /\ 2 * p + 2 = ((p + p) + 1) + 1
      BY <1>1
    <2>2. Power[p + p] = Power[p] * Power[p]
      BY <1>1, <2>1, PowerSum
    <2>3. Power[(p + p) + 1] = 2 * Power[p + p] /\ Power[((p + p) + 1) + 1] = 2 * Power[(p + p) + 1]
      BY <2>1, PowerNext
    <2>4. 2 * (2 * (s * s)) = 4 * (s * s)
      BY <1>2
    <2> QED
      BY <1>1, <1>2, <2>1, <2>2, <2>3, <2>4 DEF Exponent
  <1>5. 4 * (s * s) <= Steps(Float64)
    BY <1>1, <1>2, <1>4, PowerDivides
  <1>6. 2 * s + 1 <= 4 * (s * s)
    <2> HIDE DEF s
    <2>1. 2 * s <= s * s
      BY <1>2, <1>3, TimesMonotone
    <2> QED
      BY <1>2, <1>3, <2>1
  <1> HIDE DEF s
  <1>7. s * s \in Nat
    BY <1>2
  <1> QED
    BY <1>2, <1>3, <1>5, <1>6, <1>7 DEF s

\* Half-way between two neighbours of a Float32 lies a Float64.
LEMMA HalfGap ==
  ASSUME NEW i \in Exponent
  PROVE  \E h \in Nat \ {0} :
           /\ Gap(Float32, i) = 2 * h
           /\ \A k \in Nat : k <= Steps(Float64) => OnGrid(Float64, k * h)
  <1> DEFINE L == Smallest[4]
  <1>1. PICK c \in Exponent : Smallest[3] = L * Power[c]
    BY FloatAssumption
  <1>2. L \in Nat \ {0} /\ Power[c] \in Nat \ {0} /\ Power[i] \in Nat \ {0} /\ c \in Nat /\ c <= MaxExponent
    BY FloatAssumption, PowerIs, SizesAre DEF FloatSize, Exponent
  <1>3. c > 0
    <2>1. SUFFICES ASSUME c = 0 PROVE FALSE
      BY <1>2
    <2>2. Smallest[3] = L
      BY <1>1, <1>2, <2>1, PowerAssumption
    <2> DEFINE s == Power[Precision[3]]
    <2>3. s \in Nat /\ s >= 2 /\ 2 * s * L <= L
      BY <2>2, SinglesAre, StepsAre, FloatAssumption
    <2> HIDE DEF s, L
    <2>4. 2 * L <= (2 * s) * L
      BY <1>2, <2>3, TimesMonotone
    <2>5. (2 * s) * L = 2 * s * L
      OBVIOUS
    <2>6. 2 * s * L \in Nat
      BY <1>2, <2>3
    <2> QED
      BY <1>2, <2>3, <2>4, <2>5, <2>6
  <1> DEFINE b == Power[c - 1]
             h == L * (b * Power[i])
  <1>4. c - 1 \in Exponent /\ b \in Nat \ {0} /\ Power[c] = 2 * b
    <2>1. c - 1 \in Nat /\ c - 1 \in Exponent /\ (c - 1) + 1 = c /\ (c - 1) + 1 <= MaxExponent
      BY <1>2, <1>3, SizesAre DEF Exponent
    <2>2. Power[(c - 1) + 1] = 2 * Power[c - 1] /\ Power[c - 1] \in Nat \ {0}
      BY <2>1, PowerNext, PowerIs
    <2> QED
      BY <2>1, <2>2
  <1>5. h \in Nat \ {0}
    <2>1. \A x, y \in Nat \ {0} : x * y \in Nat \ {0}
      OBVIOUS
    <2> QED
      BY <1>2, <1>4, <2>1
  <1>6. Gap(Float32, i) = 2 * h
    <2>1. (L * (2 * b)) * Power[i] = 2 * (L * (b * Power[i]))
      BY <1>2, <1>4
    <2>2. Gap(Float32, i) = (L * Power[c]) * Power[i]
      BY <1>1, SinglesAre DEF Gap
    <2> QED
      BY <1>4, <2>1, <2>2
  <1>7. ASSUME NEW k \in Nat, k <= Steps(Float64) PROVE OnGrid(Float64, k * h)
    <2>1. k * h = k * (Least(Float64) * (Power[c - 1] * Power[i]))
      BY SinglesAre
    <2> HIDE DEF h
    <2> QED
      BY <1>4, <1>7, <2>1, Zenon DEF OnGrid
  <1> HIDE DEF h
  <1> QED
    BY <1>5, <1>6, <1>7

\* The distances of the two types around one magnitude: the finer one goes into
\* the coarser at least as often as two significands of a Float32 count.
LEMMA SpacingRatio ==
  ASSUME NEW num \in Nat, NEW den \in Nat, den > 0,
         NEW i, Around(Float32, i, num, den), NEW j, Around(Float64, j, num, den)
  PROVE  2 * (Steps(Float32) * Gap(Float64, j)) <= Gap(Float32, i)
  <1> DEFINE p == Steps(Float32)
             r == Steps(Float64)
             g == Gap(Float32, i)
             f == Gap(Float64, j)
  <1>1. /\ i \in Exponent /\ j \in Exponent /\ i \in Nat /\ j \in Nat
        /\ p \in Nat /\ p >= 2 /\ r \in Nat /\ 4 * (p * p) <= r
        /\ g \in Nat \ {0} /\ f \in Nat \ {0} /\ Least(Float32) <= g
    BY StepsAre, SinglesAre, GapIs DEF Around
  <1>2. CASE j = 0
    <2>1. f = Smallest[4] /\ Smallest[4] \in Nat
      <3>1. Least(Float64) \in Nat /\ Least(Float64) * 1 = Least(Float64) /\ Power[0] = 1
        BY SinglesAre, FormatIs, PowerAssumption
      <3> QED
        BY <1>2, <3>1, SinglesAre DEF Gap
    <2>2. 2 * p * Smallest[4] <= Smallest[3]
      BY SinglesAre, FloatAssumption
    <2>3. Smallest[3] <= g /\ Smallest[3] \in Nat
      BY <1>1, SinglesAre, FloatAssumption
    <2> HIDE DEF p, g, f
    <2>4. 2 * p * f = 2 * (p * f) /\ p * f \in Nat
      BY <1>1
    <2> QED
      BY <1>1, <2>1, <2>2, <2>3, <2>4 DEF p, g, f
  <1>3. CASE j # 0
    <2> DEFINE h == Gap(Float64, j - 1)
    <2>1. h \in Nat \ {0} /\ f = 2 * h
      BY <1>1, <1>3, SinglesAre, GapIs
    <2>2. num < (p * g) * den
      BY DEF Around
    <2>3. num >= (r * h) * den
      BY <1>1, <1>3 DEF Around
    <2> HIDE DEF p, r, g, f, h
    <2>4. r * h < p * g
      <3>1. p * g \in Nat /\ r * h \in Nat
        BY <1>1, <2>1
      <3>2. SUFFICES ASSUME p * g <= r * h PROVE FALSE
        BY <3>1
      <3>3. (p * g) * den <= (r * h) * den
        BY <3>1, <3>2, TimesMonotone
      <3>4. (p * g) * den \in Nat /\ (r * h) * den \in Nat
        BY <3>1
      <3> QED
        BY <2>2, <2>3, <3>3, <3>4
    <2>5. (4 * (p * p)) * h <= r * h
      <3>1. p * p \in Nat
        BY <1>1
      <3> QED
        BY <1>1, <2>1, <3>1, TimesMonotone
    <2>6. (4 * (p * p)) * h = p * (2 * (p * f))
      BY <1>1, <2>1
    <2>7. 2 * (p * f) < g
      <3> DEFINE y == 2 * (p * f)
      <3>1. y \in Nat /\ p * y < p * g
        <4>1. p * f \in Nat
          BY <1>1
        <4>2. r * h \in Nat /\ p * g \in Nat /\ p * y \in Nat
          BY <1>1, <2>1, <4>1
        <4> QED
          BY <2>4, <2>5, <2>6, <4>1, <4>2
      <3> HIDE DEF y
      <3>2. SUFFICES ASSUME g <= y PROVE FALSE
        BY <1>1, <3>1 DEF y
      <3>3. g * p <= y * p /\ g * p = p * g /\ y * p = p * y
        BY <1>1, <3>1, <3>2, TimesMonotone
      <3>4. p * g \in Nat /\ p * y \in Nat
        BY <1>1, <3>1
      <3> QED
        BY <3>1, <3>3, <3>4
    <2>8. p * f \in Nat
      BY <1>1
    <2> QED
      BY <1>1, <2>7, <2>8 DEF p, g, f
  <1> QED
    BY <1>2, <1>3

\* Which multiple is nearest, told from the middle between the two around.
LEMMA NearestAt ==
  ASSUME NEW n \in Nat, NEW g \in Nat, g > 0, NEW q \in Nat, q * g <= n, n < (q + 1) * g
  PROVE  Nearest(n, g) = IF 2 * n > (2 * q + 1) * g \/ (2 * n = (2 * q + 1) * g /\ q % 2 = 1)
                           THEN q + 1 ELSE q
  <1> DEFINE r == n - q * g
             x == q * g
  <1>1. x \in Nat /\ (q + 1) * g = x + g /\ (2 * q + 1) * g = 2 * x + g /\ q * g = x /\ x <= n /\ n < x + g
    BY (q + 1) * g = q * g + g, (2 * q + 1) * g = 2 * (q * g) + g
  <1> HIDE DEF x
  <1>2. r \in Nat /\ r < g /\ n = x + r
    BY <1>1
  <1>3. (q * g + r) \div g = q /\ (q * g + r) % g = r
    <2>1. g \in Nat \ {0}
      OBVIOUS
    <2>2. r \in Nat /\ r < g
      BY <1>2
    <2> HIDE DEF r
    <2> QED
      BY <2>1, <2>2, DivModUnique, Zenon
  <1>4. n \div g = q /\ n % g = r
    BY <1>1, <1>2, <1>3
  <1>5. (2 * r > g <=> 2 * n > (2 * q + 1) * g) /\ (2 * r = g <=> 2 * n = (2 * q + 1) * g)
    <2> HIDE DEF r
    <2> QED
      BY <1>1, <1>2
  <1> HIDE DEF r
  <1> QED
    BY <1>4, <1>5 DEF Nearest

\* What lies half-way between two neighbours of a Float32 after the first
\* rounding did so before it.
TieIsReal(num, den) ==
  \A i, q : q \in Nat /\ Around(Float32, i, num, den)
            /\ 2 * RoundedUnits(Float64, num, den) = (2 * q + 1) * Gap(Float32, i)
            => 2 * num = ((2 * q + 1) * Gap(Float32, i)) * den

LEMMA DoubleRounding ==
  ASSUME NEW num \in Nat, NEW den \in Nat, den > 0, num <= Reach, TieIsReal(num, den),
         NEW R, R = RoundedUnits(Float64, num, den), R <= Reach
  PROVE  RoundedUnits(Float32, R, 1) = RoundedUnits(Float32, num, den)
  <1> DEFINE p == Steps(Float32)
  <1>0. Float32 \in FloatingType /\ Float64 \in FloatingType /\ R \in Nat
    BY SinglesAre, RoundedOnGrid
  <1>1. PICK i \in Exponent, k \in Nat :
           /\ Around(Float32, i, num, den)
           /\ k <= p /\ k = Nearest(num, Gap(Float32, i) * den)
           /\ RoundedUnits(Float32, num, den) = k * Gap(Float32, i)
    BY <1>0, RoundedGap
  <1> DEFINE g == Gap(Float32, i)
             e == g * den
             q == num \div e
  <1>2. PICK h \in Nat \ {0} :
           /\ g = 2 * h
           /\ \A m \in Nat : m <= Steps(Float64) => OnGrid(Float64, m * h)
    BY HalfGap
  <1>3. /\ p \in Nat /\ 2 * p + 1 <= Steps(Float64) /\ Steps(Float64) \in Nat
        /\ g \in Nat \ {0} /\ e \in Nat \ {0} /\ k = Nearest(num, e) /\ num < p * e
    <2>1. p \in Nat /\ 2 * p + 1 <= Steps(Float64) /\ Steps(Float64) \in Nat
      BY StepsAre
    <2>2. num < (p * g) * den
      BY <1>1 DEF Around
    <2>3. g \in Nat \ {0}
      BY <1>0, GapIs
    <2> HIDE DEF g
    <2>4. \A x, y \in Nat \ {0} : x * y \in Nat \ {0}
      OBVIOUS
    <2>5. (p * g) * den = p * (g * den) /\ e \in Nat \ {0}
      BY <2>1, <2>3, <2>4
    <2> QED
      BY <1>1, <2>1, <2>2, <2>3, <2>5 DEF g
  <1>4. q \in Nat /\ q * e <= num /\ num < (q + 1) * e /\ q + 1 <= p
    <2> DEFINE r == num % e
    <2>1. r \in Int /\ 0 <= r /\ r < e /\ q \in Int /\ q >= 0 /\ num = e * q + r
      <3> HIDE DEF e
      <3> QED
        BY <1>3, DivMod, QuotientBelow
    <2> HIDE DEF q, r
    <2>2. q \in Nat /\ q * e = e * q /\ (q + 1) * e = e * q + e /\ e * q \in Nat
      <3> HIDE DEF e
      <3> QED
        BY <1>3, <2>1
    <2> HIDE DEF e
    <2>3. q + 1 <= p
      <3>1. SUFFICES ASSUME p <= q PROVE FALSE
        BY <1>3, <2>2
      <3>2. p * e <= q * e /\ p * e \in Nat
        BY <1>3, <2>2, <3>1, TimesMonotone
      <3> QED
        BY <1>3, <2>1, <2>2, <3>2
    <2> QED
      BY <1>3, <2>1, <2>2, <2>3
  <1> HIDE DEF q
  <1> DEFINE M == (2 * q + 1) * h
             a == (2 * q) * h
             b == (2 * q + 2) * h
  <1>5. /\ M \in Nat /\ a \in Nat /\ b \in Nat /\ b = M + h /\ M = a + h
        /\ OnGrid(Float64, M) /\ OnGrid(Float64, a) /\ OnGrid(Float64, b)
        /\ a = q * g /\ b = (q + 1) * g /\ 2 * M = (2 * q + 1) * g
    <2>1. 2 * q \in Nat /\ 2 * q + 1 \in Nat /\ 2 * q + 2 \in Nat /\ 2 * q + 2 <= Steps(Float64)
          /\ 2 * q + 1 <= Steps(Float64) /\ 2 * q <= Steps(Float64)
      BY <1>3, <1>4
    <2>2. OnGrid(Float64, M) /\ OnGrid(Float64, a) /\ OnGrid(Float64, b)
      BY <1>2, <2>1
    <2>3. (2 * q) * h = q * (2 * h) /\ (2 * q + 2) * h = (q + 1) * (2 * h) /\ 2 * ((2 * q + 1) * h) = (2 * q + 1) * (2 * h)
      BY <1>4
    <2>4. M \in Nat /\ a \in Nat /\ b \in Nat /\ b = M + h /\ M = a + h
      BY <1>4
    <2> QED
      BY <1>2, <2>2, <2>3, <2>4
  <1> HIDE DEF M, a, b
  <1>6. a <= R /\ R <= b
    <2>1. a * den = q * e /\ b * den = (q + 1) * e
      <3>1. (q * g) * den = q * (g * den) /\ ((q + 1) * g) * den = (q + 1) * (g * den)
        <4> HIDE DEF g
        <4> QED
          BY <1>3, <1>4
      <3> QED
        BY <1>5, <3>1
    <2>2. q * e \in Nat /\ (q + 1) * e \in Nat
      <3> HIDE DEF e
      <3> QED
        BY <1>3, <1>4
    <2>3. a * den <= num /\ num <= b * den
      BY <1>4, <2>1, <2>2
    <2> QED
      BY <1>0, <1>5, <2>3, FractionAbove, FractionBelow
  <1>7. (M * den <= num => M <= R) /\ (num <= M * den => R <= M)
    BY <1>0, <1>5, FractionAbove, FractionBelow
  <1>8. R = M => num = M * den
    <2> SUFFICES ASSUME R = M PROVE num = M * den
      OBVIOUS
    <2>1. 2 * R = (2 * q + 1) * g
      BY <1>5
    <2>2. 2 * num = ((2 * q + 1) * g) * den
      BY <1>1, <1>4, <2>1 DEF TieIsReal
    <2>3. 2 * num = (2 * M) * den
      BY <1>5, <2>2
    <2>4. (2 * M) * den = 2 * (M * den) /\ M * den \in Nat
      BY <1>5
    <2> QED
      BY <2>3, <2>4
  <1>9. (2 * q + 1) * e = 2 * (M * den) /\ M * den \in Nat
    <2>1. ((2 * q + 1) * g) * den = (2 * q + 1) * (g * den)
      <3> HIDE DEF g
      <3> QED
        BY <1>3, <1>4
    <2>2. (2 * M) * den = 2 * (M * den) /\ M * den \in Nat
      BY <1>5
    <2> QED
      BY <1>5, <2>1, <2>2
  <1>10. k = IF num > M * den \/ (num = M * den /\ q % 2 = 1) THEN q + 1 ELSE q
    <2> HIDE DEF e
    <2>1. Nearest(num, e) = IF 2 * num > (2 * q + 1) * e \/ (2 * num = (2 * q + 1) * e /\ q % 2 = 1)
                              THEN q + 1 ELSE q
      BY <1>3, <1>4, NearestAt
    <2>2. /\ 2 * num > (2 * q + 1) * e <=> num > M * den
          /\ 2 * num = (2 * q + 1) * e <=> num = M * den
      BY <1>9
    <2> QED
      BY <1>3, <2>1, <2>2
  <1>11. CASE R = b
    <2>1. k = q + 1
      <3>1. num > M * den
        BY <1>0, <1>5, <1>7, <1>9, <1>11
      <3> QED
        BY <1>10, <3>1
    <2>2. RoundedUnits(Float32, num, den) = R
      BY <1>1, <1>5, <1>11, <2>1
    <2>3. OnGrid(Float32, R)
      BY <1>0, <2>2, RoundedOnGrid
    <2>4. RoundedUnits(Float32, R * 1, 1) = R /\ R * 1 = R
      BY <1>0, <2>3, GridExact
    <2> QED
      BY <2>2, <2>4
  <1>12. CASE R < b
    <2>1. Around(Float32, i, R, 1)
      <3>1. R < (p * g) * 1
        <4>1. (q + 1) * g <= p * g
          BY <1>3, <1>4, TimesMonotone
        <4>2. p * g \in Nat
          BY <1>3
        <4> QED
          BY <1>0, <1>5, <1>12, <4>1, <4>2
      <3>2. ASSUME i > 0 PROVE R >= (p * Gap(Float32, i - 1)) * 1
        <4>1. Gap(Float32, i - 1) \in Nat /\ g = 2 * Gap(Float32, i - 1)
          BY <1>0, <3>2, GapIs
        <4>2. Gap(Float32, i - 1) = h
          <5> HIDE DEF g
          <5> QED
            BY <1>2, <4>1
        <4>3. (p * h) * den <= num
          BY <1>1, <3>2, <4>2 DEF Around
        <4>4. p * h \in Nat /\ OnGrid(Float64, p * h) /\ (p * h) * 1 = p * h
          BY <1>2, <1>3
        <4>5. p * h <= R
          BY <1>0, <4>3, <4>4, FractionAbove
        <4> QED
          BY <1>0, <4>2, <4>4, <4>5
      <3> QED
        BY <3>1, <3>2 DEF Around
    <2>2. RoundedUnits(Float32, R, 1) = Nearest(R, g) * g
      <3>1. PICK j \in Exponent, l \in Nat :
               /\ Around(Float32, j, R, 1)
               /\ l = Nearest(R, Gap(Float32, j) * 1)
               /\ RoundedUnits(Float32, R, 1) = l * Gap(Float32, j)
        BY <1>0, RoundedGap
      <3>2. j = i
        BY <1>0, <2>1, <3>1, AroundUnique
      <3> QED
        BY <1>3, <3>1, <3>2
    <2>3. Nearest(R, g) = IF R > M \/ (R = M /\ q % 2 = 1) THEN q + 1 ELSE q
      <3> HIDE DEF g
      <3>1. Nearest(R, g) = IF 2 * R > (2 * q + 1) * g \/ (2 * R = (2 * q + 1) * g /\ q % 2 = 1)
                              THEN q + 1 ELSE q
        BY <1>0, <1>3, <1>4, <1>5, <1>6, <1>12, NearestAt
      <3>2. (2 * R > (2 * q + 1) * g <=> R > M) /\ (2 * R = (2 * q + 1) * g <=> R = M)
        BY <1>0, <1>5
      <3> QED
        BY <3>1, <3>2
    <2>4. (R > M <=> num > M * den) /\ (R = M <=> num = M * den)
      BY <1>0, <1>5, <1>7, <1>8, <1>9
    <2>5. Nearest(R, g) = k
      BY <1>10, <2>3, <2>4
    <2> QED
      BY <1>1, <2>2, <2>5
  <1> QED
    BY <1>0, <1>5, <1>6, <1>11, <1>12

\* Products of two powers of two divide each other as their exponents compare.
LEMMA ProductsDivide ==
  ASSUME NEW a \in Exponent, NEW b \in Exponent, NEW c \in Exponent, NEW d \in Exponent,
         c + d <= a + b
  PROVE  \E q \in Nat \ {0} : Power[a] * Power[b] = q * (Power[c] * Power[d])
  <1>1. /\ a \in Nat /\ b \in Nat /\ c \in Nat /\ d \in Nat /\ MaxExponent \in Nat
        /\ a <= MaxExponent /\ b <= MaxExponent /\ c <= MaxExponent /\ d <= MaxExponent
    BY SizesAre DEF Exponent
  <1>2. \A i \in Exponent : Power[i] \in Nat \ {0}
    BY PowerIs
  <1>3. ASSUME NEW e \in Exponent, NEW f \in Exponent, NEW g \in Exponent, g <= e + f
        PROVE  \E q \in Nat \ {0} : Power[e] * Power[f] = q * Power[g]
    <2>1. e \in Nat /\ f \in Nat /\ g \in Nat /\ g <= MaxExponent
      BY SizesAre DEF Exponent
    <2>2. CASE g <= e
      <3>1. PICK q \in Nat \ {0} : Power[e] = q * Power[g]
        BY <2>2, PowerDivides
      <3>2. (q * Power[g]) * Power[f] = (q * Power[f]) * Power[g]
        BY <1>2, <3>1
      <3>3. q * Power[f] \in Nat \ {0}
        <4>1. \A x, y \in Nat \ {0} : x * y \in Nat \ {0}
          OBVIOUS
        <4> QED
          BY <1>2, <3>1, <4>1
      <3>4. Power[e] * Power[f] = (q * Power[f]) * Power[g]
        BY <3>1, <3>2
      <3> QED
        BY <3>3, <3>4, Zenon
    <2>3. CASE e < g
      <3> DEFINE x == g - e
      <3>1. x \in Nat /\ e + x = g /\ e + x <= MaxExponent /\ x <= f /\ x \in Exponent
        BY <1>1, <1>3, <2>1, <2>3 DEF Exponent
      <3> HIDE DEF x
      <3>2. Power[g] = Power[e] * Power[x]
        BY <2>1, <3>1, PowerSum
      <3>3. PICK q \in Nat \ {0} : Power[f] = q * Power[x]
        BY <3>1, PowerDivides
      <3>4. Power[e] * (q * Power[x]) = q * (Power[e] * Power[x])
        BY <1>2, <3>1, <3>3
      <3> QED
        BY <3>2, <3>3, <3>4
    <2> QED
      BY <2>1, <2>2, <2>3
  <1>4. CASE c <= a
    <2> DEFINE x == a - c
    <2>1. x \in Nat /\ x + c = a /\ x + c <= MaxExponent /\ d <= x + b /\ x \in Exponent
      BY <1>1, <1>4 DEF Exponent
    <2> HIDE DEF x
    <2>2. Power[a] = Power[x] * Power[c]
      BY <1>1, <2>1, PowerSum
    <2>3. PICK q \in Nat \ {0} : Power[x] * Power[b] = q * Power[d]
      BY <1>3, <2>1
    <2>4. (Power[x] * Power[c]) * Power[b] = Power[c] * (Power[x] * Power[b])
      BY <1>2, <2>1
    <2>5. Power[c] * (q * Power[d]) = q * (Power[c] * Power[d])
      BY <1>2, <2>3
    <2> QED
      BY <2>2, <2>3, <2>4, <2>5
  <1>5. CASE a < c
    <2> DEFINE x == c - a
    <2>1. x \in Nat /\ a + x = c /\ a + x <= MaxExponent /\ x + d <= b /\ x + d <= MaxExponent
          /\ x \in Exponent /\ x + d \in Exponent
      BY <1>1, <1>5 DEF Exponent
    <2> HIDE DEF x
    <2>2. Power[c] = Power[a] * Power[x] /\ Power[x + d] = Power[x] * Power[d]
      BY <1>1, <2>1, PowerSum
    <2>3. PICK q \in Nat \ {0} : Power[b] = q * Power[x + d]
      BY <2>1, PowerDivides
    <2>4. Power[a] * (q * (Power[x] * Power[d])) = q * ((Power[a] * Power[x]) * Power[d])
      BY <1>2, <2>1, <2>3
    <2> QED
      BY <2>2, <2>3, <2>4
  <1> QED
    BY <1>1, <1>4, <1>5

LEMMA ProductsDivideTwice ==
  ASSUME NEW a \in Exponent, NEW b \in Exponent, NEW c \in Exponent, NEW d \in Exponent,
         c + d < a + b
  PROVE  \E q \in Nat \ {0} : Power[a] * Power[b] = (2 * q) * (Power[c] * Power[d])
  <1>1. /\ a \in Nat /\ b \in Nat /\ c \in Nat /\ d \in Nat /\ MaxExponent \in Nat
        /\ a <= MaxExponent /\ b <= MaxExponent
    BY SizesAre DEF Exponent
  <1>2. \A i \in Exponent : Power[i] \in Nat \ {0}
    BY PowerIs
  <1>3. ASSUME NEW e \in Exponent, NEW f \in Exponent, c + d < e + f, e > 0
        PROVE  \E q \in Nat \ {0} : Power[e] * Power[f] = (2 * q) * (Power[c] * Power[d])
    <2> DEFINE x == e - 1
    <2>1. x \in Nat /\ x \in Exponent /\ x + 1 = e /\ x + 1 <= MaxExponent /\ c + d <= x + f
      BY <1>1, <1>3 DEF Exponent
    <2> HIDE DEF x
    <2>2. Power[e] = 2 * Power[x]
      BY <2>1, PowerNext
    <2>3. PICK q \in Nat \ {0} : Power[x] * Power[f] = q * (Power[c] * Power[d])
      BY <2>1, ProductsDivide
    <2> DEFINE g == Power[c] * Power[d]
    <2>4. g \in Nat
      BY <1>2
    <2> HIDE DEF g
    <2>5. (2 * Power[x]) * Power[f] = 2 * (Power[x] * Power[f]) /\ 2 * (q * g) = (2 * q) * g
      BY <1>2, <2>1, <2>3, <2>4
    <2> QED
      BY <2>2, <2>3, <2>5 DEF g
  <1>4. CASE a > 0
    BY <1>3, <1>4
  <1>5. CASE b > 0
    <2>1. Power[a] * Power[b] = Power[b] * Power[a] /\ b + a = a + b
      BY <1>1, <1>2
    <2> QED
      BY <1>1, <1>3, <1>5, <2>1
  <1> QED
    BY <1>1, <1>4, <1>5

\* A distance of the Float32 against one of the Float64.
LEMMA GapsCompare ==
  ASSUME NEW b \in Exponent, NEW j \in Exponent
  PROVE  \/ \E q \in Nat \ {0} : Gap(Float32, b) = q * Gap(Float64, j)
         \/ 2 * Gap(Float32, b) <= Gap(Float64, j)
  <1> DEFINE L == Smallest[4]
  <1>1. PICK c \in Exponent : Smallest[3] = L * Power[c]
    BY FloatAssumption
  <1>2. /\ L \in Nat \ {0} /\ Power[c] \in Nat \ {0} /\ Power[b] \in Nat \ {0} /\ Power[j] \in Nat \ {0}
        /\ c \in Nat /\ b \in Nat /\ j \in Nat /\ 0 \in Exponent /\ Power[0] = 1
    <2>1. L \in Nat \ {0}
      BY SinglesAre, FormatIs
    <2>2. Power[c] \in Nat \ {0} /\ Power[b] \in Nat \ {0} /\ Power[j] \in Nat \ {0}
      BY PowerIs
    <2>3. c \in Nat /\ b \in Nat /\ j \in Nat /\ 0 \in Exponent
      BY SizesAre DEF Exponent
    <2> QED
      BY <2>1, <2>2, <2>3, PowerAssumption
  <1> DEFINE G == Power[c] * Power[b]
  <1>3. Gap(Float32, b) = L * G /\ Gap(Float64, j) = L * Power[j] /\ G \in Nat
    <2>1. (L * Power[c]) * Power[b] = L * (Power[c] * Power[b])
      BY <1>2
    <2> QED
      BY <1>1, <1>2, <2>1, SinglesAre DEF Gap
  <1>4. Power[j] * Power[0] = Power[j]
    BY <1>2
  <1>5. CASE j <= c + b
    <2>0. 0 \in Exponent /\ j + 0 <= c + b
      BY <1>2, <1>5
    <2>1. PICK q \in Nat \ {0} : G = q * (Power[j] * Power[0])
      BY <2>0, ProductsDivide
    <2> HIDE DEF G
    <2>2. L * (q * Power[j]) = q * (L * Power[j])
      BY <1>2, <2>1
    <2> QED
      BY <1>3, <1>4, <2>1, <2>2
  <1>6. CASE c + b < j
    <2>0. c + b < j + 0
      BY <1>2, <1>6
    <2>1. PICK q \in Nat \ {0} : Power[j] * Power[0] = (2 * q) * G
      BY <1>2, <2>0, ProductsDivideTwice
    <2> HIDE DEF G
    <2>2. L * ((2 * q) * G) = q * (2 * (L * G)) /\ 2 * (L * G) \in Nat
      BY <1>2, <1>3, <2>1
    <2>3. 1 * (2 * (L * G)) <= q * (2 * (L * G))
      BY <2>1, <2>2, TimesMonotone
    <2>4. 1 * (2 * (L * G)) = 2 * (L * G)
      BY <2>2
    <2> QED
      BY <1>3, <1>4, <2>1, <2>2, <2>3, <2>4
  <1> QED
    BY <1>2, <1>5, <1>6

\* Different multiples are at least once apart.
LEMMA MultiplesApart ==
  ASSUME NEW x \in Nat, NEW y \in Nat, NEW e \in Nat, x * e # y * e
  PROVE  x * e >= y * e + e \/ y * e >= x * e + e
  <1>1. x # y
    OBVIOUS
  <1>2. ASSUME x < y PROVE y * e >= x * e + e
    <2>1. (x + 1) * e <= y * e /\ (x + 1) * e = x * e + e
      BY <1>2, TimesMonotone
    <2> QED
      BY <2>1
  <1>3. ASSUME y < x PROVE x * e >= y * e + e
    <2>1. (y + 1) * e <= x * e /\ (y + 1) * e = y * e + e
      BY <1>3, TimesMonotone
    <2> QED
      BY <2>1
  <1> QED
    BY <1>1, <1>2, <1>3

\* A sum of two numbers of a Float32, or a difference, that rounds to half-way
\* between two neighbours lies there.
LEMMA SumTie ==
  ASSUME NEW a \in Exponent, NEW b \in Exponent, b <= a,
         NEW k \in Nat, k <= Steps(Float32), NEW l \in Nat, l <= Steps(Float32),
         NEW X, X = k * Gap(Float32, a), NEW Y, Y = l * Gap(Float32, b),
         NEW Z \in Nat, Z = X + Y \/ Z = X - Y \/ Z = Y - X, Z <= Reach
  PROVE  TieIsReal(Z, 1)
  <1> DEFINE R == RoundedUnits(Float64, Z, 1)
             p == Steps(Float32)
  <1> SUFFICES ASSUME NEW i, NEW q, q \in Nat, Around(Float32, i, Z, 1),
                      2 * R = (2 * q + 1) * Gap(Float32, i)
               PROVE  2 * Z = ((2 * q + 1) * Gap(Float32, i)) * 1
    BY DEF TieIsReal
  <1>0. Float32 \in FloatingType /\ Float64 \in FloatingType
    BY SinglesAre
  <1>1. PICK j \in Exponent, m \in Nat :
           /\ Around(Float64, j, Z, 1)
           /\ m = Nearest(Z, Gap(Float64, j) * 1)
           /\ R = m * Gap(Float64, j)
    BY <1>0, RoundedGap
  <1> DEFINE s == Gap(Float64, j)
             g == Gap(Float32, i)
             x == Gap(Float32, a)
             y == Gap(Float32, b)
  <1>2. /\ s \in Nat \ {0} /\ g \in Nat \ {0} /\ x \in Nat \ {0} /\ y \in Nat \ {0}
        /\ p \in Nat /\ p >= 2 /\ p % 2 = 0 /\ a \in Nat /\ b \in Nat /\ i \in Exponent /\ i \in Nat
    <2>1. i \in Exponent
      BY DEF Around
    <2> QED
      BY <1>0, <2>1, GapIs, FormatIs, StepsAre
  <1>3. 2 * (p * s) <= g
    BY <1>1, SpacingRatio
  <1>4. X = k * x /\ Y = l * y /\ m = Nearest(Z, s) /\ R = m * s /\ R \in Nat /\ 2 * R = (2 * q + 1) * g
    <2>1. s * 1 = s
      BY <1>2
    <2> QED
      BY <1>0, <1>1, <2>1, RoundedOnGrid
  <1> HIDE DEF R
  <1>5. CASE \E c \in Nat \ {0} : y = c * s
    <2>1. PICK c \in Nat \ {0} : y = c * s
      BY <1>5
    <2>2. PICK d \in Nat \ {0} : x = d * y
      BY <1>0, GapsDivide
    <2> HIDE DEF s, x, y
    <2> DEFINE u == k * (d * c)
               v == l * c
    <2>3. u \in Nat /\ v \in Nat /\ X = u * s /\ Y = v * s
      BY <1>2, <1>4, <2>1, <2>2
    <2> HIDE DEF u, v
    <2>4. \E n \in Nat : Z = n * s
      <3>1. CASE Z = X + Y
        <4>1. u + v \in Nat /\ (u + v) * s = u * s + v * s
          BY <1>2, <2>3
        <4> QED
          BY <2>3, <3>1, <4>1
      <3>2. ASSUME NEW e \in Nat, NEW f \in Nat, Z = e * s - f * s PROVE \E n \in Nat : Z = n * s
        <4>1. CASE f <= e
          <5>1. e - f \in Nat /\ (e - f) * s = e * s - f * s
            BY <1>2, <4>1
          <5> QED
            BY <3>2, <5>1
        <4>2. CASE e < f
          <5>1. (e + 1) * s <= f * s /\ (e + 1) * s = e * s + s /\ e * s \in Nat /\ f * s \in Nat
            BY <1>2, <4>2, TimesMonotone
          <5> QED
            BY <1>2, <3>2, <5>1
        <4> QED
          BY <4>1, <4>2
      <3> QED
        BY <2>3, <3>1, <3>2
    <2>5. PICK n \in Nat : Z = n * s
      BY <2>4
    <2>6. m = n
      BY <1>2, <1>4, <2>5, NearestExact
    <2>7. R = Z
      BY <1>4, <2>5, <2>6
    <2>8. ((2 * q + 1) * g) * 1 = (2 * q + 1) * g
      <3>1. (2 * q + 1) * g \in Nat
        BY <1>2
      <3>2. \A whole \in Nat : whole * 1 = whole
        OBVIOUS
      <3> QED
        BY <3>1, <3>2
    <2>9. 2 * Z = (2 * q + 1) * g
      BY <1>4, <2>7
    <2> QED
      BY <2>8, <2>9, Zenon
  <1>6. CASE 2 * y <= s
    <2> DEFINE w == p * s
    <2>1. w \in Nat /\ s + s <= w /\ 2 * w <= g /\ Y \in Nat /\ 2 * Y <= w /\ X \in Nat
      <3> HIDE DEF s, x, y, g, p
      <3>1. 2 * s <= p * s /\ p * s \in Nat
        BY <1>2, TimesMonotone
      <3>2. l * y \in Nat /\ k * x \in Nat /\ 2 * (l * y) = (2 * y) * l /\ s * l = l * s
        BY <1>2
      <3>3. (2 * y) * l <= s * l
        BY <1>2, <1>6, TimesMonotone
      <3>4. l * s <= p * s /\ l * s \in Nat
        BY <1>2, TimesMonotone DEF p
      <3> QED
        BY <1>2, <1>3, <1>4, <3>1, <3>2, <3>3, <3>4
    <2>2. 2 * R <= 2 * Z + s /\ 2 * Z <= 2 * R + s
      <3> HIDE DEF s
      <3> QED
        BY <1>2, <1>4, NearestIs
    <2>3. g <= 2 * R
      <3> HIDE DEF g
      <3>1. (2 * q + 1) * g = 2 * (q * g) + g /\ q * g \in Nat
        BY <1>2
      <3> QED
        BY <1>2, <1>4, <3>1
    <2> HIDE DEF w
    <2>4. Z # Y - X
      <3>1. R \in Nat
        BY <1>4
      <3> HIDE DEF s, g
      <3> QED
        BY <1>2, <2>1, <2>2, <2>3, <3>1
    <2>5. 2 * X < 2 * R + g /\ 2 * R < 2 * X + g
      <3> HIDE DEF s, g
      <3> QED
        BY <1>2, <1>4, <2>1, <2>2, <2>4
    <2> DEFINE z == q * g
    <2>6. z \in Nat /\ 2 * R = 2 * z + g /\ z < X /\ X < z + g
      <3> HIDE DEF g
      <3>1. (2 * q + 1) * g = 2 * (q * g) + g /\ q * g \in Nat
        BY <1>2
      <3> QED
        BY <1>2, <1>4, <2>1, <2>5, <3>1
    <2>7. CASE i <= a
      <3>1. PICK c \in Nat \ {0} : x = c * g
        BY <1>0, <1>2, <2>7, GapsDivide
      <3> HIDE DEF x, g
      <3>2. X = (k * c) * g /\ k * c \in Nat
        <4>1. X = k * x
          BY <1>4
        <4>2. k * (c * g) = (k * c) * g /\ k * c \in Nat
          BY <1>2, <3>1
        <4> QED
          BY <3>1, <4>1, <4>2
      <3>3. X # q * g
        BY <2>6
      <3>4. X >= q * g + g \/ q * g >= X + g
        BY <1>2, <3>2, <3>3, MultiplesApart
      <3> QED
        BY <1>2, <2>1, <2>6, <3>4
    <2>8. CASE a < i
      <3>1. 2 * x <= g
        BY <1>0, <1>2, <2>8, GapsDivide
      <3>2. 2 * X <= p * g /\ p * g \in Nat
        <4> HIDE DEF x, g, p
        <4>1. 2 * (k * x) = (2 * x) * k /\ g * k = k * g
          BY <1>2
        <4>2. (2 * x) * k <= g * k
          BY <1>2, <3>1, TimesMonotone
        <4>3. k * g <= p * g /\ k * g \in Nat /\ p * g \in Nat
          BY <1>2, TimesMonotone DEF p
        <4> QED
          BY <1>4, <4>1, <4>2, <4>3
      <3>3. PICK h \in Nat \ {0} :
              g = 2 * h /\ \A n \in Nat : n <= Steps(Float64) => OnGrid(Float64, n * h)
        BY <1>2, HalfGap
      <3>4. p * h <= R
        <4>1. i > 0 /\ g = 2 * Gap(Float32, i - 1) /\ Gap(Float32, i - 1) \in Nat
          BY <1>0, <1>2, <2>8, GapIs
        <4>2. Gap(Float32, i - 1) = h
          <5> HIDE DEF g
          <5> QED
            BY <3>3, <4>1
        <4>3. (p * h) * 1 <= Z
          BY <1>2, <4>1, <4>2 DEF Around
        <4>4. p * h \in Nat /\ OnGrid(Float64, p * h)
          BY <1>2, <3>3, StepsAre
        <4> QED
          BY <1>0, <4>3, <4>4, FractionAbove DEF R
      <3>5. 2 * q >= p
        <4> HIDE DEF p, g
        <4>1. p * g <= (2 * q + 1) * g
          <5>1. p * g = 2 * (p * h) /\ p * h \in Nat
            BY <1>2, <3>3
          <5> QED
            BY <1>4, <3>4, <5>1
        <4>2. p <= 2 * q + 1
          <5>1. SUFFICES ASSUME 2 * q + 1 + 1 <= p PROVE FALSE
            BY <1>2
          <5>2. ((2 * q + 1) + 1) * g <= p * g /\ ((2 * q + 1) + 1) * g = (2 * q + 1) * g + g
            BY <1>2, <5>1, TimesMonotone
          <5>3. (2 * q + 1) * g \in Nat /\ p * g \in Nat
            BY <1>2
          <5> QED
            BY <1>2, <4>1, <5>2, <5>3
        <4> QED
          BY <1>2, <4>2
      <3>6. p * g <= (2 * q) * g /\ (2 * q) * g = 2 * z
        <4> HIDE DEF p, g
        <4> QED
          BY <1>2, <3>5, TimesMonotone
      <3> HIDE DEF z
      <3> QED
        BY <2>1, <2>6, <3>2, <3>6
    <2> QED
      BY <1>2, <2>7, <2>8
  <1>7. (\E c \in Nat \ {0} : y = c * s) \/ 2 * y <= s
    BY GapsCompare
  <1> QED
    BY <1>5, <1>6, <1>7

LEMMA TimesCancel ==
  ASSUME NEW x \in Nat, NEW y \in Nat, NEW d \in Nat, d > 0, x * d <= y * d
  PROVE  x <= y
  <1>1. SUFFICES ASSUME y + 1 <= x PROVE FALSE
    OBVIOUS
  <1>2. (y + 1) * d <= x * d /\ (y + 1) * d = y * d + d
    BY <1>1, TimesMonotone
  <1>3. x * d \in Nat /\ y * d \in Nat
    OBVIOUS
  <1> QED
    BY <1>2, <1>3

LEMMA PowerTimesDoubled ==
  ASSUME NEW a \in Exponent, NEW m, Doubled(m)
  PROVE  Doubled(Power[a] * m)
  <1> DEFINE A == Power[a]
  <1>1. A \in Nat \ {0} /\ m \in Nat \ {0} /\ a \in Nat /\ a <= MaxExponent /\ MaxExponent \in Nat
    BY PowerIs, SizesAre DEF Doubled, Exponent
  <1>2. \A x, y \in Nat \ {0} : x * y \in Nat \ {0}
    OBVIOUS
  <1>3. ASSUME NEW j \in Exponent, Power[j] <= A * m
        PROVE  \E q \in Nat \ {0} : A * m = q * Power[j]
    <2>1. Power[j] \in Nat \ {0} /\ j \in Nat /\ j <= MaxExponent
      BY PowerIs, SizesAre DEF Exponent
    <2>2. CASE j <= a
      <3>1. PICK q \in Nat \ {0} : A = q * Power[j]
        BY <2>2, PowerDivides
      <3> HIDE DEF A
      <3>2. A * m = (q * m) * Power[j]
        BY <1>1, <2>1, <3>1
      <3>3. q * m \in Nat \ {0}
        BY <1>1, <1>2
      <3> QED
        BY <3>2, <3>3
    <2>3. CASE a < j
      <3> DEFINE x == j - a
      <3>1. x \in Nat /\ x \in Exponent /\ a + x = j /\ a + x <= MaxExponent
        BY <1>1, <2>1, <2>3 DEF Exponent
      <3> HIDE DEF x
      <3>2. Power[j] = A * Power[x] /\ Power[x] \in Nat \ {0}
        BY <1>1, <3>1, PowerSum, PowerIs
      <3> HIDE DEF A
      <3>3. Power[x] <= m
        <4>1. Power[x] * A <= m * A
          BY <1>1, <1>3, <3>2
        <4> QED
          BY <1>1, <3>2, <4>1, TimesCancel
      <3>4. PICK q \in Nat \ {0} : m = q * Power[x]
        BY <3>1, <3>3 DEF Doubled
      <3>5. A * (q * Power[x]) = q * (A * Power[x])
        BY <1>1, <3>2
      <3> QED
        BY <3>2, <3>4, <3>5
    <2> QED
      BY <1>1, <2>1, <2>2, <2>3
  <1> QED
    BY <1>1, <1>2, <1>3 DEF Doubled

\* A product of two numbers of a Float32 is a number of the Float64.
LEMMA ProductExact ==
  ASSUME NEW a \in Exponent, NEW b \in Exponent,
         NEW k \in Nat, k <= Steps(Float32), NEW l \in Nat, l <= Steps(Float32),
         NEW X, X = k * Gap(Float32, a), NEW Y, Y = l * Gap(Float32, b), X * Y <= Reach
  PROVE  RoundedUnits(Float64, X * Y, Unit) * Unit = X * Y
  <1> DEFINE S3 == Smallest[3]
             S4 == Smallest[4]
             p == Steps(Float32)
             r == Steps(Float64)
  <1>0. Float64 \in FloatingType /\ Float32 \in FloatingType
    BY SinglesAre
  <1>1. PICK c \in Exponent : S3 = S4 * Power[c]
    BY FloatAssumption
  <1>2. PICK d \in Exponent : Unit = S3 * Power[d]
    BY FloatAssumption, SinglesAre
  <1>3. /\ S3 \in Nat \ {0} /\ S4 \in Nat \ {0} /\ Unit \in Nat \ {0}
        /\ c \in Nat /\ d \in Nat /\ c <= MaxExponent /\ d <= MaxExponent /\ MaxExponent \in Nat
    <2>1. S3 \in Nat \ {0} /\ S4 \in Nat \ {0} /\ Unit \in Nat \ {0}
      BY <1>0, FormatIs, SinglesAre, FloatAssumption
    <2> QED
      BY <2>1, SizesAre DEF Exponent
  <1>4. \A i \in Exponent : Power[i] \in Nat \ {0}
    BY PowerIs
  <1>5. d <= c
    <2>1. SUFFICES ASSUME c < d PROVE FALSE
      BY <1>3
    <2>2. 2 * Power[c] <= Power[d] /\ Power[c] \in Nat \ {0} /\ Power[d] \in Nat \ {0}
      BY <1>4, <2>1, PowerRises
    <2>3. S4 * Unit <= S3 * S3
      BY FloatAssumption
    <2> DEFINE w == S4 * S3
    <2>4. w \in Nat /\ w > 0 /\ S4 * Unit = Power[d] * w /\ S3 * S3 = Power[c] * w
      <3>1. w \in Nat /\ w > 0
        <4>1. \A x, y \in Nat \ {0} : x * y \in Nat /\ x * y > 0
          OBVIOUS
        <4> QED
          BY <1>3, <4>1
      <3>2. S4 * (S3 * Power[d]) = Power[d] * (S4 * S3) /\ S3 * (S4 * Power[c]) = Power[c] * (S4 * S3)
        BY <1>3, <2>2
      <3>3. S4 * Unit = Power[d] * w
        BY <1>2, <3>2
      <3>4. S3 * S3 = Power[c] * w
        BY <1>1, <3>2
      <3> QED
        BY <3>1, <3>3, <3>4
    <2> HIDE DEF w, S3, S4
    <2>5. Power[d] <= Power[c]
      BY <2>2, <2>3, <2>4, TimesCancel
    <2> QED
      BY <2>2, <2>5
  <1> DEFINE f == c - d
             A == Power[a]
             B == Power[b]
             F == Power[f]
             m == F * (A * B)
             Z == (k * l) * (S4 * m)
  <1>6. f \in Nat /\ f \in Exponent /\ f + d = c /\ f + d <= MaxExponent
    BY <1>3, <1>5 DEF Exponent
  <1> HIDE DEF f
  <1>7. Power[c] = F * Power[d]
    BY <1>3, <1>6, PowerSum
  <1>8. Doubled(m)
    BY <1>6, ProductDoubled, PowerTimesDoubled
  <1>9. A \in Nat \ {0} /\ B \in Nat \ {0} /\ F \in Nat \ {0} /\ Power[d] \in Nat \ {0} /\ m \in Nat
    <2>1. A \in Nat \ {0} /\ B \in Nat \ {0} /\ F \in Nat \ {0} /\ Power[d] \in Nat \ {0}
      BY <1>4, <1>6
    <2> QED
      BY <1>8, <2>1 DEF Doubled
  <1>10. X * Y = Z * Unit /\ Z \in Nat
    <2> DEFINE D == Power[d]
    <2>1. X = k * (S3 * A) /\ Y = l * (S3 * B) /\ S3 = S4 * (F * D) /\ Unit = S3 * D
      BY <1>1, <1>2, <1>7, SinglesAre DEF Gap
    <2>2. D \in Nat
      BY <1>9
    <2> HIDE DEF S3, S4, A, B, F, D, m
    <2>3. (k * (S3 * A)) * (l * (S3 * B)) = (k * l) * ((A * B) * (S3 * S3))
      BY <1>3, <1>9
    <2>4. S3 * S3 = (S4 * F) * (S3 * D)
      <3>1. (S4 * (F * D)) * S3 = (S4 * F) * (S3 * D)
        BY <1>3, <1>9, <2>2
      <3> QED
        BY <2>1, <3>1
    <2> DEFINE V == S3 * D
               n == k * l
               e == A * B
    <2>5. V \in Nat /\ n \in Nat /\ e \in Nat /\ m = F * e /\ X * Y = n * (e * (S3 * S3)) /\ V = Unit
          /\ S3 * S3 = (S4 * F) * V /\ Z = n * (S4 * m)
      <3>1. X * Y = (k * (S3 * A)) * (l * (S3 * B))
        BY <2>1
      <3>2. X * Y = n * (e * (S3 * S3))
        BY <2>3, <3>1
      <3>3. V \in Nat /\ n \in Nat /\ e \in Nat
        BY <1>3, <1>9, <2>2
      <3>4. m = F * e /\ V = Unit /\ S3 * S3 = (S4 * F) * V /\ Z = n * (S4 * m)
        BY <2>1, <2>4 DEF m
      <3> QED
        BY <3>2, <3>3, <3>4
    <2> HIDE DEF V, n, e, Z
    <2>6. n * (e * ((S4 * F) * V)) = (n * (S4 * (F * e))) * V
      BY <1>3, <1>9, <2>5
    <2>7. Z \in Nat
      BY <1>3, <1>9, <2>5
    <2> QED
      BY <2>5, <2>6, <2>7
  <1>11. k * l \in Nat /\ k * l <= r
    <2>1. p \in Nat /\ r \in Nat /\ 4 * (p * p) <= r
      BY StepsAre
    <2> HIDE DEF p, r
    <2>2. k * l <= p * l /\ l * p <= p * p /\ k * l \in Nat /\ p * p \in Nat /\ p * l = l * p /\ l * p \in Nat
      BY <2>1, TimesMonotone DEF p
    <2> QED
      BY <2>1, <2>2
  <1> DEFINE n == X * Y
  <1>12. n \in Nat /\ n <= Reach /\ Unit \in Nat /\ Unit > 0
    <2>1. Z * Unit \in Nat
      <3> HIDE DEF Z
      <3> QED
        BY <1>3, <1>10
    <2> QED
      BY <1>3, <1>10, <2>1
  <1>13. PICK j \in Exponent, q \in Nat :
           /\ Around(Float64, j, n, Unit)
           /\ q = Nearest(n, Gap(Float64, j) * Unit)
           /\ RoundedUnits(Float64, n, Unit) = q * Gap(Float64, j)
    <2> HIDE DEF n
    <2> QED
      BY <1>0, <1>12, RoundedGap
  <1>14. j > 0 => Z >= r * (Least(Float64) * Power[j - 1])
    <2> SUFFICES ASSUME j > 0 PROVE r * Gap(Float64, j - 1) <= Z
      BY DEF Gap
    <2>1. (r * Gap(Float64, j - 1)) * Unit <= Z * Unit
      BY <1>10, <1>13 DEF Around
    <2>2. r * Gap(Float64, j - 1) \in Nat
      <3>1. r \in Nat /\ Gap(Float64, j - 1) \in Nat
        BY <1>0, StepsAre, GapIs
      <3> QED
        BY <3>1
    <2> HIDE DEF Z, r
    <2> QED
      BY <1>10, <1>12, <2>1, <2>2, TimesCancel
  <1>15. PICK u \in Nat : Z = u * Gap(Float64, j)
    <2>1. Z = (k * l) * (Least(Float64) * m)
      BY SinglesAre
    <2> HIDE DEF Z, m
    <2>2. \E u \in Nat : Z = u * (Least(Float64) * Power[j])
      BY <1>0, <1>8, <1>11, <1>14, <2>1, SpacingDividesDoubled
    <2> QED
      BY <2>2 DEF Gap
  <1> DEFINE s == Gap(Float64, j)
  <1>16. s \in Nat \ {0}
    BY <1>0, GapIs
  <1>17. q = u
    <2> HIDE DEF Z
    <2>1. n = (u * s) * Unit
      BY <1>10, <1>15
    <2>2. q = Nearest(n, s * Unit)
      BY <1>13
    <2> HIDE DEF s, n
    <2>3. (u * s) * Unit = u * (s * Unit)
      BY <1>12, <1>16
    <2>4. s * Unit \in Nat /\ s * Unit > 0
      <3>1. \A x, y \in Nat \ {0} : x * y \in Nat /\ x * y > 0
        OBVIOUS
      <3> QED
        BY <1>3, <1>16, <3>1
    <2>5. Nearest(u * (s * Unit), s * Unit) = u
      BY <2>4, NearestExact
    <2> QED
      BY <2>1, <2>2, <2>3, <2>5
  <1>18. RoundedUnits(Float64, n, Unit) = Z
    BY <1>13, <1>15, <1>17
  <1> QED
    BY <1>10, <1>18

\* A quotient of two numbers of a Float32 that rounds to half-way between two
\* neighbours lies there.
LEMMA RatioTie ==
  ASSUME NEW a \in Exponent, NEW b \in Exponent,
         NEW k \in Nat, k <= Steps(Float32), NEW l \in Nat, l <= Steps(Float32),
         NEW X, X = k * Gap(Float32, a), NEW Y, Y = l * Gap(Float32, b), Y > 0,
         X * Unit <= Reach
  PROVE  TieIsReal(X * Unit, Y)
  <1> DEFINE n == X * Unit
             R == RoundedUnits(Float64, n, Y)
             p == Steps(Float32)
  <1> SUFFICES ASSUME NEW i, NEW q, q \in Nat, Around(Float32, i, n, Y),
                      2 * R = (2 * q + 1) * Gap(Float32, i)
               PROVE  2 * n = ((2 * q + 1) * Gap(Float32, i)) * Y
    BY DEF TieIsReal
  <1> DEFINE g == Gap(Float32, i)
             x == Gap(Float32, a)
             y == Gap(Float32, b)
  <1>0. Float32 \in FloatingType /\ Float64 \in FloatingType
    BY SinglesAre
  <1>1. /\ g \in Nat \ {0} /\ x \in Nat \ {0} /\ y \in Nat \ {0}
        /\ p \in Nat /\ p >= 2 /\ i \in Exponent /\ Unit \in Nat \ {0}
    <2>1. i \in Exponent
      BY DEF Around
    <2> QED
      BY <1>0, <2>1, GapIs, StepsAre, FloatAssumption
  <1>2. X \in Nat /\ Y \in Nat /\ n \in Nat /\ n <= Reach
    <2> HIDE DEF x, y, p
    <2>1. X \in Nat /\ Y \in Nat
      BY <1>1 DEF x, y
    <2> QED
      BY <1>1, <2>1
  <1>3. PICK j \in Exponent, m \in Nat :
           /\ Around(Float64, j, n, Y)
           /\ m = Nearest(n, Gap(Float64, j) * Y)
           /\ R = m * Gap(Float64, j)
    <2> HIDE DEF n
    <2> QED
      BY <1>0, <1>2, RoundedGap
  <1> DEFINE s == Gap(Float64, j)
             L == (2 * q + 1) * g
  <1>4. s \in Nat \ {0} /\ 2 * (p * s) <= g /\ L \in Nat
    <2>1. s \in Nat \ {0} /\ 2 * (p * s) <= g
      <3> HIDE DEF n
      <3> QED
        BY <1>0, <1>2, <1>3, GapIs, SpacingRatio
    <2> HIDE DEF g
    <2> QED
      BY <1>1, <2>1
  <1>5. L * Y <= 2 * n + s * Y /\ 2 * n <= L * Y + s * Y /\ L * Y \in Nat /\ s * Y \in Nat
    <2> DEFINE e == s * Y
    <2>1. e \in Nat /\ e > 0
      <3>1. \A u, v \in Nat \ {0} : u * v \in Nat /\ u * v > 0
        OBVIOUS
      <3> HIDE DEF s
      <3> QED
        BY <1>2, <1>4, <3>1
    <2>2. m = Nearest(n, e) /\ 2 * (m * s) = L
      BY <1>3
    <2> HIDE DEF n, L, s
    <2>3. 2 * (m * e) = L * Y
      <3>1. 2 * (m * (s * Y)) = (2 * (m * s)) * Y
        BY <1>2, <1>4
      <3> QED
        BY <2>2, <3>1
    <2> HIDE DEF e
    <2>4. 2 * (m * e) <= 2 * n + e /\ 2 * n <= 2 * (m * e) + e
      BY <1>2, <2>1, <2>2, NearestIs
    <2>5. L * Y \in Nat
      BY <1>2, <1>4
    <2> QED
      BY <2>1, <2>3, <2>4, <2>5 DEF e
  <1>6. SUFFICES ASSUME 2 * n # L * Y PROVE FALSE
    OBVIOUS
  <1> DEFINE S == Smallest[3]
             I == Power[i]
             A == Power[a]
             B == Power[b]
  <1>7. PICK d \in Exponent : Unit = S * Power[d]
    BY FloatAssumption, SinglesAre
  <1> DEFINE D == Power[d]
             W == S * S
  <1>8. /\ S \in Nat \ {0} /\ I \in Nat \ {0} /\ A \in Nat \ {0} /\ B \in Nat \ {0} /\ D \in Nat \ {0}
        /\ g = S * I /\ x = S * A /\ y = S * B /\ Unit = S * D /\ W \in Nat
    <2>1. S \in Nat \ {0} /\ g = S * I /\ x = S * A /\ y = S * B /\ Unit = S * D
      BY <1>0, <1>7, SinglesAre, FormatIs DEF Gap
    <2>2. I \in Nat \ {0} /\ A \in Nat \ {0} /\ B \in Nat \ {0} /\ D \in Nat \ {0}
      BY <1>1, PowerIs
    <2> HIDE DEF S
    <2>3. S * S \in Nat
      BY <2>1
    <2> QED
      BY <2>1, <2>2, <2>3
  <1>9. X = k * x /\ Y = l * y
    OBVIOUS
  <1> DEFINE E == W * (I * B)
             G == W * (A * D)
             K == (2 * q + 1) * l
  <1>10. /\ L * Y = K * E /\ 2 * n = (2 * k) * G /\ E = g * y /\ G = x * Unit
         /\ E \in Nat /\ G \in Nat /\ K \in Nat
    <2> HIDE DEF g, x, y, S, I, A, B, D
    <2>1. K \in Nat
      BY <1>2
    <2>2. L * Y = K * (g * y)
      <3>1. ((2 * q + 1) * g) * (l * y) = ((2 * q + 1) * l) * (g * y)
        BY <1>1
      <3> QED
        BY <1>9, <3>1
    <2>3. 2 * n = (2 * k) * (x * Unit)
      <3>1. 2 * ((k * x) * Unit) = (2 * k) * (x * Unit)
        BY <1>1
      <3> QED
        BY <1>9, <3>1
    <2>4. E = g * y /\ G = x * Unit
      <3>1. (S * I) * (S * B) = (S * S) * (I * B) /\ (S * A) * (S * D) = (S * S) * (A * D)
        BY <1>8
      <3> QED
        BY <1>8, <3>1
    <2>5. g * y \in Nat /\ x * Unit \in Nat
      BY <1>1
    <2> HIDE DEF E, G, K, L, n
    <2> QED
      BY <2>1, <2>2, <2>3, <2>4, <2>5
  <1>11. i \in Nat /\ a \in Nat /\ b \in Nat /\ d \in Nat
    BY <1>1, SizesAre DEF Exponent
  <1>12. CASE i + b <= a + d
    <2>1. PICK c \in Nat \ {0} : A * D = c * (I * B)
      BY <1>1, <1>12, ProductsDivide
    <2>2. 2 * n = (2 * k * c) * E /\ 2 * k * c \in Nat
      <3> HIDE DEF A, D, I, B, W, n
      <3> DEFINE e == I * B
      <3>1. e \in Nat
        BY <1>8
      <3> HIDE DEF e
      <3>2. (2 * k) * (W * (c * e)) = (2 * k * c) * (W * e) /\ 2 * k * c \in Nat
        BY <1>8, <2>1, <3>1
      <3> QED
        BY <1>10, <2>1, <3>2 DEF e
    <2>3. E <= s * Y
      <3> HIDE DEF E, K, L, n, s
      <3>1. K * E # (2 * k * c) * E
        BY <1>6, <1>10, <2>2
      <3>2. K * E >= (2 * k * c) * E + E \/ (2 * k * c) * E >= K * E + E
        BY <1>10, <2>2, <3>1, MultiplesApart
      <3> QED
        BY <1>2, <1>5, <1>10, <2>2, <3>2
    <2>4. g <= s * l
      <3> HIDE DEF E, g, y, s
      <3>1. s * (l * y) = (s * l) * y /\ s * l \in Nat
        BY <1>1, <1>4
      <3>2. g * y <= (s * l) * y
        BY <1>9, <1>10, <2>3, <3>1
      <3> QED
        BY <1>1, <3>1, <3>2, TimesCancel
    <2>5. s * l <= p * s
      <3> HIDE DEF p, s
      <3>1. l * s <= p * s /\ l * s = s * l
        BY <1>1, <1>4, TimesMonotone DEF p
      <3> QED
        BY <3>1
    <2>6. p * s \in Nat /\ s * l \in Nat
      BY <1>1, <1>4
    <2> HIDE DEF p, s, g
    <2> QED
      BY <1>1, <1>4, <2>4, <2>5, <2>6
  <1>13. CASE a + d < i + b
    <2>1. PICK c \in Nat \ {0} : I * B = (2 * c) * (A * D)
      BY <1>1, <1>13, ProductsDivideTwice
    <2> DEFINE H == 2 * G
    <2>2. L * Y = (K * c) * H /\ K * c \in Nat /\ 2 * n = k * H /\ H \in Nat
      <3> DEFINE e == A * D
      <3>1. e \in Nat
        BY <1>8
      <3>2. E = W * ((2 * c) * e) /\ H = 2 * (W * e)
        BY <2>1
      <3> HIDE DEF e, A, D, I, B, W, n, K, L
      <3>3. K * (W * ((2 * c) * e)) = (K * c) * (2 * (W * e)) /\ K * c \in Nat
        BY <1>8, <1>10, <2>1, <3>1
      <3>4. L * Y = (K * c) * H
        BY <1>10, <3>2, <3>3
      <3> HIDE DEF G
      <3>5. (2 * k) * G = k * (2 * G) /\ 2 * G \in Nat
        BY <1>10
      <3> QED
        BY <1>10, <3>3, <3>4, <3>5
    <2> HIDE DEF H, E, K, L, n, s, g, p
    <2>3. H <= s * Y
      <3>1. (K * c) * H # k * H
        BY <1>6, <2>2
      <3>2. (K * c) * H >= k * H + H \/ k * H >= (K * c) * H + H
        BY <2>2, <3>1, MultiplesApart
      <3> QED
        BY <1>2, <1>5, <2>2, <3>2
    <2> DEFINE t == s * Y
               w == p * s
    <2>4. t \in Nat /\ H <= t /\ L * Y <= 2 * n + t /\ L * Y \in Nat
      BY <1>5, <2>3
    <2>5. w \in Nat /\ p * t = w * Y /\ p * t \in Nat
      <3>1. p * (s * Y) = (p * s) * Y /\ p * s \in Nat /\ (p * s) * Y \in Nat
        BY <1>1, <1>2, <1>4
      <3> QED
        BY <3>1
    <2>6. 2 * n <= p * t
      <3> HIDE DEF t, w
      <3>1. k * t <= p * t /\ H * k <= t * k /\ k * t = t * k /\ k * H = H * k
        BY <1>1, <2>2, <2>4, TimesMonotone DEF p
      <3>2. k * t \in Nat /\ p * t \in Nat /\ k * H \in Nat
        BY <1>1, <2>2, <2>4
      <3> QED
        BY <2>2, <3>1, <3>2
    <2>7. L <= w + s
      <3>1. (w + s) * Y = w * Y + s * Y /\ w + s \in Nat
        BY <1>2, <1>4, <2>5
      <3>2. L * Y <= (w + s) * Y
        <4> HIDE DEF t, w
        <4> QED
          BY <1>2, <2>4, <2>5, <2>6, <3>1 DEF t
      <3> HIDE DEF w
      <3> QED
        BY <1>2, <1>4, <3>1, <3>2, TimesCancel
    <2>8. g <= L
      <3>1. (2 * q + 1) * g = 2 * (q * g) + g /\ q * g \in Nat
        BY <1>1
      <3> QED
        BY <1>1, <3>1 DEF L
    <2>9. s + s <= w
      <3>1. 2 * s <= p * s /\ 2 * s = s + s
        BY <1>1, <1>4, TimesMonotone
      <3> QED
        BY <3>1
    <2>10. 2 * w <= g
      BY <1>4
    <2> HIDE DEF w
    <2> QED
      BY <1>1, <1>4, <2>5, <2>7, <2>8, <2>9, <2>10
  <1> QED
    BY <1>11, <1>12, <1>13

\* Under that condition, what a Float64 makes of a magnitude and a Float32 of
\* that is what the Float32 makes of the magnitude.
LEMMA RoundedTwice ==
  ASSUME NEW sign, NEW num \in Nat, NEW den \in Nat, den > 0, num <= Reach, TieIsReal(num, den)
  PROVE  Float(Float32, Rounded(Float64, sign, num, den)) = Rounded(Float32, sign, num, den)
  <1> DEFINE R == RoundedUnits(Float64, num, den)
             V == RoundedUnits(Float32, num, den)
  <1>0. Float32 \in FloatingType /\ Float64 \in FloatingType
    BY SinglesAre
  <1>1. /\ R \in Nat /\ V \in Nat
        /\ Largest[3] \in Nat /\ Largest[4] \in Nat /\ Largest[4] <= Reach /\ Reach \in Nat
    BY <1>0, RoundedOnGrid, RangesAre, SinglesAre, FormatIs
  <1>2. /\ Rounded(Float64, sign, num, den) = IF R > Largest[4] THEN Infinity(sign) ELSE Finite(sign, R)
        /\ Rounded(Float32, sign, num, den) = IF V > Largest[3] THEN Infinity(sign) ELSE Finite(sign, V)
    BY <1>0, SinglesAre, FormatIs DEF Rounded
  <1>3. CASE R <= Largest[4]
    <2>1. ~(R > Largest[4]) /\ R <= Reach
      BY <1>1, <1>3
    <2>2. RoundedUnits(Float32, R, 1) = V
      BY <2>1, DoubleRounding
    <2> HIDE DEF R, V
    <2> DEFINE x == Finite(sign, R)
    <2>3. Rounded(Float64, sign, num, den) = x /\ IsFinite(x) /\ x.sign = sign /\ x.units = R
      BY <1>2, <2>1 DEF Finite, IsFinite
    <2> HIDE DEF x
    <2>4. Float(Float32, x) = Rounded(Float32, sign, R, 1)
      BY <2>3 DEF Float
    <2>5. Rounded(Float32, sign, R, 1) = IF V > Largest[3] THEN Infinity(sign) ELSE Finite(sign, V)
      BY <1>0, <2>2, SinglesAre, FormatIs DEF Rounded
    <2> QED
      BY <1>2, <2>3, <2>4, <2>5
  <1>4. CASE R > Largest[4]
    <2>1. V > Largest[3]
      <3>1. SUFFICES ASSUME V <= Largest[3] PROVE R <= Largest[4]
        BY <1>1, <1>4
      <3>2. PICK i \in Exponent, k \in Nat :
               /\ Around(Float32, i, num, den)
               /\ k <= Steps(Float32) /\ k = Nearest(num, Gap(Float32, i) * den)
               /\ V = k * Gap(Float32, i)
        BY <1>0, RoundedGap
      <3> DEFINE g == Gap(Float32, i)
                 p == Steps(Float32)
      <3>3. PICK h \in Nat \ {0} :
               g = 2 * h /\ \A n \in Nat : n <= Steps(Float64) => OnGrid(Float64, n * h)
        BY HalfGap
      <3>4. g \in Nat \ {0} /\ p \in Nat /\ p >= 2 /\ 4 * (p * p) <= Steps(Float64) /\ Steps(Float64) \in Nat
        BY <1>0, GapIs, StepsAre
      <3>5. 2 * num <= 2 * ((k * g) * den) + g * den /\ g * den \in Nat /\ g * den > 0
        <4> DEFINE e == g * den
        <4>1. e \in Nat /\ e > 0
          <5>1. \A u, v \in Nat \ {0} : u * v \in Nat /\ u * v > 0
            OBVIOUS
          <5> HIDE DEF g
          <5> QED
            BY <3>4, <5>1
        <4>2. k * e = (k * g) * den
          <5> HIDE DEF g
          <5> QED
            BY <3>4
        <4>3. k = Nearest(num, e)
          BY <3>2
        <4> HIDE DEF e
        <4>4. 2 * num <= 2 * (k * e) + e
          BY <4>1, <4>3, NearestIs
        <4> QED
          BY <4>1, <4>2, <4>4 DEF e
      <3>6. CASE k = 0
        <4>1. i = 0
          <5>1. SUFFICES ASSUME i > 0 PROVE FALSE
            BY GapIs, <1>0
          <5>2. g = 2 * Gap(Float32, i - 1) /\ Gap(Float32, i - 1) \in Nat
            BY <1>0, <5>1, GapIs
          <5>3. num >= (p * h) * den
            <6>1. Gap(Float32, i - 1) = h
              <7> HIDE DEF g
              <7> QED
                BY <3>3, <5>2
            <6> QED
              BY <3>2, <5>1, <6>1 DEF Around
          <5> HIDE DEF g, p
          <5>4. 2 * h <= p * h /\ p * h \in Nat
            BY <3>4, TimesMonotone
          <5>5. (2 * h) * den <= (p * h) * den /\ (2 * h) * den \in Nat /\ (p * h) * den \in Nat
            BY <5>4, TimesMonotone
          <5>6. (k * g) * den = 0
            BY <3>4, <3>6
          <5>7. g * den <= num /\ 2 * num <= g * den
            BY <3>3, <3>5, <5>3, <5>5, <5>6
          <5> QED
            BY <3>5, <5>7
        <4>2. g = Smallest[3]
          <5>1. Least(Float32) \in Nat /\ Least(Float32) * 1 = Least(Float32) /\ Power[0] = 1
            BY <1>0, FormatIs, PowerAssumption
          <5> QED
            BY <4>1, <5>1, SinglesAre DEF Gap
        <4>3. g <= Largest[4]
          <5>1. PICK d \in Exponent : Unit = Smallest[3] * Power[d]
            BY SinglesAre, FloatAssumption
          <5>2. Power[d] \in Nat \ {0} /\ Modulus[4] \in Nat /\ Modulus[4] >= 1
            BY PowerIs, RangesAre
          <5>3. Modulus[4] * Unit <= Largest[4] /\ Unit \in Nat
            BY SinglesAre, FloatAssumption
          <5> HIDE DEF g
          <5>4. 1 * g <= Power[d] * g /\ Power[d] * g = g * Power[d] /\ 1 * g = g
            BY <3>4, <5>2, TimesMonotone
          <5>5. 1 * Unit <= Modulus[4] * Unit /\ 1 * Unit = Unit /\ Modulus[4] * Unit \in Nat
            BY <5>2, <5>3, TimesMonotone
          <5> QED
            BY <1>1, <3>4, <4>2, <5>1, <5>3, <5>4, <5>5
        <4>4. OnGrid(Float64, 2 * h) /\ 2 * h \in Nat
          <5> HIDE DEF p
          <5>1. 2 * p <= p * p /\ p * p \in Nat
            BY <3>4, TimesMonotone
          <5>2. 2 <= Steps(Float64)
            BY <3>4, <5>1
          <5> QED
            BY <3>3, <5>2
        <4>5. num <= (2 * h) * den
          <5> HIDE DEF g
          <5>1. (k * g) * den = 0
            BY <3>4, <3>6
          <5> QED
            BY <3>3, <3>5, <5>1
        <4>6. R <= 2 * h
          BY <1>0, <4>4, <4>5, FractionBelow
        <4> HIDE DEF g, R
        <4> QED
          BY <1>1, <3>3, <4>3, <4>4, <4>6
      <3>7. CASE k # 0
        <4> DEFINE n == (4 * k) * h
        <4>1. 4 * k \in Nat /\ 4 * k <= Steps(Float64)
          <5> HIDE DEF p
          <5>1. 2 * p <= p * p /\ p * p \in Nat
            BY <3>4, TimesMonotone
          <5>2. k <= p
            BY <3>2 DEF p
          <5> QED
            BY <3>4, <5>1, <5>2
        <4>2. OnGrid(Float64, n) /\ n \in Nat
          BY <3>3, <4>1
        <4>3. n = 2 * V
          <5>1. V = k * (2 * h)
            BY <3>2, <3>3
          <5>2. (4 * k) * h = 2 * (k * (2 * h))
            BY <3>3
          <5> QED
            BY <5>1, <5>2
        <4>4. num <= n * den
          <5> HIDE DEF g, V, n
          <5>1. V = k * g
            BY <3>2 DEF g
          <5>2. 1 * g <= k * g /\ 1 * g = g
            BY <3>4, <3>7, TimesMonotone
          <5>3. g * den <= V * den
            BY <1>1, <3>4, <5>1, <5>2, TimesMonotone
          <5>4. n * den = 2 * (V * den) /\ V * den \in Nat
            BY <1>1, <4>3
          <5> QED
            BY <3>5, <5>1, <5>3, <5>4
        <4>5. R <= n
          BY <1>0, <4>2, <4>4, FractionBelow
        <4>6. 2 * Largest[3] <= Largest[4]
          BY FloatAssumption
        <4> HIDE DEF V, n, R
        <4> QED
          BY <1>1, <3>1, <4>2, <4>3, <4>5, <4>6
      <3> QED
        BY <3>6, <3>7
    <2>2. Rounded(Float64, sign, num, den) = Infinity(sign) /\ Rounded(Float32, sign, num, den) = Infinity(sign)
      BY <1>2, <1>4, <2>1
    <2>3. ~IsFinite(Infinity(sign))
      BY DEF IsFinite, Infinity
    <2> QED
      BY <2>2, <2>3 DEF Float
  <1> QED
    BY <1>1, <1>3, <1>4

\* A finite value of a Float32 in terms of its distances.
LEMMA SingleIs ==
  ASSUME NEW x, ValueOf(Float32, x), IsFinite(x)
  PROVE  /\ x.sign \in {1, -1} /\ x.units \in Nat /\ x.units <= Largest[4]
         /\ \E k \in Nat, a \in Exponent : k <= Steps(Float32) /\ x.units = k * Gap(Float32, a)
  <1>1. Float32 \in FloatingType /\ Float32 \in AnyType
    BY SinglesAre DEF AnyType
  <1>2. x.sign \in {1, -1} /\ x.units \in Nat /\ x.units <= Largest[4]
    BY <1>1, ValueIs
  <1>3. x.units <= Reach
    BY <1>2, RangesAre
  <1>4. x # NaN /\ x \notin {Infinity(1), Infinity(-1)}
    BY DEF IsFinite, NaN, Infinity
  <1>5. RoundedUnits(Float32, x.units, 1) = x.units
    BY <1>1, <1>4 DEF ValueOf
  <1>6. \E i \in Exponent, k \in Nat :
           k <= Steps(Float32) /\ RoundedUnits(Float32, x.units, 1) = k * Gap(Float32, i)
    BY <1>1, <1>2, <1>3, RoundedGap
  <1> QED
    BY <1>2, <1>5, <1>6

\* Each computation with numbers of a Float32, in a Float64 and rounded again.
LEMMA UnroundedTwice ==
  ASSUME NEW x, ~IsFinite(x) \/ (\E sign : x = Finite(sign, 0))
  PROVE  Float(Float32, x) = x
  <1>1. CASE ~IsFinite(x)
    BY <1>1 DEF Float
  <1>2. CASE \E sign : x = Finite(sign, 0)
    <2>1. PICK sign : x = Finite(sign, 0)
      BY <1>2
    <2>2. IsFinite(x) /\ x.sign = sign /\ x.units = 0
      BY <2>1 DEF IsFinite, Finite
    <2>3. Float(Float32, x) = Rounded(Float32, sign, 0, 1)
      BY <2>2 DEF Float
    <2>4. Rounded(Float32, sign, 0, 1) = IF 0 > Largest[3] THEN Infinity(sign) ELSE Finite(sign, 0)
      BY SinglesAre, FormatIs, ZeroRounds DEF Rounded
    <2>5. ~(0 > Largest[3])
      BY SinglesAre, FormatIs
    <2> QED
      BY <2>1, <2>3, <2>4, <2>5
  <1> QED
    BY <1>1, <1>2

LEMMA SumTwice ==
  ASSUME NEW x, NEW y, ValueOf(Float32, x), ValueOf(Float32, y)
  PROVE  Float(Float32, Sum(Float64, x, y)) = Sum(Float32, x, y)
  <1> DEFINE s == Real(x) + Real(y)
             sign == IF s < 0 THEN -1 ELSE 1
             n == Magnitude(s)
  <1>1. CASE IsFinite(x) /\ IsFinite(y) /\ s # 0
    <2>1. x # NaN /\ y # NaN
      BY <1>1 DEF IsFinite, NaN
    <2>2. \A t : Sum(t, x, y) = Rounded(t, sign, n, 1)
      BY <1>1, <2>1 DEF Sum
    <2> DEFINE X == x.units
               Y == y.units
    <2>3. PICK k \in Nat, a \in Exponent : k <= Steps(Float32) /\ X = k * Gap(Float32, a)
      BY <1>1, SingleIs
    <2>4. PICK l \in Nat, b \in Exponent : l <= Steps(Float32) /\ Y = l * Gap(Float32, b)
      BY <1>1, SingleIs
    <2>5. X \in Nat /\ Y \in Nat /\ X <= Largest[4] /\ Y <= Largest[4]
          /\ x.sign \in {1, -1} /\ y.sign \in {1, -1}
      BY <1>1, SingleIs
    <2>6. n \in Nat /\ (n = X + Y \/ n = X - Y \/ n = Y - X)
      <3> HIDE DEF X, Y
      <3>1. s = x.sign * X + y.sign * Y
        BY DEF Real, X, Y
      <3>2. s \in {X + Y, X - Y, Y - X, -X - Y}
        BY <2>5, <3>1
      <3> HIDE DEF s
      <3> QED
        BY <2>5, <3>2 DEF Magnitude
    <2> HIDE DEF X, Y, n, s
    <2>7. n <= Reach
      BY <2>5, <2>6, RangesAre
    <2>8. TieIsReal(n, 1)
      <3>1. CASE b <= a
        BY <2>3, <2>4, <2>6, <2>7, <3>1, SumTie
      <3>2. CASE a <= b
        <4>1. n = Y + X \/ n = Y - X \/ n = X - Y
          BY <2>5, <2>6
        <4> QED
          BY <2>3, <2>4, <2>6, <2>7, <3>2, <4>1, SumTie
      <3>3. a \in Nat /\ b \in Nat
        BY SizesAre DEF Exponent
      <3> QED
        BY <3>1, <3>2, <3>3
    <2> HIDE DEF sign
    <2> QED
      BY <2>2, <2>6, <2>7, <2>8, RoundedTwice
  <1>2. CASE ~(IsFinite(x) /\ IsFinite(y) /\ s # 0)
    <2>1. ~IsFinite(NaN)
      BY DEF IsFinite, NaN
    <2>2. /\ Sum(Float64, x, y) = Sum(Float32, x, y)
          /\ ~IsFinite(Sum(Float32, x, y)) \/ (\E e : Sum(Float32, x, y) = Finite(e, 0))
      <3> HIDE DEF s
      <3> QED
        BY <1>2, <2>1 DEF Sum, s
    <2> QED
      BY <2>2, UnroundedTwice
  <1> QED
    BY <1>1, <1>2

LEMMA ProductTwice ==
  ASSUME NEW x, NEW y, ValueOf(Float32, x), ValueOf(Float32, y)
  PROVE  Float(Float32, Product(Float64, x, y)) = Product(Float32, x, y)
  <1> DEFINE sign == x.sign * y.sign
             n == x.units * y.units
  <1>1. CASE IsFinite(x) /\ IsFinite(y)
    <2>1. x # NaN /\ y # NaN
      BY <1>1 DEF IsFinite, NaN
    <2>2. \A t : Product(t, x, y) = Rounded(t, sign, n, Unit)
      BY <1>1, <2>1 DEF Product
    <2>3. PICK k \in Nat, a \in Exponent : k <= Steps(Float32) /\ x.units = k * Gap(Float32, a)
      BY <1>1, SingleIs
    <2>4. PICK l \in Nat, b \in Exponent : l <= Steps(Float32) /\ y.units = l * Gap(Float32, b)
      BY <1>1, SingleIs
    <2>5. n \in Nat /\ n <= Reach /\ Unit \in Nat /\ Unit > 0
      BY <1>1, SingleIs, ProductReach, RangesAre
    <2>6. RoundedUnits(Float64, n, Unit) * Unit = n /\ RoundedUnits(Float64, n, Unit) \in Nat
      BY <2>3, <2>4, <2>5, ProductExact, SinglesAre, RoundedOnGrid
    <2> HIDE DEF n, sign
    <2>7. TieIsReal(n, Unit)
      <3> DEFINE R == RoundedUnits(Float64, n, Unit)
      <3> HIDE DEF R
      <3> SUFFICES ASSUME NEW i, NEW q, q \in Nat, Around(Float32, i, n, Unit),
                          2 * R = (2 * q + 1) * Gap(Float32, i)
                   PROVE  2 * n = ((2 * q + 1) * Gap(Float32, i)) * Unit
        BY DEF TieIsReal, R
      <3>1. R * Unit = n /\ R \in Nat
        BY <2>6 DEF R
      <3>2. 2 * (R * Unit) = (2 * R) * Unit
        BY <2>5, <3>1
      <3> QED
        BY <3>1, <3>2
    <2> QED
      BY <2>2, <2>5, <2>7, RoundedTwice
  <1>2. CASE ~(IsFinite(x) /\ IsFinite(y))
    <2>1. ~IsFinite(NaN) /\ ~IsFinite(Infinity(sign))
      BY DEF IsFinite, NaN, Infinity
    <2>2. Product(Float64, x, y) = Product(Float32, x, y) /\ ~IsFinite(Product(Float32, x, y))
      BY <1>2, <2>1 DEF Product
    <2> QED
      BY <2>2, UnroundedTwice
  <1> QED
    BY <1>1, <1>2

LEMMA RatioTwice ==
  ASSUME NEW x, NEW y, ValueOf(Float32, x), ValueOf(Float32, y)
  PROVE  Float(Float32, Ratio(Float64, x, y)) = Ratio(Float32, x, y)
  <1> DEFINE sign == x.sign * y.sign
             n == x.units * Unit
  <1>1. CASE IsFinite(x) /\ IsFinite(y) /\ y.units # 0
    <2>1. x # NaN /\ y # NaN /\ ~IsZero(y)
      BY <1>1 DEF IsFinite, IsZero, NaN
    <2>2. \A t : Ratio(t, x, y) = Rounded(t, sign, n, y.units)
      BY <1>1, <2>1 DEF Ratio
    <2>3. PICK k \in Nat, a \in Exponent : k <= Steps(Float32) /\ x.units = k * Gap(Float32, a)
      BY <1>1, SingleIs
    <2>4. PICK l \in Nat, b \in Exponent : l <= Steps(Float32) /\ y.units = l * Gap(Float32, b)
      BY <1>1, SingleIs
    <2>5. n \in Nat /\ n <= Reach /\ y.units \in Nat /\ y.units > 0
      <3>1. x.units \in Nat /\ x.units <= Largest[4] /\ y.units \in Nat
        BY <1>1, SingleIs
      <3>2. Largest[4] \in Nat /\ Unit \in Nat /\ Largest[4] * Unit <= Reach /\ Reach \in Nat
        BY RangesAre
      <3>3. x.units * Unit <= Largest[4] * Unit /\ x.units * Unit \in Nat /\ Largest[4] * Unit \in Nat
        BY <3>1, <3>2, TimesMonotone
      <3> QED
        BY <1>1, <3>1, <3>2, <3>3
    <2>6. TieIsReal(n, y.units)
      BY <2>3, <2>4, <2>5, RatioTie
    <2> HIDE DEF n, sign
    <2> QED
      BY <2>2, <2>5, <2>6, RoundedTwice
  <1>2. CASE ~(IsFinite(x) /\ IsFinite(y) /\ y.units # 0)
    <2>1. ~IsFinite(NaN) /\ ~IsFinite(Infinity(sign))
      BY DEF IsFinite, NaN, Infinity
    <2>2. /\ Ratio(Float64, x, y) = Ratio(Float32, x, y)
          /\ ~IsFinite(Ratio(Float32, x, y)) \/ (\E e : Ratio(Float32, x, y) = Finite(e, 0))
      BY <1>2, <2>1 DEF Ratio, IsZero
    <2> QED
      BY <2>2, UnroundedTwice
  <1> QED
    BY <1>1, <1>2

LEMMA ComputedTwice ==
  ASSUME NEW op \in FloatOp, NEW x, NEW y, ValueOf(Float32, x), ValueOf(Float32, y)
  PROVE  Float(Float32, Computed(op, Float64, x, y)) = Computed(op, Float32, x, y)
  <1>1. op \in {"+", "-", "*", "/"}
    BY DEF FloatOp, RingOp
  <1>2. ValueOf(Float32, Opposite(y))
    BY SinglesAre, OppositeTyped
  <1>2a. /\ Float(Float32, Sum(Float64, x, y)) = Sum(Float32, x, y)
        /\ Float(Float32, Sum(Float64, x, Opposite(y))) = Sum(Float32, x, Opposite(y))
        /\ Float(Float32, Product(Float64, x, y)) = Product(Float32, x, y)
        /\ Float(Float32, Ratio(Float64, x, y)) = Ratio(Float32, x, y)
    BY <1>2, SumTwice, ProductTwice, RatioTwice
  <1>3. CASE op = "+"
    BY <1>2a, <1>3, ComputedIs, Zenon
  <1>4. CASE op = "-"
    BY <1>2a, <1>4, ComputedIs, Zenon
  <1>5. CASE op = "*"
    BY <1>2a, <1>5, ComputedIs, Zenon
  <1>6. CASE op = "/"
    BY <1>2a, <1>6, ComputedIs, Zenon
  <1> QED
    BY <1>1, <1>3, <1>4, <1>5, <1>6

-----------------------------------------------------------------------------
(* Compound assignment against the operator and a conversion back.          *)

\* A floating-point object.
LEMMA FloatAgrees ==
  ASSUME NEW op \in FloatOp, NEW l, NEW r, Typed(l), Typed(r), l.type \in FloatingType,
         Float(l.type, r.value) = r.value
  PROVE  CompoundResults(op, l, r) = {Float(l.type, BinaryResult(op, l, r).value)}
  <1> DEFINE t == l.type
             c == CommonFloat(t, r.type)
             x == l.value
             y == r.value
             z == Computed(op, c, Float(c, x), Float(c, y))
  <1>1. /\ t \in AnyType /\ r.type \in AnyType /\ ValueOf(t, x) /\ ValueOf(r.type, y)
        /\ t \in FloatingType /\ t \notin Type /\ Float(t, y) = y
    BY TypesAre DEF Typed
  <1>2. CompoundResults(op, l, r) = {Computed(op, t, x, y)} /\ BinaryResult(op, l, r).value = z
    BY DEF CompoundResults, BinaryResult
  <1>3. ValueOf(t, y)
    <2>1. ValueOf(t, Float(t, y))
      BY <1>1, FloatTyped
    <2> QED
      BY <1>1, <2>1
  <1> HIDE DEF t, x, y
  <1>4. OneFloat(t, r.type) /\ c \in FloatingType /\ Meets(t, c)
    BY <1>1, CommonFloatIs, CommonMeets DEF OneFloat
  <1>5. t \notin IntegerType
    BY <1>1, TypesAre
  <1>6. Float(c, x) = x /\ Float(c, y) = y
    BY <1>1, <1>3, <1>4, <1>5, FloatKeeps
  <1>7. z = Computed(op, c, x, y)
    BY <1>6
  <1>8. CASE c = t
    <2>1. ValueOf(t, Computed(op, t, x, y)) /\ Meets(t, t)
      BY <1>1, <1>3, <1>4, <1>8, ComputedTyped
    <2>2. Float(t, Computed(op, t, x, y)) = Computed(op, t, x, y)
      BY <1>5, <2>1, FloatKeeps
    <2> QED
      BY <1>2, <1>7, <1>8, <2>2 DEF t
  <1>9. CASE c # t
    <2>1. t = Float32 /\ c = Float64
      BY <1>1, <1>4, <1>9, CommonFloatIs, SinglesAre DEF Meeting, Meets
    <2>2. Float(t, Computed(op, c, x, y)) = Computed(op, t, x, y)
      BY <1>1, <1>3, <2>1, ComputedTwice
    <2> QED
      BY <1>2, <1>7, <2>2 DEF t
  <1> QED
    BY <1>8, <1>9

\* An integer object: a quotient rounded and truncated is the quotient.
LEMMA QuotientRounds ==
  ASSUME NEW A \in Nat, A < Steps(Float64), NEW B \in Nat, B > 0, Smallest[4] * B <= Unit,
         (A * Unit) * Unit <= Reach,
         NEW Q, Q = A \div B, NEW R, R = RoundedUnits(Float64, (A * Unit) * Unit, B * Unit)
  PROVE  Q \in Nat /\ Q <= A /\ R \in Nat /\ R \div Unit = Q /\ R <= (A + 1) * Unit
  <1> DEFINE U == Unit
             n == (A * U) * U
             d == B * U
             V == U * U
  <1>0. Float64 \in FloatingType
    BY SinglesAre
  <1>1. U \in Nat /\ U > 0 /\ V \in Nat /\ V > 0 /\ n \in Nat /\ d \in Nat /\ d > 0 /\ n = A * V /\ n <= Reach
    <2>1. U \in Nat \ {0}
      BY RangesAre
    <2> HIDE DEF U
    <2>2. \A x, y \in Nat \ {0} : x * y \in Nat /\ x * y > 0
      OBVIOUS
    <2>3. V \in Nat /\ V > 0 /\ d \in Nat /\ d > 0
      BY <2>1, <2>2
    <2>4. (A * U) * U = A * (U * U)
      BY <2>1
    <2>5. n \in Nat
      BY <2>1
    <2> QED
      BY <2>1, <2>3, <2>4, <2>5 DEF U
  <1>2. Q \in Nat /\ Q <= A /\ Q * B <= A /\ A + 1 <= (Q + 1) * B
    <2>1. A \div B \in Int /\ A % B \in Int /\ 0 <= A % B /\ A % B < B /\ A = B * (A \div B) + (A % B)
      BY DivMod
    <2>2. A \div B \in Int /\ 0 <= A \div B /\ A \div B <= A
      BY QuotientBelow
    <2> DEFINE r == A % B
    <2>3. Q \in Nat /\ Q <= A /\ r \in Nat /\ r < B /\ A = B * Q + r
      BY <2>1, <2>2
    <2> HIDE DEF r
    <2>4. Q * B = B * Q /\ (Q + 1) * B = B * Q + B /\ B * Q \in Nat
      BY <2>3
    <2> QED
      BY <2>3, <2>4
  <1>3. Steps(Float64) \in Nat
    BY StepsAre
  <1>4. R \in Nat
    BY <1>0, <1>1, RoundedOnGrid
  <1>5. Q * U <= R
    <2>1. OnGrid(Float64, Q * U)
      BY <1>0, <1>2, <1>3, WholeOnGrid
    <2>2. Q * U \in Nat
      BY <1>1, <1>2
    <2>3. (Q * U) * d <= n
      <3> HIDE DEF U, n, d
      <3>1. (Q * U) * (B * U) = (Q * B) * (U * U) /\ Q * B \in Nat
        BY <1>1, <1>2
      <3>2. (Q * B) * V <= A * V
        BY <1>1, <1>2, <3>1, TimesMonotone
      <3> QED
        BY <1>1, <3>1, <3>2 DEF d
    <2> QED
      BY <1>0, <1>1, <2>1, <2>2, <2>3, FractionAbove
  <1> DEFINE Z == (Q + 1) * U
  <1>6. Z \in Nat /\ n + V <= Z * d
    <2> HIDE DEF U, n, d, V
    <2>1. ((Q + 1) * U) * (B * U) = ((Q + 1) * B) * (U * U) /\ (Q + 1) * B \in Nat /\ Z \in Nat
      BY <1>1, <1>2
    <2>2. (A + 1) * V <= ((Q + 1) * B) * V
      BY <1>1, <1>2, <2>1, TimesMonotone
    <2>3. (A + 1) * V = A * V + V
      BY <1>1
    <2> QED
      BY <1>1, <2>1, <2>2, <2>3 DEF d, V
  <1>7. R <= Z
    <2>1. OnGrid(Float64, Z)
      BY <1>0, <1>2, <1>3, WholeOnGrid
    <2>2. n <= Z * d
      <3> HIDE DEF n, d, V, Z
      <3> QED
        BY <1>1, <1>6
    <2> QED
      BY <1>0, <1>1, <1>6, <2>1, <2>2, FractionBelow
  <1>8. R # Z
    <2>1. SUFFICES ASSUME R = Z PROVE FALSE
      OBVIOUS
    <2>2. PICK j \in Exponent, k \in Nat :
             /\ Around(Float64, j, n, d)
             /\ k = Nearest(n, Gap(Float64, j) * d)
             /\ R = k * Gap(Float64, j)
      <3> HIDE DEF n, d
      <3>1. R = RoundedUnits(Float64, n, d)
        BY DEF n, d
      <3> QED
        BY <1>0, <1>1, <3>1, RoundedGap
    <2> DEFINE s == Gap(Float64, j)
               e == s * d
    <2>3. s \in Nat \ {0}
      BY <1>0, GapIs
    <2>4. 2 * (R * d) <= 2 * n + e /\ e \in Nat
      <3>1. k = Nearest(n, e) /\ R = k * s
        BY <2>2
      <3> HIDE DEF n, d, s
      <3>2. e \in Nat /\ e > 0
        <4>1. \A x, y \in Nat \ {0} : x * y \in Nat /\ x * y > 0
          OBVIOUS
        <4> QED
          BY <1>1, <2>3, <4>1
      <3>3. k * e = R * d
        <4>1. k * (s * d) = (k * s) * d
          BY <1>1, <2>3
        <4> QED
          BY <3>1, <4>1
      <3> HIDE DEF e
      <3>4. 2 * (k * e) <= 2 * n + e
        BY <1>1, <3>1, <3>2, NearestIs
      <3> QED
        BY <3>2, <3>3, <3>4
    <2>5. 2 * V <= e
      <3> HIDE DEF n, d, V, Z, e
      <3>1. Z * d \in Nat
        BY <1>1, <1>6
      <3> QED
        BY <1>1, <1>6, <2>1, <2>4, <3>1
    <2>6. 2 * U <= s * B
      <3> HIDE DEF U, s
      <3>1. s * (B * U) = (s * B) * U /\ s * B \in Nat /\ 2 * (U * U) = (2 * U) * U
        BY <1>1, <2>3
      <3>2. (2 * U) * U <= (s * B) * U
        BY <2>5, <3>1
      <3> QED
        BY <1>1, <3>1, <3>2, TimesCancel
    <2>7. CASE j = 0
      <3>1. s = Smallest[4]
        <4>1. Least(Float64) \in Nat /\ Least(Float64) * 1 = Least(Float64) /\ Power[0] = 1
          BY <1>0, FormatIs, PowerAssumption
        <4> QED
          BY <2>7, <4>1, SinglesAre DEF Gap
      <3>2. s * B \in Nat
        BY <2>3
      <3> HIDE DEF s
      <3> QED
        BY <1>1, <2>6, <3>1, <3>2
    <2>8. CASE j > 0
      <3> DEFINE h == Gap(Float64, j - 1)
                 r == Steps(Float64)
      <3>1. h \in Nat /\ s = 2 * h
        BY <1>0, <2>8, GapIs
      <3>2. (r * h) * d <= n
        BY <2>2, <2>8 DEF Around
      <3> HIDE DEF s, h
      <3>3. U <= h * B /\ h * B \in Nat
        <4>1. (2 * h) * B = 2 * (h * B) /\ h * B \in Nat
          BY <3>1
        <4> QED
          BY <1>1, <2>6, <3>1, <4>1
      <3> HIDE DEF U, r
      <3>4. (r * h) * (B * U) = (r * (h * B)) * U /\ (A * U) * U = (A * U) * U
            /\ r * (h * B) \in Nat /\ A * U \in Nat
        BY <1>1, <1>3, <3>1, <3>3 DEF r
      <3>5. r * (h * B) <= A * U
        <4>1. (r * (h * B)) * U <= (A * U) * U
          BY <3>2, <3>4
        <4> QED
          BY <1>1, <3>4, <4>1, TimesCancel
      <3>6. r * U <= r * (h * B)
        <4>1. U * r <= (h * B) * r /\ U * r = r * U /\ (h * B) * r = r * (h * B)
          BY <1>1, <1>3, <3>3, TimesMonotone DEF r
        <4> QED
          BY <4>1
      <3>7. r * U <= A * U
        <4>1. r * U \in Nat
          BY <1>1, <1>3 DEF r
        <4> QED
          BY <3>4, <3>5, <3>6, <4>1
      <3>8. r <= A
        BY <1>1, <1>3, <3>7, TimesCancel DEF r
      <3> QED
        BY <1>3, <3>8 DEF r
    <2> QED
      BY <1>0, <2>7, <2>8, GapIs
  <1> HIDE DEF U, n, d, V
  <1>9. Z = Q * U + U /\ Q * U \in Nat
    BY <1>1, <1>2
  <1> HIDE DEF Z
  <1>10. R \div U = Q
    <2> DEFINE r == R - Q * U
    <2>1. r \in Nat /\ r < U /\ R = Q * U + r
      <3> DEFINE w == Q * U
      <3>1. w \in Nat /\ Z = w + U /\ w <= R
        BY <1>5, <1>9
      <3> HIDE DEF w
      <3>2. R - w \in Nat /\ R - w < U /\ R = w + (R - w)
        BY <1>1, <1>4, <1>7, <1>8, <3>1
      <3> QED
        BY <3>2 DEF w
    <2> HIDE DEF r
    <2>2. U \in Nat \ {0}
      BY <1>1
    <2>3. (Q * U + r) \div U = Q
      BY <1>2, <2>1, <2>2, DivModUnique, Zenon
    <2> QED
      BY <2>1, <2>3
  <1>11. R <= (A + 1) * U
    <2>1. Q * U <= A * U /\ (A + 1) * U = A * U + U /\ A * U \in Nat
      BY <1>1, <1>2, TimesMonotone
    <2> QED
      BY <1>1, <1>4, <1>6, <1>7, <1>9, <2>1
  <1> QED
    BY <1>2, <1>4, <1>10, <1>11 DEF U

\* The numbers of an integer type that is no wider than a Float64's precision.
LEMMA NarrowIs ==
  ASSUME NEW t \in IntegerType, Width[t.size] <= Precision[4], NEW v \in Values(t)
  PROVE  /\ t \in Type /\ t # Bool /\ t \notin FloatingType /\ t.size \in 1 .. 3
         /\ Values(t) = Lowest(t) .. Highest(t) /\ v \in Int
         /\ Magnitude(v) \in Nat /\ Magnitude(v) < Modulus[t.size]
         /\ Modulus[t.size] \in Nat /\ Modulus[t.size] <= Modulus[3]
         /\ 2 * Modulus[t.size] <= Steps(Float64)
         /\ (Magnitude(v) + 1) * Unit <= Largest[4]
         /\ ValueOf(Float64, Number(v)) /\ Float(Float64, Number(v)) = Number(v)
  <1>1. /\ t \in Type /\ t # Bool /\ t \notin FloatingType /\ t.size \in Size
        /\ Values(t) = Lowest(t) .. Highest(t) /\ v \in Int
        /\ Magnitude(v) \in Nat /\ Magnitude(v) < Power[Width[t.size]]
    BY IntegerRange
  <1>2. /\ Modulus[t.size] = Power[Width[t.size]] /\ Modulus[t.size] \in Nat
        /\ Width[t.size] \in Nat /\ Width[t.size] \in Exponent /\ Modulus[t.size] <= Modulus[4]
    BY <1>1, ModulusIs
  <1>3. /\ Precision[4] \in Nat /\ Precision[3] \in Nat /\ Precision[4] \in Exponent
        /\ Precision[4] >= 2 * Precision[3] + 2 /\ Width[2] <= Precision[3] /\ Precision[4] < Width[4]
    <2>1. Precision[3] \in Exponent /\ Precision[4] \in Exponent
      BY SinglesAre, FormatIs
    <2> QED
      BY <2>1, FloatAssumption, SizesAre DEF Exponent
  <1>4. /\ \A k \in Size : Width[k] \in Nat \ {0}
        /\ Width[2] = Width[1] + Width[1] /\ Width[3] = Width[2] + Width[2]
    BY SizesAre
  <1>5. t.size \in 1 .. 3
    <2>1. t.size # 4
      BY <1>2, <1>3, <1>4 DEF Size
    <2> QED
      BY <1>1, <2>1 DEF Size
  <1>6. Width[t.size] <= Width[3] /\ Width[3] < Precision[4]
    <2>1. Width[1] \in Nat /\ Width[2] \in Nat /\ Width[3] \in Nat
      BY <1>4 DEF Size
    <2>2. t.size = 1 \/ t.size = 2 \/ t.size = 3
      BY <1>5
    <2> QED
      BY <1>3, <1>4, <2>1, <2>2
  <1>7. Modulus[t.size] <= Modulus[3]
    <2>1. 3 \in Size
      BY DEF Size
    <2>2. Modulus[3] = Power[Width[3]] /\ Width[3] \in Exponent
      BY <2>1, ModulusIs
    <2> QED
      BY <1>2, <1>6, <2>2, PowerDivides
  <1>8. 2 * Modulus[t.size] <= Steps(Float64)
    <2>1. Width[t.size] < Precision[4]
      BY <1>2, <1>3, <1>4, <1>6 DEF Size
    <2> QED
      BY <1>2, <1>3, <2>1, PowerRises, SinglesAre
  <1>9. (Magnitude(v) + 1) * Unit <= Largest[4]
    <2>1. Magnitude(v) + 1 <= Modulus[4] /\ Modulus[4] \in Nat /\ Unit \in Nat /\ Largest[4] \in Nat
          /\ Modulus[4] * Unit <= Largest[4]
      BY <1>1, <1>2, RangesAre, SinglesAre
    <2> DEFINE m == Magnitude(v) + 1
               M == Modulus[4]
    <2>2. m \in Nat /\ m <= M /\ M \in Nat /\ Unit \in Nat
      BY <1>1, <2>1
    <2> HIDE DEF m, M
    <2>3. m * Unit <= M * Unit /\ m * Unit \in Nat /\ M * Unit \in Nat
      BY <2>2, TimesMonotone
    <2> QED
      BY <2>1, <2>3 DEF m, M
  <1>10. ValueOf(Float64, Number(v)) /\ Float(Float64, Number(v)) = Number(v)
    <2>1. ValueOf(t, Number(v)) /\ t \in AnyType /\ Float64 \in FloatingType
      BY <1>1, NumberTyped, SinglesAre DEF AnyType
    <2>2. Meets(t, Float64)
      BY <1>1, <2>1 DEF Meets
    <2>3. Float(Float64, Number(v)) = Number(v)
      BY <2>1, <2>2, FloatKeeps
    <2>4. ValueOf(Float64, Float(Float64, Number(v)))
      BY <2>1, FloatTyped
    <2> QED
      BY <2>3, <2>4
  <1> QED
    BY <1>1, <1>2, <1>5, <1>7, <1>8, <1>9, <1>10

\* A product that a Float64 has no place for is not brought back into a narrow type.
LEMMA ProductLarge ==
  ASSUME NEW a \in Int, NEW b \in Int,
         Magnitude(a) * Unit <= Largest[4], Magnitude(b) * Unit <= Largest[4],
         Steps(Float64) <= Magnitude(a) * Magnitude(b),
         NEW z, z = Product(Float64, Number(a), Number(b)), IsFinite(z)
  PROVE  Truncated(z) \in Int /\ Steps(Float64) <= Magnitude(Truncated(z))
  <1> DEFINE A == Magnitude(a)
             B == Magnitude(b)
             U == Unit
             p == Steps(Float64)
             n == (A * U) * (B * U)
             R == RoundedUnits(Float64, n, U)
             s == Number(a).sign * Number(b).sign
  <1>0. Float64 \in FloatingType
    BY SinglesAre
  <1>1. A \in Nat /\ B \in Nat /\ U \in Nat /\ U > 0 /\ p \in Nat /\ p <= A * B
    BY MagnitudeIs, RangesAre, StepsAre
  <1>2. /\ IsFinite(Number(a)) /\ IsFinite(Number(b)) /\ Number(a) # NaN /\ Number(b) # NaN
        /\ Number(a).units = A * U /\ Number(b).units = B * U
        /\ Number(a).sign \in {1, -1} /\ Number(b).sign \in {1, -1}
    BY DEF Number, Finite, IsFinite, NaN
  <1>3. z = Rounded(Float64, s, n, U)
    BY <1>2 DEF Product
  <1>4. n \in Nat /\ n <= Reach
    <2>1. A * U \in Nat /\ B * U \in Nat /\ A * U <= Largest[4] /\ B * U <= Largest[4]
      BY <1>1
    <2> HIDE DEF A, B, U
    <2> QED
      BY <2>1, ProductReach
  <1>5. p * U <= R /\ R \in Nat
    <2> HIDE DEF A, B, U, p
    <2>1. (p * U) * U <= n
      <3>1. (A * U) * (B * U) = ((A * B) * U) * U /\ A * B \in Nat
        BY <1>1
      <3>2. p * U <= (A * B) * U
        BY <1>1, <3>1, TimesMonotone
      <3>3. p * U \in Nat /\ (A * B) * U \in Nat
        BY <1>1, <3>1
      <3>4. (p * U) * U <= ((A * B) * U) * U
        BY <1>1, <3>2, <3>3, TimesMonotone
      <3> QED
        BY <3>1, <3>4
    <2>2. OnGrid(Float64, p * U)
      <3>1. p <= Steps(Float64)
        BY <1>1 DEF p
      <3> QED
        BY <1>0, <1>1, <3>1, WholeOnGrid DEF U
    <2>3. p * U \in Nat
      BY <1>1
    <2> HIDE DEF n
    <2> QED
      BY <1>0, <1>1, <1>4, <2>1, <2>2, <2>3, FractionAbove, RoundedOnGrid
  <1>6. z = Finite(s, R)
    <2>1. z = Infinity(s) \/ z = Finite(s, R)
      BY <1>3 DEF Rounded
    <2>2. ~IsFinite(Infinity(s))
      BY DEF IsFinite, Infinity
    <2> QED
      BY <2>1, <2>2
  <1>7. s \in {1, -1}
    BY <1>2, SignProduct
  <1> HIDE DEF s, R, n, U, p
  <1>8. p <= R \div U /\ R \div U \in Nat
    <2>1. R \div U \in Int /\ R % U \in Int /\ R % U < U /\ R = U * (R \div U) + (R % U)
          /\ 0 <= R \div U
      BY <1>1, <1>5, DivMod, QuotientBelow
    <2> DEFINE q == R \div U
               r == R % U
    <2>2. q \in Nat /\ r \in Int /\ r < U /\ R = U * q + r
      BY <2>1
    <2> HIDE DEF q, r
    <2>3. SUFFICES ASSUME q + 1 <= p PROVE FALSE
      BY <1>1, <2>2 DEF q
    <2>4. (q + 1) * U <= p * U /\ (q + 1) * U = U * q + U
      BY <1>1, <2>2, <2>3, TimesMonotone
    <2>5. p * U \in Nat /\ U * q \in Nat
      BY <1>1, <2>2
    <2> QED
      BY <1>1, <1>5, <2>2, <2>4, <2>5
  <1> DEFINE q == R \div U
  <1>9. Truncated(z) = s * q
    BY <1>6 DEF Truncated, Finite, U
  <1>10. q \in Nat /\ p <= q
    BY <1>8
  <1> HIDE DEF q
  <1>11. s * q \in Int /\ Magnitude(s * q) = q
    BY <1>7, <1>10 DEF Magnitude
  <1> QED
    BY <1>9, <1>10, <1>11 DEF p

\* A quotient of two such numbers.
LEMMA RatioTruncates ==
  ASSUME NEW t \in IntegerType, Width[t.size] <= Precision[4],
         NEW a \in Values(t), NEW b \in Values(t),
         NEW z, z = Ratio(Float64, Number(a), Number(b))
  PROVE  IF b = 0 THEN ~IsFinite(z) ELSE IsFinite(z) /\ Truncated(z) = Quotient(a, b)
  <1> DEFINE A == Magnitude(a)
             B == Magnitude(b)
             U == Unit
             n == (A * U) * U
             d == B * U
             R == RoundedUnits(Float64, n, d)
             e == Number(a).sign
             f == Number(b).sign
             Q == A \div B
  <1>0. Float64 \in FloatingType
    BY SinglesAre
  <1>1. /\ A \in Nat /\ B \in Nat /\ a \in Int /\ b \in Int /\ (B = 0 <=> b = 0)
        /\ A < Steps(Float64) /\ B <= Modulus[3] /\ Modulus[3] \in Nat
        /\ (A + 1) * U <= Largest[4] /\ U \in Nat /\ U > 0
    <2>1. /\ A \in Nat /\ B \in Nat /\ a \in Int /\ b \in Int
          /\ A < Modulus[t.size] /\ B < Modulus[t.size] /\ Modulus[t.size] \in Nat
          /\ Modulus[t.size] <= Modulus[3] /\ 2 * Modulus[t.size] <= Steps(Float64)
          /\ (A + 1) * U <= Largest[4]
      BY NarrowIs
    <2>2. Modulus[3] \in Nat /\ Steps(Float64) \in Nat /\ U \in Nat /\ U > 0
      <3>1. 3 \in Size
        BY DEF Size
      <3> QED
        BY <3>1, ModulusIs, StepsAre, RangesAre
    <2>3. B = 0 <=> b = 0
      BY <2>1, MagnitudeIs
    <2> HIDE DEF A, B, U
    <2> QED
      BY <2>1, <2>2, <2>3
  <1>2. /\ IsFinite(Number(a)) /\ IsFinite(Number(b)) /\ Number(a) # NaN /\ Number(b) # NaN
        /\ Number(a).units = A * U /\ Number(b).units = d
        /\ e = (IF a < 0 THEN -1 ELSE 1) /\ f = (IF b < 0 THEN -1 ELSE 1)
    BY DEF Number, Finite, IsFinite, NaN
  <1>3. CASE b = 0
    <2>1. d = 0
      BY <1>1, <1>3
    <2>2. IsZero(Number(b))
      BY <1>2, <2>1 DEF IsZero
    <2>3. z = NaN \/ z = Infinity(e * f)
      BY <1>2, <2>2 DEF Ratio
    <2>4. ~IsFinite(NaN) /\ ~IsFinite(Infinity(e * f))
      BY DEF IsFinite, NaN, Infinity
    <2> QED
      BY <1>3, <2>3, <2>4
  <1>4. CASE b # 0
    <2>1. B > 0 /\ d # 0 /\ d \in Nat /\ d > 0
      <3>1. \A x, y \in Nat \ {0} : x * y \in Nat /\ x * y > 0
        OBVIOUS
      <3> HIDE DEF A, B, U
      <3> QED
        BY <1>1, <1>4, <3>1
    <2>2. ~IsZero(Number(b))
      BY <1>2, <2>1 DEF IsZero
    <2>3. z = Rounded(Float64, e * f, n, d)
      BY <1>2, <2>2 DEF Ratio
    <2>4. n <= Reach
      <3>1. Largest[4] \in Nat /\ Largest[4] * U <= Reach /\ Reach \in Nat
        BY RangesAre
      <3> HIDE DEF A, U
      <3>2. (A + 1) * U = A * U + U /\ A * U \in Nat
        BY <1>1
      <3>3. A * U <= Largest[4]
        BY <1>1, <3>1, <3>2
      <3>4. (A * U) * U <= Largest[4] * U /\ (A * U) * U \in Nat /\ Largest[4] * U \in Nat
        BY <1>1, <3>1, <3>2, <3>3, TimesMonotone
      <3> QED
        BY <3>1, <3>4
    <2>5. Smallest[4] * B <= U
      <3>1. Smallest[4] \in Nat /\ Smallest[4] * Modulus[3] <= U
        BY SinglesAre, FormatIs, FloatAssumption
      <3> HIDE DEF B, U
      <3>2. B * Smallest[4] <= Modulus[3] * Smallest[4]
        BY <1>1, <3>1, TimesMonotone
      <3>3. B * Smallest[4] = Smallest[4] * B /\ Modulus[3] * Smallest[4] = Smallest[4] * Modulus[3]
            /\ B * Smallest[4] \in Nat /\ Modulus[3] * Smallest[4] \in Nat
        BY <1>1, <3>1
      <3> QED
        BY <1>1, <3>1, <3>2, <3>3
    <2>6. Q \in Nat /\ R \in Nat /\ R \div U = Q /\ R <= (A + 1) * U
      <3> HIDE DEF A, B
      <3> QED
        BY <1>1, <2>1, <2>4, <2>5, QuotientRounds
    <2> HIDE DEF A, B, U, n, d, R
    <2>7. (A + 1) * U \in Nat /\ Largest[4] \in Nat
      BY <1>1, RangesAre
    <2>8. ~(R > Largest[4])
      BY <1>1, <2>6, <2>7
    <2>9. z = Finite(e * f, R)
      <3>1. Rounded(Float64, e * f, n, d) = IF R > Largest[4] THEN Infinity(e * f) ELSE Finite(e * f, R)
        BY <1>0, SinglesAre, FormatIs DEF Rounded, R
      <3> QED
        BY <2>3, <2>8, <3>1
    <2>10. IsFinite(z) /\ Truncated(z) = (e * f) * Q
      BY <2>6, <2>9 DEF IsFinite, Truncated, Finite, U
    <2> HIDE DEF e, f, Q
    <2>11. Quotient(a, b) = (IF (a < 0) <=> (b < 0) THEN Q ELSE -Q)
      BY DEF Quotient, Q, A, B
    <2>12. (e * f) * Q = (IF (a < 0) <=> (b < 0) THEN Q ELSE -Q)
      BY <1>1, <1>2, <2>6
    <2> QED
      BY <1>4, <2>10, <2>11, <2>12
  <1> QED
    BY <1>3, <1>4

\* An operation on two of them in a Float64, brought back.
LEMMA NarrowComputed ==
  ASSUME NEW t \in IntegerType, Width[t.size] <= Precision[4],
         NEW a \in Values(t), NEW b \in Values(t), NEW op \in FloatOp,
         NEW z, z = Computed(op, Float64, Number(a), Number(b))
  PROVE  /\ IsFinite(z) /\ Truncated(z) \in Values(t) =>
              (op = "/" => b # 0) /\ Truncated(z) = Exact(op, a, b)
         /\ (op = "/" => b # 0) /\ Exact(op, a, b) \in Values(t) =>
              IsFinite(z) /\ Truncated(z) = Exact(op, a, b)
  <1> DEFINE A == Magnitude(a)
             B == Magnitude(b)
             M == Modulus[t.size]
             p == Steps(Float64)
             x == Number(a)
             y == Number(b)
             v == Exact(op, a, b)
  <1>0. Float64 \in FloatingType
    BY SinglesAre
  <1>1. /\ A \in Nat /\ B \in Nat /\ a \in Int /\ b \in Int /\ A < M /\ B < M /\ M \in Nat /\ 2 * M <= p
        /\ (A + 1) * Unit <= Largest[4] /\ (B + 1) * Unit <= Largest[4]
        /\ ValueOf(Float64, x) /\ ValueOf(Float64, y)
        /\ \A w \in Values(t) : w \in Int /\ Magnitude(w) \in Nat /\ Magnitude(w) < M
    BY NarrowIs
  <1>2. Stands(x, a) /\ Stands(y, b) /\ p \in Nat
    BY <1>1, NumberStands, StepsAre
  <1>3. ASSUME op \in RingOp, Magnitude(v) <= p
        PROVE  IsFinite(z) /\ Truncated(z) = v
    <2>1. v \in Int
      BY <1>1, <1>3, ExactIs
    <2>2. Stands(z, v)
      BY <1>0, <1>1, <1>2, <1>3, ComputedStands
    <2> QED
      BY <2>1, <2>2, StandsWhole DEF Stands
  <1>4. op \in {"+", "-", "*", "/"} /\ "+" \in RingOp /\ "-" \in RingOp /\ "*" \in RingOp
    BY DEF FloatOp, RingOp
  <1>5. CASE op = "+" \/ op = "-"
    <2>1. v = a + b \/ v = a - b
      BY <1>1, <1>5, ExactIs
    <2>2. Magnitude(v) <= p
      <3> HIDE DEF v, M, p
      <3> QED
        BY <1>1, <1>2, <2>1 DEF Magnitude
    <2>3. op # "/" /\ op \in RingOp
      BY <1>4, <1>5
    <2> QED
      BY <1>3, <2>2, <2>3
  <1>6. CASE op = "*"
    <2>1. v = a * b /\ op # "/" /\ op \in RingOp
      BY <1>1, <1>4, <1>6, ExactIs
    <2>2. CASE Magnitude(v) <= p
      BY <1>3, <2>1, <2>2
    <2>3. CASE ~(Magnitude(v) <= p)
      <3>1. Magnitude(v) = A * B /\ v \in Int
        BY <1>1, <2>1 DEF Magnitude
      <3>2. p <= A * B
        <4>1. A * B \in Nat
          BY <1>1
        <4> HIDE DEF v, A, B, p
        <4> QED
          BY <1>2, <2>3, <3>1, <4>1
      <3>3. v \notin Values(t)
        <4>1. SUFFICES ASSUME v \in Values(t) PROVE FALSE
          OBVIOUS
        <4>2. Magnitude(v) \in Nat /\ Magnitude(v) < M
          BY <1>1, <4>1
        <4> HIDE DEF v, M, p
        <4> QED
          BY <1>1, <1>2, <2>3, <4>2
      <3>4. A * Unit <= Largest[4] /\ B * Unit <= Largest[4]
        <4>1. Unit \in Nat /\ Largest[4] \in Nat
          BY RangesAre
        <4> HIDE DEF A, B
        <4>2. (A + 1) * Unit = A * Unit + Unit /\ A * Unit \in Nat
          BY <1>1, <4>1
        <4>3. (B + 1) * Unit = B * Unit + Unit /\ B * Unit \in Nat
          BY <1>1, <4>1
        <4> QED
          BY <1>1, <4>1, <4>2, <4>3
      <3>5. z = Product(Float64, x, y)
        BY <1>6, ComputedIs
      <3>6. ASSUME IsFinite(z), Truncated(z) \in Values(t) PROVE FALSE
        <4>1. Truncated(z) \in Int /\ p <= Magnitude(Truncated(z))
          BY <1>1, <3>2, <3>4, <3>5, <3>6, ProductLarge
        <4>2. Magnitude(Truncated(z)) \in Nat /\ Magnitude(Truncated(z)) < M
          BY <1>1, <3>6
        <4> HIDE DEF M, p
        <4> QED
          BY <1>1, <1>2, <4>1, <4>2
      <3> QED
        BY <3>3, <3>6
    <2> QED
      BY <2>2, <2>3
  <1>7. CASE op = "/"
    <2>1. z = Ratio(Float64, x, y)
      BY <1>7, ComputedIs
    <2>2. IF b = 0 THEN ~IsFinite(z) ELSE IsFinite(z) /\ Truncated(z) = Quotient(a, b)
      BY <2>1, RatioTruncates
    <2>3. /\ "/" # "+" /\ "/" # "-" /\ "/" # "*" /\ "+" # "/" /\ "-" # "/" /\ "*" # "/"
          /\ "/" # "%" /\ "%" # "/" /\ "/" \notin MaskOp
      BY DEF MaskOp
    <2>4. v = Quotient(a, b)
      BY <1>7, <2>3, Zenon DEF Exact
    <2>5. CASE b = 0
      BY <1>7, <2>2, <2>5
    <2>6. CASE b # 0
      BY <2>2, <2>4, <2>6
    <2> QED
      BY <2>5, <2>6
  <1> QED
    BY <1>4, <1>5, <1>6, <1>7

\* An integer object.
LEMMA NarrowAgrees ==
  ASSUME NEW op \in FloatOp, NEW l, NEW r, Typed(l), Typed(r),
         l.type \in IntegerType, Width[l.type.size] <= Precision[4], r.type \in FloatingType,
         Converted(r.type, l.type, r.value) = {r.value},
         NEW z, z = BinaryResult(op, l, r).value
  PROVE  /\ BinaryResult(op, l, r).type = Float64
         /\ ConvertDefined(Float64, l.type, z) =>
              /\ CompoundDefined(op, l, r)
              /\ CompoundResults(op, l, r) = Converted(Float64, l.type, z)
         /\ CompoundDefined(op, l, r) =>
              ConvertDefined(Float64, l.type, z) \/ ~l.type.signed \/ l.type.size < IntSize
  <1> DEFINE t == l.type
             y == r.value
  <1>1. /\ t \in IntegerType /\ Width[t.size] <= Precision[4] /\ t \in Type /\ t # Bool
        /\ t \notin FloatingType /\ t \in AnyType /\ r.type \in AnyType /\ ValueOf(t, l.value)
        /\ Converted(r.type, t, y) = {y}
    BY TypesAre DEF Typed
  <1>2. CommonFloat(t, r.type) = Float64 /\ BinaryResult(op, l, r).type = Float64
        /\ z = Computed(op, Float64, Float(Float64, l.value), Float(Float64, y))
    <2>1. CommonFloat(t, r.type) = Float64
      BY <1>1 DEF CommonFloat
    <2> QED
      BY <2>1 DEF BinaryResult
  <1> HIDE DEF t
  <1>3. PICK a \in Values(t) : l.value = Number(a)
    BY <1>1 DEF ValueOf
  <1>4. ConvertDefined(r.type, t, y) /\ \E b \in Values(t) : y = Number(b)
    <2>1. CASE ConvertDefined(r.type, t, y)
      <3>1. Converted(r.type, t, y) = {Number(Cast(t, Truncated(y)))}
        BY <1>1, <2>1 DEF Converted
      <3>2. Truncated(y) \in Values(t)
        BY <1>1, <2>1 DEF ConvertDefined, t
      <3>3. Truncated(y) \in Int
        BY <1>1, <3>2, ValuesAre
      <3>4. Cast(t, Truncated(y)) = Truncated(y)
        BY <1>1, <3>2, <3>3, CastIs
      <3>5. y = Number(Truncated(y))
        BY <1>1, <3>1, <3>4
      <3> QED
        BY <2>1, <3>2, <3>5
    <2>2. CASE ~ConvertDefined(r.type, t, y)
      <3>1. Converted(r.type, t, y) = {Number(v) : v \in Values(t)}
        BY <1>1, <2>2 DEF Converted
      <3>2. \E u, v \in Values(t) : u # v
        <4>1. /\ Lowest(t) = IF t.signed THEN -Power[Width[t.size] - 1] ELSE 0
              /\ Highest(t) = Lowest(t) + Modulus[t.size] - 1 /\ t.size \in Size /\ t.signed \in BOOLEAN
              /\ Values(t) = Lowest(t) .. Highest(t)
          BY <1>1, ValuesAre
        <4>2. Modulus[t.size] = 2 * Power[Width[t.size] - 1] /\ Power[Width[t.size] - 1] \in Nat \ {0}
          BY <4>1, ModulusIs
        <4>3. Lowest(t) \in Int /\ Lowest(t) + 1 <= Highest(t) /\ Highest(t) \in Int
          BY <4>1, <4>2
        <4>4. Lowest(t) \in Values(t) /\ Lowest(t) + 1 \in Values(t) /\ Lowest(t) # Lowest(t) + 1
          BY <4>1, <4>3
        <4> QED
          BY <4>4
      <3>3. PICK u, v \in Values(t) : u # v
        BY <3>2
      <3>4. Number(u) = y /\ Number(v) = y
        BY <1>1, <3>1
      <3>5. u \in Int /\ v \in Int
        BY <1>1, ValuesAre
      <3>6. Truncated(Number(u)) = u /\ Truncated(Number(v)) = v
        BY <3>5, NumberStands, StandsWhole
      <3> QED
        BY <3>3, <3>4, <3>6
    <2> QED
      BY <2>1, <2>2
  <1>5. PICK b \in Values(t) : y = Number(b)
    BY <1>4
  <1>6. /\ a \in Int /\ b \in Int /\ Truncated(l.value) = a /\ Truncated(y) = b
        /\ Float(Float64, l.value) = l.value /\ Float(Float64, y) = y
        /\ t.size \in 1 .. 3
    BY <1>1, <1>3, <1>5, NarrowIs, NumberStands, StandsWhole
  <1>7. z = Computed(op, Float64, Number(a), Number(b))
    BY <1>2, <1>3, <1>5, <1>6
  <1> DEFINE e == Exact(op, a, b)
  <1>8. /\ IsFinite(z) /\ Truncated(z) \in Values(t) => (op = "/" => b # 0) /\ Truncated(z) = e
        /\ (op = "/" => b # 0) /\ e \in Values(t) => IsFinite(z) /\ Truncated(z) = e
    BY <1>1, <1>7, NarrowComputed
  <1>9. ConvertDefined(Float64, t, z) <=> IsFinite(z) /\ Truncated(z) \in Values(t)
    BY <1>1, SinglesAre DEF ConvertDefined
  <1>10. CompoundDefined(op, l, r) <=> Defined(op, t, a, b)
    <2>1. CompoundDefined(op, l, r) <=> \A w \in {y} : Defined(op, t, Truncated(l.value), Truncated(w))
      BY <1>1, <1>4 DEF CompoundDefined, t
    <2> QED
      BY <1>6, <2>1
  <1>11. /\ op \notin MaskOp /\ op # "%" /\ (op \in DivOp <=> op = "/")
    BY DEF FloatOp, RingOp, MaskOp, DivOp
  <1>12. Defined(op, t, a, b) <=> (op = "/" => b # 0) /\ (Promoted(t).signed => e \in Values(Promoted(t)))
    BY <1>11 DEF Defined
  <1>13. ASSUME ConvertDefined(Float64, t, z)
         PROVE  CompoundDefined(op, l, r) /\ CompoundResults(op, l, r) = Converted(Float64, t, z)
    <2>1. (op = "/" => b # 0) /\ Truncated(z) = e /\ e \in Values(t)
      BY <1>8, <1>9, <1>13
    <2>2. Promoted(t).signed => e \in Values(Promoted(t))
      BY <1>1, <2>1, PromotedFits
    <2>3. CompoundDefined(op, l, r)
      BY <1>10, <1>12, <2>1, <2>2
    <2>4. CompoundResults(op, l, r) =
            {Number(Cast(t, Exact(op, Truncated(l.value), Truncated(w)))) : w \in {y}}
      BY <1>1, <2>3 DEF CompoundResults, t
    <2>5. CompoundResults(op, l, r) = {Number(Cast(t, e))}
      BY <1>6, <2>4
    <2>6. Converted(Float64, t, z) = {Number(Cast(t, Truncated(z)))}
      BY <1>1, <1>13 DEF Converted
    <2> QED
      BY <2>1, <2>3, <2>5, <2>6
  <1>14. ASSUME CompoundDefined(op, l, r), t.signed, ~(t.size < IntSize)
         PROVE  ConvertDefined(Float64, t, z)
    <2>1. Promoted(t) = t
      BY <1>14 DEF Promoted
    <2>2. (op = "/" => b # 0) /\ e \in Values(t)
      BY <1>10, <1>12, <1>14, <2>1
    <2> QED
      BY <1>8, <1>9, <2>2
  <1> QED
    BY <1>2, <1>13, <1>14 DEF t

\* Compound assignment computes in the object's own type, the operator in a
\* Float64 and then rounds or truncates again: where the object's type holds the
\* operand they leave the same in it.
THEOREM FloatCompounds == Spec => []CompoundAgrees
  <1>1. TypeOK => CompoundAgrees
    <2> SUFFICES ASSUME TypeOK, NEW op \in FloatOp, NEW r \in Operands,
                        OneFloat(obj.type, r.type), obj.type # Bool,
                        obj.type \in IntegerType => Width[obj.type.size] <= Precision[4],
                        Converted(r.type, obj.type, r.value) = {r.value},
                        NEW b, b = BinaryResult(op, obj, r)
                 PROVE  /\ ConvertDefined(b.type, obj.type, b.value) =>
                             /\ CompoundDefined(op, obj, r)
                             /\ CompoundResults(op, obj, r) = Converted(b.type, obj.type, b.value)
                        /\ CompoundDefined(op, obj, r) =>
                             \/ ConvertDefined(b.type, obj.type, b.value)
                             \/ obj.type \in IntegerType /\ (~obj.type.signed \/ obj.type.size < IntSize)
      BY Zenon DEF CompoundAgrees
    <2>1. Typed(obj) /\ Typed(r)
      BY TypeOKIs, OperandTyped
    <2>2. CASE obj.type \in FloatingType
      <3>1. obj.type \notin IntegerType /\ Converted(r.type, obj.type, r.value) = {Float(obj.type, r.value)}
        BY <2>2, TypesAre DEF Converted
      <3>2. Float(obj.type, r.value) = r.value
        BY <3>1
      <3>3. CompoundResults(op, obj, r) = {Float(obj.type, b.value)}
        BY <2>1, <2>2, <3>2, FloatAgrees
      <3>4. Converted(b.type, obj.type, b.value) = {Float(obj.type, b.value)}
        BY <2>2 DEF Converted
      <3>5. CompoundDefined(op, obj, r) /\ ConvertDefined(b.type, obj.type, b.value)
        BY <2>2, <3>1 DEF CompoundDefined, ConvertDefined
      <3> QED
        BY <3>3, <3>4, <3>5
    <2>3. CASE obj.type \notin FloatingType
      <3>1. obj.type \in IntegerType /\ r.type \in FloatingType
        BY <2>1, <2>3, TypesAre DEF Typed, OneFloat
      <3> QED
        BY <2>1, <3>1, NarrowAgrees
    <2> QED
      BY <2>2, <2>3
  <1> QED
    BY <1>1, FloatTyping, PTL

=============================================================================
