------------------------ MODULE CalendarClock_proofs -------------------------
(***************************************************************************)
(* Proofs about YearMonthDay, for every length of the year, width of the   *)
(* fields and durations, and about ZoneClock: what a ZoneTime holds, and   *)
(* from it when it is the local time.  The two modules share no constant   *)
(* and no variable.                                                        *)
(***************************************************************************)
EXTENDS Calendar, ZoneClock, Congruence, TLAPS

-----------------------------------------------------------------------------
(* YearMonthDay *)

Cycle == MonthsPerYear * Modulus   \* what the fields can count

AddsUp == Congruent(MonthsPerYear * year + month, total + Byte * shortfalls, Cycle)
IInv == TypeOK /\ (defined => AddsUp)

LEMMA Sizes ==
  /\ MonthsPerYear \in Nat /\ MonthsPerYear > 0
  /\ Byte \in Nat /\ Byte > 0 /\ MonthsPerYear <= Byte
  /\ Modulus \in Nat /\ Modulus > 0
  /\ Cycle \in Nat /\ Cycle > 0
  /\ Half \in Int
  <1>1. MonthsPerYear \in Nat /\ MonthsPerYear > 0 /\ Modulus \in Nat /\ Modulus > 0
    BY CalendarAssumption
  <1>2. MonthsPerYear * Modulus > 0 /\ MonthsPerYear * Modulus \in Nat
    BY <1>1
  <1> QED
    BY <1>1, <1>2, CalendarAssumption DEF Cycle, Half

\* Truncating division: the parts add up and the remainder is short.
LEMMA Truncation ==
  ASSUME NEW x \in Int, NEW y \in Nat, y > 0
  PROVE  /\ Quotient(x, y) \in Int /\ Remainder(x, y) \in Int
         /\ x = y * Quotient(x, y) + Remainder(x, y)
         /\ -y < Remainder(x, y) /\ Remainder(x, y) < y
  <1>1. CASE x >= 0
    <2>1. /\ x \div y \in Int /\ x % y \in Int /\ 0 <= x % y /\ x % y < y
          /\ x = y * (x \div y) + (x % y)
      BY DivMod
    <2>2. Quotient(x, y) = x \div y
      BY <1>1 DEF Quotient
    <2>3. Remainder(x, y) = x - y * (x \div y)
      BY <2>2 DEF Remainder
    <2> QED
      BY <2>1, <2>2, <2>3
  <1>2. CASE x < 0
    <2>1. /\ (-x) \div y \in Int /\ (-x) % y \in Int /\ 0 <= (-x) % y /\ (-x) % y < y
          /\ -x = y * ((-x) \div y) + ((-x) % y)
      BY DivMod
    <2>2. Quotient(x, y) = -((-x) \div y)
      BY <1>2 DEF Quotient
    <2>3. y * (-((-x) \div y)) = -(y * ((-x) \div y))
      BY <2>1
    <2>4. Remainder(x, y) = -((-x) % y)
      BY <2>1, <2>2, <2>3 DEF Remainder
    <2> QED
      BY <2>1, <2>2, <2>3, <2>4
  <1> QED
    BY <1>1, <1>2

\* If the year moves by k and the month from m to m2, up to what their fields
\* wrap, while the count moves by as much and e bytes, they still add up.
LEMMA MovesTogether ==
  ASSUME NEW p \in Int, NEW mod \in Int, NEW b \in Int, NEW c \in Int, c = p * mod,
         NEW y \in Int, NEW m \in Int, NEW t \in Int, NEW s \in Int,
         NEW y2 \in Int, NEW m2 \in Int, NEW t2 \in Int, NEW s2 \in Int,
         NEW k \in Int, NEW n \in Int, NEW e \in Int,
         Congruent(p * y + m, t + b * s, c),
         Congruent(y2, y + k, mod), Congruent(t2, t + n, c),
         s2 = s + e, p * k + m2 = (n + m) + b * e
  PROVE  Congruent(p * y2 + m2, t2 + b * s2, c)
  <1>1. PICK q \in Int : (p * y + m) - (t + b * s) = q * c
    BY DEF Congruent
  <1>2. PICK u \in Int : y2 - (y + k) = u * mod
    BY DEF Congruent
  <1>3. PICK v \in Int : t2 - (t + n) = v * c
    BY DEF Congruent
  <1>4. y2 = y + k + u * mod /\ t2 = t + n + v * c
    BY <1>2, <1>3
  <1>5. p * y2 = p * y + p * k + u * c
    BY <1>4
  <1>6. b * s2 = b * s + b * e
    OBVIOUS
  <1>7. (p * y2 + m2) - (t2 + b * s2) = (q * c + u * c) - v * c
    BY <1>1, <1>4, <1>5, <1>6
  <1>8. (q + u) - v \in Int /\ (q * c + u * c) - v * c = ((q + u) - v) * c
    OBVIOUS
  <1>9. (p * y2 + m2) - (t2 + b * s2) = ((q + u) - v) * c
    BY <1>7, <1>8
  <1> QED
    BY Zenon, <1>8, <1>9 DEF Congruent

\* The wrapped fields keep their ranges and are congruent to what was stored.
LEMMA Wraps ==
  ASSUME NEW x \in Int
  PROVE  /\ ToYear(x) \in 0 .. Modulus - 1 /\ Congruent(ToYear(x), x, Modulus)
         /\ ToMonth(x) \in 0 .. Byte - 1
         /\ x % Cycle \in 0 .. Cycle - 1 /\ Congruent(x % Cycle, x, Cycle)
  BY Sizes, DivMod, CongruentRemainder DEF ToYear, ToMonth

\* The remainder as the month field keeps it.
LEMMA StoredMonth ==
  ASSUME NEW r \in Int, -MonthsPerYear < r, r < MonthsPerYear
  PROVE  ToMonth(r) = r + Byte * (IF r < 0 THEN 1 ELSE 0)
  <1>1. CASE r >= 0
    BY <1>1, Sizes, SmallMod DEF ToMonth
  <1>2. CASE r < 0
    <2>1. 0 <= r + Byte /\ r + Byte < Byte
      BY <1>2, Sizes
    <2>2. (r + Byte) % Byte = r + Byte
      BY <2>1, Sizes, SmallMod
    <2>3. (r + Byte) % Byte = r % Byte
      BY Sizes, ShiftMod
    <2> QED
      BY <1>2, <2>2, <2>3, Sizes DEF ToMonth
  <1> QED
    BY <1>1, <1>2

LEMMA InitHolds == Init => IInv
  <1> SUFFICES ASSUME Init PROVE IInv
    OBVIOUS
  <1>1. month \in Int /\ 0 <= month /\ month < Byte /\ year = 0 /\ shortfalls = 0
    BY Sizes DEF Init
  <1>2. total \in 0 .. Cycle - 1 /\ Congruent(total, month, Cycle)
    BY <1>1, Wraps DEF Init, Cycle
  <1>3. TypeOK
    BY <1>1, <1>2, Sizes, CalendarAssumption DEF Init, TypeOK, Cycle
  <1>4. MonthsPerYear * year + month = month /\ total + Byte * shortfalls = total
    BY <1>1, <1>2, Sizes
  <1>5. Congruent(month, total, Cycle)
    BY <1>1, <1>2, Sizes, CongruentSymmetric
  <1> QED
    BY <1>3, <1>4, <1>5 DEF IInv, AddsUp

\* Years: the field and the count move by n and n years of months.
LEMMA YearsKeep ==
  ASSUME IInv, defined, NEW n \in Int,
         year' = ToYear(year + n), Count(n * MonthsPerYear),
         UNCHANGED <<month, shortfalls, defined>>
  PROVE  IInv'
  <1>1. /\ year \in Int /\ month \in Int /\ total \in Int /\ shortfalls \in Int
        /\ n * MonthsPerYear \in Int
    BY Sizes DEF IInv, TypeOK
  <1>2. year' \in 0 .. Modulus - 1 /\ Congruent(year', year + n, Modulus)
    BY <1>1, Wraps
  <1>3. total' \in 0 .. Cycle - 1 /\ Congruent(total', total + n * MonthsPerYear, Cycle)
    BY <1>1, Wraps DEF Count, Cycle
  <1>4. TypeOK'
    BY <1>2, <1>3 DEF TypeOK, IInv, Cycle
  <1>5. MonthsPerYear * n + month' = (n * MonthsPerYear + month) + Byte * 0
    BY <1>1, Sizes
  <1>6. AddsUp'
    <2>1. /\ Congruent(MonthsPerYear * year + month, total + Byte * shortfalls, Cycle)
          /\ shortfalls' = shortfalls + 0 /\ shortfalls' \in Int /\ 0 \in Int
      BY <1>1 DEF IInv, AddsUp
    <2>2. /\ year' \in Int /\ total' \in Int /\ month' \in Int
          /\ MonthsPerYear \in Int /\ Byte \in Int /\ Modulus \in Int /\ Cycle \in Int
          /\ Cycle = MonthsPerYear * Modulus
      BY <1>1, <1>2, <1>3, Sizes DEF Cycle
    <2>3. Congruent(MonthsPerYear * year' + month', total' + Byte * shortfalls', Cycle)
      BY Zenon, <1>1, <1>2, <1>3, <1>5, <2>1, <2>2, MovesTogether
    <2> QED
      BY <2>3 DEF AddsUp, Cycle
  <1> QED
    BY <1>4, <1>6 DEF IInv

LEMMA MonthsKeep ==
  ASSUME IInv, defined, NEW n \in Int, AddMonths(n), shortfalls' <= MaxShortfalls
  PROVE  IInv'
  <1> DEFINE cache == n + month
             k == Quotient(cache, MonthsPerYear)
             r == Remainder(cache, MonthsPerYear)
             e == IF r < 0 THEN 1 ELSE 0
  <1>1. /\ year \in Int /\ month \in Int /\ total \in Int /\ shortfalls \in Nat
        /\ cache \in Int
    BY Sizes, CalendarAssumption DEF IInv, TypeOK
  <1>2. CASE cache \notin Long
    BY <1>1, <1>2 DEF AddMonths, Undefined, IInv, TypeOK
  <1>3. CASE cache \in Long
    <2>1. /\ k \in Int /\ r \in Int /\ cache = MonthsPerYear * k + r
          /\ -MonthsPerYear < r /\ r < MonthsPerYear
      BY <1>1, Sizes, Truncation
    <2>2. /\ year' = ToYear(year + k) /\ month' = ToMonth(r) /\ Count(n)
          /\ shortfalls' = shortfalls + e /\ defined' = defined
      BY <1>3 DEF AddMonths
    <2> HIDE DEF k, r
    <2>3. e \in Nat
      OBVIOUS
    <2>4. month' = r + Byte * e /\ month' \in 0 .. Byte - 1
      BY <2>1, <2>2, StoredMonth, Wraps
    <2>5. year' \in 0 .. Modulus - 1 /\ Congruent(year', year + k, Modulus)
      BY <1>1, <2>1, <2>2, Wraps
    <2>6. total' \in 0 .. Cycle - 1 /\ Congruent(total', total + n, Cycle)
      BY <1>1, <2>2, Wraps DEF Count, Cycle
    <2>7. TypeOK'
      BY <1>1, <2>2, <2>3, <2>4, <2>5, <2>6, CalendarAssumption DEF TypeOK, IInv, Cycle
    <2> HIDE DEF e
    <2>8. MonthsPerYear * k + month' = (n + month) + Byte * e
      BY <1>1, <2>1, <2>3, <2>4, Sizes
    <2>9. AddsUp'
      <3>1. /\ Congruent(MonthsPerYear * year + month, total + Byte * shortfalls, Cycle)
            /\ shortfalls' \in Int /\ e \in Int /\ shortfalls \in Int /\ month \in Int
            /\ shortfalls' = shortfalls + e /\ k \in Int /\ year \in Int /\ total \in Int
        BY <1>1, <2>1, <2>2, <2>3 DEF IInv, AddsUp
      <3>2. /\ year' \in Int /\ total' \in Int /\ month' \in Int
            /\ MonthsPerYear \in Int /\ Byte \in Int /\ Modulus \in Int /\ Cycle \in Int
            /\ Cycle = MonthsPerYear * Modulus
            /\ Congruent(year', year + k, Modulus) /\ Congruent(total', total + n, Cycle)
        BY <2>4, <2>5, <2>6, Sizes DEF Cycle
      <3>3. Congruent(MonthsPerYear * year' + month', total' + Byte * shortfalls', Cycle)
        BY Zenon, <2>8, <3>1, <3>2, MovesTogether
      <3> QED
        BY <3>3 DEF AddsUp, Cycle
    <2> QED
      BY <2>7, <2>9 DEF IInv
  <1> QED
    BY <1>2, <1>3

LEMMA StepKeeps == IInv /\ [Next]_vars => IInv'
  <1> SUFFICES ASSUME IInv, [Next]_vars PROVE IInv'
    OBVIOUS
  <1>1. CASE UNCHANGED vars
    BY <1>1 DEF vars, IInv, TypeOK, AddsUp
  <1>2. ASSUME NEW n \in Years, defined, AddYears(n) PROVE IInv'
    BY <1>2, YearsKeep, CalendarAssumption, Sizes DEF AddYears, Long
  <1>3. ASSUME NEW n \in Years, defined, SubtractYears(n) PROVE IInv'
    <2>1. n \in Int /\ -n \in Int /\ year \in Int
      BY CalendarAssumption, Sizes DEF Long, IInv, TypeOK
    <2>2. year - n = year + (-n) /\ -(n * MonthsPerYear) = (-n) * MonthsPerYear
      BY <2>1, Sizes
    <2> QED
      BY <1>3, <2>1, <2>2, YearsKeep DEF SubtractYears
  <1>4. ASSUME NEW n \in Months, defined, AddMonths(n), shortfalls' <= MaxShortfalls PROVE IInv'
    BY <1>4, MonthsKeep, CalendarAssumption, Sizes DEF Long
  <1>5. CASE Undefined
    BY <1>5 DEF Undefined, IInv, TypeOK
  <1> QED
    BY <1>1, <1>2, <1>3, <1>4, <1>5 DEF Next

LEMMA Invariant == Spec => []IInv
  BY InitHolds, StepKeeps, PTL DEF Spec

\* The year stays a 64-bit number and the month a byte, whatever is added.
THEOREM CalendarTyping == Spec => []TypeOK
  <1>1. IInv => TypeOK
    BY DEF IInv
  <1> QED
    BY <1>1, Invariant, PTL

\* The date counts its months, but for a byte of them for each sum that fell
\* below zero: the only way operator+(Duration<Month>) loses any.
THEOREM MonthsAreKept == Spec => []MonthsAddUp
  <1>1. IInv => MonthsAddUp
    <2> SUFFICES ASSUME IInv, defined PROVE
          ((MonthsPerYear * year + month) - (total + Byte * shortfalls)) % Cycle = 0
      BY DEF MonthsAddUp, Cycle
    <2>1. /\ MonthsPerYear * year + month \in Int /\ total + Byte * shortfalls \in Int
      BY Sizes, CalendarAssumption DEF IInv, TypeOK
    <2>2. Congruent(MonthsPerYear * year + month, total + Byte * shortfalls, Cycle)
      BY DEF IInv, AddsUp
    <2>3. Cycle \in Nat /\ Cycle > 0
      BY Sizes
    <2> QED
      BY Zenon, <2>1, <2>2, <2>3, CongruentIsMod
  <1> QED
    BY <1>1, Invariant, PTL

-----------------------------------------------------------------------------
(* UtcTime, LocalZone and ZoneTime *)

\* What each object holds, by the readings it was made from.
ReadingInv ==
  /\ ClockTypeOK
  /\ offset = InForce(setting.zone, setting.at)
  /\ utc = ToUnsigned(Seconds(readAt))
  /\ zoned = ToUnsigned(Seconds(origin.read) + InForce(origin.setting.zone, origin.setting.at))

LEMMA ClockConstants == Top \in Nat /\ Top > 0 /\ MaxOffset \in Nat /\ 2 * MaxOffset < Top
  BY ZoneAssumption

LEMMA SecondsAreWhole ==
  ASSUME NEW t \in Instant
  PROVE  Seconds(t) \in Int
  <1>1. t \in Int /\ -t \in Int /\ TicksPerSecond \in Nat /\ TicksPerSecond > 0
    BY ZoneAssumption
  <1>2. t \div TicksPerSecond \in Int /\ (-t) \div TicksPerSecond \in Int
    BY <1>1, DivMod
  <1> QED
    BY <1>2 DEF Seconds

LEMMA OffsetsAreSmall ==
  ASSUME NEW z \in Zone \union {UTC}, NEW t \in Instant
  PROVE  InForce(z, t) \in -MaxOffset .. MaxOffset
  <1>1. 0 \in -MaxOffset .. MaxOffset
    BY ClockConstants
  <1> QED
    BY <1>1, ZoneAssumption DEF InForce

LEMMA UnsignedTyped ==
  ASSUME NEW v \in Int
  PROVE  ToUnsigned(v) \in 0 .. Top - 1
  BY ClockConstants, DivMod DEF ToUnsigned

\* The conversions on the way do not matter.
LEMMA SumIsExact ==
  ASSUME NEW s \in Int, NEW o \in Int
  PROVE  Sum(ToUnsigned(s), o) = ToUnsigned(s + o)
  <1> DEFINE u == s % Top
             w == o % Top
  <1>1. u \in Int /\ w \in Int /\ Congruent(u, s, Top) /\ Congruent(w, o, Top)
    BY ClockConstants, DivMod, CongruentRemainder
  <1> HIDE DEF u, w
  <1>2. PICK p \in Int : u - s = p * Top
    BY <1>1 DEF Congruent
  <1>3. PICK q \in Int : w - o = q * Top
    BY <1>1 DEF Congruent
  <1>4. p + q \in Int /\ (u + w) - (s + o) = (p + q) * Top
    BY <1>1, <1>2, <1>3, ClockConstants
  <1>5. Congruent(u + w, s + o, Top)
    BY Zenon, <1>4 DEF Congruent
  <1>6. (u + w) % Top = (s + o) % Top
    <2>1. u + w \in Int /\ s + o \in Int
      BY <1>1
    <2> QED
      BY Zenon, <2>1, <1>5, ClockConstants, SameRemainder
  <1> QED
    BY <1>6 DEF Sum, ToUnsigned, u, w

\* Remainders tell apart what is less than the modulus apart.
LEMMA NearNumbersDiffer ==
  ASSUME NEW s \in Int, NEW a \in -MaxOffset .. MaxOffset, NEW b \in -MaxOffset .. MaxOffset,
         ToUnsigned(s + a) = ToUnsigned(s + b)
  PROVE  a = b
  <1>1. a \in Int /\ b \in Int /\ s + a \in Int /\ s + b \in Int
    BY ClockConstants
  <1>2. Congruent((s + a) % Top, s + a, Top) /\ Congruent((s + b) % Top, s + b, Top)
    BY <1>1, ClockConstants, CongruentRemainder
  <1>3. (s + a) % Top \in Int /\ (s + a) % Top = (s + b) % Top
    BY <1>1, ClockConstants, DivMod DEF ToUnsigned
  <1>4. Congruent(s + a, s + b, Top)
    BY Zenon, <1>1, <1>2, <1>3, ClockConstants, CongruentSymmetric, CongruentTransitive
  <1>5. Congruent(s + b, s + a, Top)
    BY Zenon, <1>1, <1>4, ClockConstants, CongruentSymmetric
  <1>6. ((s + a) - (s + b)) % Top = 0 /\ ((s + b) - (s + a)) % Top = 0
    BY <1>1, <1>4, <1>5, ClockConstants, CongruentIsMod
  <1>7. (s + a) - (s + b) = a - b /\ (s + b) - (s + a) = b - a
    BY <1>1
  <1>8. (a - b) % Top = 0 /\ (b - a) % Top = 0
    BY <1>6, <1>7
  <1>9. CASE a >= b
    <2>1. a - b \in Int /\ 0 <= a - b /\ a - b < Top
      BY <1>1, <1>9, ClockConstants
    <2> QED
      BY <1>1, <1>8, <2>1, ClockConstants, SmallMod
  <1>10. CASE a < b
    <2>1. b - a \in Int /\ 0 <= b - a /\ b - a < Top
      BY <1>1, <1>10, ClockConstants
    <2> QED
      BY <1>1, <1>8, <2>1, ClockConstants, SmallMod
  <1> QED
    BY <1>1, <1>9, <1>10

LEMMA InitReads == ClockInit => ReadingInv
  <1> SUFFICES ASSUME ClockInit PROVE ReadingInv
    OBVIOUS
  <1>1. 0 \in Instant /\ 0 \in 0 .. Top - 1 /\ 0 \in -MaxOffset .. MaxOffset
    BY ClockConstants, ZoneAssumption
  <1>2. InForce(UTC, 0) = 0
    BY ZoneAssumption DEF InForce
  <1>3. Seconds(0) = 0
    <2>1. TicksPerSecond \in Nat /\ TicksPerSecond > 0
      BY ZoneAssumption
    <2>2. 0 \div TicksPerSecond \in Int /\ 0 <= 0 \div TicksPerSecond /\ 0 \div TicksPerSecond <= 0
      BY <2>1, QuotientBelow
    <2> QED
      BY <2>2 DEF Seconds
  <1>4. ToUnsigned(0) = 0 /\ ToUnsigned(0 + 0) = 0
    BY ClockConstants, SmallMod DEF ToUnsigned
  <1>5. ClockTypeOK
    BY <1>1 DEF ClockInit, ClockTypeOK, Since
  <1> QED
    BY <1>2, <1>3, <1>4, <1>5 DEF ClockInit, ReadingInv, Since

LEMMA StepReads == ReadingInv /\ [ClockNext]_clockVars => ReadingInv'
  <1> SUFFICES ASSUME ReadingInv, [ClockNext]_clockVars PROVE ReadingInv'
    OBVIOUS
  <1>1. CASE ClockMoves
    BY <1>1 DEF ClockMoves, ReadingInv, ClockTypeOK
  <1>2. ASSUME NEW name \in Zone \union {Unknown}, SetZone(name) PROVE ReadingInv'
    <2>1. setting' \in [zone : Zone \union {UTC}, at : Instant]
      BY <1>2 DEF SetZone, Since, ReadingInv, ClockTypeOK
    <2>2. offset' = InForce(setting'.zone, setting'.at)
      <3>1. CASE name \in Zone
        BY <1>2, <3>1 DEF SetZone, Since, InForce
      <3>2. CASE name \notin Zone
        BY <1>2, <3>2, ZoneAssumption DEF SetZone, Since, InForce
      <3> QED
        BY <3>1, <3>2
    <2>3. offset' \in -MaxOffset .. MaxOffset
      BY <2>1, <2>2, OffsetsAreSmall
    <2> QED
      BY <1>2, <2>1, <2>2, <2>3 DEF SetZone, ReadingInv, ClockTypeOK
  <1>3. CASE Now
    <2>1. Seconds(clock) \in Int
      BY SecondsAreWhole DEF ReadingInv, ClockTypeOK
    <2>2. utc' \in 0 .. Top - 1
      BY <1>3, <2>1, UnsignedTyped DEF Now
    <2> QED
      BY <1>3, <2>2 DEF Now, ReadingInv, ClockTypeOK
  <1>4. CASE MakeZoned
    <2> DEFINE s == Seconds(readAt)
    <2>1. s \in Int
      BY SecondsAreWhole DEF ReadingInv, ClockTypeOK
    <2>2. offset \in Int /\ 0 \in Int
      BY ClockConstants DEF ReadingInv, ClockTypeOK
    <2>3. Sum(utc, offset) = ToUnsigned(s + offset) /\ Sum(utc, 0) = ToUnsigned(s + 0)
      BY <2>1, <2>2, SumIsExact DEF ReadingInv
    <2>4. Sum(utc, offset) \in 0 .. Top - 1 /\ Sum(utc, 0) \in 0 .. Top - 1
      BY <2>1, <2>2, <2>3, UnsignedTyped
    <2>5. InForce(UTC, readAt) = 0
      BY ZoneAssumption DEF InForce
    <2>6. CASE zoned' = Sum(utc, offset) /\ origin' = [read |-> readAt, setting |-> setting]
      BY <1>4, <2>3, <2>4, <2>6 DEF MakeZoned, ReadingInv, ClockTypeOK
    <2>7. CASE zoned' = Sum(utc, 0) /\ origin' = [read |-> readAt, setting |-> Since(UTC, readAt)]
      BY <1>4, <2>3, <2>4, <2>5, <2>7 DEF MakeZoned, ReadingInv, ClockTypeOK, Since
    <2> QED
      BY <1>4, <2>6, <2>7 DEF MakeZoned
  <1>5. CASE UNCHANGED clockVars
    BY <1>5 DEF clockVars, ReadingInv, ClockTypeOK
  <1> QED
    BY <1>1, <1>2, <1>3, <1>4, <1>5 DEF ClockNext

LEMMA AlwaysReads == ClockSpec => []ReadingInv
  BY InitReads, StepReads, PTL DEF ClockSpec

\* Whatever is read and set in whatever order, each object stays in its type.
THEOREM ZoneTyping == ClockSpec => []ClockTypeOK
  <1>1. ReadingInv => ClockTypeOK
    BY DEF ReadingInv
  <1> QED
    BY <1>1, AlwaysReads, PTL

\* A ZoneTime is the local time of its instant exactly when the zone's offset
\* was then what it had been when the zone was set.
THEOREM LocalTimeIsLocated == ClockSpec => []LocalUnlessStale
  <1>1. ReadingInv => LocalUnlessStale
    <2> SUFFICES ASSUME ReadingInv PROVE LocalUnlessStale
      OBVIOUS
    <2> DEFINE s == Seconds(origin.read)
               a == InForce(origin.setting.zone, origin.setting.at)
               b == InForce(origin.setting.zone, origin.read)
    <2>1. /\ origin.read \in Instant /\ origin.setting.at \in Instant
          /\ origin.setting.zone \in Zone \union {UTC}
      BY DEF ReadingInv, ClockTypeOK
    <2>2. /\ s \in Int /\ a \in -MaxOffset .. MaxOffset /\ b \in -MaxOffset .. MaxOffset
      BY <2>1, SecondsAreWhole, OffsetsAreSmall
    <2>3. zoned = ToUnsigned(s + a)
      BY DEF ReadingInv
    <2>4. LocalUnlessStale <=> (zoned = ToUnsigned(s + b) <=> b = a)
      BY DEF LocalUnlessStale
    <2> HIDE DEF s, a, b
    <2>5. ToUnsigned(s + a) = ToUnsigned(s + b) => a = b
      BY Zenon, <2>2, NearNumbersDiffer
    <2> QED
      BY Zenon, <2>3, <2>4, <2>5
  <1> QED
    BY <1>1, AlwaysReads, PTL

\* A ZoneTime whose local time can be counted from the epoch holds that count.
THEOREM WrapIsLocated == ClockSpec => []WrapsOnlyBeforeEpoch
  <1>1. ReadingInv => WrapsOnlyBeforeEpoch
    <2> SUFFICES ASSUME ReadingInv,
                        NEW e \in 0 .. Top - 1,
                        e = Seconds(origin.read)
                              + InForce(origin.setting.zone, origin.setting.at)
                 PROVE  zoned = e
      BY DEF WrapsOnlyBeforeEpoch
    <2>1. zoned = e % Top
      BY DEF ReadingInv, ToUnsigned
    <2> QED
      BY <2>1, ClockConstants, SmallMod
  <1> QED
    BY <1>1, AlwaysReads, PTL

\* The difference of two ZoneTimes of one setting is that of their UtcTimes.
THEOREM DistancesAreKept == ClockSpec => DistanceKept
  <1>1. ReadingInv /\ ReadingInv' =>
          (origin'.setting = origin.setting =>
             (zoned' - zoned) % Top = ToUnsigned(Seconds(origin'.read) - Seconds(origin.read)))
    <2> SUFFICES ASSUME ReadingInv, ReadingInv', origin'.setting = origin.setting
                 PROVE  (zoned' - zoned) % Top
                          = ToUnsigned(Seconds(origin'.read) - Seconds(origin.read))
      OBVIOUS
    <2> DEFINE s == Seconds(origin.read)
               t == Seconds(origin'.read)
               a == InForce(origin.setting.zone, origin.setting.at)
               y == (s + a) % Top
               z == (t + a) % Top
    <2>1. s \in Int /\ t \in Int /\ a \in Int
      <3>1. /\ origin.read \in Instant /\ origin'.read \in Instant
            /\ origin.setting.at \in Instant /\ origin.setting.zone \in Zone \union {UTC}
        BY DEF ReadingInv, ClockTypeOK
      <3>2. a \in -MaxOffset .. MaxOffset
        BY <3>1, OffsetsAreSmall
      <3> QED
        BY <3>1, <3>2, SecondsAreWhole, ClockConstants
    <2>2. zoned = y /\ zoned' = z
      BY DEF ReadingInv, ToUnsigned
    <2> HIDE DEF s, t, a
    <2>3. s + a \in Int /\ t + a \in Int
      BY <2>1
    <2>4. y \in Int /\ z \in Int /\ Congruent(y, s + a, Top) /\ Congruent(z, t + a, Top)
      BY <2>3, ClockConstants, DivMod, CongruentRemainder
    <2> HIDE DEF y, z
    <2>5. PICK p \in Int : y - (s + a) = p * Top
      BY <2>4 DEF Congruent
    <2>6. PICK q \in Int : z - (t + a) = q * Top
      BY <2>4 DEF Congruent
    <2>7. q - p \in Int /\ (z - y) - (t - s) = (q - p) * Top
      BY <2>1, <2>4, <2>5, <2>6, ClockConstants
    <2>8. Congruent(z - y, t - s, Top)
      BY Zenon, <2>7 DEF Congruent
    <2>9. (z - y) % Top = (t - s) % Top
      <3>1. z - y \in Int /\ t - s \in Int
        BY <2>1, <2>4
      <3> QED
        BY Zenon, <3>1, <2>8, ClockConstants, SameRemainder
    <2> QED
      BY <2>2, <2>9 DEF ToUnsigned, s, t
  <1> QED
    BY <1>1, AlwaysReads, PTL DEF DistanceKept

==============================================================================
