------------------------- MODULE TimeArithmetic_proofs -------------------------
(***************************************************************************)
(* Proofs about points in time and durations, for every width of the       *)
(* counts and every four units each of which divides the next.             *)
(***************************************************************************)
EXTENDS TimeArithmetic, Congruence, TLAPS

Op == {"+", "-"}
Count == -Half .. Half - 1

\* The induction needs both that nothing was lost and that what there is fits.
InStep(value, unit, seconds) == Fits(seconds) /\ value * Scale[unit] = seconds
IInv ==
  /\ TypeOK
  /\ fitting =>
       /\ defined
       /\ InStep(ToSigned(point.value), point.unit, pointSeconds)
       /\ InStep(span.value, span.unit, spanSeconds)

LEMMA Widths == Half \in Nat /\ Half > 0 /\ Modulus = 2 * Half /\ Modulus \in Nat
  <1>1. Modulus \in Nat /\ Modulus > 0 /\ Modulus % 2 = 0
    BY WidthAssumption
  <1>2. Modulus = 2 * (Modulus \div 2) /\ Modulus \div 2 \in Int
    BY <1>1
  <1> QED
    BY <1>1, <1>2 DEF Half

LEMMA AppliedInt ==
  ASSUME NEW x \in Int, NEW y \in Int, NEW op
  PROVE  Apply(op, x, y) \in Int /\ (op = "+" => Apply(op, x, y) = x + y)
                                 /\ (op # "+" => Apply(op, x, y) = x - y)
  BY DEF Apply

LEMMA Scales ==
  ASSUME NEW u \in Unit
  PROVE  Scale[u] \in Nat /\ Scale[u] > 0
  BY ScaleAssumption

\* Each unit is a multiple of the one below.
LEMMA NextUnit ==
  ASSUME NEW u \in 1..3
  PROVE  Scale[u] < Scale[u + 1] /\ Congruent(Scale[u + 1], 0, Scale[u])
  <1>1. u \in Unit /\ u + 1 \in Unit
    BY DEF Unit
  <1>2. /\ Scale[u] \in Nat /\ Scale[u] > 0 /\ Scale[u + 1] \in Int
        /\ Scale[u + 1] % Scale[u] = 0 /\ Scale[u] < Scale[u + 1]
    BY <1>1, Scales, ScaleAssumption
  <1> QED
    BY <1>2, NoRemainder

\* Multiples of a multiple.
LEMMA MultipleTransitive ==
  ASSUME NEW a \in Int, NEW b \in Int, NEW c \in Int, Congruent(b, 0, a), Congruent(c, 0, b)
  PROVE  Congruent(c, 0, a)
  <1>1. PICK q \in Int : b - 0 = q * a
    BY DEF Congruent
  <1>2. PICK p \in Int : c - 0 = p * b
    BY DEF Congruent
  <1>3. p * q \in Int /\ c - 0 = (p * q) * a
    BY <1>1, <1>2
  <1> QED
    BY Zenon, <1>3 DEF Congruent

LEMMA MultipleOfItself ==
  ASSUME NEW a \in Int
  PROVE  Congruent(a, 0, a)
  <1>1. 1 \in Int /\ a - 0 = 1 * a
    OBVIOUS
  <1> QED
    BY Zenon, <1>1 DEF Congruent

\* The finer of two units divides the other.
LEMMA FinerDivides ==
  ASSUME NEW t \in Unit, NEW u \in Unit
  PROVE  /\ ResType(t, u) \in Unit
         /\ Congruent(Scale[t], 0, Scale[ResType(t, u)])
         /\ Congruent(Scale[u], 0, Scale[ResType(t, u)])
  <1>1. /\ Scale[1] \in Int /\ Scale[2] \in Int /\ Scale[3] \in Int /\ Scale[4] \in Int
    BY Scales DEF Unit
  <1>2. /\ Scale[1] < Scale[2] /\ Congruent(Scale[2], 0, Scale[1])
        /\ Scale[2] < Scale[3] /\ Congruent(Scale[3], 0, Scale[2])
        /\ Scale[3] < Scale[4] /\ Congruent(Scale[4], 0, Scale[3])
    <2>1. 1 \in 1..3 /\ 2 \in 1..3 /\ 3 \in 1..3 /\ 1 + 1 = 2 /\ 2 + 1 = 3 /\ 3 + 1 = 4
      OBVIOUS
    <2> QED
      BY Zenon, <2>1, NextUnit
  <1>3. Congruent(Scale[3], 0, Scale[1]) /\ Congruent(Scale[4], 0, Scale[2])
    BY Zenon, <1>1, <1>2, MultipleTransitive
  <1>4. Congruent(Scale[4], 0, Scale[1])
    BY Zenon, <1>1, <1>2, <1>3, MultipleTransitive
  <1>5. /\ Congruent(Scale[1], 0, Scale[1]) /\ Congruent(Scale[2], 0, Scale[2])
        /\ Congruent(Scale[3], 0, Scale[3]) /\ Congruent(Scale[4], 0, Scale[4])
    BY <1>1, MultipleOfItself
  <1>6. t \in {1, 2, 3, 4} /\ u \in {1, 2, 3, 4}
    BY DEF Unit
  <1>7. ResType(t, u) = IF t < u THEN t ELSE u
    BY <1>1, <1>2, <1>6 DEF ResType
  <1> QED
    BY <1>2, <1>3, <1>4, <1>5, <1>6, <1>7 DEF Unit

\* Dividing a multiple loses nothing, also below zero.
LEMMA ExactDivision ==
  ASSUME NEW x \in Int, NEW y \in Nat, y > 0, Congruent(x, 0, y)
  PROVE  Truncated(x, y) \in Int /\ Truncated(x, y) * y = x
  <1>1. PICK q \in Int : x - 0 = q * y
    BY DEF Congruent
  <1>2. CASE x >= 0
    <2>1. (x - 0) % y = 0
      BY CongruentIsMod
    <2>2. x = y * (x \div y) + (x % y) /\ x \div y \in Int
      BY DivMod
    <2>3. x = y * (x \div y)
      BY <2>1, <2>2
    <2>4. Truncated(x, y) = x \div y
      BY <1>2 DEF Truncated
    <2> QED
      BY <2>2, <2>3, <2>4
  <1>3. CASE x < 0
    <2>1. -x - 0 = (-q) * y /\ -q \in Int /\ -x \in Int
      BY <1>1
    <2>2. Congruent(-x, 0, y)
      BY Zenon, <2>1 DEF Congruent
    <2>3. (-x - 0) % y = 0
      BY <2>1, <2>2, CongruentIsMod
    <2>4. -x = y * ((-x) \div y) + ((-x) % y) /\ (-x) \div y \in Int
      BY <2>1, DivMod
    <2>5. -x = y * ((-x) \div y)
      BY <2>3, <2>4
    <2>6. Truncated(x, y) = -((-x) \div y)
      BY <1>3 DEF Truncated
    <2> QED
      BY <2>4, <2>5, <2>6
  <1> QED
    BY <1>2, <1>3

\* A sum or difference of multiples is one.
LEMMA AppliedMultiple ==
  ASSUME NEW a \in Int, NEW b \in Int, NEW s \in Int, NEW t \in Int, NEW y \in Int, NEW op,
         Congruent(s, 0, y), Congruent(t, 0, y)
  PROVE  Congruent(Apply(op, a * s, b * t), 0, y)
  <1>1. PICK q \in Int : s - 0 = q * y
    BY DEF Congruent
  <1>2. PICK p \in Int : t - 0 = p * y
    BY DEF Congruent
  <1>3. a * s = (a * q) * y /\ b * t = (b * p) * y
    BY <1>1, <1>2
  <1>4. CASE op = "+"
    <2>1. (a * q) + (b * p) \in Int /\ Apply(op, a * s, b * t) - 0 = ((a * q) + (b * p)) * y
      BY <1>3, <1>4 DEF Apply
    <2> QED
      BY Zenon, <2>1 DEF Congruent
  <1>5. CASE op # "+"
    <2>1. (a * q) - (b * p) \in Int /\ Apply(op, a * s, b * t) - 0 = ((a * q) - (b * p)) * y
      BY <1>3, <1>5 DEF Apply
    <2> QED
      BY Zenon, <2>1 DEF Congruent
  <1> QED
    BY <1>4, <1>5

\* A count is no larger than its seconds.
LEMMA FitsBelow ==
  ASSUME NEW v \in Int, NEW s \in Nat, s > 0, Fits(v * s)
  PROVE  v \in Count /\ Fits(v)
  <1>1. v * s \in Int /\ -Half <= v * s /\ v * s < Half
    BY DEF Fits
  <1>2. CASE v >= 0
    <2>1. v * (s - 1) >= 0 /\ v * (s - 1) = v * s - v
      BY <1>2
    <2> QED
      BY <1>1, <1>2, <2>1, Widths DEF Count, Fits
  <1>3. CASE v < 0
    <2>1. (-v) * (s - 1) >= 0 /\ (-v) * (s - 1) = v - v * s
      BY <1>3
    <2> QED
      BY <1>1, <1>3, <2>1, Widths DEF Count, Fits
  <1> QED
    BY <1>2, <1>3

\* Dividing keeps what fits.
LEMMA TruncatedBelow ==
  ASSUME NEW x \in Int, NEW y \in Nat, y > 0
  PROVE  Truncated(x, y) \in Int /\ (Fits(x) => Truncated(x, y) \in Count)
  <1>1. CASE x >= 0
    <2>1. x \div y \in Int /\ 0 <= x \div y /\ x \div y <= x
      BY <1>1, QuotientBelow
    <2>2. Truncated(x, y) = x \div y
      BY <1>1 DEF Truncated
    <2> QED
      BY <1>1, <2>1, <2>2, Widths DEF Fits, Count
  <1>2. CASE x < 0
    <2>1. (-x) \div y \in Int /\ 0 <= (-x) \div y /\ (-x) \div y <= -x
      BY <1>2, QuotientBelow
    <2>2. Truncated(x, y) = -((-x) \div y)
      BY <1>2 DEF Truncated
    <2> QED
      BY <1>2, <2>1, <2>2, Widths DEF Fits, Count
  <1> QED
    BY <1>1, <1>2

\* A point keeps a count with its sign.
LEMMA RoundTrip ==
  ASSUME NEW v \in Int
  PROVE  /\ ToUnsigned(v) \in 0 .. Modulus - 1
         /\ v \in Count => ToSigned(ToUnsigned(v)) = v
  <1>1. ToUnsigned(v) \in 0 .. Modulus - 1
    BY Widths, DivMod DEF ToUnsigned
  <1>2. ASSUME v \in Count PROVE ToSigned(ToUnsigned(v)) = v
    <2>1. CASE v >= 0
      BY <1>2, <2>1, Widths, SmallMod DEF ToUnsigned, ToSigned, Count
    <2>2. CASE v < 0
      <3>1. (v + Modulus) % Modulus = v + Modulus
        BY <1>2, <2>2, Widths, SmallMod DEF Count
      <3>2. (v + Modulus) % Modulus = v % Modulus
        BY WidthAssumption, ShiftMod
      <3> QED
        BY <1>2, <2>2, <3>1, <3>2, Widths DEF ToUnsigned, ToSigned, Count
    <2> QED
      BY <2>1, <2>2
  <1> QED
    BY <1>1, <1>2

Spans == [unit : Unit, value : Count]

\* What + and - make of two counts, in the same unit or across units, is what
\* they make of the seconds.
LEMMA CombinedExactly ==
  ASSUME NEW a \in Spans, NEW b \in Spans, NEW op,
         Fits(toSecond(a)), Fits(toSecond(b)), Fits(Apply(op, toSecond(a), toSecond(b)))
  PROVE  /\ Combine(op, a, b).unit \in Unit
         /\ Combine(op, a, b).value \in Count
         /\ Combine(op, a, b).value * Scale[Combine(op, a, b).unit]
              = Apply(op, toSecond(a), toSecond(b))
         /\ Combine(op, a, b) = [unit |-> Combine(op, a, b).unit, value |-> Combine(op, a, b).value]
         /\ MixedDefined(op, a, b)
         /\ a.unit = b.unit => Fits(Apply(op, a.value, b.value))
  <1> DEFINE x == Apply(op, toSecond(a), toSecond(b))
             r == Combine(op, a, b)
  <1>1. /\ a.unit \in Unit /\ b.unit \in Unit /\ a.value \in Int /\ b.value \in Int
        /\ Scale[a.unit] \in Nat /\ Scale[a.unit] > 0 /\ Scale[b.unit] \in Nat /\ Scale[b.unit] > 0
    BY Scales, Widths DEF Spans, Count
  <1>2. toSecond(a) = a.value * Scale[a.unit] /\ toSecond(b) = b.value * Scale[b.unit]
    BY DEF toSecond
  <1>3. toSecond(a) \in Int /\ toSecond(b) \in Int /\ x \in Int
    BY <1>1, <1>2, AppliedInt
  <1>4. MixedDefined(op, a, b)
    BY DEF MixedDefined
  <1>5. CASE a.unit = b.unit
    <2>1. r = [unit |-> a.unit, value |-> Apply(op, a.value, b.value)]
      BY <1>5 DEF Combine, Same
    <2>2. Apply(op, a.value, b.value) \in Int
      BY <1>1, AppliedInt
    <2>3. Apply(op, a.value, b.value) * Scale[a.unit] = x
      <3>1. CASE op = "+"
        BY <1>1, <1>2, <1>5, <3>1 DEF Apply
      <3>2. CASE op # "+"
        BY <1>1, <1>2, <1>5, <3>2 DEF Apply
      <3> QED
        BY <3>1, <3>2
    <2>4. Apply(op, a.value, b.value) \in Count /\ Fits(Apply(op, a.value, b.value))
      BY <1>1, <2>2, <2>3, FitsBelow
    <2> QED
      BY <1>1, <1>4, <2>1, <2>3, <2>4
  <1>6. CASE a.unit # b.unit
    <2> DEFINE u == ResType(a.unit, b.unit)
    <2>1. r = [unit |-> u, value |-> Truncated(x, Scale[u])]
      BY <1>6 DEF Combine, Mixed
    <2>2. /\ u \in Unit /\ Congruent(Scale[a.unit], 0, Scale[u])
          /\ Congruent(Scale[b.unit], 0, Scale[u])
      BY <1>1, FinerDivides
    <2>3. Scale[u] \in Nat /\ Scale[u] > 0
      BY <2>2, Scales
    <2>4. Congruent(x, 0, Scale[u])
      <3>1. Congruent(Apply(op, a.value * Scale[a.unit], b.value * Scale[b.unit]), 0, Scale[u])
        <4>1. Scale[a.unit] \in Int /\ Scale[b.unit] \in Int /\ Scale[u] \in Int
          BY <1>1, <2>3
        <4> QED
          BY Zenon, <1>1, <2>2, <4>1, AppliedMultiple
      <3> QED
        BY <1>2, <3>1
    <2>5. Truncated(x, Scale[u]) \in Int /\ Truncated(x, Scale[u]) * Scale[u] = x
      BY <1>3, <2>3, <2>4, ExactDivision
    <2>6. Truncated(x, Scale[u]) \in Count
      BY <2>3, <2>5, FitsBelow
    <2> QED
      BY <1>4, <1>6, <2>1, <2>2, <2>5, <2>6
  <1> QED
    BY <1>5, <1>6

\* Whatever fits or not, the results have their types.
LEMMA ResultsTyped ==
  ASSUME NEW a \in Spans, NEW b \in Spans, NEW op
  PROVE  PointResult(op, a, b) \subseteq PointType /\ SpanResult(op, a, b) \subseteq SpanType
  <1>1. /\ a.unit \in Unit /\ b.unit \in Unit /\ a.value \in Int /\ b.value \in Int
        /\ ResType(a.unit, b.unit) \in Unit
    BY Widths, FinerDivides DEF Spans, Count
  <1>2. Apply(op, a.value, b.value) \in Int
    BY <1>1, AppliedInt
  <1>3. toSecond(a) \in Int /\ toSecond(b) \in Int
    BY <1>1, Scales DEF toSecond
  <1> DEFINE u == ResType(a.unit, b.unit)
             x == Apply(op, toSecond(a), toSecond(b))
  <1>4. x \in Int /\ Scale[u] \in Nat /\ Scale[u] > 0
    BY <1>1, <1>3, AppliedInt, Scales
  <1>5. Truncated(x, Scale[u]) \in Int /\ (Fits(x) => Truncated(x, Scale[u]) \in Count)
    BY <1>4, TruncatedBelow
  <1>6. CASE a.unit = b.unit
    <2>1. Combine(op, a, b) = [unit |-> a.unit, value |-> Apply(op, a.value, b.value)]
      BY <1>6 DEF Combine, Same
    <2>2. PointResult(op, a, b) \subseteq PointType
      BY <1>1, <1>2, <1>6, <2>1, RoundTrip DEF PointResult, Wrapped, PointType
    <2>3. SpanResult(op, a, b) \subseteq SpanType
      BY <1>1, <1>2, <1>6, <2>1, Widths DEF SpanResult, SpanDefined, SpanType, Fits, Count
    <2> QED
      BY <2>2, <2>3
  <1>7. CASE a.unit # b.unit
    <2>1. Combine(op, a, b) = [unit |-> u, value |-> Truncated(x, Scale[u])]
      BY <1>7 DEF Combine, Mixed
    <2>2. PointResult(op, a, b) \subseteq PointType
      BY <1>1, <1>5, <1>7, <2>1, RoundTrip DEF PointResult, Wrapped, PointType
    <2>3. SpanResult(op, a, b) \subseteq SpanType
      BY <1>1, <1>5, <1>7, <2>1 DEF SpanResult, SpanDefined, SpanType, MixedDefined, Count
    <2> QED
      BY <2>2, <2>3
  <1> QED
    BY <1>6, <1>7

\* The operands of a step and their seconds, while everything fits.
LEMMA Operands ==
  ASSUME IInv
  PROVE  /\ Counted(point) \in Spans /\ span \in Spans
         /\ pointSeconds \in Int /\ spanSeconds \in Int
         /\ fitting => /\ toSecond(Counted(point)) = pointSeconds /\ Fits(pointSeconds)
                       /\ toSecond(span) = spanSeconds /\ Fits(spanSeconds)
  <1>1. point.value \in 0 .. Modulus - 1 /\ point.unit \in Unit /\ span \in Spans
    BY DEF IInv, TypeOK, PointType, SpanType, Spans, Count
  <1>2. ToSigned(point.value) \in Count
    BY <1>1, Widths DEF ToSigned, Count
  <1> QED
    BY <1>1, <1>2 DEF IInv, TypeOK, InStep, Counted, Spans, toSecond

\* What Remember makes of the history.
LEMMA Remembered ==
  ASSUME NEW p \in Int, NEW s \in Int, Remember(p, s)
  PROVE  /\ fitting' \in BOOLEAN /\ pointSeconds' \in Int /\ spanSeconds' \in Int
         /\ fitting' => /\ fitting /\ Fits(p) /\ Fits(s)
                        /\ pointSeconds' = p /\ spanSeconds' = s
  <1>1. /\ fitting' = (fitting /\ Fits(p) /\ Fits(s))
        /\ pointSeconds' = (IF fitting' THEN p ELSE 0)
        /\ spanSeconds' = (IF fitting' THEN s ELSE 0)
    BY Zenon DEF Remember
  <1>2. fitting' \in BOOLEAN
    BY Zenon, <1>1
  <1>3. fitting' => fitting /\ Fits(p) /\ Fits(s)
    BY Zenon, <1>1
  <1>4. pointSeconds' \in Int /\ spanSeconds' \in Int
    BY <1>1, <1>2
  <1>5. fitting' => pointSeconds' = p /\ spanSeconds' = s
    BY Zenon, <1>1
  <1> QED
    BY Zenon, <1>2, <1>3, <1>4, <1>5

LEMMA MoveKeeps ==
  ASSUME IInv, fitting, NEW a \in Spans, NEW b \in Spans, NEW op,
         Fits(toSecond(a)), Fits(toSecond(b)), toSecond(a) \in Int, toSecond(b) \in Int,
         Move(op, a, b, Apply(op, toSecond(a), toSecond(b)))
  PROVE  IInv'
  <1> DEFINE x == Apply(op, toSecond(a), toSecond(b))
             r == Combine(op, a, b)
  <1>1. x \in Int /\ spanSeconds \in Int
    BY AppliedInt, Operands
  <1>2. /\ fitting' \in BOOLEAN /\ pointSeconds' \in Int /\ spanSeconds' \in Int
        /\ fitting' => Fits(x) /\ pointSeconds' = x /\ spanSeconds' = spanSeconds
    BY <1>1, Remembered DEF Move
  <1>3. point' \in PointType
    BY ResultsTyped DEF Move
  <1>4. /\ point' \in PointResult(op, a, b) /\ span' = span
        /\ defined' = (defined /\ (a.unit = b.unit \/ MixedDefined(op, a, b)))
    BY DEF Move
  <1>5. TypeOK'
    BY <1>2, <1>3, <1>4 DEF IInv, TypeOK
  <1>6. ASSUME fitting'
        PROVE  /\ defined'
               /\ InStep(ToSigned(point.value), point.unit, pointSeconds)'
               /\ InStep(span.value, span.unit, spanSeconds)'
    <2>1. /\ r.value \in Count /\ r.value * Scale[r.unit] = x
          /\ r = [unit |-> r.unit, value |-> r.value] /\ MixedDefined(op, a, b)
      BY <1>2, <1>6, CombinedExactly
    <2>2. point' = Wrapped(r)
      BY <1>4, <2>1 DEF PointResult
    <2> HIDE DEF r, x
    <2>3. point'.unit = r.unit /\ point'.value = ToUnsigned(r.value)
      BY <2>1, <2>2 DEF Wrapped
    <2>4. r.value \in Int
      BY <2>1, Widths DEF Count
    <2>5. ToSigned(point'.value) = r.value
      BY <2>1, <2>3, <2>4, RoundTrip
    <2>6. Fits(pointSeconds') /\ ToSigned(point'.value) * Scale[point'.unit] = pointSeconds'
      BY <1>2, <1>6, <2>1, <2>3, <2>5
    <2>7. defined'
      BY <1>4, <2>1 DEF IInv
    <2> QED
      BY <1>2, <1>4, <1>6, <2>6, <2>7 DEF IInv, InStep, Fits, ToSigned
  <1> QED
    BY <1>5, <1>6 DEF IInv

LEMMA LengthenKeeps ==
  ASSUME IInv, fitting, NEW d \in Literal, NEW op, Lengthen(op, d)
  PROVE  IInv'
  <1> DEFINE x == Apply(op, spanSeconds, toSecond(d))
             y == IF Fits(toSecond(d)) THEN x ELSE Modulus
             r == Combine(op, span, d)
  <1>1. d \in Spans
    BY LiteralAssumption DEF SpanType, Spans, Count
  <1>2. toSecond(d) \in Int
    BY <1>1, Scales, Widths DEF Spans, Count, toSecond
  <1>3. /\ span \in Spans /\ spanSeconds \in Int /\ pointSeconds \in Int
        /\ toSecond(span) = spanSeconds /\ Fits(spanSeconds)
    BY Operands
  <1>4. x \in Int /\ y \in Int
    BY <1>2, <1>3, AppliedInt, Widths
  <1>5. /\ fitting' \in BOOLEAN /\ pointSeconds' \in Int /\ spanSeconds' \in Int
        /\ fitting' => Fits(y) /\ spanSeconds' = y /\ pointSeconds' = pointSeconds
    <2>1. Remember(pointSeconds, y)
      BY DEF Lengthen
    <2> HIDE DEF y
    <2> QED
      BY <1>3, <1>4, <2>1, Remembered
  <1>6. span' \in SpanType
    BY <1>1, <1>3, ResultsTyped DEF Lengthen
  <1>7. /\ span' \in SpanResult(op, span, d) /\ point' = point
        /\ defined' = (defined /\ SpanDefined(op, span, d))
    BY DEF Lengthen
  <1>8. TypeOK'
    BY <1>5, <1>6, <1>7 DEF IInv, TypeOK
  <1>9. ASSUME fitting'
        PROVE  /\ defined'
               /\ InStep(ToSigned(point.value), point.unit, pointSeconds)'
               /\ InStep(span.value, span.unit, spanSeconds)'
    <2>1. Fits(toSecond(d)) /\ Fits(x) /\ spanSeconds' = x
      BY <1>5, <1>9, Widths DEF Fits
    <2>2. /\ r.value * Scale[r.unit] = x /\ MixedDefined(op, span, d)
          /\ span.unit = d.unit => Fits(Apply(op, span.value, d.value))
      BY <1>1, <1>3, <2>1, CombinedExactly
    <2>3. SpanDefined(op, span, d)
      BY <2>2 DEF SpanDefined
    <2>4. span' = r
      BY <1>7, <2>3 DEF SpanResult
    <2> QED
      BY <1>5, <1>7, <1>9, <2>1, <2>2, <2>3, <2>4 DEF IInv, InStep, Fits, ToSigned
  <1> QED
    BY <1>8, <1>9 DEF IInv

LEMMA TakeKeeps ==
  ASSUME IInv, fitting, NEW d \in Literal, Take(d)
  PROVE  IInv'
  <1>1. d \in SpanType /\ d \in Spans /\ toSecond(d) = d.value * Scale[d.unit]
    BY LiteralAssumption DEF SpanType, Spans, Count, toSecond
  <1>2. toSecond(d) \in Int /\ pointSeconds \in Int
    BY <1>1, Scales, Widths, Operands DEF Spans, Count
  <1>3. /\ fitting' \in BOOLEAN /\ pointSeconds' \in Int /\ spanSeconds' \in Int
        /\ fitting' => /\ Fits(toSecond(d)) /\ spanSeconds' = toSecond(d)
                       /\ pointSeconds' = pointSeconds
    BY <1>2, Remembered DEF Take
  <1> QED
    BY <1>1, <1>3 DEF Take, IInv, TypeOK, InStep, Fits, ToSigned

LEMMA InitHolds == Init => IInv
  <1> SUFFICES ASSUME Init PROVE IInv
    OBVIOUS
  <1>1. PICK d \in Literal : span = d /\ spanSeconds = d.value * Scale[d.unit]
    BY DEF Init
  <1>2. d \in Spans /\ d \in SpanType
    BY LiteralAssumption DEF SpanType, Spans, Count
  <1>3. spanSeconds \in Int /\ Scale[4] \in Int
    BY <1>1, <1>2, Scales, Widths DEF Spans, Count, Unit
  <1>4. Fits(0) /\ ToSigned(0) = 0 /\ 0 * Scale[4] = 0
    BY <1>3, Widths DEF Fits, ToSigned
  <1>5. point = [unit |-> 4, value |-> 0] /\ point \in PointType
    BY Widths DEF Init, PointType, Unit
  <1>6. fitting \in BOOLEAN /\ (fitting => Fits(spanSeconds)) /\ defined /\ pointSeconds = 0
    BY DEF Init, Fits
  <1> QED
    BY <1>1, <1>2, <1>3, <1>4, <1>5, <1>6 DEF Init, IInv, TypeOK, InStep

LEMMA StepKeeps == IInv /\ [Next]_vars => IInv'
  <1> SUFFICES ASSUME IInv, [Next]_vars PROVE IInv'
    OBVIOUS
  <1>1. CASE UNCHANGED vars
    BY <1>1 DEF vars, IInv, TypeOK, InStep, Fits, ToSigned
  <1>2. ASSUME NEW op \in {"+", "-"}, fitting, PointFirst(op) PROVE IInv'
    BY <1>2, Operands, MoveKeeps DEF PointFirst
  <1>3. ASSUME NEW op \in {"+", "-"}, fitting, SpanFirst(op) PROVE IInv'
    BY <1>3, Operands, MoveKeeps DEF SpanFirst
  <1>4. ASSUME NEW op \in {"+", "-"}, NEW d \in Literal, fitting, Lengthen(op, d) PROVE IInv'
    BY <1>4, LengthenKeeps
  <1>5. ASSUME NEW d \in Literal, fitting, Take(d) PROVE IInv'
    BY <1>5, TakeKeeps
  <1> QED
    BY <1>1, <1>2, <1>3, <1>4, <1>5 DEF Next

LEMMA Invariant == Spec => []IInv
  BY InitHolds, StepKeeps, PTL DEF Spec

\* Every operator on points and durations, undefined or not, leaves counts of
\* its result type.
THEOREM TimeTyping == Spec => []TypeOK
  <1>1. IInv => TypeOK
    BY DEF IInv
  <1> QED
    BY <1>1, Invariant, PTL

\* As long as the seconds fit int64_t, + and - of points and durations, in one
\* unit or across units, are exact and defined.
THEOREM TimeIsExact == Spec => []NothingIsLost
  <1>1. IInv => NothingIsLost
    BY DEF IInv, InStep, NothingIsLost
  <1> QED
    BY <1>1, Invariant, PTL
================================================================================
