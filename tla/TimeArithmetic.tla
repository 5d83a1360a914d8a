---------------------------- MODULE TimeArithmetic ----------------------------
(***************************************************************************)
(* A point in time (Day, Hour, Minute or Second: an unsigned count) and a  *)
(* Duration (a signed count of one of the four units) that a program       *)
(* combines with + and -, in one unit or across units.                     *)
(*                                                                         *)
(* History variables: the seconds each would hold in the integers, whether *)
(* all of those fitted the signed type so far, and whether C++ has defined *)
(* every step.                                                             *)
(***************************************************************************)
EXTENDS Integers

CONSTANTS
  Scale,     \* Scale[u]: seconds in the unit u, finest unit first
  Modulus,   \* number of values of the 64-bit types
  Literal    \* the durations the program has at hand

Unit == 1..4   \* Second, Minute, Hour, Day

ASSUME ScaleAssumption ==
  /\ Scale \in [Unit -> Nat \ {0}] /\ Scale[1] = 1
  /\ \A u \in 1..3 : Scale[u] < Scale[u + 1] /\ Scale[u + 1] % Scale[u] = 0
ASSUME WidthAssumption == Modulus \in Nat \ {0} /\ Modulus % 2 = 0

Half == Modulus \div 2
Fits(x) == -Half <= x /\ x < Half            \* int64_t holds x
ToUnsigned(x) == x % Modulus
ToSigned(x) == IF x < Half THEN x ELSE x - Modulus

PointType == [unit : Unit, value : 0 .. Modulus - 1]
SpanType == [unit : Unit, value : -Half .. Half - 1]
ASSUME LiteralAssumption == Literal \subseteq SpanType

VARIABLES
  point, span,
  pointSeconds, spanSeconds,   \* what they are in the integers
  fitting,                     \* every exact result so far fitted int64_t
  defined                      \* every step so far is defined

vars == <<point, span, pointSeconds, spanSeconds, fitting, defined>>

TypeOK ==
  /\ point \in PointType /\ span \in SpanType
  /\ pointSeconds \in Int /\ spanSeconds \in Int
  /\ fitting \in BOOLEAN /\ defined \in BOOLEAN

Init ==
  /\ point = [unit |-> 4, value |-> 0] /\ pointSeconds = 0
  /\ \E d \in Literal : span = d /\ spanSeconds = d.value * Scale[d.unit]
  /\ fitting = Fits(spanSeconds)
  /\ defined = TRUE

ResType(t, u) == IF Scale[t] < Scale[u] THEN t ELSE u
Apply(op, x, y) == IF op = "+" THEN x + y ELSE x - y
Truncated(x, y) == IF x >= 0 THEN x \div y ELSE -((-x) \div y)   \* C++ integer /

\* The duration counted in seconds, and a count with sign.
toSecond(d) == d.value * Scale[d.unit]
Counted(p) == [unit |-> p.unit, value |-> ToSigned(p.value)]

\* Across units everything is computed in seconds, in int64_t, and divided by
\* the scale of the finer unit.
MixedDefined(op, a, b) ==
  Fits(toSecond(a)) /\ Fits(toSecond(b)) /\ Fits(Apply(op, toSecond(a), toSecond(b)))
\* Mutation: the seconds are divided by the scale of the left operand.
MixedLeft(op, a, b) ==
  [unit |-> ResType(a.unit, b.unit),
   value |-> Truncated(Apply(op, toSecond(a), toSecond(b)), Scale[a.unit])]
Mixed(op, a, b) ==
  LET unit == ResType(a.unit, b.unit) IN
  [unit |-> unit, value |-> Truncated(Apply(op, toSecond(a), toSecond(b)), Scale[unit])]

\* In one unit the counts are combined as they are: as uint64_t, wrapping, when
\* one is a point, as int64_t when both are durations.
Same(op, a, b) == [unit |-> a.unit, value |-> Apply(op, a.value, b.value)]

Combine(op, a, b) == IF a.unit = b.unit THEN Same(op, a, b) ELSE Mixed(op, a, b)

\* Mutation: the sum is kept as it is.
WrappedNot(r) == r
Wrapped(r) == [r EXCEPT !.value = ToUnsigned(@)]
PointResult(op, a, b) ==
  IF a.unit = b.unit \/ MixedDefined(op, a, b)
    THEN {Wrapped(Combine(op, a, b))}
    ELSE {[unit |-> ResType(a.unit, b.unit), value |-> v] : v \in 0 .. Modulus - 1}
SpanDefined(op, a, b) ==
  IF a.unit = b.unit THEN Fits(Apply(op, a.value, b.value)) ELSE MixedDefined(op, a, b)
SpanResult(op, a, b) ==
  IF SpanDefined(op, a, b)
    THEN {Combine(op, a, b)}
    ELSE {[unit |-> ResType(a.unit, b.unit), value |-> v] : v \in -Half .. Half - 1}

\* The history goes on while everything fits.
Remember(p, s) ==
  /\ fitting' = (fitting /\ Fits(p) /\ Fits(s))
  /\ pointSeconds' = IF fitting' THEN p ELSE 0
  /\ spanSeconds' = IF fitting' THEN s ELSE 0

\* The point is replaced by l op r, one of them the point and one the duration.
Move(op, l, r, seconds) ==
  /\ point' \in PointResult(op, l, r)
  /\ defined' = (defined /\ (l.unit = r.unit \/ MixedDefined(op, l, r)))
  /\ Remember(seconds, spanSeconds)
  /\ UNCHANGED span

\* T operator+/-(const T&, const Duration<U>&)
PointFirst(op) == Move(op, Counted(point), span, Apply(op, pointSeconds, spanSeconds))
\* T operator+/-(const Duration<U>&, const T&)
SpanFirst(op) == Move(op, span, Counted(point), Apply(op, spanSeconds, pointSeconds))

\* Duration operator+/-(const Duration<T>&, const Duration<U>&)
Lengthen(op, d) ==
  /\ span' \in SpanResult(op, span, d)
  /\ defined' = (defined /\ SpanDefined(op, span, d))
  /\ Remember(pointSeconds,
              IF Fits(toSecond(d)) THEN Apply(op, spanSeconds, toSecond(d)) ELSE Modulus)
  /\ UNCHANGED point

\* Duration(value): a new duration.
Take(d) ==
  /\ span' = d
  /\ Remember(pointSeconds, toSecond(d))
  /\ UNCHANGED <<point, defined>>

Next ==
  /\ fitting
  /\ \/ \E op \in {"+", "-"} : PointFirst(op) \/ SpanFirst(op)
     \/ \E op \in {"+", "-"}, d \in Literal : Lengthen(op, d)
     \/ \E d \in Literal : Take(d)

Spec == Init /\ [][Next]_vars

\* Mixing units never truncates and points before zero are no special case: as
\* long as the exact seconds fit the signed type, every step is defined and the
\* two counts, the point's read with its sign, are exactly those seconds,
\* although units only ever become finer and are divided back from seconds.
NothingIsLost ==
  fitting =>
    /\ defined
    /\ ToSigned(point.value) * Scale[point.unit] = pointSeconds
    /\ span.value * Scale[span.unit] = spanSeconds
===============================================================================
