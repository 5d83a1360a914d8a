----------------------------- MODULE FloatChain -----------------------------
(***************************************************************************)
(* Float32 and Float64 of destinyNumeric.hpp, with the integer types and   *)
(* Bool they meet: one object goes through a chain of conversions and      *)
(* operations, and exact is the whole number it stands for if nothing is   *)
(* ever rounded.                                                           *)
(*                                                                         *)
(* Floating-point arithmetic is IEC 60559's, rounding to nearest and ties  *)
(* to even.  A value of any type is a record: a class, a sign and, when it *)
(* is finite, its magnitude in units, Unit of which are 1.  There is one   *)
(* NaN, and two zeros.                                                     *)
(***************************************************************************)
EXTENDS Numeric

CONSTANTS
  Unit,        \* units in 1
  MaxExponent, \* bound on the powers of two that rounding looks at
  Power,       \* Power[i]: 2^i
  Precision,   \* Precision[k]: the bits of a significand of size k: 24, 53
  Smallest,    \* Smallest[k]: the least magnitude above zero, in units
  Largest,     \* Largest[k]: the greatest finite magnitude, in units
  Operands,    \* the objects a chain starts from and meets
  MaxLength    \* bound on the chain

FloatSize == {IntSize, 4}

Exponent == 0 .. MaxExponent

ASSUME PowerAssumption ==
  /\ MaxExponent \in Nat
  /\ Power \in [Exponent -> Nat]
  /\ Power[0] = 1
  /\ \A i \in 0 .. MaxExponent - 1 : Power[i + 1] = 2 * Power[i]

ASSUME FloatAssumption ==
  /\ Unit \in Nat \ {0} /\ MaxLength \in Nat
  /\ \A f \in {Precision, Smallest, Largest} : f \in [FloatSize -> Nat \ {0}]
  /\ Width[2] <= Precision[3] /\ Precision[3] < Width[3]
  /\ Width[3] <= Precision[4] /\ Precision[4] < Width[4]
  /\ Precision[4] >= 2 * Precision[3] + 2   \* 53 and 24
  /\ Width[4] <= MaxExponent
  /\ \A k \in FloatSize :
       /\ \E i \in Exponent : Unit = Smallest[k] * Power[i]
       /\ Largest[k] >= Modulus[4] * Unit
       /\ Smallest[k] * Power[Precision[k]] * Power[MaxExponent] > Largest[4] * Largest[4]
  /\ \E i \in Exponent : Smallest[3] = Smallest[4] * Power[i]
  /\ 2 * Largest[3] <= Largest[4]
  /\ 2 * Power[Precision[3]] * Smallest[4] <= Smallest[3]
  /\ Smallest[4] * Unit <= Smallest[3] * Smallest[3]
  /\ Smallest[4] * Modulus[3] <= Unit

FloatOf(k) == [size |-> k, float |-> TRUE]
Float32 == FloatOf(3)
Float64 == FloatOf(4)
FloatingType == {Float32, Float64}
FloatOp == RingOp \union {"/"}

(* Values                                                                  *)

Finite(sign, units) == [class |-> "finite", sign |-> sign, units |-> units]
Infinity(sign) == [class |-> "infinite", sign |-> sign, units |-> 0]
NaN == [class |-> "nan", sign |-> 1, units |-> 0]
Number(v) == Finite(IF v < 0 THEN -1 ELSE 1, Magnitude(v) * Unit)

IsFinite(x) == x.class = "finite"
IsZero(x) == IsFinite(x) /\ x.units = 0
IsWhole(x) == IsFinite(x) /\ x.units % Unit = 0

\* The real number, in units.
Real(x) == x.sign * x.units
Truncated(x) == x.sign * (x.units \div Unit)

Format(t) ==
  [precision |-> Precision[t.size], smallest |-> Smallest[t.size], largest |-> Largest[t.size]]

\* The distance between the values of type t around num / den.
Spacing(t, num, den) ==
  LET least == Format(t).smallest
      full == least * Power[Format(t).precision] * den
  IN least * Power[CHOOSE i \in Exponent :
                     num < full * Power[i] /\ (i > 0 => num >= full * Power[i - 1])]

\* How many gaps make up n, to the nearest and from half-way to the even count.
Nearest(n, gap) ==
  LET below == n \div gap
      rest == n % gap
      up == 2 * rest > gap \/ (2 * rest = gap /\ below % 2 = 1)
  IN IF up THEN below + 1 ELSE below

RoundedUnits(t, num, den) ==
  LET spacing == Spacing(t, num, den) IN Nearest(num, spacing * den) * spacing

\* The value of type t for the magnitude num / den.
Rounded(t, sign, num, den) ==
  LET units == RoundedUnits(t, num, den)
  IN IF units > Format(t).largest THEN Infinity(sign) ELSE Finite(sign, units)

ValueOf(t, x) ==
  IF t \in FloatingType
    THEN \/ x = NaN \/ x \in {Infinity(1), Infinity(-1)}
         \/ \E sign \in {1, -1} : /\ x = Finite(sign, x.units) /\ x.units \in 0 .. Largest[t.size]
                                /\ RoundedUnits(t, x.units, 1) = x.units
    ELSE \E v \in Values(t) : x = Number(v)

ASSUME OperandAssumption ==
  \A o \in Operands :
    /\ o.type \in Type \union FloatingType /\ ValueOf(o.type, o.value)
    /\ o = [type |-> o.type, value |-> o.value]

(* Conversions: those to a floating-point type round, those to an integer  *)
(* truncate and are undefined for what does not fit.                       *)

\* Mutation: a value keeps the precision it had.
FloatKept(t, x) == x

\* Mutation: the traits of Float64 name float as its type.
FloatSingle(t, x) == IF IsFinite(x) THEN Rounded(Float32, x.sign, x.units, 1) ELSE x

Float(t, x) == IF IsFinite(x) THEN Rounded(t, x.sign, x.units, 1) ELSE x

ConvertDefined(s, t, x) ==
  s \in FloatingType /\ t \in IntegerType => IsFinite(x) /\ Truncated(x) \in Values(t)

Converted(s, t, x) ==
  IF t \in FloatingType THEN {Float(t, x)}
  ELSE IF t = Bool THEN {Number(IF IsZero(x) THEN 0 ELSE 1)}
  ELSE IF ConvertDefined(s, t, x) THEN {Number(Cast(t, Truncated(x)))}
  ELSE {Number(v) : v \in Values(t)}

(* Operations                                                              *)

\* Mutation: an integer meets a floating-point type in that type.
CommonFloatOperand(a, b) ==
  IF a \in FloatingType /\ b \in FloatingType
    THEN IF a.size >= b.size THEN a ELSE b
    ELSE IF a \in FloatingType THEN a ELSE b

\* One of the two is a floating-point type.
CommonFloat(a, b) ==
  IF a \in FloatingType /\ b \in FloatingType
    THEN IF a.size >= b.size THEN a ELSE b
    ELSE Float64

Opposite(x) == IF x = NaN THEN x ELSE [x EXCEPT !.sign = -x.sign]

Sum(t, x, y) ==
  LET s == Real(x) + Real(y)
  IN IF NaN \in {x, y} THEN NaN
     ELSE IF ~IsFinite(x) /\ ~IsFinite(y) THEN IF x = y THEN x ELSE NaN
     ELSE IF ~IsFinite(x) THEN x
     ELSE IF ~IsFinite(y) THEN y
     ELSE IF s = 0 THEN Finite(IF x.sign = y.sign THEN x.sign ELSE 1, 0)
     ELSE Rounded(t, IF s < 0 THEN -1 ELSE 1, Magnitude(s), 1)

Product(t, x, y) ==
  LET sign == x.sign * y.sign
  IN IF NaN \in {x, y} THEN NaN
     ELSE IF IsFinite(x) /\ IsFinite(y) THEN Rounded(t, sign, x.units * y.units, Unit)
     ELSE IF IsZero(x) \/ IsZero(y) THEN NaN
     ELSE Infinity(sign)

Ratio(t, x, y) ==
  LET sign == x.sign * y.sign
  IN IF NaN \in {x, y} \/ (IsZero(x) /\ IsZero(y)) \/ (~IsFinite(x) /\ ~IsFinite(y)) THEN NaN
     ELSE IF ~IsFinite(x) \/ IsZero(y) THEN Infinity(sign)
     ELSE IF ~IsFinite(y) THEN Finite(sign, 0)
     ELSE Rounded(t, sign, x.units * Unit, y.units)

Computed(op, t, x, y) ==
  CASE op = "+" -> Sum(t, x, y)
    [] op = "-" -> Sum(t, x, Opposite(y))
    [] op = "*" -> Product(t, x, y)
    [] op = "/" -> Ratio(t, x, y)

\* operator+ .. operator/: the object l op r
BinaryResult(op, l, r) ==
  LET c == CommonFloat(l.type, r.type)
  IN [type |-> c, value |-> Computed(op, c, Float(c, l.value), Float(c, r.value))]

\* operator+= .. operator/=: r becomes an object of l's type first.
CompoundDefined(op, l, r) ==
  l.type \in FloatingType \/
    /\ ConvertDefined(r.type, l.type, r.value)
    /\ \A y \in Converted(r.type, l.type, r.value) :
         Defined(op, l.type, Truncated(l.value), Truncated(y))

CompoundResults(op, l, r) ==
  IF l.type \in FloatingType
    THEN {Computed(op, l.type, l.value, Float(l.type, r.value))}
  ELSE IF CompoundDefined(op, l, r)
    THEN {Number(Cast(l.type, Exact(op, Truncated(l.value), Truncated(y)))) :
            y \in Converted(r.type, l.type, r.value)}
  ELSE {Number(v) : v \in Values(l.type)}

FloatEqual(l, r) ==
  LET c == CommonFloat(l.type, r.type)
      x == Float(c, l.value)
      y == Float(c, r.value)
  IN x # NaN /\ y # NaN /\ x.class = y.class /\ Real(x) = Real(y)
       /\ (IsFinite(x) \/ x.sign = y.sign)

\* Infinities compare as if beyond every finite value.
Rank(x) == IF IsFinite(x) THEN Real(x) ELSE x.sign * (Largest[4] + 1)
FloatLess(l, r) ==
  LET c == CommonFloat(l.type, r.type)
      x == Float(c, l.value)
      y == Float(c, r.value)
  IN x # NaN /\ y # NaN /\ Rank(x) < Rank(y)

-----------------------------------------------------------------------------
VARIABLES
  obj,      \* the object
  exact,    \* history: the whole number it stands for
  fits,     \* history: whether every number on the way was whole and held exactly
  length    \* of the chain

vars == <<obj, exact, fits, length>>

\* Every whole number up to 2^p has a place in a significand of p bits.
Holds(t, v) ==
  IF t \in FloatingType THEN Magnitude(v) <= Power[Precision[t.size]] ELSE v \in Values(t)

Init ==
  /\ obj \in Operands
  /\ fits = IsWhole(obj.value)
  /\ exact = IF fits THEN Truncated(obj.value) ELSE 0
  /\ length = 0

Become(o, v, held) ==
  /\ length' = length + 1
  /\ obj' = o
  /\ fits' = (fits /\ held)
  /\ exact' = IF fits' THEN v ELSE 0

\* The operands and the result of op are whole and t holds them.
Held(op, t, x, y) == op \in RingOp /\ \A v \in {x, y, Exact(op, x, y)} : Holds(t, v)

OneFloat(a, b) == a \in FloatingType \/ b \in FloatingType
Meeting(a, b) == IF a = Float32 /\ b = Float32 THEN Float32 ELSE Float64

Binary(op, r) ==
  /\ OneFloat(obj.type, r.type)
  /\ LET y == Truncated(r.value)
         t == Meeting(obj.type, r.type)
     IN \/ Become(BinaryResult(op, obj, r), IF op \in RingOp THEN Exact(op, exact, y) ELSE 0,
                  IsWhole(r.value) /\ Held(op, t, exact, y))
        \/ Become(BinaryResult(op, r, obj), IF op \in RingOp THEN Exact(op, y, exact) ELSE 0,
                  IsWhole(r.value) /\ Held(op, t, y, exact))

Compound(op, r) ==
  /\ OneFloat(obj.type, r.type) /\ obj.type # Bool
  /\ \E x \in CompoundResults(op, obj, r) :
       LET y == Truncated(r.value)
       IN Become([obj EXCEPT !.value = x], IF op \in RingOp THEN Exact(op, exact, y) ELSE 0,
                 IsWhole(r.value) /\ Held(op, obj.type, exact, y))

\* operator++ and operator-- of a Float32 or a Float64
Step(op) ==
  /\ obj.type \in FloatingType
  /\ Become([obj EXCEPT !.value = Computed(op, obj.type, obj.value, Number(1))],
            Exact(op, exact, 1), Held(op, obj.type, exact, 1))

Negate ==
  /\ obj.type \in FloatingType
  /\ Become([obj EXCEPT !.value = Opposite(obj.value)], -exact, TRUE)

Convert(t) ==
  /\ OneFloat(obj.type, t) /\ t # obj.type
  /\ \E x \in Converted(obj.type, t, obj.value) :
       Become([type |-> t, value |-> x],
              IF t = Bool THEN Cast(t, exact) ELSE exact, t = Bool \/ Holds(t, exact))

Next ==
  /\ length < MaxLength
  /\ \/ \E op \in FloatOp, r \in Operands : Binary(op, r) \/ Compound(op, r)
     \/ \E op \in {"+", "-"} : Step(op)
     \/ Negate
     \/ \E t \in Type \union FloatingType : Convert(t)

Spec == Init /\ [][Next]_vars

-----------------------------------------------------------------------------
(* Properties *)

TypeOK ==
  /\ obj.type \in Type \union FloatingType
  /\ obj = [type |-> obj.type, value |-> obj.value]
  /\ ValueOf(obj.type, obj.value)
  /\ exact \in Int /\ fits \in BOOLEAN /\ length \in 0 .. MaxLength

\* Whole numbers go through any chain of operations and conversions unharmed as
\* long as each type on the way holds them: a Float32 on its own those of its
\* precision, and as soon as an integer or a Float64 is involved, Float64's.
WholeNumbersSurvive ==
  fits => IsWhole(obj.value) /\ Truncated(obj.value) = exact

\* An integer made a floating-point number and back is itself if the precision
\* is no less than its width.  Otherwise it has moved by at most half of the
\* last bit kept, or the way back is undefined: the largest values are rounded
\* up to the number of values of the type.
RoundTrips ==
  \A f \in FloatingType : obj.type \in IntegerType =>
    LET t == obj.type
        there == Float(f, obj.value)
        lost == Width[t.size] - Precision[f.size]
    IN IF ConvertDefined(f, t, there)
         THEN \A back \in Converted(f, t, there) :
                IF lost <= 0 THEN back = obj.value
                ELSE 2 * Magnitude(Truncated(back) - Truncated(obj.value)) <= Power[lost]
         ELSE lost > 0 /\ 2 * (Highest(t) + 1 - Truncated(obj.value)) <= Power[lost]

\* Comparing with a floating-point number follows the values if the integer is
\* not wider than a Float64's precision.  A wider one may be equal to what it is
\* not, but the order is never reversed, and only a NaN is unordered.
ComparisonsFollowValues ==
  \A r \in Operands : OneFloat(obj.type, r.type) =>
    LET less == FloatLess(obj, r)
        greater == FloatLess(r, obj)
        equal == FloatEqual(obj, r)
        wide == \E o \in {obj, r} : o.type \in IntegerType /\ Width[o.type.size] > Precision[4]
    IN IF NaN \in {obj.value, r.value} THEN ~less /\ ~greater /\ ~equal
       ELSE /\ less => Rank(obj.value) < Rank(r.value)
            /\ greater => Rank(r.value) < Rank(obj.value)
            /\ equal <=> ~less /\ ~greater
            /\ ~wide => (equal <=> Rank(obj.value) = Rank(r.value))

\* a op= b leaves in a what a = a op b does, although the first computes in a's
\* type and the second in Float64 and rounds or truncates again: if a's type
\* holds b and is not a 64-bit integer, whenever both are defined; and only an
\* unsigned or a narrow integer, which wraps, makes do with the first.
CompoundAgrees ==
  \A op \in FloatOp, r \in Operands :
    LET t == obj.type
        b == BinaryResult(op, obj, r)
    IN (/\ OneFloat(t, r.type) /\ t # Bool
        /\ t \in IntegerType => Width[t.size] <= Precision[4]
        /\ Converted(r.type, t, r.value) = {r.value})
       => /\ ConvertDefined(b.type, t, b.value) =>
               /\ CompoundDefined(op, obj, r)
               /\ CompoundResults(op, obj, r) = Converted(b.type, t, b.value)
          /\ CompoundDefined(op, obj, r) =>
               \/ ConvertDefined(b.type, t, b.value)
               \/ t \in IntegerType /\ (~t.signed \/ t.size < IntSize)
==============================================================================
