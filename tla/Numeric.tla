------------------------------- MODULE Numeric -------------------------------
(***************************************************************************)
(* The integer types of destinyNumeric.hpp (Int8 .. Uint64 and Bool), the  *)
(* type an operation on two of them has, and the value it computes.        *)
(*                                                                         *)
(* A type has one of four sizes, each with twice the bits of the one       *)
(* before: 8, 16, 32 and 64 in the code.  C++'s int has size 3.  An object *)
(* is a record of its type and its value.                                  *)
(***************************************************************************)
EXTENDS Integers

CONSTANTS
  Width,    \* Width[k]: the number of bits of the k-th size
  Weight    \* Weight[i]: what the i-th bit counts, 2^i

Size == 1..4
IntSize == 3       \* C++ computes nothing narrower than int
Position == 0 .. Width[4] - 1

ASSUME WidthAssumption ==
  /\ Width \in [Size -> Nat \ {0}]
  /\ \A k \in 1..3 : Width[k + 1] = 2 * Width[k]

ASSUME WeightAssumption ==
  /\ Weight \in [0 .. Width[4] -> Nat]
  /\ Weight[0] = 1
  /\ \A i \in Position : Weight[i + 1] = 2 * Weight[i]

\* The number of values of each size.
Modulus == [k \in Size |-> Weight[Width[k]]]

IntegerOf(k, signed) == [size |-> k, signed |-> signed]
Signed(k) == IntegerOf(k, TRUE)
Unsigned(k) == IntegerOf(k, FALSE)
IntegerType == [size : Size, signed : BOOLEAN]
Bool == IntegerOf(0, TRUE)   \* its traits: width 0, signed
Type == IntegerType \union {Bool}

Lowest(t) == IF t \in IntegerType /\ t.signed THEN -(Modulus[t.size] \div 2) ELSE 0
Highest(t) == IF t = Bool THEN 1 ELSE Lowest(t) + Modulus[t.size] - 1
Values(t) == Lowest(t) .. Highest(t)
Object == {o \in [type : Type, value : Int] : o.value \in Values(o.type)}

\* Mutation: a conversion that keeps to the nearest value instead of wrapping.
CastSaturating(t, v) ==
  IF v < Lowest(t) THEN Lowest(t) ELSE IF v > Highest(t) THEN Highest(t) ELSE v

\* static_cast to t: modulo 2^n to an integer, "is it not zero" to Bool.
Cast(t, v) ==
  IF t = Bool THEN IF v = 0 THEN 0 ELSE 1
  ELSE Lowest(t) + ((v - Lowest(t)) % Modulus[t.size])

(* The type of the result.                                                 *)

LiftBool(t) == IF t = Bool THEN Signed(IntSize) ELSE t
\* Mutation: two types of one size and different sign meet in the signed one.
WidenSignedNot(t) == Signed(t.size)

WidenSigned(t) == IF t.size = 4 THEN Unsigned(4) ELSE Signed(t.size + 1)
\* Mutation: the sign of the first operand decides.
CommonIntegerFirst(a, b) ==
  IF a.size >= b.size THEN a ELSE IntegerOf(b.size, a.signed)

CommonInteger(a, b) ==
  IF a.size > b.size THEN a
  ELSE IF a.size < b.size THEN b
  ELSE IF a.signed = b.signed THEN a
  ELSE WidenSigned(a)
Common(a, b) == CommonInteger(LiftBool(a), LiftBool(b))

(* The value of the result.  The operands of type c are promoted by C++    *)
(* and the result is converted back to c.  An operation that overflows a   *)
(* signed type or divides by zero is undefined: it may yield any value.    *)

\* Mutation: narrow operands computed as they are.
PromotedNot(c) == c

Promoted(c) == IF c.size < IntSize THEN Signed(IntSize) ELSE c

Magnitude(x) == IF x < 0 THEN -x ELSE x
Quotient(x, y) ==   \* truncated towards zero
  LET q == Magnitude(x) \div Magnitude(y) IN IF (x < 0) = (y < 0) THEN q ELSE -q
Remainder(x, y) == x - y * Quotient(x, y)

(* The bits of a number in the largest size, in two's complement.          *)

Pattern == [n \in 0 .. Modulus[4] - 1 |-> {i \in Position : (n \div Weight[i]) % 2 = 1}]
NumberOf == [s \in SUBSET Position |-> CHOOSE n \in DOMAIN Pattern : Pattern[n] = s]

Combined(op, s, t) ==
  CASE op = "&" -> s \intersect t
    [] op = "|" -> s \union t
    [] op = "^" -> (s \ t) \union (t \ s)
Masked(op, x, y) ==
  NumberOf[Combined(op, Pattern[x % Modulus[4]], Pattern[y % Modulus[4]])]

RingOp == {"+", "-", "*"}
MaskOp == {"&", "|", "^"}
DivOp == {"/", "%"}
Exact(op, x, y) ==
  CASE op = "+" -> x + y
    [] op = "-" -> x - y
    [] op = "*" -> x * y
    [] op = "/" -> Quotient(x, y)
    [] op = "%" -> Remainder(x, y)
    [] op \in MaskOp -> Masked(op, x, y)

Defined(op, c, x, y) ==
  /\ op \in DivOp => y # 0
  /\ op \notin MaskOp /\ Promoted(c).signed =>
       Exact(IF op = "%" THEN "/" ELSE op, x, y) \in Values(Promoted(c))

\* Mutation: the result of the promoted operation is not converted back.
OutcomesPromoted(op, c, x, y) ==
  IF Defined(op, c, x, y) THEN {Exact(op, x, y)} ELSE Values(Promoted(c))

Outcomes(op, c, x, y) ==
  IF Defined(op, c, x, y) THEN {Cast(c, Exact(op, x, y))} ELSE Values(c)

\* A shift keeps to the type of its left operand, and the count to its own: any
\* count below the width of the promoted left operand is defined.
ShiftDefined(t, n) == n \in 0 .. Width[Promoted(t).size] - 1
Shifted(op, x, n) == IF op = "<<" THEN x * Weight[n] ELSE x \div Weight[n]
ShiftOutcomes(op, t, x, n) ==
  IF ShiftDefined(t, n) THEN {Cast(t, Shifted(op, x, n))} ELSE Values(t)

\* The two operands as the operators see them, in their common type.
Left(l, r) == Cast(Common(l.type, r.type), l.value)
Right(l, r) == Cast(Common(l.type, r.type), r.value)

\* operator== and operator<=>
Equal(l, r) == Left(l, r) = Right(l, r)
Less(l, r) == Left(l, r) < Right(l, r)

==============================================================================
