----------------------------- MODULE NumericChain -----------------------------
(***************************************************************************)
(* One object of the numeric types that a program takes through a chain of *)
(* operations: binary operators with objects of any type on either side,   *)
(* compound assignments, shifts, steps, negation, complement, conversions. *)
(*                                                                         *)
(* Three history variables remember what mathematics says of the chain:    *)
(* its exact result (kept modulo the largest size), the narrowest size the *)
(* result has passed through, and whether C++ has defined every step.      *)
(***************************************************************************)
EXTENDS Numeric

CONSTANTS
  Operand,   \* the objects and literals the program has at hand
  MaxLength  \* bound on the number of operations of the chain

ASSUME OperandAssumption == Operand \subseteq Object /\ MaxLength \in Nat

VARIABLES
  obj,        \* the object
  exact,      \* what the chain computes in the integers, modulo Modulus[4]
  narrowest,  \* the smallest size of a result since exact was last the value
  defined,    \* every step so far is defined
  length      \* how many steps there were

vars == <<obj, exact, narrowest, defined, length>>

TypeOK ==
  /\ obj \in Object
  /\ exact \in 0 .. Modulus[4] - 1
  /\ narrowest \in Size
  /\ defined \in BOOLEAN
  /\ length \in 0 .. MaxLength

Init ==
  /\ obj \in Operand
  /\ exact = obj.value % Modulus[4]
  /\ narrowest = 4
  /\ defined = TRUE
  /\ length = 0

\* The operations whose results are determined modulo every size.
ChainOp == RingOp \union MaskOp

Smaller(j, k) == IF j < k THEN j ELSE k

\* The object is replaced by the outcome of l op r computed in type c, and the
\* chain goes on from e.  Past an undefined step nothing more is claimed.
Computed(op, c, x, y, e) ==
  /\ \E v \in Outcomes(op, c, x, y) : obj' = [type |-> c, value |-> v]
  /\ exact' = e % Modulus[4]
  /\ narrowest' = Smaller(narrowest, c.size)
  /\ defined' = (defined /\ Defined(op, c, x, y))

\* operator+ - * and & | ^ with the object on the left or the right; the latter
\* do not take a Bool
Binary(op, l, r, e) ==
  /\ op \in MaskOp => Bool \notin {l.type, r.type}
  /\ Computed(op, Common(l.type, r.type), Left(l, r), Right(l, r), e)
WithRight(op, r) == Binary(op, obj, r, Exact(op, exact, r.value))
WithLeft(op, l) == Binary(op, l, obj, Exact(op, l.value, exact))

\* operator+= -= *= and &= |= ^=: the operand is first converted to the
\* type of the object, the result is stored back in it.
Compound(op, r) ==
  /\ obj.type # Bool
  /\ Computed(op, obj.type, obj.value, Cast(obj.type, r.value), Exact(op, exact, r.value))

\* ++ and --, before or after
Step(op) ==
  /\ obj.type # Bool
  /\ Computed(op, obj.type, obj.value, 1, Exact(op, exact, 1))

\* unary -
Negate ==
  /\ obj.type # Bool
  /\ Computed("-", obj.type, 0, obj.value, -exact)

\* operator~: -1 - v, whatever the sign and the width
Complement ==
  /\ obj.type # Bool
  /\ Computed("-", obj.type, -1, obj.value, -1 - exact)

\* The chain starts again from the value v of an object of type t.
Restart(t, v) ==
  /\ obj' = [type |-> t, value |-> v]
  /\ exact' = v % Modulus[4]
  /\ narrowest' = 4

\* The constructors from another type, and construction from a literal.
Convert(t) ==
  LET v == Cast(t, obj.value) IN
  /\ t # obj.type
  /\ IF t = Bool
       THEN Restart(t, v)
       ELSE /\ obj' = [type |-> t, value |-> v]
            /\ narrowest' = Smaller(narrowest, t.size)
            /\ UNCHANGED exact
  /\ UNCHANGED defined

\* operator/ and operator%, /= and %=: what they compute is no function of the
\* exact result modulo anything, so the chain starts again.
DivideIn(op, c, x, y) ==
  /\ \E v \in Outcomes(op, c, x, y) : Restart(c, v)
  /\ defined' = (defined /\ Defined(op, c, x, y))
BinaryDivide(op, l, r) ==
  /\ op = "%" => Bool \notin {l.type, r.type}
  /\ DivideIn(op, Common(l.type, r.type), Left(l, r), Right(l, r))
CompoundDivide(op, r) ==
  /\ obj.type # Bool
  /\ DivideIn(op, obj.type, obj.value, Cast(obj.type, r.value))

\* operator<< by a count of any type multiplies what the object holds.
ShiftLeft(n) ==
  /\ \E v \in ShiftOutcomes("<<", obj.type, obj.value, n) : obj' = [type |-> obj.type, value |-> v]
  /\ defined' = (defined /\ ShiftDefined(obj.type, n))
  /\ exact' = IF defined' THEN (exact * Weight[n]) % Modulus[4] ELSE exact
  /\ narrowest' = Smaller(narrowest, obj.type.size)

\* The chain starts again from l shifted by n: to the right, or by a count
\* that is not the exact one.
ShiftFrom(op, l, n) ==
  /\ \E v \in ShiftOutcomes(op, l.type, l.value, n) : Restart(l.type, v)
  /\ defined' = (defined /\ ShiftDefined(l.type, n))

\* operator<<, operator>> with the object on the left or as the count
BinaryShift(r) ==
  /\ Bool \notin {obj.type, r.type}
  /\ \/ ShiftLeft(r.value)
     \/ ShiftFrom(">>", obj, r.value)
     \/ \E op \in {"<<", ">>"} : ShiftFrom(op, r, obj.value)

\* operator<<=, operator>>=: the count is converted to the type of the object.
CompoundShift(r) ==
  LET n == Cast(obj.type, r.value) IN
  /\ obj.type # Bool
  /\ \/ IF n = r.value THEN ShiftLeft(n) ELSE ShiftFrom("<<", obj, n)
     \/ ShiftFrom(">>", obj, n)

Next ==
  /\ defined
  /\ length < MaxLength /\ length' = length + 1
  /\ \/ \E op \in ChainOp, r \in Operand :
          WithRight(op, r) \/ WithLeft(op, r) \/ Compound(op, r)
     \/ \E op \in {"+", "-"} : Step(op)
     \/ Negate
     \/ Complement
     \/ \E t \in Type : Convert(t)
     \/ \E op \in DivOp, r \in Operand :
          BinaryDivide(op, obj, r) \/ BinaryDivide(op, r, obj) \/ CompoundDivide(op, r)
     \/ \E r \in Operand : BinaryShift(r) \/ CompoundShift(r)

Spec == Init /\ [][Next]_vars

(* What the promotion rules are for.                                       *)

\* As long as C++ defines every step, the object holds what mathematics says,
\* modulo the narrowest type a result of the chain had: conversions between
\* signs and widths and results truncated on the way lose nothing else
\* (operators_test.cpp, TruncatingConversion and MixedSignedness).
CongruentToExact ==
  defined => (obj.value - exact) % Modulus[narrowest] = 0

\* operator== and operator<=> order two objects as their values are ordered,
\* whatever their types, unless one is negative and the common type unsigned.
OrderKept ==
  defined => \A r \in Operand :
    (Common(obj.type, r.type).signed \/ (obj.value >= 0 /\ r.value >= 0)) =>
      /\ Equal(obj, r) <=> obj.value = r.value
      /\ Less(obj, r) <=> obj.value < r.value

\* Two types of one size and different sign meet in the next larger signed one
\* so that +, - and * of any two of their values are exact and defined; there
\* is no larger one for the 64-bit types.
WideningIsExact ==
  defined => \A r \in Operand, op \in RingOp :
    (/\ obj.type # Bool /\ r.type # Bool
     /\ obj.type.size = r.type.size /\ obj.type.size < 4
     /\ obj.type.signed # r.type.signed /\ Modulus[obj.type.size] > 2) =>
      Outcomes(op, Common(obj.type, r.type), Left(obj, r), Right(obj, r))
        = {Exact(op, obj.value, r.value)}

\* The operators are noexcept and check nothing.  +, - and * are undefined only
\* in a signed type of int's size or more that one operand has itself (or is
\* lifted to, for Bool), or for a product in the unsigned type below int, which
\* int may not hold.
UndefinedOnlyWhere ==
  defined => \A r \in Operand, op \in RingOp :
    LET c == Common(obj.type, r.type) IN
    ~Defined(op, c, Left(obj, r), Right(obj, r)) =>
      \/ c.signed /\ c.size >= IntSize /\ c \in {LiftBool(obj.type), LiftBool(r.type)}
      \/ op = "*" /\ c = Unsigned(IntSize - 1)

\* What no caller of a division can do wrong, and what every one has to test:
\* / and % are undefined for a divisor of zero and for the lowest value of int's
\* size or more by -1; in a compound division the divisor is zero also when it
\* is a multiple of the values of the object's type, which the binary operator
\* takes.
DivisionUndefinedOnlyWhere ==
  defined => \A r \in Operand, op \in DivOp :
    LET c == Common(obj.type, r.type)
        Overflows(t, x, y) == t.signed /\ t.size >= IntSize /\ x = Lowest(t) /\ y = -1
    IN
    /\ ~Defined(op, c, Left(obj, r), Right(obj, r)) =>
         r.value = 0 \/ Overflows(c, obj.value, r.value)
    /\ obj.type # Bool /\ ~Defined(op, obj.type, obj.value, Cast(obj.type, r.value)) =>
         \/ r.value % Modulus[obj.type.size] = 0
         \/ Overflows(obj.type, obj.value, Cast(obj.type, r.value))

\* A count between the width of a narrow type and that of int is no error: the
\* promotion lets it shift every bit of the value out.
NarrowShiftsDrain ==
  defined => \A n \in Position :
    (obj.type # Bool /\ n >= Width[obj.type.size] /\ n < Width[IntSize]) =>
      /\ ShiftOutcomes("<<", obj.type, obj.value, n) = {0}
      /\ ShiftOutcomes(">>", obj.type, obj.value, n) = {IF obj.value < 0 THEN -1 ELSE 0}
==============================================================================
