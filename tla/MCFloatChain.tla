---------------------------- MODULE MCFloatChain ----------------------------
(* FloatChain with integers of 1, 2, 4 and 8 bits, significands of 2 and 6   *)
(* bits, and 1/32 as the unit.                                               *)
EXTENDS FloatChain

Widths == <<1, 2, 4, 8>>
Weights == [i \in 0 .. 8 |-> 2^i]
Powers == [i \in 0 .. 24 |-> 2^i]
Precisions == [k \in 3..4 |-> IF k = 3 THEN 2 ELSE 6]
Smallests == [k \in 3..4 |-> IF k = 3 THEN 16 ELSE 1]
Largests == [k \in 3..4 |-> Unit * (IF k = 3 THEN 384 ELSE 1008)]

Objects(t, xs) == {[type |-> t, value |-> x] : x \in xs}

SomeIntegers == UNION {Objects(t, {Number(v) : v \in Values(t) \intersect
                                   {Lowest(t), -1, 1, 2, 9, Highest(t)}}) : t \in Type}
Singles == Objects(Float32,
  {Finite(s, n) : s \in {1, -1}, n \in {0, 48, 3 * Unit, 384 * Unit}} \union {Infinity(1), NaN})
Doubles == Objects(Float64,
  {Finite(1, n) : n \in {1, 11, 80, 7 * Unit, 63 * Unit, 224 * Unit, 1008 * Unit}}
    \union {Finite(-1, 0), Finite(-1, 33)})

Corners == SomeIntegers \union Singles \union Doubles
==============================================================================
