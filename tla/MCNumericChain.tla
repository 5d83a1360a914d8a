---------------------------- MODULE MCNumericChain ----------------------------
(* NumericChain with types of 1, 2, 4 and 8 bits (int has 4).                *)
EXTENDS NumericChain

SmallWidth == <<1, 2, 4, 8>>
SmallWeight == [i \in 0..8 |-> 2^i]

Objects(t, values) == {[type |-> t, value |-> v] : v \in Values(t) \intersect values}

\* Every type at its two ends and next to zero.
Corners == UNION {Objects(t, {Lowest(t), Highest(t), -1, 1}) : t \in Type}
===============================================================================
