--------------------------- MODULE MCTimeArithmetic ---------------------------
(* TimeArithmetic with 6-bit counts and short minutes, hours and days.       *)
EXTENDS TimeArithmetic

ShortScale == <<1, 2, 6, 12>>
SomeDurations == {[unit |-> u, value |-> v] : u \in 1..4, v \in {-3, 1, 2}}
===============================================================================
