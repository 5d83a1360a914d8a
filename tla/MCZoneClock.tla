----------------------------- MODULE MCZoneClock -----------------------------
(* ZoneClock with two ticks to the second, around the epoch.  The east zone  *)
(* has summer time in the middle, the west zone changes at the epoch.        *)
EXTENDS ZoneClock

Instants == -3 .. 4

Rules ==
  [east |-> [t \in Instants |-> IF t \in 2 .. 3 THEN 2 ELSE 1],
   west |-> [t \in Instants |-> IF t < 0 THEN -1 ELSE -2]]
==============================================================================
