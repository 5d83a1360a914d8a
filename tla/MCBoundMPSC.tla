----------------------------- MODULE MCBoundMPSC -----------------------------
(* BoundMPSC on small instances: producers and events are interchangeable.  *)
EXTENDS BoundMPSC, TLC

Interchangeable == Permutations(Producer) \union Permutations(Event)
==============================================================================
