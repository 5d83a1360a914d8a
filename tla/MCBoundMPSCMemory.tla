-------------------------- MODULE MCBoundMPSCMemory --------------------------
(* BoundMPSCMemory on small instances.                                       *)
EXTENDS BoundMPSCMemory, TLC

Interchangeable == Permutations(Producer) \union Permutations(Event)
==============================================================================
