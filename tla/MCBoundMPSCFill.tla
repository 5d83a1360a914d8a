--------------------------- MODULE MCBoundMPSCFill ---------------------------
(* BoundMPSCFill on small instances.                                        *)
EXTENDS BoundMPSCFill, TLC

Interchangeable == Permutations(Producer) \union Permutations(Event)
==============================================================================
