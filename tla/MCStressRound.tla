---------------------------- MODULE MCStressRound ----------------------------
(* StressRound on small instances: the objects are pairs of producer and     *)
(* number.                                                                   *)
EXTENDS StressRound

RoundEvents == Producer \X (1 .. PerProducer)
==============================================================================
