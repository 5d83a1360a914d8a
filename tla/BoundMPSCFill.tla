---------------------------- MODULE BoundMPSCFill ----------------------------
(***************************************************************************)
(* How full a BoundMPSC gets before it refuses an event.  A history        *)
(* variable counts the tickets drawn since the channel was last empty and  *)
(* no producer was between its ticket and its compare-and-swap.            *)
(***************************************************************************)
EXTENDS BoundMPSC

VARIABLE lap   \* tickets since then, counted up to Capacity + 1

fillVars == <<vars, lap>>

\* Nothing is stored, seen or not, and no drawn ticket is still to be used.
AtRest ==
  /\ \A i \in Slot : buffer[i] = NULL
  /\ \A p \in Producer : ppc[p] # "cas"

FillInit == Init /\ lap = 0

Count ==
  lap' = IF AtRest' THEN 0
         ELSE IF \E p \in Producer : ppc[p] = "try" /\ ppc'[p] = "cas"
                THEN IF lap > Capacity THEN lap ELSE lap + 1
                ELSE lap

FillNext == Next /\ Count

FillSpec == FillInit /\ [][FillNext]_fillVars

\* The tickets of one lap name every slot once: from rest, wherever the two
\* counters stand and whatever the consumer takes meanwhile, the first Capacity
\* attempts all find their slot free, so that many events fit without one
\* retry (the loops of boundMPSC_test.cpp that fill the channel, before and
\* after both counters wrapped).
FirstLapIsFree ==
  lap <= Capacity => \A p \in Producer : ppc[p] = "cas" => buffer[index[p]] = NULL
==============================================================================
