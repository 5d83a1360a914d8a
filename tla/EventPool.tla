------------------------------ MODULE EventPool ------------------------------
(***************************************************************************)
(* What the multi-producer single-consumer event channel of core/replay    *)
(* promises to the code that calls push and pop: a bounded, unordered pool *)
(* of events.  A producer offers an event; the pool accepts it or the      *)
(* producer takes it back.  The consumer takes some event of the pool, or  *)
(* is told that the pool is empty.  Nothing is said of slots, tickets,     *)
(* retry limits or the order in which events come out: BoundMPSC shows how *)
(* the code keeps these promises.                                          *)
(***************************************************************************)
EXTENDS Naturals, FiniteSets

CONSTANTS
  Producer,   \* the threads that push
  Event,      \* the objects whose addresses are pushed
  NULL,       \* the null pointer
  Capacity,   \* how many events the pool holds at most
  Informed    \* whether the consumer knows at once of every event accepted

VARIABLES
  bag,        \* the events in the pool
  offer,      \* offer[p]: the event p has handed to a push that may be running
  held,       \* the events the consumer was given and still works on
  cpc,        \* the consumer: "idle", "popping", or told "empty"
  owed        \* the running pop may not report an empty pool

vars == <<bag, offer, held, cpc, owed>>

Init ==
  /\ bag = {} /\ held = {}
  /\ offer = [p \in Producer |-> NULL]
  /\ cpc = "idle" /\ owed = FALSE

\* An event belongs to a producer, to the pool or to the consumer, or is free.
Free(e) == e \notin bag /\ e \notin held /\ \A p \in Producer : offer[p] # e

Offer(p, e) ==
  /\ offer[p] = NULL /\ Free(e)
  /\ offer' = [offer EXCEPT ![p] = e]
  /\ UNCHANGED <<bag, held, cpc, owed>>

\* push returned true.  An event that arrives during a pop may or may not
\* oblige that pop to find something.
Accept(p) ==
  /\ offer[p] # NULL
  /\ Cardinality(bag) < Capacity
  /\ bag' = bag \union {offer[p]}
  /\ offer' = [offer EXCEPT ![p] = NULL]
  /\ owed' \in {owed, cpc = "popping"}
  /\ owed => owed'
  /\ UNCHANGED <<held, cpc>>

\* push returned false and the producer keeps its event.
Withdraw(p) ==
  /\ offer[p] # NULL
  /\ offer' = [offer EXCEPT ![p] = NULL]
  /\ UNCHANGED <<bag, held, cpc, owed>>

\* A pop is owed an event that is in the pool when it begins, or at least one
\* that the consumer has heard of.
Call ==
  /\ cpc # "popping"
  /\ cpc' = "popping"
  /\ owed' \in {bag # {}} \union (IF Informed THEN {} ELSE {FALSE})
  /\ UNCHANGED <<bag, offer, held>>

Take(e) ==
  /\ cpc = "popping" /\ e \in bag
  /\ bag' = bag \ {e} /\ held' = held \union {e}
  /\ cpc' = "idle" /\ owed' = FALSE
  /\ UNCHANGED offer

\* Only the consumer removes events, so a pool that held an event when the pop
\* began still holds it: reporting empty would be a lie.
ReportEmpty ==
  /\ cpc = "popping" /\ ~owed
  /\ cpc' = "empty"
  /\ UNCHANGED <<bag, offer, held, owed>>

Release(e) ==
  /\ e \in held
  /\ held' = held \ {e}
  /\ UNCHANGED <<bag, offer, cpc, owed>>

Next ==
  \/ \E p \in Producer : Accept(p) \/ Withdraw(p) \/ \E e \in Event : Offer(p, e)
  \/ Call \/ ReportEmpty
  \/ \E e \in Event : Take(e) \/ Release(e)

Spec == Init /\ [][Next]_vars
==============================================================================
