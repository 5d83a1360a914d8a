------------------------------ MODULE BoundMPSC ------------------------------
(***************************************************************************)
(* destiny::core::replay::detail::BoundMPSC, the bounded lock-free channel *)
(* by which many threads hand event pointers to one maintenance thread     *)
(* (src/source/core/replay/src/boundMPSC.hpp).                             *)
(*                                                                         *)
(* A producer draws a ticket from a 16-bit counter, swaps the two bytes of *)
(* the ticket to get a slot, and publishes by compare-and-swap from null;  *)
(* when the slot is taken it draws another ticket, a bounded number of     *)
(* times.  The consumer scans the slots in order with a cursor of its own  *)
(* and gives up after two laps.  Slots are not a FIFO: ticket order and    *)
(* scan order differ.                                                      *)
(*                                                                         *)
(* One action is one atomic access of shared memory.  The consumer empties *)
(* a slot by a relaxed store, which the processor may delay: `clearing`    *)
(* holds the slots whose null store only the consumer sees so far.         *)
(***************************************************************************)
EXTENDS Integers, FiniteSets

CONSTANTS
  ByteBase,        \* the values of one byte of a ticket: 256 in the code
  PushRetryLimit,  \* pushRetryLimit_: 512 in the code
  Producer,        \* the threads that push
  Event,           \* the objects whose addresses are pushed
  NULL             \* nullptr

ASSUME ByteBaseAssumption == ByteBase \in Nat \ {0}
ASSUME PushRetryLimitAssumption == PushRetryLimit \in Nat
ASSUME NullAssumption == NULL \notin Event

Capacity == ByteBase * ByteBase
Slot == 0 .. Capacity - 1
\* Mutation: one lap is thought to be enough for a scan.
PopRetryLimitOneLap == Capacity

\* The scan makes one attempt more than this, a little over two laps.
PopRetryLimit == 2 * Capacity

\* Mutation: the high byte is masked instead of shifted down.
IndexFromLowByte(t) == (t % ByteBase) * ByteBase + (t % ByteBase)

\* The low byte becomes the high one and the high byte the low one.
IndexFromTicket(t) == (t % ByteBase) * ByteBase + (t \div ByteBase)

VARIABLES
  ticket,      \* ticket_: the next ticket, a counter that wraps at Capacity
  head,        \* head_: the next slot the consumer looks at
  buffer,      \* buffer_: the slots as the producers see them
  clearing,    \* slots the consumer emptied, its store not yet seen by others
  ppc,         \* ppc[p]: where producer p is in push
  ptr,         \* ptr[p]: the event p is pushing, or was refused
  index,       \* index[p]: the slot of p's last ticket (0 when it has none)
  retries,     \* retries[p]: failed attempts of the running push
  cpc,         \* where the consumer is: "idle", "popping" or told "empty"
  popRetries,  \* failed attempts of the running pop
  held,        \* events pop returned that the consumer still works on
  owed         \* history: the running pop has an event it must not miss

producerVars == <<ppc, ptr, index, retries>>
consumerVars == <<head, cpc, popRetries, held>>
vars == <<ticket, buffer, clearing, owed, producerVars, consumerVars>>

\* Mutation: the consumer does not see its own stores first.
VisibleStale(i) == buffer[i]

\* A slot as the consumer sees it: its own stores come first.
Visible(i) == IF i \in clearing THEN NULL ELSE buffer[i]

\* The events that were published and not yet taken.
Queued == {Visible(i) : i \in Slot} \ {NULL}

\* Mutation: the counter is wider than the channel.
AdvanceUnwrapped(i) == i + 1

\* The 16-bit counters wrap.
Advance(i) == (i + 1) % Capacity

Init ==
  /\ ticket = 0 /\ head = 0
  /\ buffer = [i \in Slot |-> NULL] /\ clearing = {}
  /\ ppc = [p \in Producer |-> "idle"]
  /\ ptr = [p \in Producer |-> NULL]
  /\ index = [p \in Producer |-> 0]
  /\ retries = [p \in Producer |-> 0]
  /\ cpc = "idle" /\ popRetries = 0
  /\ held = {} /\ owed = FALSE

-----------------------------------------------------------------------------
(* push, called by the producers *)

\* The callers' discipline (the round of boundMPSC_test.cpp hands every object
\* to one push): an event is pushed by whoever owns it.
Free(e) == e \notin Queued /\ e \notin held /\ \A p \in Producer : ptr[p] # e

\* Mutation: null pointers are not refused.
PushCallNullToo(p, v) ==
  /\ ppc[p] = "idle"
  /\ v = NULL \/ Free(v)
  /\ ppc' = [ppc EXCEPT ![p] = "try"]
  /\ ptr' = [ptr EXCEPT ![p] = v]
  /\ UNCHANGED <<ticket, buffer, clearing, owed, index, retries, consumerVars>>

\* push(nullptr) returns false at once; any other pointer starts the loop.
PushCall(p, v) ==
  /\ ppc[p] = "idle"
  /\ v = NULL \/ Free(v)
  /\ ppc' = [ppc EXCEPT ![p] = IF v = NULL THEN "failed" ELSE "try"]
  /\ ptr' = [ptr EXCEPT ![p] = v]
  /\ UNCHANGED <<ticket, buffer, clearing, owed, index, retries, consumerVars>>

\* ticket_.fetch_add(1): a ticket is used up whether or not the slot is free.
TakeTicket(p) ==
  /\ ppc[p] = "try"
  /\ ppc' = [ppc EXCEPT ![p] = "cas"]
  /\ index' = [index EXCEPT ![p] = IndexFromTicket(ticket)]
  /\ ticket' = Advance(ticket)
  /\ UNCHANGED <<buffer, clearing, owed, ptr, retries, consumerVars>>

\* Mutation: a plain store in place of the compare-and-swap.
PublishBlindly(p) ==
  /\ ppc[p] = "cas"
  /\ buffer' = [buffer EXCEPT ![index[p]] = ptr[p]]
  /\ ppc' = [ppc EXCEPT ![p] = "idle"]
  /\ ptr' = [ptr EXCEPT ![p] = NULL]
  /\ index' = [index EXCEPT ![p] = 0]
  /\ retries' = [retries EXCEPT ![p] = 0]
  /\ owed' = (owed \/ (cpc = "popping" /\ popRetries <= Capacity))
  /\ UNCHANGED <<ticket, clearing, consumerVars>>

\* The compare-and-swap finds null: the event is published, push returns true.
\* An event that arrives in the first lap of a scan is owed to that scan.
Publish(p) ==
  /\ ppc[p] = "cas"
  /\ buffer[index[p]] = NULL
  /\ buffer' = [buffer EXCEPT ![index[p]] = ptr[p]]
  /\ ppc' = [ppc EXCEPT ![p] = "idle"]
  /\ ptr' = [ptr EXCEPT ![p] = NULL]
  /\ index' = [index EXCEPT ![p] = 0]
  /\ retries' = [retries EXCEPT ![p] = 0]
  /\ owed' = (owed \/ (cpc = "popping" /\ popRetries <= Capacity))
  /\ UNCHANGED <<ticket, clearing, consumerVars>>

\* Mutation: the failed attempt is not counted.
PushRetryUncounted(p) ==
  /\ ppc[p] = "cas"
  /\ buffer[index[p]] # NULL
  /\ ppc' = [ppc EXCEPT ![p] = "try"]
  /\ index' = [index EXCEPT ![p] = 0]
  /\ UNCHANGED <<ticket, buffer, clearing, owed, ptr, retries, consumerVars>>

\* It finds the slot taken, and the retry limit is not reached: a new ticket.
PushRetry(p) ==
  /\ ppc[p] = "cas"
  /\ buffer[index[p]] # NULL
  /\ retries[p] + 1 <= PushRetryLimit
  /\ retries' = [retries EXCEPT ![p] = @ + 1]
  /\ ppc' = [ppc EXCEPT ![p] = "try"]
  /\ index' = [index EXCEPT ![p] = 0]
  /\ UNCHANGED <<ticket, buffer, clearing, owed, ptr, consumerVars>>

\* It finds the slot taken once too often: push returns false.
PushGiveUp(p) ==
  /\ ppc[p] = "cas"
  /\ buffer[index[p]] # NULL
  /\ retries[p] + 1 > PushRetryLimit
  /\ ppc' = [ppc EXCEPT ![p] = "failed"]
  /\ index' = [index EXCEPT ![p] = 0]
  /\ retries' = [retries EXCEPT ![p] = 0]
  /\ UNCHANGED <<ticket, buffer, clearing, owed, ptr, consumerVars>>

\* A refused caller still owns its event: it calls push again ...
PushAgain(p) ==
  /\ ppc[p] = "failed" /\ ptr[p] # NULL
  /\ ppc' = [ppc EXCEPT ![p] = "try"]
  /\ UNCHANGED <<ticket, buffer, clearing, owed, ptr, index, retries, consumerVars>>

\* ... or drops it.
PushDrop(p) ==
  /\ ppc[p] = "failed"
  /\ ppc' = [ppc EXCEPT ![p] = "idle"]
  /\ ptr' = [ptr EXCEPT ![p] = NULL]
  /\ UNCHANGED <<ticket, buffer, clearing, owed, index, retries, consumerVars>>

-----------------------------------------------------------------------------
(* pop, called by the one consumer *)

\* Mutation: every scan starts at the first slot.
PopCallRestarts ==
  /\ cpc # "popping"
  /\ cpc' = "popping" /\ head' = 0
  /\ owed' = (Queued # {})
  /\ UNCHANGED <<ticket, buffer, clearing, producerVars, popRetries, held>>

PopCall ==
  /\ cpc # "popping"
  /\ cpc' = "popping"
  /\ owed' = (Queued # {})
  /\ UNCHANGED <<ticket, buffer, clearing, producerVars, head, popRetries, held>>

\* Mutation: the store goes where the cursor points after it moved.
PopHitClearsNext ==
  /\ cpc = "popping"
  /\ Visible(head) # NULL
  /\ held' = held \union {Visible(head)}
  /\ clearing' = clearing \union {Advance(head)}
  /\ head' = Advance(head)
  /\ cpc' = "idle" /\ popRetries' = 0 /\ owed' = FALSE
  /\ UNCHANGED <<ticket, buffer, producerVars>>

\* pop_try reads an event: it is the consumer's, and the slot is to be emptied.
PopHit ==
  /\ cpc = "popping"
  /\ Visible(head) # NULL
  /\ held' = held \union {Visible(head)}
  /\ clearing' = clearing \union {head}
  /\ head' = Advance(head)
  /\ cpc' = "idle" /\ popRetries' = 0 /\ owed' = FALSE
  /\ UNCHANGED <<ticket, buffer, producerVars>>

\* pop_try reads null and the scan goes on with the next slot.
PopMiss ==
  /\ cpc = "popping"
  /\ Visible(head) = NULL
  /\ popRetries + 1 <= PopRetryLimit
  /\ head' = Advance(head)
  /\ popRetries' = popRetries + 1
  /\ UNCHANGED <<ticket, buffer, clearing, owed, producerVars, cpc, held>>

\* pop_try reads null once too often: pop returns false.
PopGiveUp ==
  /\ cpc = "popping"
  /\ Visible(head) = NULL
  /\ popRetries + 1 > PopRetryLimit
  /\ head' = Advance(head)
  /\ cpc' = "empty" /\ popRetries' = 0
  /\ UNCHANGED <<ticket, buffer, clearing, owed, producerVars, held>>

\* The null store of pop_try reaches the other threads.
ClearVisible(i) ==
  /\ i \in clearing
  /\ buffer' = [buffer EXCEPT ![i] = NULL]
  /\ clearing' = clearing \ {i}
  /\ UNCHANGED <<ticket, owed, producerVars, consumerVars>>

\* The consumer is done with an event, whose address may be pushed again.
Release(e) ==
  /\ e \in held
  /\ held' = held \ {e}
  /\ UNCHANGED <<ticket, buffer, clearing, owed, producerVars, head, cpc, popRetries>>

-----------------------------------------------------------------------------
PushStep(p) == TakeTicket(p) \/ Publish(p) \/ PushRetry(p) \/ PushGiveUp(p)
PopStep == PopHit \/ PopMiss \/ PopGiveUp

Next ==
  \/ \E p \in Producer :
       \/ \E v \in Event \union {NULL} : PushCall(p, v)
       \/ PushStep(p) \/ PushAgain(p) \/ PushDrop(p)
  \/ PopCall \/ PopStep
  \/ \E i \in Slot : ClearVisible(i)
  \/ \E e \in Event : Release(e)

Spec == Init /\ [][Next]_vars

\* The consumer keeps calling pop, and a running pop goes on.  Producers owe
\* nothing and may push for ever; blocks need not come back, nor null stores
\* reach anyone.
FairSpec == Spec /\ WF_vars(PopCall) /\ WF_vars(PopStep)

-----------------------------------------------------------------------------
(* Properties *)

\* The values the variables of the class and the local variables of push and
\* pop take: counters in their width, retries within the limits.
TypeOK ==
  /\ ticket \in Slot /\ head \in Slot
  /\ buffer \in [Slot -> Event \union {NULL}]
  /\ clearing \subseteq Slot
  /\ ppc \in [Producer -> {"idle", "try", "cas", "failed"}]
  /\ ptr \in [Producer -> Event \union {NULL}]
  /\ index \in [Producer -> Slot]
  /\ retries \in [Producer -> 0 .. PushRetryLimit]
  /\ cpc \in {"idle", "popping", "empty"}
  /\ popRetries \in 0 .. PopRetryLimit
  /\ held \subseteq Event /\ owed \in BOOLEAN

\* Every event has one owner: two slots never show the same event, and an
\* event in a slot is neither in a producer's hands nor in the consumer's.
\* pop_try depends on it, since nothing else stops an event from being
\* delivered twice.
ExclusiveOwnership ==
  /\ \A i, j \in Slot : Visible(i) = Visible(j) /\ Visible(i) # NULL => i = j
  /\ \A p, q \in Producer : ptr[p] = ptr[q] /\ ptr[p] # NULL => p = q
  /\ \A p \in Producer : ptr[p] \notin Queued \union held
  /\ Queued \intersect held = {}

\* pop returns false only if the pool was empty when it was called and nothing
\* was published in the first lap of its scan (the reason for a retry limit of
\* two laps, popRetryLimit_).
PopEmptyIsTruthful == cpc = "empty" => ~owed

\* No published event disappears: it leaves its slot only into the hands of
\* the consumer (the full queue of boundMPSC_test.cpp, where a rejected push
\* discards nothing, for every interleaving).
NoLostEvent == [][\A e \in Queued : e \in Queued' \/ e \in held']_vars

\* push returns true only when its own event, and a real one, was added by it.
PushAddsItsEvent ==
  [][\A p \in Producer : ppc[p] = "cas" /\ ppc'[p] = "idle"
       => ptr[p] # NULL /\ Queued' = Queued \union {ptr[p]}]_vars

\* The channel keeps the promises of the abstract pool.
Pool == INSTANCE EventPool WITH bag <- Queued, offer <- ptr, Informed <- TRUE
ImplementsEventPool == Pool!Spec

\* Every published event is delivered in the end, however many events are
\* published after it and taken before it: slots are in no order of arrival, but
\* the cursor passes each of them, from call to call.
EventsDelivered == \A e \in Event : (e \in Queued) ~> (e \in held)

\* No call blocks: every push and every pop returns, whatever the others do.
CallsReturn ==
  /\ \A p \in Producer : (ppc[p] = "try") ~> (ppc[p] \in {"idle", "failed"})
  /\ (cpc = "popping") ~> (cpc # "popping")
==============================================================================
