--------------------------- MODULE BoundMPSCMemory ---------------------------
(***************************************************************************)
(* The event channel under the memory orders its code asks for.            *)
(*                                                                         *)
(* BoundMPSC takes slots as they are and events as names.  Here each slot  *)
(* has its modification order and each thread its own view of it, as C++   *)
(* defines them, and the events have contents: a producer fills an event,  *)
(* pushes its address, and the consumer reads the contents.  What carries  *)
(* the contents over is the release of the compare-and-swap and the        *)
(* acquire of the consumer's load; the ticket counter, the null store and  *)
(* a failed compare-and-swap are relaxed and carry nothing.  A load may    *)
(* return an old write as long as its thread has not heard of a newer one. *)
(*                                                                         *)
(* Events go back to the producers through a block pool, which does not    *)
(* exist yet; it is taken to synchronise those who return and take blocks. *)
(***************************************************************************)
EXTENDS Integers, Sequences

CONSTANTS
  ByteBase,        \* the values of one byte of a ticket: 256 in the code
  PushRetryLimit,  \* pushRetryLimit_: 512 in the code
  Producer,        \* the threads that push
  Consumer,        \* the thread that pops
  Event,           \* the blocks whose addresses are pushed
  NULL,            \* nullptr
  MaxFills         \* bound on how often events are filled, all together

ASSUME MemoryAssumption ==
  /\ ByteBase \in Nat \ {0} /\ PushRetryLimit \in Nat /\ MaxFills \in Nat
  /\ NULL \notin Event /\ Consumer \notin Producer

Capacity == ByteBase * ByteBase
Slot == 0 .. Capacity - 1
Thread == Producer \union {Consumer}

\* Mutation: the scan stops before it has seen every slot.
PopRetryLimitShort == Capacity - 2
PopRetryLimit == 2 * Capacity

IndexFromTicket(t) == (t % ByteBase) * ByteBase + (t \div ByteBase)
\* Mutation: the counter does not wrap.
AdvanceUnwrapped(i) == i + 1
Advance(i) == (i + 1) % Capacity

VARIABLES
  ticket, head,                \* the two counters
  order,                       \* order[i]: the writes to slot i, oldest first
  seen,                        \* seen[t][i]: the newest of them t has heard of
  content,                     \* content[e]: how often e has been filled
  fills,                       \* how often any event has been filled
  knows,                       \* knows[t][e]: the newest filling t has heard of
  returned,                    \* returned[e]: what the pool passes on with e
  ppc, ptr, index, retries,    \* each running push
  cpc, popRetries,             \* the running pop
  held,                        \* events the consumer works on
  owed                         \* history: a slot the pop has to find occupied

pushVars == <<ppc, ptr, index, retries>>
popVars == <<head, cpc, popRetries, held, owed>>
filled == <<content, fills>>
memVars == <<order, seen, filled, knows, returned>>
vars == <<ticket, memVars, pushVars, popVars>>

Newest(i) == Len(order[i])
Nothing == [slots |-> [i \in Slot |-> 1], contents |-> [e \in Event |-> 0]]
ViewOf(t) == [slots |-> seen[t], contents |-> knows[t]]

Larger(m, n) == IF m < n THEN n ELSE m
\* Thread t reads or writes the n-th write of slot i and learns of a view.
Hears(t, view, i, n) ==
  /\ seen' = [seen EXCEPT ![t] =
       [j \in Slot |-> Larger(IF j = i THEN Larger(n, @[j]) ELSE @[j], view.slots[j])]]
  /\ knows' = [knows EXCEPT ![t] = [e \in Event |-> Larger(@[e], view.contents[e])]]

\* The published events nobody has taken.
Queued == {order[i][Newest(i)].value : i \in Slot} \ {NULL}

Init ==
  /\ ticket = 0 /\ head = 0
  /\ order = [i \in Slot |-> <<[value |-> NULL, view |-> Nothing]>>]
  /\ seen = [t \in Thread |-> Nothing.slots]
  /\ content = [e \in Event |-> 0] /\ fills = 0
  /\ knows = [t \in Thread |-> Nothing.contents]
  /\ returned = [e \in Event |-> Nothing]
  /\ ppc = [p \in Producer |-> "idle"]
  /\ ptr = [p \in Producer |-> NULL]
  /\ index = [p \in Producer |-> 0]
  /\ retries = [p \in Producer |-> 0]
  /\ cpc = "idle" /\ popRetries = 0 /\ held = {} /\ owed = FALSE

-----------------------------------------------------------------------------
(* push *)

Free(e) == e \notin Queued /\ e \notin held /\ \A p \in Producer : ptr[p] # e

\* A producer takes a free block from the pool, fills it and calls push.
PushCall(p, e) ==
  /\ ppc[p] = "idle" /\ Free(e) /\ fills < MaxFills
  /\ content' = [content EXCEPT ![e] = @ + 1] /\ fills' = fills + 1
  /\ LET view == [returned[e] EXCEPT !.contents[e] = content'[e]]
     IN Hears(p, view, 0, seen[p][0])
  /\ returned' = [returned EXCEPT ![e] = Nothing]
  /\ ppc' = [ppc EXCEPT ![p] = "try"]
  /\ ptr' = [ptr EXCEPT ![p] = e]
  /\ UNCHANGED <<ticket, order, index, retries, popVars>>

\* fetch_add always acts on the newest ticket; relaxed, it tells p nothing.
TakeTicket(p) ==
  /\ ppc[p] = "try"
  /\ ppc' = [ppc EXCEPT ![p] = "cas"]
  /\ index' = [index EXCEPT ![p] = IndexFromTicket(ticket)]
  /\ ticket' = Advance(ticket)
  /\ UNCHANGED <<memVars, ptr, retries, popVars>>

\* Write v to slot i as thread t, passing on what view holds.
Write(t, i, v, view) ==
  /\ order' = [order EXCEPT ![i] = Append(@, [value |-> v, view |-> view])]
  /\ seen' = [seen EXCEPT ![t][i] = Newest(i) + 1]

\* Mutation: the compare-and-swap is relaxed.
PublishRelaxed(p) ==
  /\ ppc[p] = "cas" /\ order[index[p]][Newest(index[p])].value = NULL
  /\ Write(p, index[p], ptr[p], Nothing)
  /\ ppc' = [ppc EXCEPT ![p] = "idle"] /\ ptr' = [ptr EXCEPT ![p] = NULL]
  /\ index' = [index EXCEPT ![p] = 0] /\ retries' = [retries EXCEPT ![p] = 0]
  /\ UNCHANGED <<ticket, filled, knows, returned, popVars>>

\* Mutation: a load that finds null and a store in place of the compare-and-swap.
PublishByStore(p) ==
  /\ ppc[p] = "cas"
  /\ \E n \in seen[p][index[p]] .. Newest(index[p]) : order[index[p]][n].value = NULL
  /\ Write(p, index[p], ptr[p], ViewOf(p))
  /\ ppc' = [ppc EXCEPT ![p] = "idle"] /\ ptr' = [ptr EXCEPT ![p] = NULL]
  /\ index' = [index EXCEPT ![p] = 0] /\ retries' = [retries EXCEPT ![p] = 0]
  /\ UNCHANGED <<ticket, filled, knows, returned, popVars>>

\* The compare-and-swap succeeds on the newest write only, and releases.
Publish(p) ==
  /\ ppc[p] = "cas" /\ order[index[p]][Newest(index[p])].value = NULL
  /\ Write(p, index[p], ptr[p], ViewOf(p))
  /\ ppc' = [ppc EXCEPT ![p] = "idle"] /\ ptr' = [ptr EXCEPT ![p] = NULL]
  /\ index' = [index EXCEPT ![p] = 0] /\ retries' = [retries EXCEPT ![p] = 0]
  /\ UNCHANGED <<ticket, filled, knows, returned, popVars>>

\* It fails on any occupied write p may still see, even if the slot is free by
\* now; p goes on with another ticket or push returns false.
PushFail(p) ==
  /\ ppc[p] = "cas"
  /\ \E n \in seen[p][index[p]] .. Newest(index[p]) :
       /\ order[index[p]][n].value # NULL
       /\ seen' = [seen EXCEPT ![p][index[p]] = n]
  /\ index' = [index EXCEPT ![p] = 0]
  /\ IF retries[p] + 1 <= PushRetryLimit
       THEN /\ ppc' = [ppc EXCEPT ![p] = "try"]
            /\ retries' = [retries EXCEPT ![p] = @ + 1]
       ELSE /\ ppc' = [ppc EXCEPT ![p] = "failed"]
            /\ retries' = [retries EXCEPT ![p] = 0]
  /\ UNCHANGED <<ticket, order, filled, knows, returned, ptr, popVars>>

\* A refused caller pushes its event again.
PushAgain(p) ==
  /\ ppc[p] = "failed"
  /\ ppc' = [ppc EXCEPT ![p] = "try"]
  /\ UNCHANGED <<ticket, memVars, ptr, index, retries, popVars>>

-----------------------------------------------------------------------------
(* pop *)

\* The consumer hears from p by other means (a flag, a join, a lock).
Meet(p) ==
  /\ cpc # "popping"
  /\ Hears(Consumer, ViewOf(p), 0, seen[p][0])
  /\ UNCHANGED <<ticket, order, filled, returned, pushVars, popVars>>

PopCall ==
  /\ cpc # "popping"
  /\ cpc' = "popping"
  /\ owed' = \E i \in Slot : order[i][seen[Consumer][i]].value # NULL
  /\ UNCHANGED <<ticket, memVars, pushVars, head, popRetries, held>>

\* The acquire load returns an event: its writer's view comes with it.  The
\* slot is emptied by a relaxed store.
PopHit ==
  /\ cpc = "popping"
  /\ \E n \in seen[Consumer][head] .. Newest(head) :
       /\ order[head][n].value # NULL
       /\ Hears(Consumer, order[head][n].view, head, Newest(head) + 1)
       /\ held' = held \union {order[head][n].value}
  /\ order' = [order EXCEPT ![head] = Append(@, [value |-> NULL, view |-> Nothing])]
  /\ head' = Advance(head)
  /\ cpc' = "idle" /\ popRetries' = 0 /\ owed' = FALSE
  /\ UNCHANGED <<ticket, filled, returned, pushVars>>

\* The load returns null, be it an old one.
PopMiss ==
  /\ cpc = "popping"
  /\ \E n \in seen[Consumer][head] .. Newest(head) :
       /\ order[head][n].value = NULL
       /\ seen' = [seen EXCEPT ![Consumer][head] = n]
  /\ head' = Advance(head)
  /\ IF popRetries + 1 <= PopRetryLimit
       THEN popRetries' = popRetries + 1 /\ UNCHANGED cpc
       ELSE popRetries' = 0 /\ cpc' = "empty"
  /\ UNCHANGED <<ticket, order, filled, knows, returned, pushVars, held, owed>>

\* The consumer has read the block and gives it back to the pool.
Return(e) ==
  /\ e \in held
  /\ held' = held \ {e}
  /\ returned' = [returned EXCEPT ![e] = ViewOf(Consumer)]
  /\ UNCHANGED <<ticket, order, seen, filled, knows, pushVars, head, cpc, popRetries, owed>>

\* A store reaches the consumer in finite time, whether or not it looks; what a
\* producer has heard of matters only when it looks (PushFail).
Arrive(i) ==
  /\ seen[Consumer][i] < Newest(i)
  /\ seen' = [seen EXCEPT ![Consumer][i] = Newest(i)]
  /\ UNCHANGED <<ticket, order, filled, knows, returned, pushVars, popVars>>

-----------------------------------------------------------------------------
PushStep(p) == TakeTicket(p) \/ Publish(p) \/ PushFail(p)
PopStep == PopHit \/ PopMiss

Next ==
  \/ \E p \in Producer :
       PushStep(p) \/ PushAgain(p) \/ Meet(p) \/ \E e \in Event : PushCall(p, e)
  \/ PopCall \/ PopStep
  \/ \E e \in Event : Return(e)
  \/ \E i \in Slot : Arrive(i)

Spec == Init /\ [][Next]_vars

-----------------------------------------------------------------------------
(* Properties *)

TypeOK ==
  /\ ticket \in Slot /\ head \in Slot
  /\ \A i \in Slot : \A n \in 1 .. Newest(i) : order[i][n].value \in Event \union {NULL}
  /\ \A t \in Thread, i \in Slot : seen[t][i] \in 1 .. Newest(i)
  /\ content \in [Event -> 0 .. MaxFills] /\ fills \in 0 .. MaxFills
  /\ \A t \in Thread, e \in Event : knows[t][e] \in 0 .. content[e]
  /\ ppc \in [Producer -> {"idle", "try", "cas", "failed"}]
  /\ ptr \in [Producer -> Event \union {NULL}]
  /\ index \in [Producer -> Slot]
  /\ retries \in [Producer -> 0 .. PushRetryLimit]
  /\ cpc \in {"idle", "popping", "empty"} /\ popRetries \in 0 .. PopRetryLimit
  /\ held \subseteq Event /\ owed \in BOOLEAN

\* Whoever pops an event may read what its producer wrote into it: the filling
\* happened before, also when the block is filled again and again by different
\* producers (docs/PLAN.zh-CN.md leaves the visibility of the
\* blocks to the release and acquire of this channel).
ContentsArrive == \A e \in held : knows[Consumer][e] = content[e]

\* Relaxed as its orders are, the channel keeps the promises of the abstract
\* pool, to a consumer that need not have heard of every event in it: no stale
\* load makes it deliver an event twice, deliver one that is gone, or lose one.
Pool == INSTANCE EventPool WITH bag <- Queued, offer <- ptr, Informed <- FALSE
ImplementsEventPool == Pool!Spec

\* pop does not answer "empty" while a slot holds an event whose push the
\* consumer had heard of when it called, be it through another event it popped
\* or by any other synchronisation.
HeardOfIsFound == cpc = "empty" => ~owed
==============================================================================
