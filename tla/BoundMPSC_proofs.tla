--------------------------- MODULE BoundMPSC_proofs ---------------------------
(***************************************************************************)
(* What holds of BoundMPSC for every size of the channel, every retry      *)
(* limit and every set of producers and events.                            *)
(***************************************************************************)
EXTENDS BoundMPSCFill, Congruence, FiniteSetTheorems, TLAPS

LEMMA CapacityPositive ==
  /\ Capacity \in Nat \ {0} /\ 0 \in Slot
  /\ PopRetryLimit \in Nat /\ PopRetryLimit = Capacity + Capacity
<1>1. Capacity \in Nat \ {0}
  BY ByteBaseAssumption DEF Capacity
<1> QED BY <1>1 DEF Slot, PopRetryLimit

\* Both counters of the code wrap from the last slot to the first one.
LEMMA AdvanceWraps ==
  ASSUME NEW i \in Slot
  PROVE  /\ Advance(i) \in Slot
         /\ Advance(i) = IF i = Capacity - 1 THEN 0 ELSE i + 1
BY CapacityPositive, CountWraps DEF Advance, Slot

\* The byte swap of indexFromTicket undoes itself, so the tickets of one lap
\* name every slot of the channel exactly once.
THEOREM TicketsNameEverySlotOnce ==
  /\ \A t \in Slot : IndexFromTicket(t) \in Slot
  /\ \A t \in Slot : IndexFromTicket(IndexFromTicket(t)) = t
  /\ \A t, u \in Slot : IndexFromTicket(t) = IndexFromTicket(u) => t = u
<1>1. ASSUME NEW t \in Slot
      PROVE  /\ IndexFromTicket(t) \in Slot
             /\ IndexFromTicket(IndexFromTicket(t)) = t
  <2>1. t \in 0 .. ByteBase * ByteBase - 1
    BY DEF Slot, Capacity
  <2> QED BY <2>1, DigitsSwap, ByteBaseAssumption DEF IndexFromTicket, Slot, Capacity
<1> QED BY <1>1

-----------------------------------------------------------------------------
(* Types *)

LEMMA TypingInit == Init => TypeOK
<1> SUFFICES ASSUME Init PROVE TypeOK
  OBVIOUS
<1>1. buffer \in [Slot -> Event \union {NULL}]
  BY DEF Init
<1>2. index \in [Producer -> Slot]
  BY CapacityPositive DEF Init
<1>3. retries \in [Producer -> 0 .. PushRetryLimit]
  BY PushRetryLimitAssumption DEF Init
<1>4. ticket \in Slot /\ head \in Slot /\ popRetries \in 0 .. PopRetryLimit
  BY CapacityPositive DEF Init
<1> QED BY <1>1, <1>2, <1>3, <1>4 DEF Init, TypeOK

LEMMA TypingNext == TypeOK /\ [Next]_vars => TypeOK'
<1> SUFFICES ASSUME TypeOK, [Next]_vars PROVE TypeOK'
  OBVIOUS
<1> USE DEF TypeOK, producerVars, consumerVars
<1>1. ASSUME NEW p \in Producer, NEW v \in Event \union {NULL}, PushCall(p, v)
      PROVE  TypeOK'
  BY <1>1 DEF PushCall
<1>2. ASSUME NEW p \in Producer, TakeTicket(p) PROVE TypeOK'
  <2>1. IndexFromTicket(ticket) \in Slot /\ Advance(ticket) \in Slot
    BY TicketsNameEverySlotOnce, AdvanceWraps
  <2> QED BY <1>2, <2>1 DEF TakeTicket
<1>3. ASSUME NEW p \in Producer, Publish(p) PROVE TypeOK'
  BY <1>3, CapacityPositive, PushRetryLimitAssumption DEF Publish
<1>4. ASSUME NEW p \in Producer, PushRetry(p) PROVE TypeOK'
  <2>1. retries[p] + 1 \in 0 .. PushRetryLimit
    BY <1>4, PushRetryLimitAssumption DEF PushRetry
  <2> QED BY <1>4, <2>1, CapacityPositive DEF PushRetry
<1>5. ASSUME NEW p \in Producer, PushGiveUp(p) PROVE TypeOK'
  BY <1>5, CapacityPositive, PushRetryLimitAssumption DEF PushGiveUp
<1>6. ASSUME NEW p \in Producer, PushAgain(p) PROVE TypeOK'
  BY <1>6 DEF PushAgain
<1>7. ASSUME NEW p \in Producer, PushDrop(p) PROVE TypeOK'
  BY <1>7 DEF PushDrop
<1>8. CASE PopCall
  BY <1>8 DEF PopCall
<1>9. CASE PopHit
  <2>1. Advance(head) \in Slot
    BY AdvanceWraps
  <2>2. Visible(head) \in Event
    BY <1>9 DEF PopHit, Visible
  <2>3. 0 \in 0 .. PopRetryLimit
    BY CapacityPositive
  <2> QED BY <1>9, <2>1, <2>2, <2>3 DEF PopHit
<1>10. CASE PopMiss
  <2>1. popRetries + 1 \in 0 .. PopRetryLimit
    BY <1>10, CapacityPositive DEF PopMiss
  <2> QED BY <1>10, <2>1, AdvanceWraps DEF PopMiss
<1>11. CASE PopGiveUp
  BY <1>11, AdvanceWraps, CapacityPositive DEF PopGiveUp
<1>12. ASSUME NEW i \in Slot, ClearVisible(i) PROVE TypeOK'
  BY <1>12 DEF ClearVisible
<1>13. ASSUME NEW e \in Event, Release(e) PROVE TypeOK'
  BY <1>13 DEF Release
<1>14. CASE UNCHANGED vars
  BY <1>14 DEF vars
<1> QED
  BY <1>1, <1>2, <1>3, <1>4, <1>5, <1>6, <1>7, <1>8, <1>9, <1>10, <1>11, <1>12,
     <1>13, <1>14 DEF Next, PushStep, PopStep

\* Every counter stays in its width and every retry count within its limit,
\* whatever the interleaving.
THEOREM Typing == Spec => []TypeOK
BY TypingInit, TypingNext, PTL DEF Spec

-----------------------------------------------------------------------------
(* What each kind of step does to the slots as the consumer sees them *)

\* A null store still on its way covers the event it removes: no slot is reused
\* before the store is seen, so it never erases a newer event.
ClearsCoverTakenEvents == \A i \in clearing : buffer[i] # NULL

LEMMA ViewAfterPublish ==
  ASSUME TypeOK, ClearsCoverTakenEvents, NEW p \in Producer, Publish(p)
  PROVE  /\ Visible(index[p]) = NULL
         /\ \A i \in Slot : Visible(i)' = IF i = index[p] THEN ptr[p] ELSE Visible(i)
         /\ ClearsCoverTakenEvents'
<1>1. index[p] \in Slot /\ index[p] \notin clearing
  BY DEF TypeOK, ClearsCoverTakenEvents, Publish
<1> QED BY <1>1 DEF TypeOK, ClearsCoverTakenEvents, Publish, Visible

LEMMA ViewAfterPopHit ==
  ASSUME TypeOK, ClearsCoverTakenEvents, PopHit
  PROVE  /\ Visible(head) # NULL /\ Visible(head) \in Event
         /\ \A i \in Slot : Visible(i)' = IF i = head THEN NULL ELSE Visible(i)
         /\ ClearsCoverTakenEvents'
BY DEF TypeOK, ClearsCoverTakenEvents, PopHit, Visible, producerVars

LEMMA ViewAfterClear ==
  ASSUME TypeOK, ClearsCoverTakenEvents, NEW j \in Slot, ClearVisible(j)
  PROVE  /\ \A i \in Slot : Visible(i)' = Visible(i)
         /\ ClearsCoverTakenEvents'
BY DEF TypeOK, ClearsCoverTakenEvents, ClearVisible, Visible

LEMMA ViewUnchanged ==
  ASSUME UNCHANGED <<buffer, clearing>>
  PROVE  /\ \A i \in Slot : Visible(i)' = Visible(i)
         /\ ClearsCoverTakenEvents' = ClearsCoverTakenEvents
         /\ Queued' = Queued
BY DEF ClearsCoverTakenEvents, Visible, Queued

LEMMA QueuedAfterPublish ==
  ASSUME TypeOK, ClearsCoverTakenEvents, NEW p \in Producer, Publish(p), ptr[p] # NULL
  PROVE  Queued' = Queued \union {ptr[p]}
<1>1. PICK k \in Slot : k = index[p]
  BY DEF TypeOK
<1>2. Visible(k)' = ptr[p] /\ Visible(k) = NULL
  BY <1>1, ViewAfterPublish
<1>3. ASSUME NEW e, e \in Queued' PROVE e \in Queued \union {ptr[p]}
  BY <1>3, ViewAfterPublish DEF Queued
<1>4. ASSUME NEW e \in Queued PROVE e \in Queued'
  <2>1. PICK i \in Slot : e = Visible(i) /\ e # NULL
    BY DEF Queued
  <2>2. Visible(i)' = e
    BY <1>2, <2>1, ViewAfterPublish
  <2> QED BY <2>1, <2>2 DEF Queued
<1>5. ptr[p] \in Queued'
  BY <1>2 DEF Queued
<1> QED BY <1>3, <1>4, <1>5

LEMMA QueuedAfterPopHit ==
  ASSUME TypeOK, ClearsCoverTakenEvents, ExclusiveOwnership, PopHit
  PROVE  Visible(head) \in Queued /\ Queued' = Queued \ {Visible(head)}
<1>1. head \in Slot
  BY DEF TypeOK
<1>2. Visible(head) # NULL
  BY ViewAfterPopHit
<1>3. ASSUME NEW e, e \in Queued' PROVE e \in Queued /\ e # Visible(head)
  <2>1. PICK i \in Slot : e = Visible(i)' /\ e # NULL
    BY <1>3 DEF Queued
  <2>2. i # head /\ e = Visible(i)
    BY <2>1, ViewAfterPopHit
  <2> QED BY <1>1, <2>1, <2>2 DEF Queued, ExclusiveOwnership
<1>4. ASSUME NEW e \in Queued, e # Visible(head) PROVE e \in Queued'
  <2>1. PICK i \in Slot : e = Visible(i) /\ e # NULL
    BY DEF Queued
  <2>2. Visible(i)' = e
    BY <1>4, <2>1, ViewAfterPopHit
  <2> QED BY <2>1, <2>2 DEF Queued
<1> QED BY <1>1, <1>2, <1>3, <1>4 DEF Queued

LEMMA QueuedAfterClear ==
  ASSUME TypeOK, ClearsCoverTakenEvents, NEW j \in Slot, ClearVisible(j)
  PROVE  Queued' = Queued
BY ViewAfterClear DEF Queued

-----------------------------------------------------------------------------
(* Ownership of the events *)

\* A push that runs carries an event, a producer outside push has none.
CallsCarryEvents ==
  \A p \in Producer : /\ ppc[p] \in {"try", "cas"} => ptr[p] # NULL
                      /\ ppc[p] = "idle" => ptr[p] = NULL

OwnershipInv ==
  TypeOK /\ ExclusiveOwnership /\ ClearsCoverTakenEvents /\ CallsCarryEvents

LEMMA OwnershipInit == Init => OwnershipInv
<1> SUFFICES ASSUME Init PROVE OwnershipInv
  OBVIOUS
<1>1. \A i \in Slot : Visible(i) = NULL
  BY DEF Init, Visible
<1>2. Queued = {}
  BY <1>1 DEF Queued
<1> QED
  BY <1>1, <1>2, TypingInit
     DEF Init, OwnershipInv, ExclusiveOwnership, ClearsCoverTakenEvents, CallsCarryEvents

\* A step that leaves the slots and the consumer's events alone, and hands each
\* producer its own event or one that nobody has, keeps the owners apart.
LEMMA OwnersApart ==
  ASSUME OwnershipInv, UNCHANGED <<buffer, clearing, held>>, NEW p \in Producer,
         NEW v \in Event \union {NULL},
         ptr' = [ptr EXCEPT ![p] = v], v = NULL \/ v = ptr[p] \/ Free(v)
  PROVE  ExclusiveOwnership' /\ ClearsCoverTakenEvents'
<1>1. Queued' = Queued /\ (\A i \in Slot : Visible(i)' = Visible(i)) /\ ClearsCoverTakenEvents'
  BY ViewUnchanged DEF OwnershipInv
<1>2. NULL \notin Queued /\ NULL \notin held
  BY NullAssumption DEF Queued, OwnershipInv, TypeOK
<1>3. \A q, r \in Producer : ptr'[q] = ptr'[r] /\ ptr'[q] # NULL => q = r
  BY DEF OwnershipInv, TypeOK, ExclusiveOwnership, Free
<1>4. \A q \in Producer : ptr'[q] \notin Queued \union held
  BY <1>2 DEF OwnershipInv, TypeOK, ExclusiveOwnership, Free
<1> QED BY <1>1, <1>3, <1>4 DEF OwnershipInv, ExclusiveOwnership

\* A step that touches neither slots, producers' events nor the consumer's.
LEMMA OwnersUntouched ==
  ASSUME OwnershipInv, UNCHANGED <<buffer, clearing, ptr, held>>
  PROVE  ExclusiveOwnership' /\ ClearsCoverTakenEvents'
BY ViewUnchanged DEF OwnershipInv, ExclusiveOwnership

LEMMA OwnershipNext == OwnershipInv /\ [Next]_vars => OwnershipInv'
<1> SUFFICES ASSUME OwnershipInv, [Next]_vars
             PROVE  ExclusiveOwnership' /\ ClearsCoverTakenEvents' /\ CallsCarryEvents'
  BY TypingNext DEF OwnershipInv
<1> USE DEF OwnershipInv, producerVars, consumerVars
<1>1. ASSUME NEW p \in Producer, NEW v \in Event \union {NULL}, PushCall(p, v)
      PROVE  ExclusiveOwnership' /\ ClearsCoverTakenEvents' /\ CallsCarryEvents'
  <2>1. ExclusiveOwnership' /\ ClearsCoverTakenEvents'
    BY <1>1, OwnersApart DEF PushCall
  <2>2. CallsCarryEvents'
    BY <1>1 DEF PushCall, CallsCarryEvents, TypeOK
  <2> QED BY <2>1, <2>2
<1>2. ASSUME NEW p \in Producer, TakeTicket(p)
      PROVE  ExclusiveOwnership' /\ ClearsCoverTakenEvents' /\ CallsCarryEvents'
  BY <1>2, OwnersUntouched DEF TakeTicket, CallsCarryEvents, TypeOK
<1>3. ASSUME NEW p \in Producer, Publish(p)
      PROVE  ExclusiveOwnership' /\ ClearsCoverTakenEvents' /\ CallsCarryEvents'
  <2>1. ptr[p] # NULL /\ ptr[p] \in Event
    BY <1>3 DEF Publish, CallsCarryEvents, TypeOK
  <2>2. Queued' = Queued \union {ptr[p]} /\ held' = held
    BY <1>3, <2>1, QueuedAfterPublish DEF Publish
  <2>3. ptr' = [ptr EXCEPT ![p] = NULL] /\ ptr \in [Producer -> Event \union {NULL}]
    BY <1>3 DEF Publish, TypeOK
  <2>4. \A i, j \in Slot : Visible(i)' = Visible(j)' /\ Visible(i)' # NULL => i = j
    <3>1. PICK k \in Slot : k = index[p]
      BY DEF TypeOK
    <3>2. \A i \in Slot : Visible(i)' = IF i = k THEN ptr[p] ELSE Visible(i)
      BY <1>3, <3>1, ViewAfterPublish
    <3>3. \A i \in Slot : Visible(i) # ptr[p]
      BY <2>1 DEF Queued, ExclusiveOwnership
    <3> QED BY <3>2, <3>3 DEF ExclusiveOwnership
  <2>5. NULL \notin Queued' /\ NULL \notin held
    BY NullAssumption DEF Queued, TypeOK
  <2>6. \A q \in Producer : ptr'[q] \notin Queued' \union held'
    BY <2>1, <2>2, <2>3, <2>5 DEF ExclusiveOwnership
  <2>7. \A q, r \in Producer : ptr'[q] = ptr'[r] /\ ptr'[q] # NULL => q = r
    BY <2>3 DEF ExclusiveOwnership
  <2>8. Queued' \intersect held' = {}
    BY <2>2 DEF ExclusiveOwnership
  <2>9. ExclusiveOwnership'
    BY <2>4, <2>6, <2>7, <2>8 DEF ExclusiveOwnership
  <2>10. CallsCarryEvents'
    BY <1>3 DEF Publish, CallsCarryEvents, TypeOK
  <2> QED BY <1>3, <2>9, <2>10, ViewAfterPublish
<1>4. ASSUME NEW p \in Producer, PushRetry(p)
      PROVE  ExclusiveOwnership' /\ ClearsCoverTakenEvents' /\ CallsCarryEvents'
  BY <1>4, OwnersUntouched DEF PushRetry, CallsCarryEvents, TypeOK
<1>5. ASSUME NEW p \in Producer, PushGiveUp(p)
      PROVE  ExclusiveOwnership' /\ ClearsCoverTakenEvents' /\ CallsCarryEvents'
  BY <1>5, OwnersUntouched DEF PushGiveUp, CallsCarryEvents, TypeOK
<1>6. ASSUME NEW p \in Producer, PushAgain(p)
      PROVE  ExclusiveOwnership' /\ ClearsCoverTakenEvents' /\ CallsCarryEvents'
  BY <1>6, OwnersUntouched DEF PushAgain, CallsCarryEvents, TypeOK
<1>7. ASSUME NEW p \in Producer, PushDrop(p)
      PROVE  ExclusiveOwnership' /\ ClearsCoverTakenEvents' /\ CallsCarryEvents'
  <2>1. ExclusiveOwnership' /\ ClearsCoverTakenEvents'
    BY <1>7, OwnersApart DEF PushDrop
  <2>2. CallsCarryEvents'
    BY <1>7 DEF PushDrop, CallsCarryEvents, TypeOK
  <2> QED BY <2>1, <2>2
<1>8. CASE PopCall
  BY <1>8, OwnersUntouched DEF PopCall, CallsCarryEvents
<1>9. CASE PopHit
  <2> DEFINE e == Visible(head)
  <2>1. e \in Queued /\ Queued' = Queued \ {e} /\ held' = held \union {e} /\ ptr' = ptr
    BY <1>9, QueuedAfterPopHit DEF PopHit
  <2>2. \A i, j \in Slot : Visible(i)' = Visible(j)' /\ Visible(i)' # NULL => i = j
    BY <1>9, ViewAfterPopHit DEF ExclusiveOwnership
  <2>3. \A q \in Producer : ptr[q] # e
    BY <2>1 DEF ExclusiveOwnership
  <2> HIDE DEF e
  <2>4. ExclusiveOwnership'
    BY <2>1, <2>2, <2>3 DEF ExclusiveOwnership
  <2>5. CallsCarryEvents'
    BY <1>9 DEF PopHit, CallsCarryEvents
  <2> QED BY <1>9, <2>4, <2>5, ViewAfterPopHit
<1>10. CASE PopMiss
  BY <1>10, OwnersUntouched DEF PopMiss, CallsCarryEvents
<1>11. CASE PopGiveUp
  BY <1>11, OwnersUntouched DEF PopGiveUp, CallsCarryEvents
<1>12. ASSUME NEW i \in Slot, ClearVisible(i)
       PROVE  ExclusiveOwnership' /\ ClearsCoverTakenEvents' /\ CallsCarryEvents'
  <2>1. Queued' = Queued /\ ptr' = ptr /\ held' = held /\ ppc' = ppc
    BY <1>12, QueuedAfterClear DEF ClearVisible
  <2> QED
    BY <1>12, <2>1, ViewAfterClear DEF ExclusiveOwnership, CallsCarryEvents
<1>13. ASSUME NEW e \in Event, Release(e)
       PROVE  ExclusiveOwnership' /\ ClearsCoverTakenEvents' /\ CallsCarryEvents'
  <2>1. Queued' = Queued /\ (\A i \in Slot : Visible(i)' = Visible(i))
           /\ ClearsCoverTakenEvents'
    BY <1>13, ViewUnchanged DEF Release
  <2>2. ptr' = ptr /\ ppc' = ppc /\ held' = held \ {e}
    BY <1>13 DEF Release
  <2> QED BY <2>1, <2>2 DEF ExclusiveOwnership, CallsCarryEvents
<1>14. CASE UNCHANGED vars
  BY <1>14, OwnersUntouched DEF vars, CallsCarryEvents
<1> QED
  BY <1>1, <1>2, <1>3, <1>4, <1>5, <1>6, <1>7, <1>8, <1>9, <1>10, <1>11, <1>12,
     <1>13, <1>14 DEF Next, PushStep, PopStep

LEMMA OwnershipInvariant == Spec => []OwnershipInv
BY OwnershipInit, OwnershipNext, PTL DEF Spec

\* At every moment every event has at most one owner, so no event is delivered
\* twice, for any number of producers and any size of the channel.
THEOREM Ownership == Spec => []ExclusiveOwnership
BY OwnershipInvariant, PTL DEF OwnershipInv

-----------------------------------------------------------------------------
(* No event is lost *)

LEMMA NoLostEventStep ==
  OwnershipInv /\ [Next]_vars => \A e \in Queued : e \in Queued' \/ e \in held'
<1> SUFFICES ASSUME OwnershipInv, [Next]_vars
             PROVE  \A e \in Queued : e \in Queued' \/ e \in held'
  OBVIOUS
<1> USE DEF OwnershipInv, producerVars, consumerVars
<1>1. ASSUME UNCHANGED <<buffer, clearing>>
      PROVE  \A e \in Queued : e \in Queued' \/ e \in held'
  BY <1>1, ViewUnchanged
<1>2. ASSUME NEW p \in Producer, Publish(p)
      PROVE  \A e \in Queued : e \in Queued' \/ e \in held'
  BY <1>2, QueuedAfterPublish DEF Publish, CallsCarryEvents
<1>3. CASE PopHit
  BY <1>3, QueuedAfterPopHit DEF PopHit
<1>4. ASSUME NEW i \in Slot, ClearVisible(i)
      PROVE  \A e \in Queued : e \in Queued' \/ e \in held'
  BY <1>4, QueuedAfterClear
<1> QED
  BY <1>1, <1>2, <1>3, <1>4
     DEF Next, PushStep, PopStep, PushCall, TakeTicket, PushRetry, PushGiveUp, PushAgain,
         PushDrop, PopCall, PopMiss, PopGiveUp, Release, vars

\* A published event leaves its slot only into the hands of the consumer.
THEOREM PublishedEventsStay == Spec => NoLostEvent
BY OwnershipInvariant, NoLostEventStep, PTL DEF Spec, NoLostEvent

LEMMA PushAddsItsEventStep ==
  OwnershipInv /\ [Next]_vars =>
    \A p \in Producer : ppc[p] = "cas" /\ ppc'[p] = "idle"
      => ptr[p] # NULL /\ Queued' = Queued \union {ptr[p]}
<1> SUFFICES ASSUME OwnershipInv, [Next]_vars,
                    NEW p \in Producer, ppc[p] = "cas", ppc'[p] = "idle"
             PROVE  ptr[p] # NULL /\ Queued' = Queued \union {ptr[p]}
  OBVIOUS
<1> USE DEF OwnershipInv, producerVars, consumerVars, TypeOK
<1>1. Publish(p)
  BY DEF Next, PushStep, PopStep, PushCall, TakeTicket, Publish, PushRetry, PushGiveUp,
         PushAgain, PushDrop, PopCall, PopHit, PopMiss, PopGiveUp, ClearVisible, Release,
         vars
<1>2. ptr[p] # NULL
  BY DEF CallsCarryEvents
<1> QED BY <1>1, <1>2, QueuedAfterPublish

\* push returns true exactly when it added its own event.
THEOREM PushesAreHonest == Spec => PushAddsItsEvent
BY OwnershipInvariant, PushAddsItsEventStep, PTL DEF Spec, PushAddsItsEvent

-----------------------------------------------------------------------------
(* pop reports an empty channel only when it was empty *)

\* How many slots the scan still passes before it looks at slot i.
Ahead(i) == IF head <= i THEN i - head ELSE i - head + Capacity

\* While something is owed, an event lies ahead of the cursor, near enough for
\* the attempts that are left.
OwedInReach ==
  /\ cpc = "popping" /\ owed =>
       \E i \in Slot : Visible(i) # NULL /\ Ahead(i) + popRetries <= PopRetryLimit
  /\ cpc # "popping" => ~owed /\ popRetries = 0

ScanInv == OwnershipInv /\ OwedInReach

LEMMA ScanInit == Init => ScanInv
BY OwnershipInit DEF Init, ScanInv, OwedInReach

\* A slot that is not under the cursor gets one step nearer.
LEMMA AheadAfterMiss ==
  ASSUME TypeOK, head' = Advance(head), NEW i \in Slot, i # head
  PROVE  Ahead(i)' + 1 = Ahead(i)
<1>1. head \in Slot /\ head' = (IF head = Capacity - 1 THEN 0 ELSE head + 1)
  BY AdvanceWraps DEF TypeOK
<1> QED BY <1>1, CapacityPositive DEF Ahead, Slot

LEMMA AheadBound ==
  ASSUME TypeOK, NEW i \in Slot
  PROVE  Ahead(i) \in 0 .. Capacity - 1
BY CapacityPositive DEF TypeOK, Ahead, Slot

LEMMA ScanNext == ScanInv /\ [Next]_vars => ScanInv'
<1> SUFFICES ASSUME ScanInv, [Next]_vars PROVE OwedInReach'
  BY OwnershipNext DEF ScanInv
<1> USE DEF ScanInv, OwnershipInv, producerVars, consumerVars
<1>1. ASSUME UNCHANGED <<buffer, clearing, head, cpc, popRetries, owed>>
      PROVE  OwedInReach'
  BY <1>1, ViewUnchanged DEF OwedInReach, Ahead
<1>2. ASSUME NEW p \in Producer, Publish(p) PROVE OwedInReach'
  <2>1. PICK k \in Slot : k = index[p]
    BY DEF TypeOK
  <2>2. ptr[p] # NULL
    BY <1>2 DEF Publish, CallsCarryEvents
  <2>3. \A i \in Slot : Visible(i)' = IF i = k THEN ptr[p] ELSE Visible(i)
    BY <1>2, <2>1, ViewAfterPublish
  <2>4. /\ head' = head /\ cpc' = cpc /\ popRetries' = popRetries
        /\ owed' = (owed \/ (cpc = "popping" /\ popRetries <= Capacity))
    BY <1>2 DEF Publish
  <2>5. \A i \in Slot : Ahead(i)' = Ahead(i)
    BY <2>4 DEF Ahead
  <2>6. CASE cpc # "popping"
    BY <2>4, <2>6 DEF OwedInReach
  <2>7. CASE cpc = "popping" /\ owed
    BY <2>2, <2>3, <2>4, <2>5, <2>7 DEF OwedInReach
  <2>8. CASE cpc = "popping" /\ ~owed
    <3>1. SUFFICES ASSUME popRetries <= Capacity
                   PROVE  Visible(k)' # NULL /\ Ahead(k)' + popRetries' <= PopRetryLimit
      BY <2>4, <2>8 DEF OwedInReach
    <3>2. Ahead(k) \in 0 .. Capacity - 1 /\ popRetries \in Nat
      BY AheadBound DEF TypeOK
    <3> QED BY <2>2, <2>3, <2>4, <2>5, <3>1, <3>2, CapacityPositive
  <2> QED BY <2>6, <2>7, <2>8
<1>3. CASE PopCall
  <2>1. UNCHANGED <<buffer, clearing, head, popRetries>> /\ cpc' = "popping"
        /\ owed' = (Queued # {}) /\ popRetries = 0
    BY <1>3 DEF PopCall, OwedInReach
  <2>2. SUFFICES ASSUME Queued # {}
                 PROVE  \E i \in Slot : Visible(i)' # NULL /\ Ahead(i)' + popRetries' <= PopRetryLimit
    BY <2>1 DEF OwedInReach
  <2>3. PICK i \in Slot : Visible(i) # NULL
    BY <2>2 DEF Queued
  <2>4. Visible(i)' # NULL /\ Ahead(i)' = Ahead(i)
    BY <2>1, <2>3 DEF Visible, Ahead
  <2>5. Ahead(i) \in 0 .. Capacity - 1
    BY AheadBound
  <2> QED BY <2>1, <2>4, <2>5, CapacityPositive
<1>4. CASE PopHit
  BY <1>4 DEF PopHit, OwedInReach
<1>5. CASE PopMiss
  <2>1. SUFFICES ASSUME owed
                 PROVE  \E i \in Slot : Visible(i)' # NULL /\ Ahead(i)' + popRetries' <= PopRetryLimit
    BY <1>5 DEF PopMiss, OwedInReach
  <2>2. PICK i \in Slot : Visible(i) # NULL /\ Ahead(i) + popRetries <= PopRetryLimit
    BY <1>5, <2>1 DEF PopMiss, OwedInReach
  <2>3. i # head /\ Visible(i)' = Visible(i)
    BY <1>5, <2>2 DEF PopMiss, Visible
  <2>4. Ahead(i)' + 1 = Ahead(i)
    BY <1>5, <2>3, AheadAfterMiss DEF PopMiss
  <2>5. popRetries' = popRetries + 1 /\ popRetries \in Int /\ head' \in Slot
    BY <1>5, AdvanceWraps DEF PopMiss, TypeOK
  <2>6. Ahead(i) \in Int /\ Ahead(i)' \in Int
    BY <2>5, CapacityPositive DEF TypeOK, Ahead, Slot
  <2> QED BY <2>2, <2>3, <2>4, <2>5, <2>6, CapacityPositive
<1>6. CASE PopGiveUp
  <2>1. ~owed
    <3>1. SUFFICES ASSUME owed PROVE FALSE
      OBVIOUS
    <3>2. PICK i \in Slot : Visible(i) # NULL /\ Ahead(i) + popRetries <= PopRetryLimit
      BY <1>6, <3>1 DEF PopGiveUp, OwedInReach
    <3>3. popRetries = PopRetryLimit
      BY <1>6, CapacityPositive DEF PopGiveUp, TypeOK
    <3>4. Ahead(i) = 0
      BY <3>2, <3>3, AheadBound, CapacityPositive
    <3>5. i = head
      BY <3>4, CapacityPositive DEF Ahead, TypeOK, Slot
    <3> QED BY <1>6, <3>2, <3>5 DEF PopGiveUp
  <2> QED BY <1>6, <2>1 DEF PopGiveUp, OwedInReach
<1>7. ASSUME NEW j \in Slot, ClearVisible(j) PROVE OwedInReach'
  <2>1. \A i \in Slot : Visible(i)' = Visible(i)
    BY <1>7, ViewAfterClear
  <2>2. UNCHANGED <<head, cpc, popRetries, owed>>
    BY <1>7 DEF ClearVisible
  <2> QED BY <2>1, <2>2 DEF OwedInReach, Ahead
<1> QED
  BY <1>1, <1>2, <1>3, <1>4, <1>5, <1>6, <1>7
     DEF Next, PushStep, PopStep, PushCall, TakeTicket, PushRetry, PushGiveUp, PushAgain,
         PushDrop, Release, vars

LEMMA ScanInvariant == Spec => []ScanInv
BY ScanInit, ScanNext, PTL DEF Spec

\* pop never reports an empty channel that held an event when it was called or
\* received one in the first lap of the scan.
THEOREM EmptyReportsAreTrue == Spec => []PopEmptyIsTruthful
<1>1. ScanInv => PopEmptyIsTruthful
  BY DEF ScanInv, OwedInReach, PopEmptyIsTruthful
<1> QED BY <1>1, ScanInvariant, PTL

-----------------------------------------------------------------------------
(* The channel implements the abstract pool *)

\* While a slot is free, fewer than Capacity events are in the channel.
LEMMA RoomForOneMore ==
  ASSUME NEW k \in Slot, Visible(k) = NULL
  PROVE  Cardinality(Queued) < Capacity
<1> DEFINE S == {i \in Slot : Visible(i) # NULL}
           f == [i \in S |-> Visible(i)]
<1>1. IsFiniteSet(Slot) /\ Cardinality(Slot) = Capacity
  BY CapacityPositive, FS_Interval DEF Slot
<1>2. IsFiniteSet(Slot \ {k}) /\ Cardinality(Slot \ {k}) = Capacity - 1
  BY <1>1, FS_RemoveElement
<1>3. S \subseteq Slot \ {k}
  OBVIOUS
<1>4. IsFiniteSet(S) /\ Cardinality(S) <= Capacity - 1 /\ Cardinality(S) \in Nat
  BY <1>2, <1>3, FS_Subset, FS_CardinalityType
<1>5. f \in Surjection(S, Queued)
  BY DEF Surjection, Queued
<1>6. IsFiniteSet(Queued) /\ Cardinality(Queued) <= Cardinality(S)
  BY <1>4, <1>5, FS_Surjection
<1> QED BY <1>4, <1>6, FS_CardinalityType, CapacityPositive

poolVars == <<Queued, ptr, held, cpc, owed>>

LEMMA PoolInit == Init => Pool!Init
<1> SUFFICES ASSUME Init PROVE Pool!Init
  OBVIOUS
<1>1. Queued = {}
  BY DEF Init, Visible, Queued
<1> QED BY <1>1 DEF Init, Pool!Init

LEMMA PoolNext == ScanInv /\ [Next]_vars => [Pool!Next]_poolVars
<1> SUFFICES ASSUME ScanInv, [Next]_vars PROVE Pool!Next \/ UNCHANGED poolVars
  BY DEF poolVars
<1> USE DEF ScanInv, OwnershipInv, producerVars, consumerVars, poolVars
<1>1. ASSUME NEW p \in Producer, NEW v \in Event \union {NULL}, PushCall(p, v)
      PROVE  Pool!Next \/ UNCHANGED poolVars
  <2>1. Queued' = Queued /\ ptr[p] = NULL
    BY <1>1, ViewUnchanged DEF PushCall, CallsCarryEvents
  <2>2. CASE v = NULL
    BY <1>1, <2>1, <2>2 DEF PushCall, TypeOK
  <2>3. CASE v # NULL
    <3>1. Pool!Offer(p, v)
      BY <1>1, <2>1, <2>3 DEF PushCall, Pool!Offer, Pool!Free, Free
    <3> QED BY <2>3, <3>1 DEF Pool!Next
  <2> QED BY <2>2, <2>3
<1>2. ASSUME NEW p \in Producer, Publish(p) PROVE Pool!Next
  <2>1. PICK k \in Slot : k = index[p]
    BY DEF TypeOK
  <2>2. Cardinality(Queued) < Capacity
    BY <1>2, <2>1, ViewAfterPublish, RoomForOneMore
  <2>3. ptr[p] # NULL
    BY <1>2 DEF Publish, CallsCarryEvents
  <2>4. Queued' = Queued \union {ptr[p]}
    BY <1>2, <2>3, QueuedAfterPublish
  <2>5. owed' \in {owed, cpc = "popping"} /\ (owed => owed')
    BY <1>2 DEF Publish, TypeOK
  <2>6. ptr' = [ptr EXCEPT ![p] = NULL] /\ held' = held /\ cpc' = cpc
    BY <1>2 DEF Publish
  <2>7. Pool!Cardinality(Queued) = Cardinality(Queued)
    BY Zenon DEF Cardinality, Pool!Cardinality
  <2>8. Pool!Accept(p)
    BY <2>2, <2>3, <2>4, <2>5, <2>6, <2>7, Zenon DEF Pool!Accept
  <2> QED BY <2>8 DEF Pool!Next
<1>3. ASSUME NEW p \in Producer, PushDrop(p) PROVE Pool!Next \/ UNCHANGED poolVars
  <2>1. Queued' = Queued
    BY <1>3, ViewUnchanged DEF PushDrop
  <2>2. CASE ptr[p] = NULL
    BY <1>3, <2>1, <2>2 DEF PushDrop, TypeOK
  <2>3. CASE ptr[p] # NULL
    BY <1>3, <2>1, <2>3 DEF PushDrop, Pool!Withdraw, Pool!Next
  <2> QED BY <2>2, <2>3
<1>4. CASE PopCall
  BY <1>4, ViewUnchanged DEF PopCall, Pool!Call, Pool!Next
<1>5. CASE PopHit
  <2> DEFINE e == Visible(head)
  <2>1. e \in Queued /\ Queued' = Queued \ {e} /\ e \in Event
    BY <1>5, QueuedAfterPopHit, ViewAfterPopHit
  <2>2. Pool!Take(e)
    BY <1>5, <2>1 DEF PopHit, Pool!Take
  <2> QED BY <2>1, <2>2 DEF Pool!Next
<1>6. CASE PopGiveUp
  <2>1. Queued' = Queued /\ ~owed
    <3>1. OwedInReach'
      BY ScanNext
    <3> QED BY <1>6, <3>1, ViewUnchanged DEF PopGiveUp, OwedInReach
  <2>2. Pool!ReportEmpty
    BY <1>6, <2>1 DEF PopGiveUp, Pool!ReportEmpty
  <2> QED BY <2>2 DEF Pool!Next
<1>7. ASSUME NEW e \in Event, Release(e) PROVE Pool!Next
  BY <1>7, ViewUnchanged DEF Release, Pool!Release, Pool!Next
<1>8. ASSUME NEW j \in Slot, ClearVisible(j) PROVE UNCHANGED poolVars
  BY <1>8, QueuedAfterClear DEF ClearVisible
<1>9. ASSUME UNCHANGED <<buffer, clearing, ptr, held, cpc, owed>> PROVE UNCHANGED poolVars
  BY <1>9, ViewUnchanged
<1> QED
  BY <1>1, <1>2, <1>3, <1>4, <1>5, <1>6, <1>7, <1>8, <1>9
     DEF Next, PushStep, PopStep, TakeTicket, PushRetry, PushGiveUp, PushAgain, PopMiss, vars

\* For every size, retry limit and number of threads the channel keeps the
\* promises of the pool: bounded, nothing lost or doubled, honest answers.
THEOREM ChannelIsAPool == Spec => ImplementsEventPool
<1>1. ScanInv /\ [Next]_vars => [Pool!Next]_(Pool!vars)
  BY PoolNext DEF poolVars, Pool!vars
<1> QED BY <1>1, PoolInit, ScanInvariant, PTL DEF Spec, Pool!Spec, ImplementsEventPool

-----------------------------------------------------------------------------
(* The first lap after rest meets no taken slot *)

\* How many tickets ago ticket t was drawn last, in 1 .. Capacity, when the
\* next one is n.
Age(t, n) == IF t < n THEN n - t ELSE n - t + Capacity

\* The last ticket that named slot i is one of the last l.
Fresh(i, n, l) == Age(IndexFromTicket(i), n) <= l

\* In the first lap every slot that is taken, or that a producer is about to
\* try, was named by a ticket of this lap, and by that ticket only.
FirstLapInv ==
  lap <= Capacity =>
    /\ \A i \in Slot : buffer[i] # NULL => Fresh(i, ticket, lap)
    /\ \A p \in Producer : ppc[p] = "cas" => buffer[index[p]] = NULL /\ Fresh(index[p], ticket, lap)
    /\ \A p, q \in Producer :
         ppc[p] = "cas" /\ ppc[q] = "cas" /\ index[p] = index[q] => p = q

FillInv == TypeOK /\ lap \in 0 .. Capacity + 1 /\ FirstLapInv

\* Drawing a ticket makes every other one a step older, and the oldest the newest.
LEMMA AgeAfterTicket ==
  ASSUME ticket \in Slot, ticket' = Advance(ticket), NEW t \in Slot
  PROVE  /\ Age(t, ticket) \in 1 .. Capacity
         /\ (Age(t, ticket) = Capacity) <=> (t = ticket)
         /\ Age(t, ticket') = IF t = ticket THEN 1 ELSE Age(t, ticket) + 1
<1>1. ticket' = IF ticket = Capacity - 1 THEN 0 ELSE ticket + 1
  BY AdvanceWraps
<1> QED BY <1>1, CapacityPositive DEF Age, Slot

\* The slot of a new ticket of this lap is not one the lap named before.
LEMMA FreshAfterTicket ==
  ASSUME ticket \in Slot, ticket' = Advance(ticket), lap \in 0 .. Capacity - 1,
         lap' = lap + 1, NEW i \in Slot
  PROVE  /\ Fresh(i, ticket, lap) => Fresh(i, ticket', lap') /\ i # IndexFromTicket(ticket)
         /\ i = IndexFromTicket(ticket) => Fresh(i, ticket', lap')
<1>1. PICK t \in Slot : t = IndexFromTicket(i)
  BY TicketsNameEverySlotOnce
<1>2. i = IndexFromTicket(ticket) <=> t = ticket
  BY <1>1, TicketsNameEverySlotOnce
<1>3. /\ Fresh(i, ticket, lap) <=> Age(t, ticket) <= lap
      /\ Fresh(i, ticket', lap') <=> Age(t, ticket') <= lap + 1
  BY <1>1 DEF Fresh, IndexFromTicket
<1>4. /\ Age(t, ticket) \in 1 .. Capacity
      /\ (Age(t, ticket) = Capacity) <=> (t = ticket)
      /\ Age(t, ticket') = IF t = ticket THEN 1 ELSE Age(t, ticket) + 1
  BY AgeAfterTicket
<1> HIDE DEF Fresh, Age
<1>5. Age(t, ticket) <= lap => t # ticket /\ Age(t, ticket') <= lap + 1
  BY <1>4, CapacityPositive
<1>6. t = ticket => Age(t, ticket') <= lap + 1
  BY <1>4
<1> QED BY <1>2, <1>3, <1>5, <1>6

\* A channel at rest has no ticket of a lap to remember.
LEMMA RestStartsLap ==
  ASSUME AtRest' PROVE FirstLapInv'
BY DEF AtRest, FirstLapInv

LEMMA LapTyped ==
  ASSUME lap \in 0 .. Capacity + 1, Count PROVE lap' \in 0 .. Capacity + 1
BY CapacityPositive DEF Count

\* A step that draws no ticket, fills no slot and sends nobody to one.
LEMMA LapKept ==
  ASSUME FillInv, Count, UNCHANGED ticket,
         \A i \in Slot : buffer'[i] \in {buffer[i], NULL},
         \A p \in Producer : ppc'[p] = "cas" => ppc[p] = "cas" /\ index'[p] = index[p]
  PROVE  FirstLapInv'
<1>1. CASE AtRest'
  BY <1>1, RestStartsLap
<1>2. CASE ~AtRest'
  <2>1. lap' = lap
    BY <1>2 DEF Count
  <2>2. \A i : Fresh(i, ticket', lap') <=> Fresh(i, ticket, lap)
    BY <2>1 DEF Fresh, Age, IndexFromTicket
  <2> HIDE DEF Fresh
  <2>3. SUFFICES ASSUME lap <= Capacity
                 PROVE  /\ \A i \in Slot : buffer'[i] # NULL => Fresh(i, ticket', lap')
                        /\ \A p \in Producer : ppc'[p] = "cas" =>
                             buffer'[index'[p]] = NULL /\ Fresh(index'[p], ticket', lap')
                        /\ \A p, q \in Producer :
                             ppc'[p] = "cas" /\ ppc'[q] = "cas" /\ index'[p] = index'[q] => p = q
    BY <2>1 DEF FirstLapInv
  <2>4. \A p \in Producer : index[p] \in Slot
    BY DEF FillInv, TypeOK
  <2> QED BY <2>2, <2>3, <2>4 DEF FillInv, FirstLapInv
<1> QED BY <1>1, <1>2

\* A new ticket of the lap names a slot that is free and that nobody tries.
LEMMA LapGrows ==
  ASSUME FillInv, Count, NEW p \in Producer, TakeTicket(p)
  PROVE  FirstLapInv'
<1>1. /\ ticket' = Advance(ticket) /\ buffer' = buffer /\ ppc[p] = "try" /\ ppc'[p] = "cas"
      /\ index'[p] = IndexFromTicket(ticket)
      /\ \A q \in Producer : q # p => ppc'[q] = ppc[q] /\ index'[q] = index[q]
  BY DEF TakeTicket, FillInv, TypeOK
<1>2. ~AtRest' /\ (lap' = IF lap > Capacity THEN lap ELSE lap + 1)
  BY <1>1 DEF AtRest, Count
<1>3. SUFFICES ASSUME lap' <= Capacity PROVE FirstLapInv'
  BY DEF FirstLapInv
<1>4. lap \in 0 .. Capacity - 1 /\ lap' = lap + 1 /\ lap <= Capacity
  BY <1>2, <1>3, CapacityPositive DEF FillInv
<1>5. ticket \in Slot /\ IndexFromTicket(ticket) \in Slot
  BY TicketsNameEverySlotOnce DEF FillInv, TypeOK
<1>6. \A i \in Slot : /\ Fresh(i, ticket, lap) => Fresh(i, ticket', lap') /\ i # IndexFromTicket(ticket)
                      /\ i = IndexFromTicket(ticket) => Fresh(i, ticket', lap')
  BY <1>1, <1>4, <1>5, FreshAfterTicket
<1> DEFINE k == IndexFromTicket(ticket)
<1>7. \A q \in Producer : q # p /\ ppc[q] = "cas" =>
        index[q] \in Slot /\ buffer[index[q]] = NULL /\ Fresh(index[q], ticket, lap)
  BY <1>4 DEF FillInv, FirstLapInv, TypeOK
<1>8. \A i \in Slot : buffer[i] # NULL => Fresh(i, ticket, lap)
  BY <1>4 DEF FillInv, FirstLapInv
<1>9. \A q, r \in Producer : ppc[q] = "cas" /\ ppc[r] = "cas" /\ index[q] = index[r] => q = r
  BY <1>4 DEF FillInv, FirstLapInv
<1> HIDE DEF k, Fresh
<1>10. \A i \in Slot : buffer'[i] # NULL => Fresh(i, ticket', lap')
  BY <1>1, <1>6, <1>8
<1>11. ASSUME NEW q \in Producer, ppc'[q] = "cas"
       PROVE  buffer'[index'[q]] = NULL /\ Fresh(index'[q], ticket', lap')
  <2>1. CASE q = p
    BY <1>1, <1>5, <1>6, <1>8, <2>1
  <2>2. CASE q # p
    <3>1. index'[q] = index[q] /\ ppc[q] = "cas"
      BY <1>1, <1>11, <2>2
    <3>2. PICK i \in Slot : i = index[q] /\ buffer[i] = NULL /\ Fresh(i, ticket, lap)
      BY <1>7, <2>2, <3>1
    <3> QED BY <1>1, <1>6, <3>1, <3>2
  <2> QED BY <2>1, <2>2
<1>12. \A q, r \in Producer :
         ppc'[q] = "cas" /\ ppc'[r] = "cas" /\ index'[q] = index'[r] => q = r
  BY <1>1, <1>6, <1>7, <1>9
<1> QED BY <1>10, <1>11, <1>12 DEF FirstLapInv

\* An event goes to a slot of the lap that nobody else tries.
LEMMA LapFills ==
  ASSUME FillInv, Count, NEW p \in Producer, Publish(p)
  PROVE  FirstLapInv'
<1>1. /\ ticket' = ticket /\ ppc[p] = "cas" /\ ppc'[p] = "idle"
      /\ \A q \in Producer : q # p => ppc'[q] = ppc[q] /\ index'[q] = index[q]
  BY DEF Publish, FillInv, TypeOK
<1>2. index[p] \in Slot /\ \A i \in Slot : i # index[p] => buffer'[i] = buffer[i]
  BY DEF Publish, FillInv, TypeOK
<1>3. CASE AtRest'
  BY <1>3, RestStartsLap
<1>4. CASE ~AtRest'
  <2>1. lap' = lap
    BY <1>1, <1>4 DEF Count
  <2>2. \A i : Fresh(i, ticket', lap') <=> Fresh(i, ticket, lap)
    BY <1>1, <2>1 DEF Fresh, Age, IndexFromTicket
  <2> HIDE DEF Fresh
  <2>3. SUFFICES ASSUME lap <= Capacity PROVE FirstLapInv'
    BY <2>1 DEF FirstLapInv
  <2>4. \A i \in Slot : buffer'[i] # NULL => Fresh(i, ticket', lap')
    BY <1>1, <1>2, <2>2, <2>3 DEF FillInv, FirstLapInv
  <2>5. ASSUME NEW q \in Producer, ppc'[q] = "cas"
        PROVE  buffer'[index'[q]] = NULL /\ Fresh(index'[q], ticket', lap')
    <3>1. q # p /\ ppc[q] = "cas" /\ index'[q] = index[q]
      BY <1>1, <2>5
    <3>2. PICK i \in Slot : i = index[q]
      BY DEF FillInv, TypeOK
    <3>3. buffer[i] = NULL /\ Fresh(i, ticket, lap) /\ i # index[p]
      BY <1>1, <2>3, <3>1, <3>2 DEF FillInv, FirstLapInv
    <3> QED BY <1>2, <2>2, <3>1, <3>2, <3>3
  <2>6. \A q, r \in Producer :
          ppc'[q] = "cas" /\ ppc'[r] = "cas" /\ index'[q] = index'[r] => q = r
    BY <1>1, <2>3 DEF FillInv, FirstLapInv
  <2> QED BY <2>4, <2>5, <2>6 DEF FirstLapInv
<1> QED BY <1>3, <1>4

LEMMA FillKeeps == FillInv /\ [FillNext]_fillVars => FillInv'
<1> SUFFICES ASSUME FillInv, [FillNext]_fillVars PROVE FillInv'
  OBVIOUS
<1>1. CASE UNCHANGED fillVars
  BY <1>1 DEF fillVars, vars, producerVars, consumerVars, FillInv, TypeOK, FirstLapInv,
              Fresh, Age
<1>2. CASE FillNext
  <2>1. Next /\ Count
    BY <1>2 DEF FillNext
  <2>2. TypeOK' /\ lap' \in 0 .. Capacity + 1
    BY <2>1, TypingNext, LapTyped DEF FillInv
  <2>3. ASSUME NEW p \in Producer, TakeTicket(p) PROVE FirstLapInv'
    BY <2>1, <2>3, LapGrows
  <2>4. ASSUME NEW p \in Producer, Publish(p) PROVE FirstLapInv'
    BY <2>1, <2>4, LapFills
  <2>5. ASSUME NEW i \in Slot, ClearVisible(i) PROVE FirstLapInv'
    BY <2>1, <2>5, LapKept DEF ClearVisible, FillInv, TypeOK, producerVars
  <2>6. ASSUME NEW p \in Producer, PushRetry(p) \/ PushGiveUp(p) PROVE FirstLapInv'
    BY <2>1, <2>6, LapKept DEF PushRetry, PushGiveUp, FillInv, TypeOK
  <2>7. ASSUME NEW p \in Producer,
               (\E v \in Event \union {NULL} : PushCall(p, v)) \/ PushAgain(p) \/ PushDrop(p)
        PROVE  FirstLapInv'
    BY <2>1, <2>7, LapKept DEF PushCall, PushAgain, PushDrop, FillInv, TypeOK
  <2>8. ASSUME UNCHANGED <<ticket, buffer, ppc, index>> PROVE FirstLapInv'
    BY <2>1, <2>8, LapKept
  <2>9. FirstLapInv'
    BY <2>1, <2>3, <2>4, <2>5, <2>6, <2>7, <2>8
       DEF Next, PushStep, PopStep, PopCall, PopHit, PopMiss, PopGiveUp, Release, producerVars
  <2> QED BY <2>2, <2>9 DEF FillInv
<1> QED BY <1>1, <1>2

LEMMA FillInvariant == FillSpec => []FillInv
<1>1. FillInit => FillInv
  BY TypingInit, CapacityPositive DEF FillInit, Init, FillInv, FirstLapInv
<1> QED BY <1>1, FillKeeps, PTL DEF FillSpec

\* Counting the lap adds no behaviour: what holds of the channel holds here.
THEOREM FillingUsesChannel == FillSpec => Spec
<1>1. FillInit => Init
  BY DEF FillInit
<1>2. [FillNext]_fillVars => [Next]_vars
  BY DEF FillNext, fillVars
<1> QED BY <1>1, <1>2, PTL DEF FillSpec, Spec

\* From rest, wherever the counters stand and however many threads push, the
\* first Capacity tickets find their slots free: that many events fit without
\* a retry, for every size of the channel.
THEOREM FirstLapNeedsNoRetry == FillSpec => []FirstLapIsFree
<1>1. FillInv => FirstLapIsFree
  BY DEF FillInv, FirstLapInv, FirstLapIsFree
<1> QED BY <1>1, FillInvariant, PTL

=============================================================================
