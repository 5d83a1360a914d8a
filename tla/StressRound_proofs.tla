-------------------------- MODULE StressRound_proofs --------------------------
(***************************************************************************)
(* What holds of every round of the test and the benchmark: for every size *)
(* of the channel, every retry limit, any number of producers and events   *)
(* and any interval between two looks at the clock.                        *)
(***************************************************************************)
EXTENDS StressRound, BoundMPSC_proofs

LEMMA Totals ==
  /\ PerProducer \in Nat \ {0} /\ CheckEvery \in Nat \ {0}
  /\ Event = Producer \X (1 .. PerProducer)
  /\ IsFiniteSet(Event) /\ total \in Nat
<1>1. IsFiniteSet(Producer) /\ IsFiniteSet(1 .. PerProducer)
  BY RoundAssumption, FS_Interval
<1>2. IsFiniteSet(Event)
  BY <1>1, FS_Product, RoundAssumption
<1> QED BY <1>2, RoundAssumption, FS_CardinalityType DEF total

\* The refusals are counted modulo CheckEvery.
LEMMA CountsWrap ==
  ASSUME NEW n \in 0 .. CheckEvery - 1
  PROVE  (n + 1) % CheckEvery \in 0 .. CheckEvery - 1
<1>1. n + 1 \in Nat /\ CheckEvery \in Nat \ {0}
  BY Totals
<1> QED BY <1>1, DivMod

(* The inductive invariant *)

\* A producer is inside push exactly while its loop is, with its next event.
ProducersInPlace ==
  \A p \in Producer :
    /\ place[p] # "push" => ppc[p] = "idle"
    /\ place[p] = "push" => ppc[p] # "idle" /\ ptr[p] = <<p, published[p] + 1>>
    /\ place[p] \in {"call", "push"} => published[p] < PerProducer

\* The pointer that pop returned is an event nobody counted before.
ConsumerInPlace ==
  /\ cplace = "check" => got \in Event \ taken
  /\ cplace # "check" => got = NULL

\* The consumer keeps what pop gave it: it was counted, or is about to be.
HeldIsCounted == held = taken \union ({got} \ {NULL})

\* Who left the loop was told to stop or had nothing left to do, and who told
\* the others to stop was late or had counted everything.
StopHasReason ==
  /\ stop => deadlineExpired \/ consumed = total
  /\ \A p \in Producer : place[p] = "done" => stop \/ published[p] = PerProducer
  /\ cplace \in {"end", "done"} => stop \/ consumed = total

\* Nobody looks at the deadline before it is written.
StartHasDeadline ==
  /\ start => deadline # "unset"
  /\ cplace \notin {"new", "waiting"} => start
  /\ \A p \in Producer : place[p] \notin {"new", "waiting"} => start

RoundInv ==
  /\ OwnershipInv /\ RoundTypeOK
  /\ ProducersInPlace /\ ConsumerInPlace /\ HeldIsCounted /\ NothingUnaccounted
  /\ StopHasReason /\ StartHasDeadline /\ ExpiredOnlyWhenLate

LEMMA RoundInitially == RoundInit => RoundInv
<1> SUFFICES ASSUME RoundInit PROVE RoundInv
  OBVIOUS
<1>1. OwnershipInv /\ Queued = {}
  <2>1. \A i \in Slot : Visible(i) = NULL
    BY DEF RoundInit, Init, Visible
  <2> QED BY <2>1, OwnershipInit DEF RoundInit, Queued
<1>2. RoundTypeOK
  <2>1. TypeOK
    BY <1>1 DEF OwnershipInv
  <2>2. 0 \in 0 .. PerProducer /\ 0 \in 0 .. CheckEvery - 1 /\ 0 \in 0 .. total
    BY Totals
  <2>3. published \in [Producer -> 0 .. PerProducer] /\ refused \in [Producer -> 0 .. CheckEvery - 1]
    BY <2>2 DEF RoundInit
  <2> QED BY <2>1, <2>2, <2>3 DEF RoundInit, RoundTypeOK
<1>3. NothingUnaccounted
  <2>1. PushedEvents = {}
    BY Totals DEF RoundInit, PushedEvents
  <2>2. Cardinality({}) = 0
    BY FS_EmptySet
  <2> QED BY <1>1, <2>1, <2>2 DEF RoundInit, NothingUnaccounted
<1>4. ProducersInPlace /\ ConsumerInPlace /\ HeldIsCounted /\ StopHasReason
      /\ StartHasDeadline /\ ExpiredOnlyWhenLate
  BY DEF RoundInit, Init, ProducersInPlace, ConsumerInPlace, HeldIsCounted,
         StopHasReason, StartHasDeadline, ExpiredOnlyWhenLate
<1> QED BY <1>1, <1>2, <1>3, <1>4 DEF RoundInv

(* A round uses the channel as its callers may *)

\* The event a producer pushes next is one of its share.
LEMMA NextEventIsOne ==
  ASSUME RoundInv, NEW p \in Producer, place[p] \in {"call", "push"}
  PROVE  <<p, published[p] + 1>> \in Event /\ published[p] + 1 \in 0 .. PerProducer
BY Totals DEF RoundInv, RoundTypeOK, ProducersInPlace

\* Every step of a round is a step of the channel or leaves the channel alone.
LEMMA RoundStepIsChannelStep == RoundInv /\ [RoundNext]_roundVars => [Next]_vars
<1> SUFFICES ASSUME RoundInv, RoundNext \/ UNCHANGED roundVars PROVE Next \/ UNCHANGED vars
  BY DEF roundVars
<1>1. ASSUME NEW p \in Producer, ProducerStep(p) PROVE Next \/ UNCHANGED vars
  <2>1. CASE ProducerCall(p)
    <3>1. PushCall(p, <<p, published[p] + 1>>) /\ place[p] = "call"
      BY <2>1 DEF ProducerCall
    <3>2. <<p, published[p] + 1>> \in Event \union {NULL}
      BY <3>1, NextEventIsOne
    <3> QED BY <3>1, <3>2 DEF Next
  <2>2. CASE ProducerPush(p)
    BY <2>2 DEF ProducerPush, Next
  <2>3. CASE ProducerRefused(p)
    BY <2>3 DEF ProducerRefused, Next
  <2> QED
    BY <1>1, <2>1, <2>2, <2>3 DEF ProducerStep, ProducerReady, ProducerStart, ProducerTest
<1>2. CASE ConsumerStep
  BY <1>2 DEF ConsumerStep, ConsumerReady, ConsumerStart, ConsumerTest, ConsumerCall,
              ConsumerPop, ConsumerMissed, ConsumerCheck, ConsumerEnd, Next
<1>3. ASSUME NEW i \in Slot, StoreSeen(i) PROVE Next
  BY <1>3 DEF StoreSeen, Next
<1> QED
  BY <1>1, <1>2, <1>3
     DEF RoundNext, SetDeadline, Start, DeadlinePasses, RoundOver, roundVars

LEMMA PushStepEffect ==
  ASSUME OwnershipInv, NEW p \in Producer, PushStep(p)
  PROVE  /\ held' = held
         /\ \A q \in Producer \ {p} : ppc'[q] = ppc[q] /\ ptr'[q] = ptr[q]
         /\ \/ ppc'[p] = "idle" /\ Queued' = Queued \union {ptr[p]}
            \/ ppc'[p] # "idle" /\ ptr'[p] = ptr[p] /\ Queued' = Queued
<1> USE DEF OwnershipInv, TypeOK, producerVars, consumerVars
<1>1. CASE Publish(p)
  <2>1. ptr[p] # NULL
    BY <1>1 DEF Publish, CallsCarryEvents
  <2>2. Queued' = Queued \union {ptr[p]}
    BY <1>1, <2>1, QueuedAfterPublish
  <2> QED BY <1>1, <2>2 DEF Publish
<1>2. CASE TakeTicket(p) \/ PushRetry(p) \/ PushGiveUp(p)
  <2>1. Queued' = Queued
    BY <1>2, ViewUnchanged DEF TakeTicket, PushRetry, PushGiveUp
  <2> QED BY <1>2, <2>1 DEF TakeTicket, PushRetry, PushGiveUp
<1> QED BY <1>1, <1>2 DEF PushStep

LEMMA PopStepEffect ==
  ASSUME OwnershipInv, PopStep
  PROVE  /\ UNCHANGED <<ppc, ptr>>
         /\ \/ /\ cpc' = "idle" /\ Visible(head) \in Queued \ held
               /\ Queued' = Queued \ {Visible(head)}
               /\ held' = held \union {Visible(head)}
            \/ cpc' # "idle" /\ Queued' = Queued /\ held' = held
<1> USE DEF OwnershipInv, producerVars, consumerVars
<1>1. CASE PopHit
  BY <1>1, QueuedAfterPopHit DEF PopHit, ExclusiveOwnership
<1>2. CASE PopMiss \/ PopGiveUp
  <2>1. Queued' = Queued
    BY <1>2, ViewUnchanged DEF PopMiss, PopGiveUp
  <2> QED BY <1>2, <2>1 DEF PopMiss, PopGiveUp
<1> QED BY <1>1, <1>2 DEF PopStep

(* Each step keeps the invariant *)

Rest ==
  /\ ProducersInPlace /\ ConsumerInPlace /\ HeldIsCounted /\ NothingUnaccounted
  /\ StopHasReason /\ StartHasDeadline /\ ExpiredOnlyWhenLate

LEMMA MainStep ==
  ASSUME RoundInv, SetDeadline \/ Start \/ DeadlinePasses \/ UNCHANGED roundVars, TypeOK'
  PROVE  RoundTypeOK' /\ Rest'
<1> USE DEF RoundInv, SetDeadline, Start, DeadlinePasses, AllReady, roundVars, vars, flags,
            producerRound, consumerRound, verification, producerVars, consumerVars
<1>1. Queued' = Queued /\ held' = held /\ ppc' = ppc /\ ptr' = ptr
  BY ViewUnchanged
<1>2. RoundTypeOK'
  <2>1. /\ start' \in BOOLEAN /\ stop' = stop /\ deadlineExpired' = deadlineExpired
        /\ deadline' \in {"unset", "ahead", "passed"}
    BY DEF RoundTypeOK
  <2>2. UNCHANGED <<place, published, refused, cplace, got, seen, consumed, duplicates,
                    invalid, strict, taken, missed>>
    OBVIOUS
  <2>3. RoundTypeOK
    OBVIOUS
  <2> HIDE DEF RoundInv, SetDeadline, Start, DeadlinePasses
  <2> QED BY <2>1, <2>2, <2>3 DEF RoundTypeOK, total
<1>3. NothingUnaccounted'
  BY <1>1 DEF NothingUnaccounted, PushedEvents
<1>4. ProducersInPlace' /\ ConsumerInPlace' /\ HeldIsCounted'
  BY <1>1 DEF ProducersInPlace, ConsumerInPlace, HeldIsCounted
<1>5. StopHasReason'
  BY DEF StopHasReason
<1>6. StartHasDeadline' /\ ExpiredOnlyWhenLate'
  BY DEF StartHasDeadline, ExpiredOnlyWhenLate, RoundTypeOK
<1> QED BY <1>2, <1>3, <1>4, <1>5, <1>6 DEF Rest

LEMMA ProducerMoves ==
  ASSUME RoundInv, NEW p \in Producer,
         ProducerReady(p) \/ ProducerStart(p) \/ ProducerTest(p), TypeOK'
  PROVE  RoundTypeOK' /\ Rest'
<1> USE DEF RoundInv, ProducerReady, ProducerStart, ProducerTest, Move, vars, flags,
            consumerRound, verification, producerVars, consumerVars
<1>1. Queued' = Queued /\ held' = held /\ ppc' = ppc /\ ptr' = ptr
  BY ViewUnchanged
<1>2. RoundTypeOK'
  BY DEF RoundTypeOK
<1>3. NothingUnaccounted'
  BY <1>1 DEF NothingUnaccounted, PushedEvents
<1>4. ProducersInPlace' /\ ConsumerInPlace' /\ HeldIsCounted'
  BY <1>1 DEF ProducersInPlace, ConsumerInPlace, HeldIsCounted, RoundTypeOK
<1>5. StopHasReason'
  BY Totals DEF StopHasReason, RoundTypeOK
<1>6. StartHasDeadline' /\ ExpiredOnlyWhenLate'
  BY DEF StartHasDeadline, ExpiredOnlyWhenLate, RoundTypeOK
<1> QED BY <1>2, <1>3, <1>4, <1>5, <1>6 DEF Rest

LEMMA ProducerCalls ==
  ASSUME RoundInv, NEW p \in Producer, ProducerCall(p), TypeOK'
  PROVE  RoundTypeOK' /\ Rest'
<1> USE DEF RoundInv, ProducerCall, PushCall, Move, flags, consumerRound, verification,
            consumerVars
<1>1. Queued' = Queued /\ held' = held
  BY ViewUnchanged
<1>2. RoundTypeOK'
  BY DEF RoundTypeOK
<1>3. NothingUnaccounted'
  BY <1>1 DEF NothingUnaccounted, PushedEvents
<1>4. ProducersInPlace'
  <2>1. <<p, published[p] + 1>> \in Event
    BY NextEventIsOne
  <2> QED BY <2>1, NullAssumption DEF ProducersInPlace, RoundTypeOK, TypeOK
<1>5. ConsumerInPlace' /\ HeldIsCounted'
  BY <1>1 DEF ConsumerInPlace, HeldIsCounted
<1>6. StopHasReason'
  BY DEF StopHasReason, RoundTypeOK
<1>7. StartHasDeadline' /\ ExpiredOnlyWhenLate'
  BY DEF StartHasDeadline, ExpiredOnlyWhenLate, RoundTypeOK
<1> QED BY <1>2, <1>3, <1>4, <1>5, <1>6, <1>7 DEF Rest

LEMMA ProducerPushes ==
  ASSUME RoundInv, NEW p \in Producer, ProducerPush(p), TypeOK'
  PROVE  RoundTypeOK' /\ Rest'
<1> USE DEF RoundInv, ProducerPush, Move, flags, consumerRound, verification
<1> DEFINE e == <<p, published[p] + 1>>
<1>1. e \in Event /\ published[p] + 1 \in 0 .. PerProducer /\ ptr[p] = e
  BY NextEventIsOne DEF ProducersInPlace
<1>2. /\ held' = held
      /\ \A q \in Producer \ {p} : ppc'[q] = ppc[q] /\ ptr'[q] = ptr[q]
      /\ \/ ppc'[p] = "idle" /\ Queued' = Queued \union {ptr[p]}
         \/ ppc'[p] # "idle" /\ ptr'[p] = ptr[p] /\ Queued' = Queued
  BY PushStepEffect
<1>3. RoundTypeOK'
  <2>1. /\ published' \in [Producer -> 0 .. PerProducer]
        /\ place' \in [Producer -> {"new", "waiting", "test", "call", "push", "done"}]
    BY <1>1 DEF RoundTypeOK
  <2>2. UNCHANGED <<start, stop, deadline, deadlineExpired, refused, cplace, got, seen, consumed,
                    duplicates, invalid, strict, taken, missed>>
    OBVIOUS
  <2>3. RoundTypeOK
    OBVIOUS
  <2> HIDE DEF RoundInv, ProducerPush
  <2> QED BY <2>1, <2>2, <2>3 DEF RoundTypeOK, total
<1>4. NothingUnaccounted'
  <2>1. CASE ppc'[p] = "idle"
    <3>1. PushedEvents' = PushedEvents \union {e}
      <4>1. published \in [Producer -> 0 .. PerProducer]
            /\ published' = [published EXCEPT ![p] = @ + 1]
        BY <2>1 DEF RoundTypeOK
      <4>2. \A d \in Event : d \in Producer \X (1 .. PerProducer)
        BY Totals
      <4> QED BY <1>1, <4>1, <4>2, Totals DEF PushedEvents
    <3> QED BY <1>1, <1>2, <2>1, <3>1 DEF NothingUnaccounted
  <2>2. CASE ppc'[p] # "idle"
    BY <1>2, <2>2 DEF NothingUnaccounted, PushedEvents
  <2> QED BY <2>1, <2>2
<1>5. ProducersInPlace'
  BY <1>1, <1>2 DEF ProducersInPlace, RoundTypeOK
<1>6. ConsumerInPlace' /\ HeldIsCounted'
  BY <1>2 DEF ConsumerInPlace, HeldIsCounted
<1>7. StopHasReason'
  BY DEF StopHasReason, RoundTypeOK
<1>8. StartHasDeadline' /\ ExpiredOnlyWhenLate'
  BY DEF StartHasDeadline, ExpiredOnlyWhenLate, RoundTypeOK
<1> QED BY <1>3, <1>4, <1>5, <1>6, <1>7, <1>8 DEF Rest

LEMMA ProducerIsRefused ==
  ASSUME RoundInv, NEW p \in Producer, ProducerRefused(p), TypeOK'
  PROVE  RoundTypeOK' /\ Rest'
<1> USE DEF RoundInv, ProducerRefused, PushDrop, Move, consumerRound, verification,
            consumerVars
<1>1. Queued' = Queued /\ held' = held
  BY ViewUnchanged
<1>2. RoundTypeOK'
  <2>1. (refused[p] + 1) % CheckEvery \in 0 .. CheckEvery - 1
    BY CountsWrap DEF RoundTypeOK
  <2>2. /\ refused' \in [Producer -> 0 .. CheckEvery - 1]
        /\ place' \in [Producer -> {"new", "waiting", "test", "call", "push", "done"}]
    BY <2>1 DEF RoundTypeOK
  <2>3. stop' \in BOOLEAN /\ deadlineExpired' \in BOOLEAN
    BY DEF RoundTypeOK
  <2>4. UNCHANGED <<start, deadline, published, cplace, got, seen, consumed,
                    duplicates, invalid, strict, taken, missed>>
    OBVIOUS
  <2>5. RoundTypeOK
    OBVIOUS
  <2> HIDE DEF RoundInv, ProducerRefused
  <2> QED BY <2>2, <2>3, <2>4, <2>5 DEF RoundTypeOK, total
<1>3. NothingUnaccounted'
  BY <1>1 DEF NothingUnaccounted, PushedEvents
<1>4. ProducersInPlace'
  BY DEF ProducersInPlace, RoundTypeOK, TypeOK
<1>5. ConsumerInPlace' /\ HeldIsCounted'
  BY <1>1 DEF ConsumerInPlace, HeldIsCounted
<1>6. StopHasReason'
  BY DEF StopHasReason, RoundTypeOK
<1>7. StartHasDeadline'
  BY DEF StartHasDeadline, RoundTypeOK
<1>8. ExpiredOnlyWhenLate'
  BY DEF StartHasDeadline, ExpiredOnlyWhenLate, RoundTypeOK, Late
<1> QED BY <1>2, <1>3, <1>4, <1>5, <1>6, <1>7, <1>8 DEF Rest

\* The consumer's moves outside pop and outside the check.
LEMMA ConsumerMoves ==
  ASSUME RoundInv, ConsumerReady \/ ConsumerStart \/ ConsumerTest \/ ConsumerCall, TypeOK'
  PROVE  RoundTypeOK' /\ Rest'
<1> USE DEF RoundInv, ConsumerReady, ConsumerStart, ConsumerTest, ConsumerCall, PopCall, vars,
            flags, producerRound, verification, producerVars, consumerVars
<1>1. Queued' = Queued /\ held' = held /\ ppc' = ppc /\ ptr' = ptr
  BY ViewUnchanged
<1>2. RoundTypeOK'
  <2>1. cplace' \in {"waiting", "test", "call", "pop", "end"}
    OBVIOUS
  <2>2. UNCHANGED <<start, stop, deadline, deadlineExpired, place, published, refused, got, seen,
                    consumed, duplicates, invalid, strict, taken, missed>>
    OBVIOUS
  <2>3. RoundTypeOK
    OBVIOUS
  <2> HIDE DEF RoundInv, ConsumerReady, ConsumerStart, ConsumerTest, ConsumerCall
  <2> QED BY <2>1, <2>2, <2>3 DEF RoundTypeOK, total
<1>3. NothingUnaccounted' /\ HeldIsCounted'
  BY <1>1 DEF NothingUnaccounted, HeldIsCounted, PushedEvents
<1>4. ProducersInPlace' /\ ConsumerInPlace'
  BY <1>1 DEF ProducersInPlace, ConsumerInPlace
<1>5. StopHasReason'
  <2>1. consumed < total \/ consumed = total
    BY Totals DEF RoundTypeOK
  <2> QED BY <2>1 DEF StopHasReason, total
<1>6. StartHasDeadline' /\ ExpiredOnlyWhenLate'
  BY DEF StartHasDeadline, ExpiredOnlyWhenLate
<1> QED BY <1>2, <1>3, <1>4, <1>5, <1>6 DEF Rest

LEMMA ConsumerPops ==
  ASSUME RoundInv, ConsumerPop, TypeOK'
  PROVE  RoundTypeOK' /\ Rest'
<1> USE DEF RoundInv, ConsumerPop, flags, producerRound, verification
<1>1. /\ UNCHANGED <<ppc, ptr>>
      /\ \/ /\ cpc' = "idle" /\ Visible(head) \in Queued \ held
            /\ Queued' = Queued \ {Visible(head)}
            /\ held' = held \union {Visible(head)}
         \/ cpc' # "idle" /\ Queued' = Queued /\ held' = held
  BY PopStepEffect
<1>2. got = NULL /\ held = taken
  BY DEF ConsumerInPlace, HeldIsCounted
<1>3. /\ HeldIsCounted' /\ ConsumerInPlace' /\ got' \in Event \union {NULL}
      /\ cplace' \in {"pop", "check"}
      /\ Queued \union taken = Queued' \union taken' \union ({got'} \ {NULL})
  <2>1. CASE cpc' = "idle"
    <3>1. Visible(head) \in Event \ taken
      <4>1. Visible(head) \in PushedEvents
        BY <1>1, <2>1 DEF NothingUnaccounted
      <4> QED BY <1>1, <1>2, <2>1, <4>1 DEF PushedEvents
    <3>2. got' = Visible(head) /\ cplace' = "check" /\ taken' = taken
      BY <2>1
    <3> HIDE DEF ConsumerPop, RoundInv
    <3> QED BY <1>1, <1>2, <2>1, <3>1, <3>2, NullAssumption DEF HeldIsCounted, ConsumerInPlace
  <2>2. CASE cpc' # "idle"
    BY <1>1, <1>2, <2>2 DEF HeldIsCounted, ConsumerInPlace
  <2> QED BY <2>1, <2>2
<1>4. RoundTypeOK'
  <2>1. UNCHANGED <<start, stop, deadline, deadlineExpired, place, published, refused, seen,
                    consumed, duplicates, invalid, strict, taken, missed>>
    OBVIOUS
  <2>2. RoundTypeOK
    OBVIOUS
  <2> HIDE DEF RoundInv, ConsumerPop
  <2> QED BY <1>3, <2>1, <2>2 DEF RoundTypeOK, total
<1>5. NothingUnaccounted'
  <2>1. PushedEvents' = PushedEvents /\ PushedEvents = Queued \union taken
    BY <1>2 DEF NothingUnaccounted, PushedEvents
  <2> QED BY <1>3, <2>1 DEF NothingUnaccounted
<1>6. ProducersInPlace'
  BY <1>1 DEF ProducersInPlace
<1>7. StopHasReason' /\ StartHasDeadline' /\ ExpiredOnlyWhenLate'
  BY <1>3 DEF StopHasReason, StartHasDeadline, ExpiredOnlyWhenLate, total
<1> QED BY <1>3, <1>4, <1>5, <1>6, <1>7 DEF Rest

LEMMA ConsumerMisses ==
  ASSUME RoundInv, ConsumerMissed, TypeOK'
  PROVE  RoundTypeOK' /\ Rest'
<1> USE DEF RoundInv, ConsumerMissed, vars, producerRound, verification, producerVars,
            consumerVars
<1>1. Queued' = Queued /\ held' = held /\ ppc' = ppc /\ ptr' = ptr
  BY ViewUnchanged
<1>2. RoundTypeOK'
  <2>1. missed' \in 0 .. CheckEvery - 1
    BY CountsWrap DEF RoundTypeOK
  <2>2. cplace' \in {"test", "end"} /\ stop' \in BOOLEAN /\ deadlineExpired' \in BOOLEAN
    BY DEF RoundTypeOK
  <2>3. UNCHANGED <<start, deadline, place, published, refused, got, seen, consumed,
                    duplicates, invalid, strict, taken>>
    OBVIOUS
  <2>4. RoundTypeOK
    OBVIOUS
  <2> HIDE DEF RoundInv, ConsumerMissed
  <2> QED BY <2>1, <2>2, <2>3, <2>4 DEF RoundTypeOK, total
<1>3. NothingUnaccounted' /\ HeldIsCounted'
  BY <1>1 DEF NothingUnaccounted, HeldIsCounted, PushedEvents
<1>4. ProducersInPlace' /\ ConsumerInPlace'
  BY <1>1 DEF ProducersInPlace, ConsumerInPlace
<1>5. StopHasReason'
  BY DEF StopHasReason, total
<1>6. StartHasDeadline' /\ ExpiredOnlyWhenLate'
  BY DEF StartHasDeadline, ExpiredOnlyWhenLate, RoundTypeOK, Late
<1> QED BY <1>2, <1>3, <1>4, <1>5, <1>6 DEF Rest

LEMMA ConsumerChecks ==
  ASSUME RoundInv, ConsumerCheck, TypeOK'
  PROVE  RoundTypeOK' /\ Rest'
<1> USE DEF RoundInv, ConsumerCheck, Leave, vars, producerRound, producerVars, consumerVars
<1>1. Queued' = Queued /\ held' = held /\ ppc' = ppc /\ ptr' = ptr
  BY ViewUnchanged
<1>2. got \in Event \ taken /\ got # NULL
  BY NullAssumption DEF ConsumerInPlace
\* The event is a new one: the round is not ended here.
<1>3. /\ seen' = (IF strict THEN seen \union {got} ELSE seen)
      /\ taken' = taken \union {got} /\ consumed' = consumed + 1
      /\ cplace' = "test" /\ got' = NULL
      /\ UNCHANGED <<duplicates, invalid, stop, strict>>
  BY <1>2 DEF NothingUnaccounted
<1>4. consumed' = Cardinality(taken') /\ consumed' \in 0 .. total
  <2>1. IsFiniteSet(taken) /\ taken' \subseteq Event
    BY <1>2, <1>3, Totals, FS_Subset DEF RoundTypeOK
  <2>2. Cardinality(taken \union {got}) = Cardinality(taken) + 1
    BY <1>2, <2>1, FS_AddElement
  <2>3. Cardinality(taken') <= Cardinality(Event) /\ Cardinality(taken') \in Nat
    BY <2>1, Totals, FS_Subset, FS_CardinalityType
  <2>4. consumed = Cardinality(taken)
    BY DEF NothingUnaccounted
  <2>5. consumed' = Cardinality(taken')
    BY <1>3, <2>2, <2>4
  <2> QED BY <2>3, <2>5, Totals DEF total
<1>5. RoundTypeOK'
  <2>1. UNCHANGED <<start, deadline, deadlineExpired, place, published, refused, missed>>
    OBVIOUS
  <2>2. RoundTypeOK
    OBVIOUS
  <2> HIDE DEF RoundInv, ConsumerCheck
  <2> QED BY <1>2, <1>3, <1>4, <2>1, <2>2 DEF RoundTypeOK, total
<1>6. NothingUnaccounted' /\ HeldIsCounted'
  <2>1. PushedEvents' = PushedEvents
    BY DEF PushedEvents
  <2>2. taken' \union ({got'} \ {NULL}) = taken \union ({got} \ {NULL})
    BY <1>2, <1>3
  <2>3. strict' => seen' = taken'
    BY <1>3 DEF NothingUnaccounted
  <2>4. NothingUnaccounted /\ HeldIsCounted
    OBVIOUS
  <2> HIDE DEF RoundInv, ConsumerCheck
  <2>5. ~duplicates' /\ ~invalid'
    BY <1>3, <2>4 DEF NothingUnaccounted
  <2>6. PushedEvents' = Queued' \union taken' \union ({got'} \ {NULL})
    BY <1>1, <2>1, <2>2, <2>4 DEF NothingUnaccounted
  <2> QED BY <1>1, <1>4, <2>2, <2>3, <2>4, <2>5, <2>6 DEF NothingUnaccounted, HeldIsCounted
<1>7. ProducersInPlace' /\ ConsumerInPlace'
  BY <1>1, <1>3 DEF ProducersInPlace, ConsumerInPlace
<1>8. StopHasReason'
  <2>1. consumed # total
    BY <1>3, <1>4, Totals DEF RoundTypeOK
  <2> QED BY <1>3, <2>1 DEF StopHasReason, total
<1>9. StartHasDeadline' /\ ExpiredOnlyWhenLate'
  BY <1>3 DEF StartHasDeadline, ExpiredOnlyWhenLate
<1> QED BY <1>5, <1>6, <1>7, <1>8, <1>9 DEF Rest

LEMMA ConsumerEnds ==
  ASSUME RoundInv, ConsumerEnd, TypeOK'
  PROVE  RoundTypeOK' /\ Rest'
<1> USE DEF RoundInv, ConsumerEnd, vars, producerRound, verification, producerVars,
            consumerVars
<1>1. Queued' = Queued /\ held' = held /\ ppc' = ppc /\ ptr' = ptr
  BY ViewUnchanged
<1>2. RoundTypeOK'
  <2>1. UNCHANGED <<start, deadline, deadlineExpired, place, published, refused, got, seen,
                    consumed, duplicates, invalid, strict, taken, missed>>
    OBVIOUS
  <2>2. RoundTypeOK /\ stop' \in BOOLEAN /\ cplace' = "done"
    OBVIOUS
  <2> HIDE DEF RoundInv, ConsumerEnd
  <2> QED BY <2>1, <2>2 DEF RoundTypeOK, total
<1>3. NothingUnaccounted' /\ HeldIsCounted'
  BY <1>1 DEF NothingUnaccounted, HeldIsCounted, PushedEvents
<1>4. ProducersInPlace' /\ ConsumerInPlace'
  BY <1>1 DEF ProducersInPlace, ConsumerInPlace
<1>5. StopHasReason'
  BY DEF StopHasReason, total
<1>6. StartHasDeadline' /\ ExpiredOnlyWhenLate'
  BY DEF StartHasDeadline, ExpiredOnlyWhenLate
<1> QED BY <1>2, <1>3, <1>4, <1>5, <1>6 DEF Rest

LEMMA StoresSeen ==
  ASSUME RoundInv, NEW i \in Slot, StoreSeen(i), TypeOK'
  PROVE  RoundTypeOK' /\ Rest'
<1> USE DEF RoundInv, StoreSeen, ClearVisible, flags, producerRound, consumerRound,
            verification, producerVars, consumerVars
<1>1. Queued' = Queued /\ held' = held /\ ppc' = ppc /\ ptr' = ptr
  BY QueuedAfterClear DEF OwnershipInv, TypeOK
<1>2. RoundTypeOK'
  <2>1. UNCHANGED <<start, stop, deadline, deadlineExpired, place, published, refused, cplace,
                    got, seen, consumed, duplicates, invalid, strict, taken, missed>>
    OBVIOUS
  <2>2. RoundTypeOK
    OBVIOUS
  <2> HIDE DEF RoundInv, StoreSeen
  <2> QED BY <2>1, <2>2 DEF RoundTypeOK, total
<1>3. NothingUnaccounted' /\ HeldIsCounted'
  BY <1>1 DEF NothingUnaccounted, HeldIsCounted, PushedEvents
<1>4. ProducersInPlace' /\ ConsumerInPlace'
  BY <1>1 DEF ProducersInPlace, ConsumerInPlace
<1>5. StopHasReason' /\ StartHasDeadline' /\ ExpiredOnlyWhenLate'
  BY DEF StopHasReason, StartHasDeadline, ExpiredOnlyWhenLate, total
<1> QED BY <1>2, <1>3, <1>4, <1>5 DEF Rest

LEMMA RoundKeeps == RoundInv /\ [RoundNext]_roundVars => RoundInv'
<1> SUFFICES ASSUME RoundInv, RoundNext \/ UNCHANGED roundVars PROVE RoundInv'
  BY DEF roundVars
<1>1. OwnershipInv'
  BY RoundStepIsChannelStep, OwnershipNext DEF RoundInv
<1>2. TypeOK'
  BY <1>1 DEF OwnershipInv
<1>3. RoundTypeOK' /\ Rest'
  <2>1. CASE SetDeadline \/ Start \/ DeadlinePasses \/ UNCHANGED roundVars
    BY <1>2, <2>1, MainStep
  <2>2. ASSUME NEW p \in Producer, ProducerStep(p) PROVE RoundTypeOK' /\ Rest'
    BY <1>2, <2>2, ProducerMoves, ProducerCalls, ProducerPushes, ProducerIsRefused
       DEF ProducerStep
  <2>3. CASE ConsumerStep
    BY <1>2, <2>3, ConsumerMoves, ConsumerPops, ConsumerMisses, ConsumerChecks, ConsumerEnds
       DEF ConsumerStep
  <2>4. ASSUME NEW i \in Slot, StoreSeen(i) PROVE RoundTypeOK' /\ Rest'
    BY <1>2, <2>4, StoresSeen
  <2> QED BY <2>1, <2>2, <2>3, <2>4 DEF RoundNext, RoundOver
<1> QED BY <1>1, <1>3 DEF RoundInv, Rest

LEMMA RoundInvariant == RoundSpec => []RoundInv
BY RoundInitially, RoundKeeps, PTL DEF RoundSpec

\* The variables of a round keep their types, for any number of threads and
\* events: above all the counters of the statistics and of the consumer.
THEOREM RoundTyping == RoundSpec => []RoundTypeOK
BY RoundInvariant, PTL DEF RoundInv

\* The round uses the channel as its contract demands: whatever the threads do
\* is a behaviour of the channel, so all that holds of the channel holds in
\* every round of the test and of the benchmark.
THEOREM RoundUsesChannel == RoundSpec => Spec
<1>1. RoundInit => Init
  BY DEF RoundInit
<1> QED BY <1>1, RoundInvariant, RoundStepIsChannelStep, PTL DEF RoundSpec, Spec

\* In every round each pushed event is in the channel, in the consumer's hand
\* or counted, and none is counted twice.
THEOREM RoundIsAccounted == RoundSpec => []NothingUnaccounted
BY RoundInvariant, PTL DEF RoundInv

\* A consumer that counted to the total has taken every event.
LEMMA AllTaken ==
  ASSUME RoundInv, consumed = total
  PROVE  taken = Event /\ Queued = {}
<1>1. taken \subseteq Event /\ Cardinality(taken) = Cardinality(Event)
  BY DEF RoundInv, RoundTypeOK, NothingUnaccounted, total
<1>2. taken = Event
  BY <1>1, Totals, FS_Subset
<1>3. Queued \subseteq Event /\ Queued \intersect held = {} /\ taken \subseteq held
  BY DEF RoundInv, NothingUnaccounted, PushedEvents, OwnershipInv, ExclusiveOwnership,
         HeldIsCounted
<1> QED BY <1>2, <1>3

\* The verdict of a round: a round the clock did not end is completed, and what
\* is called completed lost nothing and left nothing behind.
THEOREM VerdictsAreRight == RoundSpec => []VerdictIsRight
<1>1. RoundInv => VerdictIsRight
  <2> SUFFICES ASSUME RoundInv, Joined
               PROVE  /\ ~deadlineExpired => completed
                      /\ completed => taken = Event /\ Queued = {}
    BY DEF VerdictIsRight
  <2>1. completed => taken = Event /\ Queued = {}
    BY AllTaken DEF completed
  <2>2. ASSUME ~deadlineExpired PROVE completed
    <3>1. consumed = total
      BY <2>2 DEF RoundInv, StopHasReason, Joined
    <3>2. taken = Event
      BY <3>1, AllTaken
    <3>3. \A p \in Producer : published[p] = PerProducer
      <4> SUFFICES ASSUME NEW p \in Producer PROVE published[p] = PerProducer
        OBVIOUS
      <4>1. <<p, PerProducer>> \in Event
        BY Totals
      <4>2. <<p, PerProducer>> \in PushedEvents
        BY <3>2, <4>1 DEF RoundInv, NothingUnaccounted
      <4> QED BY <4>2, Totals DEF PushedEvents, RoundInv, RoundTypeOK
    <3> QED BY <3>1, <3>2, <3>3 DEF completed, RoundInv, NothingUnaccounted
  <2> QED BY <2>1, <2>2
<1> QED BY <1>1, RoundInvariant, PTL

\* No thread calls a round late before its deadline was set and has passed,
\* although the deadline is not an atomic variable.
THEOREM LateOnlyWhenLate == RoundSpec => []ExpiredOnlyWhenLate
BY RoundInvariant, PTL DEF RoundInv
=============================================================================
