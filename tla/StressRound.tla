----------------------------- MODULE StressRound -----------------------------
(***************************************************************************)
(* One concurrent round over a BoundMPSC, as the stress test runs it       *)
(* (runConcurrentRound of boundMPSC_test.cpp) and the benchmark            *)
(* (runBenchmark of boundMPSC_bench.cpp).  Threads wait for a common       *)
(* start; each producer pushes its share of the events in order and tries  *)
(* again what was refused; the consumer pops until it has seen them all;   *)
(* a stop flag ends the round early when a deadline has passed or the      *)
(* consumer meets an event twice or something that is none.  The two       *)
(* programs differ in how often they look at the clock, and the benchmark  *)
(* can be told to count the events without looking at them (--no-verify).  *)
(***************************************************************************)
EXTENDS BoundMPSC

CONSTANTS
  PerProducer,  \* eventsPerProducer
  CheckEvery    \* refusals between two looks at the clock: 1 in the test,
                \* 16384 in the benchmark

\* The k-th object of a producer's share is the pair <<p, k>>.
ASSUME RoundAssumption ==
  /\ PerProducer \in Nat \ {0} /\ CheckEvery \in Nat \ {0}
  /\ IsFiniteSet(Producer)
  /\ Event = Producer \X (1 .. PerProducer)

VARIABLES
  start, stop,      \* the two flags the threads share
  deadline,         \* "unset" (the epoch), "ahead" or "passed"
  deadlineExpired,  \* some thread ended the round because of the clock
  place,            \* place[p]: where producer p is in its loop
  published,        \* published[p]: how many pushes of p returned true
  refused,          \* refused[p]: refusals since p's last look at the clock
  cplace,           \* where the consumer is in its loop
  got,              \* the pointer the last pop returned
  strict,           \* strictVerification: events are looked at
  seen,             \* the events the consumer has marked
  consumed,         \* how many it counted
  duplicates,       \* duplicateEvents: the consumer met an event twice
  invalid,          \* invalidPointers: it met something that is no event
  taken,            \* history: the events it counted, marked or not
  missed            \* failed pops since the consumer's last look at the clock

producerRound == <<place, published, refused>>
verification == <<strict, seen, consumed, duplicates, invalid, taken>>
consumerRound == <<cplace, got, verification, missed>>
flags == <<start, stop, deadline, deadlineExpired>>
roundVars == <<vars, flags, producerRound, consumerRound>>

total == Cardinality(Event)

RoundInit ==
  /\ Init
  /\ start = FALSE /\ stop = FALSE
  /\ deadline = "unset" /\ deadlineExpired = FALSE
  /\ place = [p \in Producer |-> "new"]
  /\ published = [p \in Producer |-> 0]
  /\ refused = [p \in Producer |-> 0]
  /\ cplace = "new" /\ got = NULL
  /\ strict \in BOOLEAN /\ seen = {} /\ taken = {}
  /\ consumed = 0 /\ duplicates = FALSE /\ invalid = FALSE /\ missed = 0

-----------------------------------------------------------------------------
(* The main thread and the clock *)

\* All threads have counted themselves ready.
AllReady == cplace # "new" /\ \A p \in Producer : place[p] # "new"

\* The deadline is a plain variable, written before the flag that publishes it.
SetDeadline ==
  /\ AllReady /\ deadline = "unset" /\ ~start
  /\ deadline' = "ahead"
  /\ UNCHANGED <<vars, start, stop, deadlineExpired, producerRound, consumerRound>>

\* Mutation: the threads are let go before the deadline is written.
StartEarly ==
  /\ AllReady /\ ~start
  /\ start' = TRUE
  /\ UNCHANGED <<vars, stop, deadline, deadlineExpired, producerRound, consumerRound>>

Start ==
  /\ deadline # "unset" /\ ~start
  /\ start' = TRUE
  /\ UNCHANGED <<vars, stop, deadline, deadlineExpired, producerRound, consumerRound>>

DeadlinePasses ==
  /\ deadline = "ahead"
  /\ deadline' = "passed"
  /\ UNCHANGED <<vars, start, stop, deadlineExpired, producerRound, consumerRound>>

\* Clock::now() >= deadline, which also holds of a deadline never written.
Late == deadline # "ahead"

-----------------------------------------------------------------------------
(* A producer *)

Move(p, to) == place' = [place EXCEPT ![p] = to]

ProducerReady(p) ==
  /\ place[p] = "new" /\ Move(p, "waiting")
  /\ UNCHANGED <<vars, flags, published, refused, consumerRound>>

ProducerStart(p) ==
  /\ place[p] = "waiting" /\ start /\ Move(p, "test")
  /\ UNCHANGED <<vars, flags, published, refused, consumerRound>>

\* The loop condition reads the flag; the push that follows may come late.
ProducerTest(p) ==
  /\ place[p] = "test"
  /\ Move(p, IF published[p] < PerProducer /\ ~stop THEN "call" ELSE "done")
  /\ UNCHANGED <<vars, flags, published, refused, consumerRound>>

ProducerCall(p) ==
  /\ place[p] = "call" /\ Move(p, "push")
  /\ PushCall(p, <<p, published[p] + 1>>)
  /\ UNCHANGED <<flags, published, refused, consumerRound>>

ProducerPush(p) ==
  /\ place[p] = "push" /\ ppc[p] # "failed"
  /\ PushStep(p)
  /\ IF ppc'[p] = "idle"
       THEN /\ published' = [published EXCEPT ![p] = @ + 1]
            /\ Move(p, "test")
       ELSE UNCHANGED <<published, place>>
  /\ UNCHANGED <<flags, refused, consumerRound>>

\* Mutation: a refused event is skipped.
ProducerRefusedSkips(p) ==
  /\ place[p] = "push" /\ ppc[p] = "failed"
  /\ PushDrop(p)
  /\ published' = [published EXCEPT ![p] = @ + 1]
  /\ Move(p, "test")
  /\ UNCHANGED <<flags, refused, consumerRound>>

\* A refused producer keeps its event for the next turn of the loop, unless
\* this is a look at the clock and it is late.
ProducerRefused(p) ==
  /\ place[p] = "push" /\ ppc[p] = "failed"
  /\ PushDrop(p)
  /\ refused' = [refused EXCEPT ![p] = (@ + 1) % CheckEvery]
  /\ IF refused'[p] = 0 /\ Late
       THEN Move(p, "done") /\ deadlineExpired' = TRUE /\ stop' = TRUE
       ELSE Move(p, "test") /\ UNCHANGED <<deadlineExpired, stop>>
  /\ UNCHANGED <<start, deadline, published, consumerRound>>

-----------------------------------------------------------------------------
(* The consumer *)

ConsumerReady ==
  /\ cplace = "new" /\ cplace' = "waiting"
  /\ UNCHANGED <<vars, flags, producerRound, got, verification, missed>>

ConsumerStart ==
  /\ cplace = "waiting" /\ start /\ cplace' = "test"
  /\ UNCHANGED <<vars, flags, producerRound, got, verification, missed>>

ConsumerTest ==
  /\ cplace = "test"
  /\ cplace' = IF consumed < total /\ ~stop THEN "call" ELSE "end"
  /\ UNCHANGED <<vars, flags, producerRound, got, verification, missed>>

ConsumerCall ==
  /\ cplace = "call" /\ cplace' = "pop"
  /\ PopCall
  /\ UNCHANGED <<flags, producerRound, got, verification, missed>>

ConsumerPop ==
  /\ cplace = "pop" /\ cpc = "popping"
  /\ PopStep
  /\ IF cpc' = "idle" THEN got' = Visible(head) /\ cplace' = "check"
                      ELSE UNCHANGED <<got, cplace>>
  /\ UNCHANGED <<flags, producerRound, verification, missed>>

\* Mutation: the first empty report ends the consumer's loop.
ConsumerMissedLeaves ==
  /\ cplace = "pop" /\ cpc = "empty"
  /\ cplace' = "end"
  /\ UNCHANGED <<vars, flags, producerRound, got, verification, missed>>

\* A failed pop, with its look at the clock.
ConsumerMissed ==
  /\ cplace = "pop" /\ cpc = "empty"
  /\ missed' = (missed + 1) % CheckEvery
  /\ IF missed' = 0 /\ Late
       THEN cplace' = "end" /\ deadlineExpired' = TRUE /\ stop' = TRUE
       ELSE cplace' = "test" /\ UNCHANGED <<deadlineExpired, stop>>
  /\ UNCHANGED <<vars, start, deadline, producerRound, got, verification>>

Leave == stop' = TRUE /\ cplace' = "end"

\* Without verification only a null pointer ends the round.
ConsumerCheck ==
  /\ cplace = "check"
  /\ got' = NULL
  /\ IF got = NULL \/ (strict /\ got \notin Event)
       THEN Leave /\ invalid' = TRUE /\ UNCHANGED <<seen, taken, consumed, duplicates>>
     ELSE IF strict /\ got \in seen
       THEN Leave /\ duplicates' = TRUE /\ UNCHANGED <<seen, taken, consumed, invalid>>
     ELSE /\ seen' = IF strict THEN seen \union {got} ELSE seen
          /\ taken' = taken \union {got} /\ consumed' = consumed + 1
          /\ cplace' = "test"
          /\ UNCHANGED <<duplicates, invalid, stop>>
  /\ UNCHANGED <<vars, strict, start, deadline, deadlineExpired, producerRound, missed>>

ConsumerEnd ==
  /\ cplace = "end" /\ cplace' = "done"
  /\ stop' = (stop \/ consumed = total)
  /\ UNCHANGED <<vars, start, deadline, deadlineExpired, producerRound, got, verification,
                 missed>>

-----------------------------------------------------------------------------
\* Both kinds of thread have left their loops; main joins them.
Joined == cplace = "done" /\ \A p \in Producer : place[p] = "done"

\* result.completed
completed ==
  /\ \A p \in Producer : published[p] = PerProducer
  /\ consumed = total /\ ~invalid /\ ~duplicates
  /\ strict => seen = Event

\* The round is over: nothing is to happen any more.
RoundOver == Joined /\ UNCHANGED roundVars

ProducerStep(p) ==
  \/ ProducerReady(p) \/ ProducerStart(p) \/ ProducerTest(p) \/ ProducerCall(p)
  \/ ProducerPush(p) \/ ProducerRefused(p)

ConsumerStep ==
  \/ ConsumerReady \/ ConsumerStart \/ ConsumerTest \/ ConsumerCall \/ ConsumerPop
  \/ ConsumerMissed \/ ConsumerCheck \/ ConsumerEnd

\* The consumer's null stores become visible whatever the threads do.
StoreSeen(i) == ClearVisible(i) /\ UNCHANGED <<flags, producerRound, consumerRound>>

RoundNext ==
  \/ SetDeadline \/ Start \/ DeadlinePasses \/ RoundOver
  \/ \E p \in Producer : ProducerStep(p)
  \/ ConsumerStep
  \/ \E i \in Slot : StoreSeen(i)

RoundSpec == RoundInit /\ [][RoundNext]_roundVars

\* Every thread is scheduled and every store is seen.  The clock owes nothing:
\* the deadline need not pass.
RoundFairness ==
  /\ WF_roundVars(SetDeadline \/ Start)
  /\ \A p \in Producer : WF_roundVars(ProducerStep(p))
  /\ WF_roundVars(ConsumerStep)
  /\ \A i \in Slot : WF_roundVars(StoreSeen(i))

FairRoundSpec == RoundSpec /\ RoundFairness

-----------------------------------------------------------------------------
(* Properties *)

RoundTypeOK ==
  /\ TypeOK
  /\ start \in BOOLEAN /\ stop \in BOOLEAN
  /\ deadline \in {"unset", "ahead", "passed"} /\ deadlineExpired \in BOOLEAN
  /\ place \in [Producer -> {"new", "waiting", "test", "call", "push", "done"}]
  /\ published \in [Producer -> 0 .. PerProducer]
  /\ refused \in [Producer -> 0 .. CheckEvery - 1]
  /\ cplace \in {"new", "waiting", "test", "call", "pop", "check", "end", "done"}
  /\ got \in Event \union {NULL} /\ seen \subseteq Event
  /\ consumed \in 0 .. total /\ duplicates \in BOOLEAN /\ invalid \in BOOLEAN
  /\ strict \in BOOLEAN /\ taken \subseteq Event
  /\ missed \in 0 .. CheckEvery - 1

\* The pushes that returned true.
PushedEvents == {e \in Event : e[2] <= published[e[1]]}

\* At every moment the events whose push returned true are exactly those in the
\* channel, on their way to the check, and taken: the sums the test and the
\* benchmark form after the join can only come out wrong by the deadline.
NothingUnaccounted ==
  /\ PushedEvents = Queued \union taken \union ({got} \ {NULL})
  /\ consumed = Cardinality(taken) /\ ~duplicates /\ ~invalid
  /\ strict => seen = taken

\* What the test expects of each round: when the threads are joined and the
\* clock did not end the round, the verdict is good.  And a good verdict can be
\* trusted, with events only counted too: every event was taken, none is left.
VerdictIsRight ==
  Joined => /\ ~deadlineExpired => completed
            /\ completed => taken = Event /\ Queued = {}

\* A round is only called late when its deadline was set and has passed.
ExpiredOnlyWhenLate == deadlineExpired => deadline = "passed"

\* The round ends, without the help of the deadline: refused pushes succeed in
\* the end because the consumer empties the channel.
RoundEnds == <>[]Joined
==============================================================================
