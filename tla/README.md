# Verification of destiny

TLA+ models of the C++ library in this repository, TLC runs that check them on
small instances, and TLAPS proofs for every size. Paths below are relative to
the repository root.

## The system

| Component | Where | State | Operations |
|---|---|---|---|
| Event channel `BoundMPSC` | `source/core/replay/src/boundMPSC.hpp` | `ticket_`, `head_`, `buffer_` | `push`/`push_try` by many threads, `pop`/`pop_try` by one |
| Stress round | `source/core/replay/tests/boundMPSC_test.cpp`, `benchmarks/boundMPSC_bench.cpp` | start barrier, stop flag, deadline, counters | start, push loop, pop loop, look at the clock, join, sums |
| Replay module shell | `source/core/replay/src/share.hpp`, `onload.cpp`, `unload.cpp`, `replay.hpp` | global channel, thread and file objects that nothing uses yet | `onload`, `unload` (empty) |
| Replay recorder (block pool, event ids, trace files) | only `source/core/replay/docs` | none in code | none in code |
| Integer types and `Bool` | `source/basicType/destinyNumeric` | one built-in value per object | conversions, arithmetic, bitwise and shift operators, comparison between any two types |
| Access to unsigned types | `uint8.cpp` .. `uint64.cpp` there | the same value | `bit`, `byte`, `piece` and their setters |
| Floating-point types | `float32.cpp`, `float64.cpp` there | the same | arithmetic, comparison and conversion among themselves and with the integers |
| Points in time and durations | `source/basicType/time/.../time.hpp` | an unsigned or a signed count of one unit | `+` and `-` in one unit and across units |
| Calendar date `YearMonthDay` | `source/basicType/time/src/yearMonthDay.cpp` | year, month, day | `+`, `-` of years, months, days |
| Zones and the clock | `utcTime.cpp`, `localZone.cpp`, `zoneTime.cpp` there | an offset in seconds, two clock readings | `setZone`, `now`, construction of a `ZoneTime` |
| Version and debug macros, demo application, build scripts, empty modules | `source/define`, `source/apps`, `cmake`, `source/iso`, `source/moreType` | none | none |
| GoogleTest | `thirdLib` | vendored | |

How they interact. Threads hand the addresses of objects they own to the
channel with `push`; a single maintenance thread takes them out with `pop` and
then owns them (`share.hpp` declares the channel and that thread; its loop is
not written yet, so the clients of the channel are taken from the stress test
and the benchmark, the only code that calls it). The numeric and time types are
plain values without shared state; neither uses the other, nor the channel. So
`StressRound` is composed with the channel, and the other modules stand alone.

### What is hard

* *Concurrency in the channel.* `push` is lock-free: draw a ticket (relaxed
  `fetch_add`), then compare-and-swap into the slot; between the two, other
  threads may go round the whole channel. `pop` reads a slot and empties it
  with a relaxed store, which the producers may see much later. The contents of
  an event are carried over by the release of the one and the acquire of the
  other, and by nothing else.
* *No FIFO.* Tickets are byte-swapped into slots so that neighbours in time do
  not share cache lines, while the consumer scans linearly. An event can be
  overtaken; delivery and the truth of "empty" rest on the scan alone.
* *Bounded effort.* Both calls give up after a number of attempts. The limits
  must be large enough that a false answer means something.
* *Wrap-around.* `ticket_` and `head_` are 16-bit and wrap independently.
* *The end of a round.* Threads stop on a shared flag, on a deadline or on a
  count; the sums that are formed after the join have to be right in each case.
* *Numeric edges.* Operands of mixed sign and width, promotion to `int`,
  products and divisions that C++ leaves undefined, accessors working on an
  `int` wider than the object, shift counts between the width of a type and that
  of `int`, integers wider than a significand, durations that fit in their unit
  but not in seconds, month arithmetic around December and below zero, unsigned
  time plus a negative offset.
* *Stale offsets.* A zone's offset is read once, by `setZone`, and used for
  clock readings of any other instant.
* *Sequences of calls.* Each of these operations is simple; what is hard to test
  is whether the values that a long mix of them leaves behind still agree.

`PROJECT.json` lists each of these hazards at its line, with the property that
covers it or the reason why none does.

### What makes each component correct

* Channel: an event has one owner at every moment; none is lost or doubled;
  `push` answers true only for what it added; `pop` answers false only when
  there was nothing to find; every call returns; every event is delivered to a
  consumer that keeps popping; from rest all slots can be filled.
* Stress round: at every moment the successful pushes are accounted for; a
  round that was not late is called complete, and one that is called complete
  has delivered everything, checked or not; it ends; it is called late only when
  it is.
* Integer types: a chain of operations yields what the integers say, modulo the
  narrowest type on the way; comparison follows the values where the common
  type can hold them; mixed signs of one size are exact; where an operator may
  be undefined is known, and where a large shift is not.
* Floating-point types: whole numbers survive as long as the types on the way
  hold them; what a conversion there and back loses is bounded; comparison never
  reverses the order; `a op= b` is `a = a op b` where `a`'s type holds `b`.
* Access: bits, bytes and pieces are views of one row of bits.
* Points and durations: nothing is lost between units as long as the seconds
  fit.
* Calendar: years and months added in any order count the right months.
* Zones: a `ZoneTime` is local time exactly if its offset is that of the instant
  read; times of one setting keep their distance; nothing from 1970 on wraps.

## Modules

| Module | Role |
|---|---|
| `EventPool` | abstract specification: a bounded, unordered pool of events |
| `BoundMPSC` | the channel, one action per atomic access |
| `BoundMPSCFill` | `BoundMPSC` with a history variable, for the capacity question |
| `BoundMPSCMemory` | the channel again under the C++ memory model, with the contents of the events |
| `BoundMPSC_proofs` | theorems about `BoundMPSC` and `BoundMPSCFill` |
| `BoundMPSCMemory_proofs` | theorems about `BoundMPSCMemory` |
| `StressRound` | the concurrent round of test and benchmark, composed with the channel |
| `StressRound_proofs` | theorems about the round, on those about the channel |
| `Numeric` | the integer types: result type and result of an operation, as operators |
| `NumericChain` | one object taken through a chain of those operations |
| `FloatChain` | the floating-point types, and an object taken through a chain of theirs |
| `BitArray` | abstract specification: a row of bits read and written in slices |
| `UintAccess` | the accessors of the unsigned types |
| `TimeArithmetic` | a point in time and a duration under `+` and `-` |
| `Calendar` | a date moved by years and months |
| `ZoneClock` | clock readings, zone settings and the times made of them |
| `Congruence` | lemmas on induction, quotient, remainder and congruence that several proofs share |
| `IntegerTypes_proofs` | lemmas on the bits of the integer types, theorems about `NumericChain` and `UintAccess` |
| `FloatChain_proofs` | lemmas on rounding, theorems about `FloatChain` |
| `TimeArithmetic_proofs` | theorems about `TimeArithmetic` |
| `CalendarClock_proofs` | theorems about `Calendar` and `ZoneClock` |
| `MCBoundMPSC`, `MCBoundMPSCFill`, `MCBoundMPSCMemory`, `MCStressRound`, `MCNumericChain`, `MCFloatChain`, `MCTimeArithmetic`, `MCCalendar`, `MCZoneClock` | symmetry and values for TLC |

Definitions whose comment begins with "Mutation" are what a plausible mistake in
the code would make of the definition below them. No specification uses them;
putting one in place of the original violates the property `PROJECT.json` names
under "mutants".

### EventPool

What a client may rely on. `bag` is the set of events in the channel, `offer`
what each producer is trying to push, `held` what the consumer was given. A pop
that began while the bag was not empty is `owed` an event and may not report an
empty pool; an event that arrives during a pop may or may not create that duty.
With `Informed = FALSE` the consumer may begin a pop without having heard of what
is in the bag, and is then owed nothing: that is the promise under the C++ memory
model, where a push that returned need not be known to the consumer yet.

### BoundMPSC

The variables are the members of the class (`ticket`, `head`, `buffer`) and the
local variables of the calls in progress (`ptr`, `index`, `retries` of each
push, `popRetries` of the pop), with a program counter for each producer (`ppc`)
and for the consumer (`cpc`). The 8-bit bytes of a ticket are a constant
`ByteBase` (256 in the code), so the channel has `ByteBase^2` slots.

| Action | Code |
|---|---|
| `PushCall` | `push` up to the loop, including the answer to a null pointer |
| `TakeTicket` | `fetch_add` and `indexFromTicket` |
| `Publish` | the compare-and-swap succeeds; `push` returns true |
| `PushRetry`, `PushGiveUp` | it fails; next turn of the loop, or `push` returns false |
| `PushAgain`, `PushDrop` | what callers do with a refused event |
| `PopCall` | `pop` up to the loop |
| `PopHit` | `pop_try` finds an event, stores null; `pop` returns true |
| `PopMiss`, `PopGiveUp` | it finds null; next slot, or `pop` returns false |
| `ClearVisible` | the null store reaches the other threads |
| `Release` | the consumer is done; the address may be pushed again |

*Memory model.* `fetch_add` and the compare-and-swap are read-modify-write
operations and act on the newest value of their location, so each is one
action. The consumer's null store is relaxed: it is put into `clearing` and
takes effect later, slots in any order, which includes the store buffers of the
x86 targets of the build presets and is weaker than them. The consumer itself
sees its own stores first (`Visible`), and its loads return the newest value.
What changes on processors where they need not is the subject of
`BoundMPSCMemory`.

*The client's discipline.* An event is pushed by its owner only: one that is not
in the channel, in another push, or held by the consumer (`Free`). The test
harness hands every object to one push; without the rule nothing could be said
about duplicates. Pushing the same address again after `Release` is allowed, and
happens in the runs while the clear of its old slot is still on its way.

*`owed`* is a history variable: the pop must not answer "empty" because the
channel held an event when it was called, or one was published in the first lap
of its scan.

### BoundMPSCMemory

The same handlers against the memory model of C++. A slot is the sequence of the
writes to it (`order`, its modification order); `seen` is, for each thread, the
newest of them it has heard of, and a load may return any write from there on.
Events have contents: `content[e]` counts how often `e` was filled, and `knows`
which filling each thread may read. A releasing write carries its thread's view;
an acquiring load that returns the write adopts it (`Hears`). So the difference
between `memory_order_release` and `relaxed` on the compare-and-swap is the
difference between `ViewOf(p)` and `Nothing` in `Publish`.

A successful compare-and-swap and `fetch_add` act on the newest write. A failed
compare-and-swap may have read an older one (`PushFail`). `Meet` lets the
consumer hear from a producer by other means, such as the flags and joins of the
test. A block goes back to the producers through a pool that is not written yet
(`docs/PLAN.zh-CN.md`); `returned` takes it to synchronise those who return and
take blocks. `Arrive` says that a store becomes visible in finite time.

Ticket counter, `head` and retries are as in `BoundMPSC`; a refused caller always
tries again, at once or later (`PushAgain`).
`PopEmptyIsTruthful` of `BoundMPSC` speaks of what is in the channel. With old
loads only `HeardOfIsFound` remains of it: `pop` may answer "empty" while the
channel holds an event, but not one its thread has heard of.

### StressRound

Extends `BoundMPSC` and drives it: `ProducerCall`, `ProducerPush`,
`ConsumerCall` and `ConsumerPop` are the calls of the channel made by the loops
of the test and the benchmark, joined with the loops' own variables. `place` and
`cplace` say where a thread is. Reading the stop flag and calling `push` are two
steps. `deadline` is `"unset"` until main writes it, and an unset deadline counts
as late, as the epoch does in the code. The test looks at the clock after every
refusal (`CheckEvery = 1`), the benchmark after every 16384th; the run of the
test uses 1, the other run 2. The test's `deadlineExpired` is kept in both as
the record of a round ended by the clock. `strict` is false for the benchmark's
`--no-verify`, under which events are counted without being looked at; then
`taken`, a history variable, is all that remembers which ones they were.
`completed` is the verdict formed after the join. Numbers of refusals are only
kept modulo `CheckEvery`; elapsed time, yields and printing are left out.

### Numeric and NumericChain

An object is a record of type and value; a type is a size (1 to 4, for 8 to 64
bits; 0 for `Bool`) and a sign. `Width[k]` is the number of bits of a size and
`Weight[i]` what the `i`-th bit counts, constants so that proofs need no powers.
`Numeric` translates the header:

| Operator | Code in `destinyNumeric.hpp` |
|---|---|
| `LiftBool`, `WidenSigned`, `CommonInteger`, `Common` | the templates of the same names |
| `Cast` | the converting constructors (`static_cast`) |
| `Promoted`, `Defined`, `Outcomes` | `operator+` .. `operator%`, `operator&`, `^`, `\|`: the operands in the common type, promoted to `int` by C++, the result converted back |
| `ShiftDefined`, `ShiftOutcomes` | `operator<<`, `operator>>`: the left operand's type, promoted, and a count of any type |
| `Equal`, `Less` | `operator==`, `operator<=>` |

What C++ leaves undefined (signed overflow, division by zero, a negative or
too large count) yields any value. Masks work on the set of the one bits of the
two operands (the two's complement of C++20).

`NumericChain` takes one object through a chain of steps: `WithRight` and
`WithLeft` are the binary operators with an operand on either side, `Compound`
the `+=`, `-=`, `*=`, `&=`, `|=`, `^=` of the `.cpp` files, which convert the
operand to the object's type first, `Step` is `++` and `--`, `Negate` and `Complement` are unary
`-` and `~`, `Convert` the constructors from another type, `BinaryDivide` and
`CompoundDivide` the forms of `/` and `%`, `BinaryShift` and `CompoundShift` those
of `<<` and `>>`. The history variable `exact` is what
the integers make of the chain, modulo the largest type, `narrowest` the
smallest size of a result since, and `defined` whether every step was defined.
A division, a shift to the right and a shift by an object's own value start the
history again: their results are no functions of `exact`. The properties about
single operators (`OrderKept` to `NarrowShiftsDrain`) are asked of every object a
chain reaches, so that operands come from conversions and overflows too.

### FloatChain

Extends `Numeric` with `Float32` and `Float64`. The arithmetic is that of IEC
60559 in the precision of the operands' type, as on the targets of the build presets:
rounding to nearest, ties to even, with infinities, two zeros and one NaN. A
finite value is a sign and a number of units, `Unit` of them to 1; `Rounded` is
the rounding of any fraction to a format, given by its precision, least and
greatest magnitude, denormal numbers included. `Power` is 2^i as a constant;
`MaxExponent` bounds the doublings of the least magnitude among which `Spacing`
looks for that of a number, and is large enough for every product of two finite
numbers. `FloatAssumption` lists what is used of the formats of C++. `Unit`
and the least `float` are the least magnitude doubled a number of times, the
integers of 64 bits lie within both ranges, the precisions lie between the widths
of the integers, and that of `double` is at least twice that of `float` plus two
(53 and 24). The range of `double` exceeds that of `float` on both ends: twice
the largest `float` is a `double`, the product of the two least `float`s is no
less than the least `double` (`Smallest[4] * Unit <= Smallest[3] * Smallest[3]`,
magnitudes being counted in units), the spacing of `double` at its finest is
below that of `float` by more than a significand of `float` counts, and the least
`double` times any 32-bit number is below 1.

| Operator, action | Code |
|---|---|
| `Format`, `CommonFloat` | `NumericTraits`, `CommonImpl` and `Common` of `destinyNumeric.hpp` |
| `Converted` | the converting constructors: they round to a floating-point type, truncate to an integer, undefined for what does not fit |
| `BinaryResult`, `FloatEqual`, `FloatLess` | the binary operators and comparisons with a floating-point operand |
| `CompoundResults` | the compound assignments of `float32.cpp`, `float64.cpp` and of the integers with a floating-point operand |
| `Step`, `Negate`, `Convert` | `++`, `--`, unary `-`, the constructors |

`bits` and `fromBits` copy the representation; they stand for the value a chain
starts from. An integer's `&`, `|`, `^`, `%` and shifts with a floating-point
operand in compound form are that operand's `Convert` followed by a step of
`NumericChain`. `exact` is the whole number the object stands for as long as
`fits`: every number on the way was whole and its type holds it.

### BitArray and UintAccess

`data` is `data_` as the set of its one bits, `out` the out parameter of the last
reader. Operators on types narrower than `int` work on `IntBits` bits and
`Store` cuts the result to the object. `byte` and `setByte` go through memory;
the byte order is that of a little-endian machine, as the build presets target
x86. The code checks no index. The index is a `size_t`; `piece` multiplies it in
64 bits (`PieceShift`), `setPiece` truncates it to the unsigned type it shifts
and multiplies there (`SetPieceShift`: `unsigned int` in `Uint16` and `Uint32`,
64 bits in `Uint64`). Both products wrap, so that C++ defines the shift for small
indices and again for large ones: `Uint32::setPiece(Uint8, i)` at `i = 2^29`
overwrites piece 0, `Uint32::piece` reads piece 0 at `i = 2^61`. The model takes
every index whose shift is defined, or whose byte exists; what is left out is
undefined. `SizeRange` and `ShiftRange` are the numbers of values of the two
types.

`BitArray` promises a row of bits and slices of `w` bits at multiples of `w`, with
an index that turns round where the count of bits does (`ReadTurn`, `WriteTurn`):
below a turn an index past the object touches nothing, above it names a slice
again, another one for a reader than for a writer. `UintAccess` refines it with
`ones <- data`. Both record in `asked` the index and the width of the last call and
what it was given, so that the refinement cannot explain one call by another
that has the same effect.

### TimeArithmetic

`point` is a `Day`, `Hour`, `Minute` or `Second` (an unsigned count), `span` a
`Duration` of one of the units (a signed count). `PointFirst` and `SpanFirst` are
the operators of a point with a duration on either side, `Lengthen` those of two
durations, `Take` the construction of a duration. In one unit counts are
combined as they are (`Same`), across units in seconds and divided back by the
scale of the finer unit (`Mixed`, with `ResType` and `toSecond`). The history
variables `pointSeconds` and `spanSeconds` are the same in the integers;
`fitting` says that they never left the signed type, and the model stops when
they do, `defined` that C++ defined every step.

The point starts at zero and moves from there.

### Calendar

`year` and `month` are `year_` and `month_`, a 64-bit and an 8-bit count.
`AddYears`, `SubtractYears` and `AddMonths` are the three operators with a body.
`operator+(Duration<Day>)` and `operator-(Duration<Month>)` have an empty body and
return nothing, which is undefined when called, as is a sum of months that
overflows: `Undefined`, after which nothing is claimed. The day is left out since
no operation with a body touches it, and so is `operator-(Duration<Day>)`, which
has no definition to link. `total` is what the date should count in months, and
`shortfalls` how many sums of months fell below zero without being whole years:
their negative remainder is stored in the `uint8_t` and 256 months too many
stay. `MonthsAddUp` says that this is the only way to go wrong.

### ZoneClock

`utc`, `offset` and `zoned` are the `value_` of `UtcTime`, the `offset_` of
`LocalZone` and the `value_` of `ZoneTime`. `Now` is `UtcTime::now`, with the
truncation of `duration_cast` before the epoch; `SetZone` is `setZone` with a
known or an unknown name (the code catches the exception and resets the offset);
`MakeZoned` the two constructors of `ZoneTime`, the sum in `uint64_t` as C++
converts it. `ClockMoves` lets time pass or the clock be set. The zone database
is external: `Rule[z][t]`, any function of the instant. `setting`, `readAt` and
`origin` are history variables that remember which zone was in force when.

## Runs

| Run | Instance | Shows |
|---|---|---|
| `channel_race` | 4 slots, 1 retry, 2 producers, 2 events | types, ownership, nothing lost, honest answers of push and pop, under every interleaving; from rest, one lap of tickets meets no occupied slot |
| `channel_is_a_pool` | 1 slot, 2 retries, 3 producers, 4 events | the refinement to `EventPool`, with the channel full most of the time |
| `channel_memory` | memory model; 1 slot, 1 retry, 2 producers, 2 events filled 4 times | what the consumer reads is what was written; nothing is delivered twice or lost through an old load; the refinement to `EventPool` |
| `channel_scan` | memory model; 4 slots, no retry, 2 producers, 2 events filled 4 times | `pop` finds what its thread has heard of |
| `channel_delivery` | 4 slots, 1 retry, 1 producer, 2 events, pushed without end; fairness of the consumer | every published event is delivered, however many overtake it |
| `round` | 1 slot, 2 producers with 2 events each, clock looked at every second time, with and without `--no-verify`, fairness | the accounting of the round and its verdicts; every push and pop returns and the round ends although the deadline need not pass |
| `numeric_chains` | types of 1, 2, 4 and 8 bits, each at its ends and at 1 and -1, chains of 2 steps | chains of any operations hold the exact result modulo the narrowest type; of every object so reached, which comparisons follow the values, which mixed operations are exact, where operators are undefined, what large shifts leave |
| `float_chains` | those integers, significands of 2 and 6 bits, units of 1/32, chains of 2 steps | which whole numbers survive, which round trips are safe, where comparisons follow the values, where `a op= b` is `a = a op b` |
| `unsigned_access` | 4-bit object, 8-bit `int`, bytes and pieces of 2 bits, 32 indices, shifts of `setPiece` counted modulo 16 | the refinement to `BitArray`, with indices past the object and beyond a turn |
| `time_units` | units of 1, 2, 6, 12 seconds, 6-bit counts, durations of -3, 1, 2 of each | nothing is lost while the seconds fit, for any sequence |
| `calendar_months` | 5 months a year, 4-bit months, 5-bit years, 3 durations of years, 8 of months | the months add up, but for the sums below zero |
| `zone_readings` | 8 instants of 2 ticks to the second around the epoch, counts modulo 16, two zones that change their offset, an unknown name | when a `ZoneTime` is local time, distances, the wrap |

*Why these bounds.* Four slots are the smallest channel in which ticket order
(0, 2, 1, 3) and scan order differ and both counters wrap. One slot is the
extreme of contention: every producer always aims at the same slot and the
channel is full as soon as it holds an event, so refusals, retries and the
capacity bound all occur. Two producers suffice for every conflict between
pushes (the compare-and-swap is between two), a third adds a bystander. Two
events on four slots let an address be pushed again while two older stores for
it are pending. All counters of `BoundMPSC` are bounded by the code itself (they
wrap or have a limit), so no bound is added to the guards. In `BoundMPSCMemory`
the writes to a slot would grow for ever: `MaxFills` bounds how often events are
filled. Four fillings of one slot put both producers' writes and the nulls between
them behind each other; four fillings of four slots leave the scan slots of
every kind, never written, emptied and occupied. A bound on the traffic would
make delivery easy, so that is asked of `BoundMPSC`, which has none: one event
waits in a slot while a producer pushes the other for ever. One producer is
enough to overtake, and with its retries and its unseen null stores it meets
every refusal. A `pop` that started at slot 0 on every call would fail the run,
with one event in the last slot and the other always before it. Four events on
the one slot of `round` make every push but one wait for the consumer. Runs with
liveness use no symmetry.

The numeric and time modules take their widths as constants, and the code relies
on very little of them: each integer type has twice the bits of the one before
(1, 2, 4, 8 for 8, 16, 32, 64, `int` being the third in both), a coarser unit is a
multiple of a finer one, a byte holds the months of a year. The scaled values keep
that and make wrap-around, overflow and truncation reachable in a few steps.
`MCNumericChain` needs negative operands, ones at the top of their type and a
`Bool`; the object starts as any of them, so two steps suffice to narrow it and
compute, or to overflow and widen, and the properties look one operator further. The significands of
`MCFloatChain` lie between the widths of the integers as 24 and 53 bits lie
between 16, 32 and 64, and the larger has at least twice the bits of the smaller
plus two, so that rounding twice is harmless as in the code. `Bits = 4` below
`IntBits = 8` is the case of `Uint8` and `Uint16`; that of `Uint32` and `Uint64`,
`Word = Bits`, is the same without the cut, and the theorem covers both. Bounds
of the models' own: `MaxLength` on the steps of a chain, `MaxShortfalls` on the
sums below zero, `MaxFills` as above.

*Fairness.* `FairSpec` of `BoundMPSC`: the consumer calls `pop` again after every
answer, as the loops of test and benchmark do, and a running `pop` goes on.
Producers owe nothing, nor do blocks have to come back or null stores reach
anyone; the cursor alone brings every event out. `BoundMPSC` lets the consumer see a published
event at once. Under the memory model it may first read old nulls, for a finite
time as C++ asks of implementations (`Arrive`); delivery under both, late stores
and endless traffic, is not checked. `FairRoundSpec`: every thread is scheduled and
stores become visible; the clock owes nothing, so `RoundEnds` does not lean on
the deadline. The flags of a round are taken in program order: that the start
flag is a release is read off the code, not checked.

*Deadlock* is checked in every run of the channel, the round, the accessors and
the zones; a finished round repeats itself (`RoundOver`), and the consumer may
always call `pop`. The other runs do not check it: a numeric chain stops at `MaxLength` or after an undefined step, times when the
seconds no longer fit, a date after an undefined step.

## Proofs

Every theorem holds for all values of the constants under the named assumptions
of the module that declares them.

*Channel.* `BoundMPSC_proofs` shows for every `ByteBase > 0`, every retry limit and every
set of producers and events (assumptions `ByteBaseAssumption`,
`PushRetryLimitAssumption`, `NullAssumption`):

1. `TicketsNameEverySlotOnce`: `indexFromTicket` is an involution on the slots.
   From uniqueness of quotient and remainder (`DivModUnique`).
2. `Typing`: `TypeOK` is inductive as it stands.
3. `Ownership`, `PublishedEventsStay`, `PushesAreHonest`. `ExclusiveOwnership` is
   not inductive alone; `OwnershipInv` adds that a pending null store covers a
   taken event (`ClearsCoverTakenEvents`: so a compare-and-swap from null never
   hits a slot whose clear is on its way) and that a running push carries an
   event (`CallsCarryEvents`). The lemmas `ViewAfter...` and `QueuedAfter...`
   say what each kind of step does to the slots as the consumer sees them; the
   invariant and the action properties follow from them action by action.
4. `EmptyReportsAreTrue`. `OwedInReach` strengthens `PopEmptyIsTruthful`: while
   something is owed, some event lies ahead of the cursor at a distance that the
   remaining attempts still cover. A miss moves the cursor one nearer
   (`AheadAfterMiss`); an event published in the first lap is less than one lap
   ahead, and more than one lap of attempts is left.
5. `ChannelIsAPool`: every step of the channel is a step of `EventPool` or a
   stutter. The capacity bound (`RoomForOneMore`) maps the occupied slots onto
   the queued events, so a free slot leaves room.
6. `FirstLapNeedsNoRetry`, of `BoundMPSCFill`, whose counter adds no behaviour
   (`FillingUsesChannel`). `FirstLapIsFree` says nothing of the slots that no
   producer is about to try; `FirstLapInv` adds that every taken slot, and every
   one about to be tried, was named by one of the last `lap` tickets, and by one
   producer only. A new ticket is then the oldest of the lap before and names a
   slot that none of this lap did, since the tickets of one lap name each slot
   once (`AgeAfterTicket`, `FreshAfterTicket`).

*Channel under the C++ memory model.* `BoundMPSCMemory_proofs`
(`MemoryAssumption`): `MemoryTyping`, `ContentsAlwaysArrive`,
`ScansFindWhatWasHeardOf`, `RelaxedChannelIsAPool`. The invariant `MemoryInv` is
one for all four:

* `Sound`: no view speaks of a write or a filling that did not happen, be it a
  thread's view, one that a write passes on, or one that the block pool passes on.
* `ConsumerKeepsUp`: the consumer is the only one to empty a slot, so all it can
  miss of a slot is one event that replaced the null it knows. Hence an event it
  reads is the newest write, however relaxed the loads of the others
  (`OccupiedIsNewest`), and a load can be old only in returning null.
* `OneOwner`, `CallsCarryEvents`: the ownership of `BoundMPSC` once more.
* `ContentsTravel`: who owns an event knows its last filling, and the write that
  published it passes that on: the chain from the producer through the release
  and the acquire to the consumer, and through the block pool back.
* `HeardOfInReach`: `OwedInReach` for the slots of which the consumer has heard.

What a step does to the views is said once (`HearsEffect`, `WriteEffect`,
`SoundAfterHearing`, `KnowledgeAfterWrite`); each action then has its own lemma.

*Round.* `StressRound_proofs` (`RoundAssumption` and those of the channel):
`RoundUsesChannel`, so that all theorems on the channel hold of the round;
`RoundTyping`, `RoundIsAccounted`, `VerdictsAreRight`, `LateOnlyWhenLate`.
`NothingUnaccounted` needs to know where each thread stands: a producer is inside
`push` exactly while its loop is, and with its next event (`ProducersInPlace`);
what `pop` returned was not counted before (`ConsumerInPlace`). Then the events of
the channel that a step adds or removes are those by which the counts change, and
what the consumer holds is what it counted or is about to (`HeldIsCounted`).
`StopHasReason` says why a thread left its loop: unless the clock ended the
round, the consumer had counted to `total`, so it took every event there is
(`AllTaken`), so every push of them returned true. `StartHasDeadline` keeps the
reads of the deadline, which is not atomic, behind its one write.

*Integer types.* `IntegerTypes_proofs` (assumptions
`WidthAssumption`: four sizes, each of twice the bits of the one before;
`WeightAssumption`: each bit counts twice the one before; `OperandAssumption`):

1. `Typing`, `ChainsAreExact`. The inductive invariant is `TypeOK` and that the
   value is congruent to `exact` modulo `Modulus[narrowest]`. `Cast` keeps the
   congruence modulo every size up to its own since the sizes divide each other
   (`ModulusDivides`, `CastCongruent`), `+ - *` keep it (`CongruentRing`), masks
   keep it since the low bits of the result depend on the low bits of the
   operands only (`CongruentMask`; that every set of bits is a number,
   `PatternExists`, is an induction on the width), a shift to the left is a
   multiplication, and `ComputedKeeps` joins them for all the operators.
2. `ComparisonsFollowValues`: a value is unchanged in the common type unless it is
   negative and that type unsigned (`CommonFits`).
3. `MixedSignsAreExact`: two types of one size meet in a type of twice the bits,
   which holds every sum and product (`MixedBounds`, `WidenedExact`).
4. `UndefinedIsLocated`: below `int`, sums always fit `int`, and products too but
   in the unsigned type one size below (`NarrowBounds`, `NarrowIsDefined`).
5. `UndefinedDivisionIsLocated`: a quotient leaves its type only for the lowest
   value by -1 (`QuotientBounds`, `QuotientLeaves`), below `int` not even then, and
   an operand is zero in the common type only if it was before (`CommonZero`).
6. `ShiftsDrain`: a multiple of the number of values of a type is stored as zero
   (`CastOfMultiple`), and a number below a divisor leaves 0 or -1
   (`FloorOfSmall`).

*Access.* `IntegerTypes_proofs` (`AccessAssumption`): `AccessTyping`, and
`AccessorsAgree`, the refinement. Each accessor is shown to read or write one
slice of the row (`PieceReads`, `PieceWrites`, `ByteReads`, ..), from what masks
and shifts do to sets of bits (`Shifts`, `WritesSlice`, `ReadsSlice`). That
truncating the index first leaves the shift where the product turns is a fact on
remainders (`TruncationIsATurn`); bits and bytes of the object lie below a turn
(`Turns`), since a type has at least as many values as bits.

*Floating-point types.* `FloatChain_proofs` (`WidthAssumption`,
`WeightAssumption`, `PowerAssumption`, `FloatAssumption`, `OperandAssumption`):
`FloatTyping`, `WholeNumbers`, `FloatComparisons`, `FloatRoundTrips`,
`FloatCompounds`. All of them rest on what rounding does to magnitudes, which is
said once. A magnitude is on the grid of a type (`OnGrid`) if it is at most
`Steps(t)` times a doubling of the least magnitude.

1. `RoundedIs` names the spacing that `Spacing` chooses: there is one because the
   powers of two outgrow every magnitude in reach (`SpacingIs`, by least
   elements). Of two powers of two the smaller divides the larger, also when one
   is a product (`PowerDivides`, `PowerDividesProduct`); so a point of the grid is
   a multiple of every spacing chosen below it (`SpacingDivides`).
2. Rounding yields points of the grid (`RoundedOnGrid`), leaves them alone
   (`GridExact`), and keeps the order (`RoundedMonotone`: two magnitudes of one
   spacing by `NearestMonotone`, otherwise a point of the grid lies between).
   Type correctness follows: a finite value is one that rounding leaves alone,
   and whatever an operation yields was rounded (`RoundedTyped`, `SumTyped`, ..).
3. `WholeNumbers`: whole numbers up to `Steps(t)` are on the grid (`WholeOnGrid`),
   hence the sums and products that `fits` speaks of come out as they are
   (`SumStands`, `ProductStands`); `Stands` says which number a value is.
   `WholeNumbersSurvive` is inductive with `TypeOK`.
4. `FloatComparisons`: the grid of a `float` lies in that of a `double`
   (`GridsNest`), so a floating-point operand is unchanged by the conversion, an
   integer is moved without overtaking anything (`RankMonotone`), and one that the
   precision covers is not moved at all (`FloatKeeps`).
5. `FloatRoundTrips`: below `2^w`, the spacing is at most `2^(w - p)` for a
   precision of `p` bits, so rounding moves a number by half of that
   (`RoundedNear`) and truncating moves it no further (`TruncatedNear`). What is
   below zero stays in its type, whose lowest value is on the grid
   (`NegativeStays`); only the upper end can be rounded out of it.
6. `FloatCompounds`: `a op= b` computes in `a`'s type; `a = a op b` computes in
   `double` and rounds or truncates again.

   For a `float`, rounding twice could differ from rounding once only where the
   first rounding lands half-way between two floats and the exact result did not
   lie there: everywhere else the order is kept, since neighbours and half-way
   points are themselves doubles (`HalfGap`, `DoubleRounding`, `RoundedTwice`).
   `TieIsReal` says that this does not happen, and is shown of each operation by
   comparing the two spacings around the exact result (`SpacingRatio`: that of
   `float` is more than `2 * Steps(Float32)` of `double`'s). A product of floats
   is a double, nothing is rounded first (`ProductExact`). A sum is a double too,
   unless one operand is below `double`'s spacing; then the other lies strictly
   between two neighbours that it would have to be (`SumTie`). A quotient off a
   tie differs from it by at least one in the denominator's units, which is more
   than the first rounding can move it (`RatioTie`, with `ProductsDivide`).

   For an integer no wider than `double`'s precision, sums are exact, a product
   is exact or too large to come back (`ProductLarge`), and a quotient that is
   not whole is too far below the next whole number to be rounded up to it
   (`QuotientRounds`), so truncation gives C++'s integer quotient.

*Points and durations.* `TimeArithmetic_proofs` (`ScaleAssumption`,
`WidthAssumption`, `LiteralAssumption`): `TimeTyping`, `TimeIsExact`.
`NothingIsLost` is not inductive; `IInv` adds that the seconds fit. Then the
counts fit as well (`FitsBelow`), the division by the finer scale is exact
(`FinerDivides`, `ExactDivision`), and the unsigned count read with its sign is
the signed one (`RoundTrip`).

*Calendar.* `CalendarClock_proofs` (`CalendarAssumption`): `CalendarTyping`,
`MonthsAreKept`. `MonthsAddUp` is inductive with `TypeOK`, as a congruence modulo
the months that the fields can count (`MonthsPerYear * Modulus`): quotient and
remainder of the truncating division move together (`Truncation`), and storing
the remainder in a byte adds `Byte` exactly when it is negative (`StoredMonth`).

*Zones.* `CalendarClock_proofs` (`ZoneAssumption`): `ZoneTyping`, `LocalTimeIsLocated`,
`WrapIsLocated`, `DistancesAreKept`. The invariant `ReadingInv` ties each of the
three members to the histories: `utc` to the reading, `offset` to the rule at the
setting, `zoned` to both, modulo `Top`. Then the properties are facts on
remainders (`Congruence`, `SameRemainder`); that two different offsets give
different times needs `2 * MaxOffset < Top`.

Only model-checked: liveness (`CallsReturn`, `EventsDelivered`, `RoundEnds`),
which TLAPS 1.4.5 does not reach. Every safety and action property and every
refinement that a run checks is also proved.

## Not modelled, and why

* The replay recorder exists as design documents only
  (`docs/PLAN.zh-CN.md` says that implementation has not started).
* `onload`/`unload` and the global objects of `share.hpp` do nothing yet.
* `&&`, `||`, `!` of the numeric types are those of C++ on `bool` and change
  nothing; `value`, `bits` and copies only pass the value on.
* Shifts by the width or more, in accessors and operators, and bytes outside the
  object: C++ leaves them undefined and nothing can be said about what follows.
* `operator+` and `-` of `Year` and `Month` points: the same template as the
  operators of the four units in one unit, which are modelled.
* `YearMonthDay` with days: the operations have no body.
* NaNs that differ in their payload, and rounding modes other than the default:
  no code looks at the one or sets the other.
* The benchmark's command line, measured times and printing.
* Macros, demo and build scripts: no behaviour of their own.
* GoogleTest: a copy of an external project that the tests are linked with. It
  is most of the C++ in this repository (about nine lines in ten), so a share of
  lines modelled has to be read against the library's own code, some 3,300 lines
  without tests, of which a good part repeats one class for every width. Of that
  code everything that changes state and has a body is modelled.

## Plan

Done: the channel, also under the C++ memory model, and the round, with proofs of
all their safety properties; integer and
floating-point types, access, points and durations, calendar and zones; the
proofs named above. What is left:

1. An abstract round (events move from "to push" to "consumed" or the round is
   late) that `StressRound` implements.
