------------------------------ MODULE ZoneClock ------------------------------
(***************************************************************************)
(* UtcTime, LocalZone and ZoneTime: the clock is read into a UtcTime, the  *)
(* offset a zone has from UTC is read into a LocalZone, and the two make a *)
(* ZoneTime.  The three happen at different instants, the zone changes its *)
(* offset between summer and winter, and the clock may be set, also to     *)
(* before 1970.                                                            *)
(*                                                                         *)
(* Instants count the ticks of the system clock from 1970; the history     *)
(* variables setting, readAt and origin remember at which of them things   *)
(* were read.                                                              *)
(***************************************************************************)
EXTENDS Integers

CONSTANTS
  Top,             \* uint64_t is taken modulo Top: 2^64 in the code
  MaxOffset,       \* no zone is further from UTC, in seconds
  TicksPerSecond,  \* of the system clock
  Instant,         \* the readings of the system clock
  Zone,            \* the names the zone database knows
  UTC,             \* no zone: what a LocalZone stands for until it is set
  Unknown,         \* a name the database does not know
  Rule             \* Rule[z][t]: the offset zone z has at instant t

ASSUME ZoneAssumption ==
  /\ Top \in Nat /\ MaxOffset \in Nat /\ 2 * MaxOffset < Top
  /\ TicksPerSecond \in Nat \ {0}
  /\ Instant \subseteq Int /\ 0 \in Instant
  /\ UTC \notin Zone /\ Unknown \notin Zone
  /\ Rule \in [Zone -> [Instant -> -MaxOffset .. MaxOffset]]

VARIABLES
  clock,    \* the instant
  offset,   \* LocalZone::offset_
  utc,      \* UtcTime::value_
  zoned,    \* ZoneTime::value_
  setting,  \* history: the zone of the LocalZone and when it was set
  readAt,   \* history: when the UtcTime was read
  origin    \* history: the readAt and the setting the ZoneTime was made from

clockVars == <<clock, offset, utc, zoned, setting, readAt, origin>>

\* duration_cast truncates towards zero.
Seconds(t) ==
  IF t >= 0 THEN t \div TicksPerSecond ELSE -((-t) \div TicksPerSecond)

ToUnsigned(v) == v % Top

\* Mutation: the sum stops at zero.
SumSaturated(u, o) == IF u + o < 0 THEN 0 ELSE (u + o) % Top
\* Mutation: the offset is widened without its sign.
SumUnsigned(u, o) == (u + (o % (Top \div 2))) % Top
\* Mutation: the sum does not wrap.
SumUnwrapped(u, o) == u + o

\* uint64_t plus int32_t, which is converted to uint64_t
Sum(u, o) == ToUnsigned(u + ToUnsigned(o))

\* The offset zone z has at instant t.
InForce(z, t) == IF z \in Zone THEN Rule[z][t] ELSE 0

Since(z, t) == [zone |-> z, at |-> t]

ClockInit ==
  /\ clock \in Instant
  /\ offset = 0 /\ utc = 0 /\ zoned = 0
  /\ setting = Since(UTC, 0) /\ readAt = 0
  /\ origin = [read |-> 0, setting |-> Since(UTC, 0)]

\* Time passes, or somebody sets the clock.
ClockMoves ==
  /\ clock' \in Instant \ {clock}
  /\ UNCHANGED <<offset, utc, zoned, setting, readAt, origin>>

\* Mutation: a failed setZone keeps the offset it had.
SetZoneKeeps(name) ==
  /\ IF name \in Zone
       THEN offset' = Rule[name][clock] /\ setting' = Since(name, clock)
       ELSE UNCHANGED offset /\ setting' = Since(UTC, clock)
  /\ UNCHANGED <<clock, utc, zoned, readAt, origin>>

\* LocalZone::setZone: an unknown name makes it UTC again.
SetZone(name) ==
  /\ IF name \in Zone
       THEN offset' = Rule[name][clock] /\ setting' = Since(name, clock)
       ELSE offset' = 0 /\ setting' = Since(UTC, clock)
  /\ UNCHANGED <<clock, utc, zoned, readAt, origin>>

\* UtcTime::now
Now ==
  /\ utc' = ToUnsigned(Seconds(clock)) /\ readAt' = clock
  /\ UNCHANGED <<clock, offset, zoned, setting, origin>>

\* The constructor of ZoneTime, with the zone or without
MakeZoned ==
  /\ \/ zoned' = Sum(utc, offset) /\ origin' = [read |-> readAt, setting |-> setting]
     \/ zoned' = Sum(utc, 0) /\ origin' = [read |-> readAt, setting |-> Since(UTC, readAt)]
  /\ UNCHANGED <<clock, offset, utc, setting, readAt>>

ClockNext ==
  \/ ClockMoves
  \/ \E name \in Zone \union {Unknown} : SetZone(name)
  \/ Now
  \/ MakeZoned

ClockSpec == ClockInit /\ [][ClockNext]_clockVars

-----------------------------------------------------------------------------
(* Properties *)

ClockTypeOK ==
  /\ clock \in Instant /\ readAt \in Instant
  /\ offset \in -MaxOffset .. MaxOffset
  /\ utc \in 0 .. Top - 1 /\ zoned \in 0 .. Top - 1
  /\ setting \in [zone : Zone \union {UTC}, at : Instant]
  /\ origin \in [read : Instant, setting : [zone : Zone \union {UTC}, at : Instant]]

\* A ZoneTime is the local time of the instant its UtcTime was read if and only
\* if the zone had the same offset then as when it was set, however the clock,
\* the zone and the readings were interleaved: a change to summer time makes
\* every ZoneTime wrong until setZone is called again, and also those made from
\* a UtcTime of the other season.  After a failed setZone the local time is UTC.
LocalUnlessStale ==
  LET s == origin.setting
      there == InForce(s.zone, origin.read)
  IN zoned = ToUnsigned(Seconds(origin.read) + there) <=> there = InForce(s.zone, s.at)

\* The ZoneTimes of one setting are as far apart as their UtcTimes, modulo
\* Top, wherever they lie and wherever the zone's offset went meanwhile.
DistanceKept ==
  [][origin'.setting = origin.setting =>
       (zoned' - zoned) % Top
         = ToUnsigned(Seconds(origin'.read) - Seconds(origin.read))]_clockVars

\* A ZoneTime wraps only if its local time is before 1970: a zone west of UTC
\* in the first hours after the epoch, or a clock set to before it.
WrapsOnlyBeforeEpoch ==
  LET exact == Seconds(origin.read) + InForce(origin.setting.zone, origin.setting.at)
  IN exact \in 0 .. Top - 1 => zoned = exact
==============================================================================
