------------------------------- MODULE Calendar -------------------------------
(***************************************************************************)
(* A YearMonthDay that a program moves by durations of years and months.   *)
(* The day is not modelled: no operation that has a body touches it.       *)
(*                                                                         *)
(* History variables: the months the date should count, modulo what the    *)
(* fields can count, and how often a sum of months fell below zero.        *)
(***************************************************************************)
EXTENDS Integers

CONSTANTS
  MonthsPerYear,  \* 12
  Byte,           \* number of values of uint8_t
  Modulus,        \* number of values of the 64-bit types
  Years, Months,  \* the durations the program has at hand
  MaxShortfalls   \* bound on the sums below zero

Half == Modulus \div 2
Long == -Half .. Half - 1

ASSUME CalendarAssumption ==
  /\ MonthsPerYear \in Nat \ {0} /\ Byte \in Nat /\ MonthsPerYear <= Byte
  /\ Modulus \in Nat \ {0} /\ Modulus % 2 = 0
  /\ Years \subseteq Long /\ Months \subseteq Long
  /\ MaxShortfalls \in Nat

VARIABLES
  year, month,   \* year_, month_
  total,         \* months the date should count
  shortfalls,    \* sums of months below zero that were no whole years
  defined        \* every step so far is defined

vars == <<year, month, total, shortfalls, defined>>

TypeOK ==
  /\ year \in 0 .. Modulus - 1 /\ month \in 0 .. Byte - 1
  /\ total \in 0 .. MonthsPerYear * Modulus - 1
  /\ shortfalls \in 0 .. MaxShortfalls
  /\ defined \in BOOLEAN

\* YearMonthDay(year, month, day), for a year that has not wrapped; the months
\* of the callers run from 1 to 12, and a default object has month 0.
Init ==
  /\ year = 0 /\ month \in 0 .. MonthsPerYear
  /\ month < Byte
  /\ total = month % (MonthsPerYear * Modulus)
  /\ shortfalls = 0 /\ defined = TRUE

ToYear(y) == y % Modulus
\* Mutation: the int is kept as it is.
ToMonthNot(m) == m
ToMonth(m) == m % Byte

Quotient(x, y) == IF x >= 0 THEN x \div y ELSE -((-x) \div y)   \* C++ /
Remainder(x, y) == x - y * Quotient(x, y)                       \* C++ %

Count(n) == total' = (total + n) % (MonthsPerYear * Modulus)

\* operator+(Duration<Year>) and operator-(Duration<Year>)
AddYears(n) ==
  /\ year' = ToYear(year + n)
  /\ Count(n * MonthsPerYear)
  /\ UNCHANGED <<month, shortfalls, defined>>
SubtractYears(n) ==
  /\ year' = ToYear(year - n)
  /\ Count(-(n * MonthsPerYear))
  /\ UNCHANGED <<month, shortfalls, defined>>

\* Undefined behaviour: the fields may hold anything.
Undefined ==
  /\ year' \in 0 .. Modulus - 1 /\ month' \in 0 .. Byte - 1
  /\ defined' = FALSE
  /\ UNCHANGED <<total, shortfalls>>

\* Mutation: the month is stored before the year is computed from it.
AddMonthsSwapped(n) ==
  LET cache == n + month IN
  IF cache \notin Long THEN Undefined
  ELSE /\ month' = ToMonth(Remainder(cache, MonthsPerYear))
       /\ year' = ToYear(year + Quotient(n + month', MonthsPerYear))
       /\ Count(n)
       /\ shortfalls' = shortfalls + IF Remainder(cache, MonthsPerYear) < 0 THEN 1 ELSE 0
       /\ UNCHANGED defined

\* operator+(Duration<Month>)
AddMonths(n) ==
  LET cache == n + month IN
  IF cache \notin Long THEN Undefined
  ELSE /\ year' = ToYear(year + Quotient(cache, MonthsPerYear))
       /\ month' = ToMonth(Remainder(cache, MonthsPerYear))
       /\ Count(n)
       /\ shortfalls' = shortfalls + IF Remainder(cache, MonthsPerYear) < 0 THEN 1 ELSE 0
       /\ UNCHANGED defined

Next ==
  /\ defined
  /\ \/ \E n \in Years : AddYears(n) \/ SubtractYears(n)
     \/ \E n \in Months : AddMonths(n) /\ shortfalls' <= MaxShortfalls
     \/ Undefined   \* operator+(Duration<Day>), operator-(Duration<Month>): no return

Spec == Init /\ [][Next]_vars

\* Whatever is added and subtracted in whatever order, the two fields together
\* count the right number of months, but for a whole uint8_t of months for each
\* sum of months that fell below zero and was no whole number of years: such a
\* date stays wrong for good (yearMonthDay.cpp, operator+(Duration<Month>)).
MonthsAddUp ==
  defined =>
    ((MonthsPerYear * year + month) - (total + Byte * shortfalls)) % (MonthsPerYear * Modulus) = 0
===============================================================================
