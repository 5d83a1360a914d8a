------------------------------ MODULE MCCalendar ------------------------------
(* Calendar with years of 5 months, 4-bit bytes and 5-bit years.             *)
EXTENDS Calendar

SomeYears == {-3, 1, 7}
SomeMonths == {-11, -5, -1, 0, 1, 4, 6, 15}
===============================================================================
