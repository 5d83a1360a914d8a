CONSTANTS
  MonthsPerYear = 5
  Byte = 16
  Modulus = 32
  Years <- SomeYears
  Months <- SomeMonths
  MaxShortfalls = 2
SPECIFICATION Spec
INVARIANTS
  TypeOK
  MonthsAddUp
CHECK_DEADLOCK FALSE
