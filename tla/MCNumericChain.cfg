CONSTANTS
  Width <- SmallWidth
  Weight <- SmallWeight
  Operand <- Corners
  MaxLength = 2
SPECIFICATION Spec
INVARIANTS
  TypeOK
  CongruentToExact
  OrderKept
  WideningIsExact
  UndefinedOnlyWhere
  DivisionUndefinedOnlyWhere
  NarrowShiftsDrain
CHECK_DEADLOCK FALSE
