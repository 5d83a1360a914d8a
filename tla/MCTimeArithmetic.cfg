CONSTANTS
  Scale <- ShortScale
  Modulus = 64
  Literal <- SomeDurations
SPECIFICATION Spec
INVARIANTS
  TypeOK
  NothingIsLost
CHECK_DEADLOCK FALSE
