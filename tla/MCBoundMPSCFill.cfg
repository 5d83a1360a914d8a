CONSTANTS
  ByteBase = 2
  PushRetryLimit = 1
  Producer = {p1, p2}
  Event = {e1, e2}
  NULL = NULL
SPECIFICATION FillSpec
SYMMETRY Interchangeable
INVARIANTS TypeOK ExclusiveOwnership PopEmptyIsTruthful FirstLapIsFree
PROPERTIES NoLostEvent PushAddsItsEvent
