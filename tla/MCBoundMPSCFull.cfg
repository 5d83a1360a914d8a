CONSTANTS
  ByteBase = 1
  PushRetryLimit = 2
  Producer = {p1, p2, p3}
  Event = {e1, e2, e3, e4}
  NULL = NULL
SPECIFICATION Spec
SYMMETRY Interchangeable
PROPERTIES ImplementsEventPool
