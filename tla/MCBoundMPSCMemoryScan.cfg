SPECIFICATION Spec
CONSTANTS
  ByteBase = 2
  PushRetryLimit = 0
  Producer = {p1, p2}
  Consumer = c
  Event = {e1, e2}
  NULL = NULL
  MaxFills = 4
  p1 = p1
  p2 = p2
  e1 = e1
  e2 = e2
INVARIANT HeardOfIsFound
SYMMETRY Interchangeable
