CONSTANTS
  ByteBase = 2
  PushRetryLimit = 1
  Producer = {p1}
  Event = {e1, e2}
  NULL = NULL
SPECIFICATION FairSpec
PROPERTY EventsDelivered
