CONSTANTS
  ByteBase = 1
  PushRetryLimit = 1
  Producer = {p1, p2}
  PerProducer = 2
  CheckEvery = 2
  Event <- RoundEvents
  NULL = NULL
SPECIFICATION FairRoundSpec
INVARIANTS RoundTypeOK NothingUnaccounted VerdictIsRight ExpiredOnlyWhenLate
PROPERTIES RoundEnds CallsReturn
