CONSTANTS
  Top = 16
  MaxOffset = 2
  TicksPerSecond = 2
  Instant <- Instants
  Zone = {"east", "west"}
  UTC = "UTC"
  Unknown = "unknown"
  Rule <- Rules
SPECIFICATION ClockSpec
INVARIANTS ClockTypeOK LocalUnlessStale WrapsOnlyBeforeEpoch
PROPERTY DistanceKept
