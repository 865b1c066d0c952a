SPECIFICATION MCSpec
CONSTANTS
  Sources = {"a", "b"}
  Kinds <- MCKinds
  Configs <- MCConfigs
  MaxEntries = 4
  MaxBatchSize = 3
  MaxSources = 3
  MaxSteps = 2
  MaxLength = 7
INVARIANTS NothingLost BatchesSound MatchesReference RoundTrip
PROPERTIES Flushed SharedByCopy
CHECK_DEADLOCK FALSE
