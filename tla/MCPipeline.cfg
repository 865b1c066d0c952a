SPECIFICATION Spec
CONSTANTS
  OperatorTypes <- TypeNames
  Names <- MCNames
  Configs <- Pipelines
  DefaultOutput = TRUE
  MaxEntries = 2
  StartFails = TRUE
INVARIANTS CallsRunning BranchesIsolated EveryWayOnce IdsDistinct
PROPERTIES StopReturns
CHECK_DEADLOCK FALSE
