SPECIFICATION Spec
CONSTANTS
  OperatorTypes <- TypeNames
  Names <- MCNames
  Configs <- Syslog
  DefaultOutput = FALSE
  MaxEntries = 1
  StartFails = FALSE
INVARIANTS CallsRunning
CHECK_DEADLOCK FALSE
