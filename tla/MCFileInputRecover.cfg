SPECIFICATION Spec
CONSTANTS
  NumPaths = 2
  DirPaths = {}
  DirSize = 3
  MaxInodes = 1
  MaxLines = 2
  MaxOps = 1
  EnvOps = {"move", "remove", "truncate"}
  MaxStarts = 3
  Interrupts = {"stop", "crash"}
  PersisterFails = TRUE
  FingerprintSize = 2
  MaxConcurrentFiles = 2
  StartAtBeginning = TRUE
  MaxGeneration = 1
  DetectLost = TRUE
INVARIANTS NoDuplicates CheckpointDelivered
PROPERTIES Drained
CHECK_DEADLOCK FALSE
