SPECIFICATION Spec
CONSTANTS
  NumPaths = 2
  DirPaths = {}
  DirSize = 3
  MaxInodes = 2
  MaxLines = 3
  MaxOps = 2
  EnvOps = {"move", "remove", "copy"}
  MaxStarts = 1
  Interrupts = {}
  PersisterFails = FALSE
  FingerprintSize = 2
  MaxConcurrentFiles = 2
  StartAtBeginning = TRUE
  MaxGeneration = 3
  DetectLost = TRUE
INVARIANTS HandlesBounded OldestFirst NoGaps NoDuplicates FingerprintsSound
CHECK_DEADLOCK FALSE
