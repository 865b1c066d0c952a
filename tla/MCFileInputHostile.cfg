SPECIFICATION Spec
CONSTANTS
  NumPaths = 3
  DirPaths = {2}
  DirSize = 3
  MaxInodes = 2
  MaxLines = 3
  MaxOps = 1
  EnvOps = {"move", "remove", "copy", "truncate"}
  MaxStarts = 1
  Interrupts = {}
  PersisterFails = FALSE
  FingerprintSize = 2
  MaxConcurrentFiles = 4
  StartAtBeginning = FALSE
  MaxGeneration = 1
  DetectLost = FALSE
INVARIANTS FingerprintsBounded
CHECK_DEADLOCK FALSE
