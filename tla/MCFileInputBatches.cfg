SPECIFICATION Spec
CONSTANTS
  NumPaths = 2
  DirPaths = {}
  DirSize = 3
  MaxInodes = 2
  MaxLines = 2
  MaxOps = 1
  EnvOps = {"move", "remove", "truncate"}
  MaxStarts = 2
  Interrupts = {"stop", "crash"}
  PersisterFails = FALSE
  FingerprintSize = 2
  MaxConcurrentFiles = 2
  StartAtBeginning = TRUE
  MaxGeneration = 1
  DetectLost = TRUE
PROPERTIES Delivered
CHECK_DEADLOCK FALSE
