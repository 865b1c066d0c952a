SPECIFICATION Spec
CONSTANTS
  MaxCells = 4
  MaxLogSize = 4
  FingerprintSize = 3
  ForcePeriods = {3}
  MaxKnown = 2
  MaxRestarts = 0
  MaxBlanks = 2
  SplitModes = {"newline"}
PROPERTIES RecordsDelivered
CHECK_DEADLOCK FALSE
