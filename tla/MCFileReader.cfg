SPECIFICATION SpecRunnable
CONSTANTS
  MaxCells = 4
  MaxLogSize = 4
  FingerprintSize = 3
  ForcePeriods = {0, 1}
  MaxKnown = 2
  MaxRestarts = 1
  MaxBlanks = 1
  SplitModes = {"newline", "line_end", "line_start", "nop"}
INVARIANTS OffsetsDelivered EntriesAreRecords
PROPERTIES RecordsDelivered
CHECK_DEADLOCK FALSE
