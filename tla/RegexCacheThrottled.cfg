SPECIFICATION Spec
CONSTANTS
  Callers = {c1}
  Nobody = nobody
  Values = {v1, v2, v3, v4, v5}
  Matching = {v1, v2, v3, v4, v5}
  MaxSize = 4
  Wrap = 16
  Saturates = FALSE
PROPERTIES CountReset
CHECK_DEADLOCK FALSE
