SPECIFICATION MCSpec
CONSTANTS
  Callers = {c1, c2}
  Nobody = nobody
  Values = {v1, v2, v3, v4}
  Matching = {v1, v2, v3}
  MaxSize = 2
  Wrap = 16
  Saturates = FALSE
  Years = {2023, 2024, 2025}
  Chains <- MCChains
  Arrivals <- MCArrivals
  Days <- MCDays
  Epochs <- MCEpochs
  SeverityConfigs <- MCSeverityConfigs
  MaxText = 5
  MaxPairs = 2
INVARIANTS CacheSound CountBounded StepsIndependent SentOnce TimesRight MappingRight FormatsRight
PROPERTIES ThrottlingEnds
