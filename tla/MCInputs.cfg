SPECIFICATION MCSpec
CONSTANTS
  Unreadable = {2}
  MaxEvents = 3
  MaxStarts = 3
  MaxFailures = 1
  MaxReads = 2
  Namespaces = {1, 2, 3}
  Configs <- K8sConfigs
  MaxChanges = 2
  Peers = {p1, p2}
  MaxLines = 1
  Lifetime = 2
  Interval = 2
  MaxLookup = 1
  MaxClock = 7
INVARIANTS CursorSound WatchedOnce NothingLeft HostNotStale
PROPERTIES ImplementsDelivery Rewatched ClientsServed AllStopsReturn
CHECK_DEADLOCK FALSE
