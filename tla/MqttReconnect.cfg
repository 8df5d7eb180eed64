SPECIFICATION Spec
CONSTANTS
  BusCap = 1
  Clients = {h1, h2}
  HeapMax = 2
  PubMax = 0
  Reconnect = TRUE
INVARIANTS
  CloseReleases
CHECK_DEADLOCK FALSE
