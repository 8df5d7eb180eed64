SPECIFICATION FairSpec
CONSTANTS
  BusCap = 3
  Clients = {h1}
  HeapMax = 4
  Reconnect = FALSE
  PubMax = 2
INVARIANTS
  NothingDangles
  PayloadsOwned
  SentAfterPublish
  SubscribedWhenSettled
PROPERTIES
  CloseReturns
CHECK_DEADLOCK FALSE
