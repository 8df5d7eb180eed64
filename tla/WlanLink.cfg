SPECIFICATION Spec
CONSTANTS
  BusCap = 2
  EvqCap = 2
  Script = {"connect", "disconnect", "mode", "ap_start", "ap_stop", "sc_start", "sc_stop"}
  LateIp = FALSE
INVARIANTS
  TypeOK
  BssidFollowsLink
  StatusFollowsLink
  SessionIsKnown
  ApLinkFollows
PROPERTIES
  IpReadyInOrder
  ImplementsFeed
