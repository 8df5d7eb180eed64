SPECIFICATION FairSpec
CONSTANTS
  BusCap = 2
  EvqCap = 3
  Script = {"connect", "disconnect", "ap_start"}
  LateIp = FALSE
INVARIANTS
  ReconnectInFlight
PROPERTIES
  Reconnects
