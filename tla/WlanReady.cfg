SPECIFICATION Spec
CONSTANTS
  BusCap = 2
  EvqCap = 2
  Script = {"connect", "disconnect"}
  LateIp = TRUE
INVARIANTS
  ReadyMeansConnected
