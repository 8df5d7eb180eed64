SPECIFICATION Spec
CONSTANTS
  Word = 8
  Chip = 7
  Address = 2
  Size = 4
  Sector = 2
  Names = {a, b, c, l}
  LongNames = {l}
  MaxFiles = 2
  PageLen = 2
  Objs = {o1, o2, r}
  RomObjs = {r}
  PoolSize = 4
  LineLen <- LineLens
  BufLen = 5
  MaxCalls = 3
  BusCap = 2
  QueueSize = 2
  RingCap = 4
  FifoCap = 3
  Threshold = 2
  DualCore = FALSE
INVARIANTS
  FlashAsReported
  FilesAnswerTrue
  ObjectsBacked
  LinesAreWhole
  NoLostWakeup
PROPERTIES
  HangIsCaught
  BytesAreRead
CHECK_DEADLOCK FALSE
