\* Each I2C generator at the smallest half period and a limit of six; stretches
\* of none, exactly the limit, one more and far more, at every release.
CONSTANTS
  Depth = 2
  MemWords = 64
  TimeSpan = 1
  Words <- I2CWords
  HostBytes <- I2CBytes
  Inputs <- Levels
  Deselects = FALSE
  Resets = FALSE
  Unknown = Unknown
  Programs <- NoPrograms
  Jobs <- I2CJobs
  Stretches = {0, 6, 7, 12}
  ReadBytes = {90, 195}
  Rivals = {FALSE, TRUE}
SPECIFICATION I2CSpec
INVARIANTS TransactionsComplete NackGetsStop StretchLimitExact StallsWithClockLow
PROPERTIES FramedCleanly BusIsReleased
