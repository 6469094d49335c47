\* Liveness of every program of up to three words over the instructions that
\* take time or may hold, under a clock that keeps running;
\* the timestamp tells one clock of a run from the next.
CONSTANTS
  Depth = 1
  MemWords = 3
  TimeSpan = 2
  Words <- HoldingWords
  HostBytes = {1}
  Inputs <- HoldingPins
  Deselects = FALSE
  Resets = FALSE
  Unknown = Unknown
  Programs <- HoldingPrograms
SPECIFICATION FairLoadedSpec
PROPERTY Progress
