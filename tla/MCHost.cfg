\* The Host helper against programs that never stream, stream late, push and
\* halt, or capture until told to stop; one lane moves at any time.  Three clocks a phase are the
\* fewest the strobe needs, two polls the fewest that repeat.
CONSTANTS
  Depth = 2
  MemWords = 8
  TimeSpan = 1
  Words <- LinkWords
  HostBytes <- LinkBytes
  Inputs <- Levels
  Deselects = FALSE
  Resets = FALSE
  Unknown = Unknown
  Programs <- LinkPrograms
  PhaseClocks = 3
  PollLimit = 2
  SendBytes = {24}
  LaneLevels = {{}, {4}}
SPECIFICATION FairLinkSpec
INVARIANT ReadyMeansStreaming
PROPERTIES ExchangesActOnce PopsWhatItRead NothingLeftBehind CallsEnd
