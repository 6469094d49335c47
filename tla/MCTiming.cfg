\* Every program of up to three words over the timed instructions, one lane
\* that changes at any time, RUN dropped and ena lowered at any time.
CONSTANTS
  Depth = 1
  MemWords = 3
  TimeSpan = 1
  Words <- TimingWords
  HostBytes = {0}
  Inputs <- RunAndLane
  Deselects = TRUE
  Resets = FALSE
  Unknown = Unknown
  Programs <- TimingPrograms
SPECIFICATION LoadedTimingSpec
INVARIANT HoldsExactly
PROPERTIES PinsHold FaultsOnNthMiss
