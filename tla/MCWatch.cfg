\* Edges captured on one lane while the host pops, clears errors and sends
\* commands at any time; the timestamp wraps after three clocks. Deselection and reset
\* come at any time.
CONSTANTS
  Depth = 2
  MemWords = 4
  TimeSpan = 3
  Words <- WatchWords
  HostBytes = {129, 130, 200}
  Inputs <- WatchPins
  Deselects = TRUE
  Resets = TRUE
  Unknown = Unknown
  Programs <- WatchPrograms
SPECIFICATION LoadedSpec
PROPERTIES LossIsReported CheckedStaysTrue
