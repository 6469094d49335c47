\* Transmit and receive bytes against a looping program, two slots a queue;
\* the host strobes bytes and commands at any time and may drop RUN; deselection
\* and reset come at any time.
CONSTANTS
  Depth = 2
  MemWords = 5
  TimeSpan = 1
  Words <- EchoWords
  HostBytes = {4, 128}
  Inputs <- EchoPins
  Deselects = TRUE
  Resets = TRUE
  Unknown = Unknown
  Programs <- EchoPrograms
SPECIFICATION LoadedSpec
INVARIANT NothingUnwrittenIsRead
PROPERTY CheckedStaysTrue
