\* The loader from reset: two-word store, three words, every combination of LOAD, RUN and
\* REWIND on every clock, deselection and reset at any time.
CONSTANTS
  Depth = 1
  MemWords = 2
  TimeSpan = 1
  Words <- LoaderWords
  HostBytes = {0}
  Inputs <- AnyControl
  Deselects = TRUE
  Resets = TRUE
  Unknown = Unknown
SPECIFICATION RunSpec
INVARIANTS FailClosedSafely NothingUnwrittenIsRead
PROPERTIES EachRiseDecidesOnce ImplementsContract
