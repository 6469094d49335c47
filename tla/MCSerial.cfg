\* The serial programs at their shortest periods, with a host that is late with
\* its bytes and with taking the answers, and queues shorter than the transfer.
CONSTANTS
  Depth = 2
  MemWords = 32
  TimeSpan = 1
  Words <- SerialWords
  HostBytes <- SerialBytes
  Inputs <- Levels
  Deselects = FALSE
  Resets = FALSE
  Unknown = Unknown
  Programs <- NoPrograms
  Jobs <- SerialJobs
  Answers = {105, 254}
  Sends <- SerialSends
SPECIFICATION SerialSpec
INVARIANTS TransferExact BytesCross StallsAtRest
PROPERTIES EdgesAreClean BitsLastExactly
