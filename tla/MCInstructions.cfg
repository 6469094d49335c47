\* Every program of up to three words over the control, over the shift and over
\* the streaming instructions, with one lane that changes, a byte offered and RUN
\* dropped at any time.
CONSTANTS
  Depth = 1
  MemWords = 3
  TimeSpan = 1
  Words <- InstructionWords
  HostBytes = {128}
  Inputs <- InstructionPins
  Deselects = FALSE
  Resets = FALSE
  Unknown = Unknown
  Programs <- InstructionPrograms
SPECIFICATION LoadedSpec
INVARIANTS TypeOK WaitWithinLimit StreamingGate
