\* The fault demo at its default rate, and at a short odd one with a byte that
\* fills the queue; every probe against both groups, the first at each phase.
CONSTANTS
  Depth = 8
  MemWords = 64
  TimeSpan = 1024
  Words <- CampaignWords
  HostBytes = {0}
  Inputs <- Levels
  Deselects = FALSE
  Resets = FALSE
  Unknown = Unknown
  Programs <- NoPrograms
  Jobs <- CampaignJobs
  FaultJobs <- Faults
  TickPhases = {0, 1, 2, 3}
  ProbePicks = {"P1", "P2", "P3", "P4"}
SPECIFICATION CampaignSpec
INVARIANTS CapturesAreTrue FaultWindowExact VerdictsRoundTrip TwinAgrees
