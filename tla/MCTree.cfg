\* An identification ends with an answer.
CONSTANTS
  Grid <- TreeGrid
  Maps <- TreeMaps
  Fields <- TreeFields
  Confirm = 2
  Reports <- TreeReports
SPECIFICATION Spec
INVARIANTS AnswersRestOnEvidence SeparableNeverShare
PROPERTIES OnlyExactReportsCount
CHECK_DEADLOCK FALSE
