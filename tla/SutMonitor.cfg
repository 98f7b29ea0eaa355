SPECIFICATION FairSpec
CONSTANTS
  NumTests = 3
  NumLines = 4
  PipeSize = 2
  HasStartMatcher = TRUE
  HasErrorMatcher = TRUE
CHECK_DEADLOCK FALSE
INVARIANTS
  BlameExact
PROPERTIES
  WriterGoesOn
  TeardownEnds
  MonitorEnds
