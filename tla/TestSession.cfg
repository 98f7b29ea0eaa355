SPECIFICATION SessionFairSpec
CONSTANT NumTests = 3
CHECK_DEADLOCK FALSE
INVARIANTS
  CleanStart
  BlamedOnce
PROPERTIES
  ImplementsVerdicts
  StopEnds
  ThreadEnds
