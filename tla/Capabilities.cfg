SPECIFICATION FairSpec
CONSTANTS
  Names <- MCNames
  Ids <- MCIds
  MaxRequired = 2
CHECK_DEADLOCK FALSE
INVARIANTS
  RunsOnlyIfAllowed
PROPERTIES
  ImplementsGate
  ResolutionEnds
