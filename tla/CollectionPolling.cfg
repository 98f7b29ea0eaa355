SPECIFICATION FairSpec
CONSTANTS
  Items = {a, b, c, d}
  Target = a
  Removable = {a, b}
  Layouts = {"inline", "paged", "looped"}
  PageSize = 2
  MaxDepth = 3
  Tries = 2
  Faults = TRUE
CHECK_DEADLOCK FALSE
INVARIANTS
  SeenWasThere
  StaysSeen
  PresenceIsRight
  AbsenceIsRight
PROPERTY
  PollEnds
