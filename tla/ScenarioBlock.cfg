SPECIFICATION Spec
CONSTANTS
  Script <- MCScript
  ServerCollections <- MCServerCollections
  StaticCollections <- MCStaticCollections
  Course <- MCCourse
  Tries = 5
  Delay = 4
CHECK_DEADLOCK FALSE
INVARIANT
  BlockNotDelivered
