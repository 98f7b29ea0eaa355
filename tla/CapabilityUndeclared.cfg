SPECIFICATION Spec
CONSTANTS
  Names <- MCNames
  Ids <- MCIds
  MaxRequired = 2
CHECK_DEADLOCK FALSE
INVARIANT
  UndeclaredIsSkipped
