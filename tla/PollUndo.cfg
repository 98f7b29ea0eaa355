SPECIFICATION Spec
CONSTANTS
  Items = {a, b}
  Target = a
  Removable = {a}
  Layouts = {"inline", "paged"}
  PageSize = 1
  MaxDepth = 4
  Tries = 2
  Faults = FALSE
CHECK_DEADLOCK FALSE
INVARIANT
  UndoIsChecked
