CONSTANTS
  Handles = {h1, h2, h3}
  Values = {1, 2}
  MaxAllocs = 4
  AssignToMovedFrom = TRUE
SYMMETRY Symm
SPECIFICATION Spec
INVARIANT MemorySafe
CHECK_DEADLOCK FALSE
