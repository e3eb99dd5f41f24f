CONSTANTS
  Handles = {h1, h2, h3}
  Values = {1, 2}
  MaxAllocs = 4
  AssignToMovedFrom = FALSE
SYMMETRY Symm
SPECIFICATION Spec
INVARIANTS Ownership 
PROPERTY ValueSemantics
CHECK_DEADLOCK FALSE
