CONSTANTS
  Items <- MC_Items
  MaxItems = 2
  PackBases <- MC_PackBases
  Shifts = {0}
  Truncs = {1, 2}
  Garbage = Garbage
SPECIFICATION Spec
INVARIANT NoOverrun
CHECK_DEADLOCK FALSE
