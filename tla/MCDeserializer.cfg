CONSTANTS
  Items <- MC_Items
  MaxItems = 3
  PackBases <- MC_PackBases
  Shifts = {0}
  Truncs = {0, 1}
  Garbage = Garbage
SPECIFICATION Spec
INVARIANTS TypeOK RoundTrip ConsumesExactly 
CHECK_DEADLOCK FALSE
