CONSTANTS
  Dims = 3
  ExtentVals <- MC_Extents
  MaxBroadcast = 2
SPECIFICATION Spec
INVARIANTS TypeOK PrintsArray HostCopyCovers
CHECK_DEADLOCK FALSE
