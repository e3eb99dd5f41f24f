CONSTANTS
  StoreIds <- MC_StoreIds
  Stores <- MC_Stores
  Procs = 2
  MinShardVol = 2
  WindowSize = 2
  MaxOps = 3
  KeyTag = 1
SPECIFICATION Spec
INVARIANT TypeOK
CHECK_DEADLOCK FALSE
