\* handle_legate_args ends (normally or with an error) after its last call.
CONSTANTS
  UserValues <- MC_UserValues
  ResGpusIn <- MC_ResGpus
  ResCpusIn <- MC_ResCpus
  ResSysmemIn <- MC_ResSysmem
  ResFbmemIn <- MC_ResFbmem
  NumaMemsIn <- MC_NumaMems
  RejectsIn <- MC_Rejects
SPECIFICATION Spec
INVARIANT TypeOK
INVARIANT AbortOnlyOnUserValue
INVARIANT OmpCoresFit
INVARIANT ResourcesBacked
INVARIANT AutoConfigOffRespected
CHECK_DEADLOCK FALSE
