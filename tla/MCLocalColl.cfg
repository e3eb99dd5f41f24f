CONSTANTS
  N <- MC_N
  Rounds <- MC_Rounds
  Calls <- MC_Calls
  ReuseId = FALSE
  NULL = NULL
SPECIFICATION Spec
INVARIANT TypeOK
INVARIANT NoUseAfterClear
INVARIANT CollDelivers
PROPERTY Termination
PROPERTY Rendezvous
CHECK_DEADLOCK FALSE
