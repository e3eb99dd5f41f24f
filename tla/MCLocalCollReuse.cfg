\* Two successive communicators created with the same unique_id, so that
\* both lifetimes share one ThreadComm (spec 5: reuse of the same unique_id
\* after comm_destroy must leave no dangling state).
CONSTANTS
  N <- MC_N
  Rounds <- MC_Rounds
  Calls <- MC_NoCalls
  ReuseId = TRUE
  NULL = NULL
SPECIFICATION Spec
PROPERTY Termination
CHECK_DEADLOCK FALSE
