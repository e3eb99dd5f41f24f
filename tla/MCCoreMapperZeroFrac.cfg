CONSTANTS
  FracEnvs <- MC_FracEnvsZero
  TestEnvs <- MC_TestEnvs
  Machines <- MC_Machines
  FracDefault = 1
  FracTest = 2
  Tunables = {"TOTAL_CPUS", "TOTAL_GPUS", "TOTAL_OMPS", "NUM_NODES", "HAS_SOCKET_MEM", "FIELD_REUSE_SIZE", "OTHER"}
  TargetOptions <- MC_TargetOptions
  MaxQueries = 2
SPECIFICATION Spec
INVARIANT NoDivisionByZero
CHECK_DEADLOCK FALSE
