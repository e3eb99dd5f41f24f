---------------------------- MODULE MCAutoconfig ----------------------------
(* Model-checking instance of Autoconfig: a few flag values per hardware   *)
(* flag (negative = leave to autoconfigure, zero, positive) and machines   *)
(* with and without each Realm module, with failing and zero resources.    *)
(* --gpus also takes INT32_MAX, the value ScaledVar reads as unset.        *)
EXTENDS Autoconfig

MC_UserValues ==
  [cpus |-> {2}, gpus |-> {-1, 1, UNSET32}, omps |-> {0, 2}, ompthreads |-> {0},
   utility |-> {0}, sysmem |-> {}, numamem |-> {0}, fbmem |-> {},
   zcmem |-> {-1}, regmem |-> {}]
MC_ResGpus == {-1, 2}
MC_ResCpus == {-1, 0, 6}
MC_ResSysmem == {-1, 4000}
MC_ResFbmem == {1000}
MC_NumaMems == {<<3000>>, <<3000, 3000>>}
\* A CUDA module that accepts every property, and one that refuses zcmem.
MC_Rejects == {{}, {"zcmem"}}

\* Flags restricted to the values "must be >=0" allows.
MC_DocumentedValues ==
  [cpus |-> {0, 2}, gpus |-> {0, 1}, omps |-> {0, 2}, ompthreads |-> {0, 1},
   utility |-> {}, sysmem |-> {}, numamem |-> {}, fbmem |-> {},
   zcmem |-> {}, regmem |-> {}]

=============================================================================
