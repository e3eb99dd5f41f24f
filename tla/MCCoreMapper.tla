---------------------------- MODULE MCCoreMapper ----------------------------
(* A GPU machine, a machine with socket memory and one with only system  *)
(* memory; the defaults of env_defaults.h (not in the source) are 1 and  *)
(* 2 here.                                                                *)
EXTENDS CoreMapper

MC_Machine(gpus, socket, fb, sys) ==
  [cpus |-> 2, gpus |-> gpus, omps |-> 1, nodes |-> 1,
   socket_mem |-> socket, fb_mem |-> fb, sys_mem |-> sys]

MC_Machines == {MC_Machine(2, 6, 8, 4), MC_Machine(0, 6, 0, 4), MC_Machine(0, 0, 0, 4)}
Unset == <<"unset", 0, 0>>
Num(q, r) == <<"num", q, r>>
ERange == <<"erange", 0, 0>>

\* Unset, 3, 0, and 2^32 which the cast to uint32_t turns into 0.
MC_FracEnvsZero == {Unset, Num(0, 0), Num(0, 3), Num(1, 0)}
\* Targets as numbers (1 CPU, 2 OMP, 3 GPU), in the runtime's order of
\* preference.
MC_TargetOptions == {<<1>>, <<3, 1>>, <<3, 2, 1>>}
MC_TestEnvs == {Unset, Num(0, 0), Num(-1, 5), Num(0, 1), ERange}
====
