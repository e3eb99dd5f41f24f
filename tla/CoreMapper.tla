------------------------------ MODULE CoreMapper ------------------------------
(***************************************************************************)
(* The core mapper of src/src/core/mapping/detail/core_mapper.cc: its     *)
(* constructor reads LEGATE_FIELD_REUSE_FRAC through extract_env (and     *)
(* LEGATE_TEST when that is unset), parsing with safe_strtoll<uint32_t>   *)
(* (cpp/legate/utilities/detail/strtoll.h); the runtime then asks it for  *)
(* tunable values, task targets and store mappings, any number of times, *)
(* in any order.  The newer CoreMapper of src/src/cpp/legate/mapping/     *)
(* detail/core_mapper.cc, built instead of it in the cpp/ tree, has no    *)
(* members, keeps the base class's task_target and aborts on every        *)
(* tunable.                                                                *)
(*                                                                         *)
(* An environment variable is <<"unset", 0, 0>>, <<"num", q, r>> when    *)
(* std::strtoll reads the long long q * 2^32 + r (0 <= r < 2^32) from it, *)
(* or <<"erange", 0, 0>> when the number is out of the range of long long *)
(* (errno is ERANGE).  Memory sizes are small numbers in one unit.       *)
(***************************************************************************)
EXTENDS Integers, Sequences

CONSTANTS
  FracEnvs,        \* the values LEGATE_FIELD_REUSE_FRAC may have
  TestEnvs,        \* the values LEGATE_TEST may have
  Machines,        \* [cpus, gpus, omps, nodes, socket_mem, fb_mem, sys_mem]
  FracDefault,     \* FIELD_REUSE_FRAC_DEFAULT
  FracTest,        \* FIELD_REUSE_FRAC_TEST
  Tunables,        \* the tunable ids the runtime may ask for
  TargetOptions,   \* the option vectors task_target may be handed
  MaxQueries       \* bound on tunable_value calls

VARIABLES
  kind,      \* "core" or "cpp": which CoreMapper the build contains
  env,       \* [frac, test]: the process environment
  machine,   \* the LocalMachine the mapper sees
  state,     \* "init", "ready", "threw", "aborted" or "crashed"
  frac,      \* CoreMapper::field_reuse_frac
  answers    \* the mapper's answers, in order: <<tunable id, value>>,
             \* <<"task_target", target>> or <<"store_mappings", count>>

vars == <<kind, env, machine, state, frac, answers>>

\* safe_strtoll<T>: throws on ERANGE, otherwise static_cast<T> of the
\* long long: for uint32_t the low 32 bits r, for a narrower unsigned type
\* r modulo 2^width; for long long only its sign matters here.
SafeStrtoll(s, width) ==
  IF s[1] = "erange" THEN [ok |-> FALSE, v |-> 0]
  ELSE [ok |-> TRUE,
        v |-> CASE width = 0 -> IF s[2] > 0 \/ (s[2] = 0 /\ s[3] > 0) THEN 1
                                ELSE IF s[2] = 0 /\ s[3] = 0 THEN 0 ELSE -1
                [] width = 32 -> s[3]
                [] OTHER -> s[3] % (2^width)]

\* extract_env(env_name, default_value, test_value).
ExtractEnv(value, default, test, legateTest) ==
  IF value[1] = "unset"
    THEN IF legateTest[1] # "unset"
           THEN LET t == SafeStrtoll(legateTest, 0)
                IN IF ~t.ok THEN t
                   ELSE [ok |-> TRUE, v |-> IF t.v > 0 THEN test ELSE default]
           ELSE [ok |-> TRUE, v |-> default]
    ELSE SafeStrtoll(value, 32)

\* The memory FIELD_REUSE_SIZE is a fraction of.
GlobalMemSize(m) ==
  IF m.gpus > 0 THEN m.fb_mem ELSE IF m.socket_mem > 0 THEN m.socket_mem ELSE m.sys_mem

\* CoreMapper::tunable_value: one case per core tunable (the counts as
\* int32, HAS_SOCKET_MEM as a bool, FIELD_REUSE_SIZE as
\* global_mem_size / field_reuse_frac), LEGATE_ABORT for any other id.
\* An unsigned division by zero is undefined behaviour (SIGFPE on x86).
TunableValue(id, m, f) ==
  CASE id = "TOTAL_CPUS" -> [st |-> "ok", v |-> m.cpus]
    [] id = "TOTAL_GPUS" -> [st |-> "ok", v |-> m.gpus]
    [] id = "TOTAL_OMPS" -> [st |-> "ok", v |-> m.omps]
    [] id = "NUM_NODES" -> [st |-> "ok", v |-> m.nodes]
    [] id = "HAS_SOCKET_MEM" -> [st |-> "ok", v |-> IF m.socket_mem > 0 THEN 1 ELSE 0]
    [] id = "FIELD_REUSE_SIZE" /\ f # 0 -> [st |-> "ok", v |-> GlobalMemSize(m) \div f]
    [] id = "FIELD_REUSE_SIZE" -> [st |-> "div_by_zero", v |-> 0]
    [] OTHER -> [st |-> "abort", v |-> 0]

\* The newer CoreMapper::tunable_value: LEGATE_ABORT("Tunable values are no
\* longer supported") whatever the id.
CppTunableValue(id) == [st |-> "abort", v |-> 0]

Init ==
  /\ kind \in {"core", "cpp"}
  /\ env \in [frac : FracEnvs, test : TestEnvs]
  /\ machine \in Machines
  /\ state = "init"
  /\ frac = 0
  /\ answers = <<>>

\* create_core_mapper: the member initializer of field_reuse_frac runs
\* extract_env; a throw from safe_strtoll escapes the constructor.
\* The newer class has no members: construction cannot fail.
CreateMapper ==
  /\ state = "init"
  /\ kind = "core"
  /\ LET r == ExtractEnv(env.frac, FracDefault, FracTest, env.test)
     IN IF r.ok THEN state' = "ready" /\ frac' = r.v
               ELSE state' = "threw" /\ UNCHANGED frac
  /\ UNCHANGED <<kind, env, machine, answers>>

CreateCppMapper ==
  /\ state = "init"
  /\ kind = "cpp"
  /\ state' = "ready"
  /\ UNCHANGED <<kind, env, machine, frac, answers>>

\* Runtime::get_tunable: a TunableLauncher for the id on the library's
\* mapper; select_tunable_value calls the mapper's tunable_value and the
\* future returns its Scalar.
Query(id) ==
  /\ state = "ready"
  /\ Len(answers) < MaxQueries
  /\ LET r == IF kind = "core" THEN TunableValue(id, machine, frac) ELSE CppTunableValue(id)
     IN CASE r.st = "ok" -> answers' = Append(answers, <<id, r.v>>) /\ UNCHANGED state
          [] r.st = "abort" -> state' = "aborted" /\ UNCHANGED answers
          [] OTHER -> state' = "crashed" /\ UNCHANGED answers
  /\ UNCHANGED <<kind, env, machine, frac>>

\* CoreMapper::task_target: options.front().
TaskTarget(options) ==
  /\ state = "ready"
  /\ kind = "core"
  /\ Len(answers) < MaxQueries
  /\ answers' = Append(answers, <<"task_target", Head(options)>>)
  /\ UNCHANGED <<kind, env, machine, state, frac>>

\* CoreMapper::store_mappings, in both classes: an empty vector, every
\* store left to the default mapping.
StoreMappings ==
  /\ state = "ready"
  /\ Len(answers) < MaxQueries
  /\ answers' = Append(answers, <<"store_mappings", 0>>)
  /\ UNCHANGED <<kind, env, machine, state, frac>>

Next ==
  \/ CreateMapper
  \/ CreateCppMapper
  \/ \E id \in Tunables : Query(id)
  \/ \E options \in TargetOptions : TaskTarget(options)
  \/ StoreMappings

Spec == Init /\ [][Next]_vars

-----------------------------------------------------------------------------
\* extract_env and tunable_value: whatever LEGATE_FIELD_REUSE_FRAC and
\* LEGATE_TEST hold, asking for FIELD_REUSE_SIZE never divides by zero.
NoDivisionByZero == state # "crashed"

=============================================================================
