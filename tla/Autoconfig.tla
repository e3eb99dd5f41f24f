------------------------------ MODULE Autoconfig ------------------------------
(***************************************************************************)
(* handle_legate_args (src/src/cpp/legate/runtime/detail/                  *)
(* argument_parsing.cc): the LEGATE_CONFIG flags are parsed, --utility is  *)
(* clamped, every hardware flag left at a negative value is derived from   *)
(* the Realm modules and the machine by autoconfigure_*; the results are    *)
(* handed to the Realm modules (set_*_config_properties via               *)
(* try_set_property) and the need-CUDA/need-OpenMP checks end the call.    *)
(*                                                                         *)
(* The program is sequential: one step per function call, in the order    *)
(* handle_legate_args makes them.  The machine (Realm modules present,     *)
(* resources they report, build options) and the flags are chosen in Init *)
(* from small sets.  Memory sizes are counted in MiB: a ScaledVar's        *)
(* value() is raw_value() * MB and every quantity the code compares or     *)
(* divides is a multiple of MB, so the scale is left out.                  *)
(***************************************************************************)
EXTENDS Integers, Sequences

CONSTANTS
  UserValues,   \* UserValues[f]: values a user may pass for flag f (parse succeeded)
  ResGpusIn,    \* "gpu" resource of the cuda module; -1: get_resource fails
  ResCpusIn,    \* "cpu" resource of the core module; -1: get_resource fails
  ResSysmemIn,  \* "sysmem" resource of the core module (MiB); -1: fails
  ResFbmemIn,   \* free memory reported by the CUDA driver (MiB)
  NumaMemsIn,   \* sets of possible numa_mems vectors (MiB per domain)
  RejectsIn     \* sets of flags whose property a Realm module may refuse

\* Flags with a ScaledVar, and their compiled-in defaults (handle_legate_args).
Flags == {"cpus", "gpus", "omps", "ompthreads", "utility", "sysmem", "numamem",
          "fbmem", "zcmem", "regmem"}
Default ==
  [f \in Flags |->
     CASE f = "utility" -> 2
       [] f = "zcmem"   -> 128
       [] f = "regmem"  -> 0
       [] OTHER         -> -1]

MINIMAL_MEM == 256

\* Optional Realm modules; "core" is always loaded (LEGATE_CHECK(core)).
OptModules == {"cuda", "openmp", "numa"}

\* C++ integer division truncates toward zero.
CDiv(a, b) == IF a >= 0 THEN a \div b ELSE -((-a) \div b)

Outcomes == {"running", "ok", "config_error", "autoconfig_error",
             "runtime_error", "abort", "exit"}

Phases == <<"parse", "util", "gpus", "fbmem", "omps", "numamem", "cpus", "sysmem",
            "ompthreads", "core", "cuda", "openmp", "legion", "final", "done">>

VARIABLES
  env,        \* the machine: modules, resources, build options
  autoArg,    \* --auto-config in LEGATE_CONFIG: <<>> absent, <<b>> given as b
  autoConfig, \* Config::auto_config()
  used,       \* flags given in LEGATE_CONFIG (parser.is_used)
  given,      \* given[f]: raw_value() of flag f right after parse_args
  val,        \* val[f]: raw_value() of flag f's ScaledVar
  phase,      \* next call of handle_legate_args
  outcome,    \* how handle_legate_args ended
  failed,     \* flag whose LEGATE_CHECK failed ("none" otherwise)
  realm,      \* realm[f]: value set on the Realm module property of flag f
  needCuda,   \* Config::need_cuda()
  needOpenmp, \* Config::need_openmp()
  ompThreads, \* Config::num_omp_threads()
  onumaOff    \* "-ll:onuma 0" added to LEGION_DEFAULT_ARGS

vars == <<env, autoArg, autoConfig, used, given, val, phase, outcome, failed, realm, needCuda, needOpenmp,
          ompThreads, onumaOff>>

NotSet == -2

Machines ==
  [modules: SUBSET OptModules, buildCuda: BOOLEAN,
   buildOpenmp: BOOLEAN, resGpus: ResGpusIn, resCpus: ResCpusIn,
   resSysmem: ResSysmemIn, resFbmem: ResFbmemIn, numa: NumaMemsIn]

\* A Realm module exists only in a build with its backend.
Possible(m) ==
  /\ "cuda" \in m.modules => m.buildCuda
  /\ "openmp" \in m.modules => m.buildOpenmp

\* ScaledVar<T>::raw_value: a stored value equal to the UNSET sentinel,
\* numeric_limits<T>::max(), reads as the default.  For the int64 memory
\* flags the sentinel, 2^63 - 1, is beyond every value the model uses.
Int32Flags == {"cpus", "gpus", "omps", "ompthreads", "utility"}
UNSET32 == 2147483647
RawValue(f, v) == IF f \in Int32Flags /\ v = UNSET32 THEN Default[f] ELSE v

\* raw_value() of flag f after parse_args: argparse's store_into writes the
\* default into value_ when the argument is added and the user's value
\* when it is used.
Pick(f, u) == IF f \in u THEN {RawValue(f, v) : v \in UserValues[f]} ELSE {Default[f]}
Parsed(u) ==
  [cpus: Pick("cpus", u), gpus: Pick("gpus", u), omps: Pick("omps", u),
   ompthreads: Pick("ompthreads", u), utility: Pick("utility", u),
   sysmem: Pick("sysmem", u), numamem: Pick("numamem", u),
   fbmem: Pick("fbmem", u), zcmem: Pick("zcmem", u), regmem: Pick("regmem", u)]

Init ==
  /\ env \in {m \in Machines : Possible(m)}
  /\ autoArg \in {<<>>} \cup {<<b>> : b \in BOOLEAN}
  /\ autoConfig \in BOOLEAN
  /\ used \in SUBSET Flags
  /\ given \in Parsed(used)
  /\ val = given
  /\ phase = "parse"
  /\ outcome = "running"
  /\ failed = "none"
  /\ realm = [f \in Flags |-> NotSet]
  /\ needCuda = FALSE
  /\ needOpenmp = FALSE
  /\ ompThreads = 0
  /\ onumaOff = FALSE

Running == outcome = "running"

\* Position of the next call after phase p.
NextPhase(p) ==
  LET i == CHOOSE k \in 1 .. Len(Phases) : Phases[k] = p IN Phases[i + 1]

Advance == phase' = NextPhase(phase)

\* A ScaledVar keeps its value only when it is already non-negative.
Unset(f) == val[f] < 0

\* The numa_mems vector autoconfigure obtains: empty without a numa module.
NumaMems == IF "numa" \in env.modules THEN env.numa ELSE <<>>

Has(m) == m \in env.modules

\* get_resource returning false is modelled by the resource value -1.
Fails(r) == r = -1

-----------------------------------------------------------------------------
(* The autoconfigure_* functions: the value each derives for its flag and  *)
(* the condition under which it throws AutoConfigurationError.             *)

(* autoconfigure_gpus *)
GpusAuto == IF autoConfig /\ Has("cuda") THEN env.resGpus ELSE 0
GpusFails == autoConfig /\ Has("cuda") /\ Fails(env.resGpus)

(* autoconfigure_fbmem: 95% of the free memory of GPU 0 *)
FbmemAuto ==
  CASE val.gpus <= 0             -> 0
    [] autoConfig /\ Has("cuda")   -> (95 * env.resFbmem) \div 100
    [] OTHER                     -> MINIMAL_MEM

(* autoconfigure_omps: one group per GPU, else per NUMA domain (at least 1) *)
OmpsAuto ==
  CASE ~autoConfig \/ ~Has("openmp") -> 0
    [] val.gpus > 0                 -> val.gpus
    [] OTHER                        -> IF Len(NumaMems) > 1 THEN Len(NumaMems) ELSE 1

(* autoconfigure_numamem: 80% of a NUMA domain, split over its groups *)
NumamemAuto ==
  LET n == Len(NumaMems) IN
  CASE val.omps <= 0 \/ n = 0 \/ val.omps % n # 0 -> 0
    [] ~autoConfig -> MINIMAL_MEM
    [] OTHER     -> (8 * NumaMems[1]) \div (10 * ((val.omps + n - 1) \div n))

(* autoconfigure_cpus: all cores left after utility and GPU processors *)
CpusAuto ==
  CASE ~autoConfig \/ val.omps > 0 -> 1
    [] val.gpus > 0              -> val.gpus
    [] OTHER                     -> env.resCpus - val.utility - val.gpus
CpusFails ==
  /\ autoConfig /\ val.omps <= 0 /\ val.gpus <= 0
  /\ \/ Fails(env.resCpus)
     \/ env.resCpus = 0
     \/ env.resCpus - val.utility - val.gpus <= 0

(* autoconfigure_sysmem: 80% of system memory unless NUMA memory is used *)
SysmemAuto ==
  IF ~autoConfig \/ val.numamem > 0 THEN MINIMAL_MEM ELSE (8 * env.resSysmem) \div 10
SysmemFails == autoConfig /\ val.numamem <= 0 /\ Fails(env.resSysmem)

(* autoconfigure_ompthreads: the cores left, split over the OpenMP groups *)
\* Mutant: the GPU processors' cores are not subtracted.
OmpthreadsAutoBad ==
  CASE val.omps <= 0 -> 0
    [] ~autoConfig     -> 1
    [] OTHER -> CDiv(env.resCpus - val.cpus - val.utility, val.omps)

OmpthreadsAuto ==
  CASE val.omps <= 0 -> 0
    [] ~autoConfig     -> 1
    [] OTHER -> CDiv(env.resCpus - val.cpus - val.utility - val.gpus, val.omps)

\* Mutant: the "Not enough CPU cores" check is missing.
OmpthreadsFailsBad ==
  /\ val.omps > 0 /\ autoConfig
  /\ \/ Fails(env.resCpus)
     \/ env.resCpus = 0

OmpthreadsFails ==
  /\ val.omps > 0 /\ autoConfig
  /\ \/ Fails(env.resCpus)
     \/ env.resCpus = 0
     \/ OmpthreadsAuto <= 0

\* The derived value and the failure condition of the call at phase f.
AutoValue(f) ==
  CASE f = "gpus" -> GpusAuto [] f = "fbmem" -> FbmemAuto
    [] f = "omps" -> OmpsAuto [] f = "numamem" -> NumamemAuto
    [] f = "cpus" -> CpusAuto [] f = "sysmem" -> SysmemAuto
    [] f = "ompthreads" -> OmpthreadsAuto
AutoFails(f) ==
  CASE f = "gpus" -> GpusFails [] f = "cpus" -> CpusFails
    [] f = "sysmem" -> SysmemFails [] f = "ompthreads" -> OmpthreadsFails
    [] OTHER -> FALSE

AutoFlags == {"gpus", "fbmem", "omps", "numamem", "cpus", "sysmem", "ompthreads"}

ArgVars == <<autoArg, autoConfig>>

ConfigVars == <<realm, needCuda, needOpenmp, ompThreads, onumaOff>>

(* One autoconfigure_<f> call: a non-negative value is kept, otherwise the *)
(* derived value is set or AutoConfigurationError is thrown.               *)
Autoconfigure(f) ==
  /\ Running /\ phase = f
  /\ \/ /\ ~Unset(f)
        /\ Advance
        /\ UNCHANGED <<val, outcome>>
     \/ /\ Unset(f) /\ AutoFails(f)
        /\ outcome' = "autoconfig_error"
        /\ UNCHANGED <<val, phase>>
     \/ /\ Unset(f) /\ ~AutoFails(f)
        /\ val' = [val EXCEPT ![f] = AutoValue(f)]
        /\ Advance
        /\ UNCHANGED outcome
  /\ UNCHANGED <<env, ArgVars, used, given, failed, ConfigVars>>

-----------------------------------------------------------------------------
(* handle_legate_args, before the utility clamp: parser.parse_args exits  *)
(* the process on a malformed LEGATE_CONFIG; otherwise set_config_value   *)
(* copies each flag the user passed into Config, --auto-config first.     *)

\* Mutant: --auto-config is not copied into Config before autoconfigure.
SetConfigValueBad(arg, cfg) == cfg

\* set_config_value: Config's member is set only if parser.is_used(flag).
SetConfigValue(arg, cfg) == IF arg = <<>> THEN cfg ELSE arg[1]

ParseArgs ==
  /\ Running /\ phase = "parse"
  /\ \/ /\ outcome' = "exit"
        /\ UNCHANGED <<phase, autoConfig>>
     \/ /\ autoConfig' = SetConfigValue(autoArg, autoConfig)
        /\ Advance
        /\ UNCHANGED outcome
  /\ UNCHANGED <<env, autoArg, used, given, val, failed, ConfigVars>>

(* handle_legate_args: util.value.set(std::max(1, util.value.value())) *)
EnsureUtility ==
  /\ Running /\ phase = "util"
  /\ val' = [val EXCEPT !.utility = IF @ > 1 THEN @ ELSE 1]
  /\ Advance
  /\ UNCHANGED <<env, ArgVars, used, given, outcome, failed, ConfigVars>>

-----------------------------------------------------------------------------
(* try_set_property over a sequence of <<module, flag>> calls made in one  *)
(* try block: LEGATE_CHECK(value >= 0) aborts; a missing module is skipped *)
(* for a flag the user did not pass and throws ConfigurationError for one  *)
(* they did; a property in rej, which the module refuses (set_property    *)
(* returns false), throws ConfigurationError; otherwise the module        *)
(* property receives the value.  Each property is set once, so which ones *)
(* the module refuses is chosen at the call.  Returns                      *)
(* how the block ended, the flag it ended at and the Realm properties set *)
(* before that.                                                            *)
Present(m) == m = "core" \/ Has(m)

\* Mutant: the LEGATE_CHECK(value >= 0) is compiled out.
RECURSIVE TrySetAllBad(_, _, _)
TrySetAllBad(calls, r, rej) ==
  IF calls = <<>> THEN [res |-> "ok", flag |-> "none", realm |-> r]
  ELSE
    LET m == Head(calls)[1]
        f == Head(calls)[2]
    IN CASE ~Present(m) /\ f \in used -> [res |-> "throw", flag |-> f, realm |-> r]
         [] ~Present(m) -> TrySetAllBad(Tail(calls), r, rej)
         [] f \in rej -> [res |-> "throw", flag |-> f, realm |-> r]
         [] OTHER -> TrySetAllBad(Tail(calls), [r EXCEPT ![f] = val[f]], rej)

RECURSIVE TrySetAll(_, _, _)
TrySetAll(calls, r, rej) ==
  IF calls = <<>> THEN [res |-> "ok", flag |-> "none", realm |-> r]
  ELSE
    LET m == Head(calls)[1]
        f == Head(calls)[2]
    IN CASE val[f] < 0 -> [res |-> "abort", flag |-> f, realm |-> r]
         [] ~Present(m) /\ f \in used -> [res |-> "throw", flag |-> f, realm |-> r]
         [] ~Present(m) -> TrySetAll(Tail(calls), r, rej)
         [] f \in rej -> [res |-> "throw", flag |-> f, realm |-> r]
         [] OTHER -> TrySetAll(Tail(calls), [r EXCEPT ![f] = val[f]], rej)

\* The end of a set_*_config_properties call whose try block ended in t:
\* an abort ends the process, an exception is rethrown only in a build with
\* the backend (built) and swallowed otherwise.
EndTry(t, built) ==
  CASE t.res = "abort" -> outcome' = "abort" /\ failed' = t.flag
    [] t.res = "throw" /\ built -> outcome' = "config_error" /\ UNCHANGED failed
    [] OTHER -> UNCHANGED <<outcome, failed>>

(* set_core_config_properties *)
SetCore ==
  \E rej \in RejectsIn :
  LET t == TrySetAll(<<<<"core", "cpus">>, <<"core", "utility">>,
                       <<"core", "sysmem">>, <<"core", "regmem">>>>, realm, rej)
  IN /\ Running /\ phase = "core"
     /\ realm' = t.realm
     /\ EndTry(t, TRUE)
     /\ Advance
     /\ UNCHANGED <<env, ArgVars, used, given, val, needCuda, needOpenmp, ompThreads, onumaOff>>

(* set_cuda_config_properties *)
SetCuda ==
  \E rej \in RejectsIn :
  LET t == TrySetAll(<<<<"cuda", "gpus">>, <<"cuda", "fbmem">>,
                       <<"cuda", "zcmem">>>>, realm, rej)
  IN /\ Running /\ phase = "cuda"
     /\ realm' = t.realm
     /\ EndTry(t, env.buildCuda)
     /\ needCuda' = (needCuda \/ val.gpus > 0)
     /\ Advance
     /\ UNCHANGED <<env, ArgVars, used, given, val, needOpenmp, ompThreads, onumaOff>>

(* set_openmp_config_properties: with OpenMP groups, LEGATE_CHECK that    *)
(* there is at least one thread per group, then the try block.            *)
SetOpenmp ==
  \E rej \in RejectsIn :
  LET t == TrySetAll(<<<<"openmp", "omps">>, <<"openmp", "ompthreads">>,
                       <<"numa", "numamem">>>>, realm, rej)
  IN /\ Running /\ phase = "openmp"
     /\ \/ /\ val.omps > 0 /\ val.ompthreads <= 0
           /\ outcome' = "abort" /\ failed' = "ompthreads"
           /\ UNCHANGED <<realm, needOpenmp, ompThreads>>
        \/ /\ val.omps > 0 /\ val.ompthreads > 0
           /\ needOpenmp' = TRUE /\ ompThreads' = val.ompthreads
           /\ realm' = t.realm /\ EndTry(t, env.buildOpenmp)
        \/ /\ val.omps <= 0
           /\ realm' = t.realm /\ EndTry(t, env.buildOpenmp)
           /\ UNCHANGED <<needOpenmp, ompThreads>>
     /\ Advance
     /\ UNCHANGED <<env, ArgVars, used, given, val, needCuda, onumaOff>>

(* set_legion_default_args: NUMA-aligned OpenMP groups are switched off  *)
(* when there are groups but no NUMA memory.                             *)
SetLegionDefaultArgs ==
  /\ Running /\ phase = "legion"
  /\ onumaOff' = (val.omps >= 1 /\ val.numamem <= 0)
  /\ Advance
  /\ UNCHANGED <<env, ArgVars, used, given, val, outcome, failed, realm, needCuda,
                 needOpenmp, ompThreads>>

\* The last checks of handle_legate_args: a backend requested but not built.
NeedCudaUnmetBad == FALSE

NeedCudaUnmet == ~env.buildCuda /\ needCuda
NeedOpenmpUnmet == ~env.buildOpenmp /\ needOpenmp

FinalChecks ==
  /\ Running /\ phase = "final"
  /\ outcome' = IF NeedCudaUnmet \/ NeedOpenmpUnmet THEN "runtime_error" ELSE "ok"
  /\ Advance
  /\ UNCHANGED <<env, ArgVars, used, given, val, failed, ConfigVars>>

Next ==
  \/ ParseArgs
  \/ EnsureUtility
  \/ \E f \in AutoFlags : Autoconfigure(f)
  \/ SetCore
  \/ SetCuda
  \/ SetOpenmp
  \/ SetLegionDefaultArgs
  \/ FinalChecks

Spec == Init /\ [][Next]_vars

-----------------------------------------------------------------------------
(* Properties                                                              *)

TypeOK ==
  /\ autoArg \in {<<>>} \cup {<<b>> : b \in BOOLEAN} /\ autoConfig \in BOOLEAN
  /\ used \subseteq Flags
  /\ phase \in {Phases[i] : i \in 1 .. Len(Phases)}
  /\ outcome \in Outcomes
  /\ failed \in Flags \cup {"none"}
  /\ realm \in [Flags -> Nat \cup {NotSet}]
  /\ needCuda \in BOOLEAN /\ needOpenmp \in BOOLEAN /\ onumaOff \in BOOLEAN
  /\ ompThreads \in Int

\* Flags whose value autoconfigure derived (given as a negative value).
Derived == {f \in AutoFlags : given[f] < 0}

\* A LEGATE_CHECK of set_*_config_properties / try_set_property can only
\* fail on a value the user passed, never on one autoconfigure derived:
\* every autoconfigure_* result is non-negative and an OpenMP group never
\* gets zero threads.
AbortOnlyOnUserValue ==
  outcome = "abort" => failed \in used \ Derived

\* When autoconfigure_ompthreads splits the machine's cores over the OpenMP
\* groups, the CPU, utility, GPU and OpenMP processors together never use
\* more cores than the core module reported, whatever mix of flags the
\* user fixed.
OmpCoresFit ==
  (outcome = "ok" /\ autoConfig /\ "ompthreads" \in Derived /\ val.omps > 0)
    => val.cpus + val.utility + val.gpus + val.omps * val.ompthreads <= env.resCpus

\* handle_legate_args returns normally only if every GPU and OpenMP group
\* it configured is backed by a loaded Realm module that received the
\* count, and Legate's Config records the same OpenMP thread count: a
\* swallowed ConfigurationError never lets a run start without its backend.
ResourcesBacked ==
  outcome = "ok" =>
    /\ val.gpus > 0 => Has("cuda") /\ realm.gpus = val.gpus
    /\ val.omps > 0 => /\ Has("openmp")
                       /\ realm.omps = val.omps
                       /\ realm.ompthreads = val.ompthreads
                       /\ ompThreads = val.ompthreads

\* With --auto-config=false in LEGATE_CONFIG, handle_legate_args never
\* fails on a machine query and never turns on GPU or OpenMP processors the
\* user did not ask for: set_config_value must have copied the flag into
\* Config before autoconfigure_* read Config::auto_config().
AutoConfigOffRespected ==
  autoArg = <<FALSE>> =>
    /\ outcome # "autoconfig_error"
    /\ outcome = "ok" => \A f \in {"gpus", "omps"} \cap Derived : val[f] = 0

\* --ompthreads is documented as "must be >=0" like every other count: a
\* configuration whose flags are all non-negative is either accepted or
\* rejected with an exception, never ended by a failed LEGATE_CHECK.
NoAbortOnDocumentedFlags ==
  (\A f \in used : given[f] >= 0) => outcome # "abort"

=============================================================================
