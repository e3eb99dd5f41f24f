# TLA+ models of the Legate core

This directory holds TLA+ models of parts of Legate's C++ core. Each model is checked with TLC:

- the thread-local collective backend;
- the runtime's argument parsing and hardware autoconfiguration;
- the operation pipeline (Copy and Fill from submission to launch, with the partitioner's Strategy);
- the task-argument deserializer;
- the debug printer of dense arrays;
- the `Scalar` value handle;
- the core mapper's tunables and environment parsing;
- the store transformations of `LogicalStore`.

`PROJECT.json` lists:

- the components;
- the TLC runs;
- the mutants that show each property can fail;
- the map from every TLA+ definition to the source lines it models;
- the findings;
- the hazards of the code.

## 1. Inventory of the system

| Part | Source | State | Operations | Interacts with |
|---|---|---|---|---|
| Local collective backend | `comm/detail/thread_comm.cc`, `core/comm/coll.h` | per unique_id a `ThreadComm`: pthread barrier, `ready_flag_`, `entered_finalize_`, buffer and displacement tables | `init`, `finalize`, `clear`, `barrier_local`; `LocalNetwork::comm_create`, `alltoallv`, `alltoall`, `allgather`, `comm_destroy` | the worker threads of one process, one per rank |
| MPI collective backend | `comm/detail/mpi_network.h` | MPI communicators, `mpi_tag_ub_` | tag derivation, `comm_create`, collectives | other processes |
| Autoconfiguration | `runtime/detail/argument_parsing.cc` | the `ScaledVar` of every flag, `Config` need-flags, Realm module properties | parse, autoconfigure_*, set_*_config_properties, final checks | Realm modules (core, cuda, openmp, numa) |
| Operation lifecycle | `operation/detail/copy.cc`, `operation.h`, `fill_launcher.cc`, `projection.cc`, `copy_launcher.h`, `fill.h`, `task_launcher.h` | declared partition symbols, constraints, the launch domain | validate, add_to_solver, launch (index, or single when the domain is null) | Partitioner, Strategy, the external scheduler |
| Partitioner/Strategy | `partitioning/partitioner.h` (two versions) | assignments, launch domains, key partition, fields of unbound stores | insert, find, launch_domain, partition_stores | operations |
| Deserializer | `utilities/detail/deserializer.inl` | a byte span | align_for_unpack, unpack of scalars, vectors, domains, transforms | tasks |
| Scalar | `core/data/scalar.cc` | the owned `detail::Scalar*` `impl_` | constructors, copy, move, destructor, copy assignment, reads | every value passed to a task |
| Core mapper | `core/mapping/detail/core_mapper.cc`, `cpp/legate/mapping/detail/core_mapper.cc`, `utilities/detail/strtoll.h`, `core/runtime/runtime.inl` | `field_reuse_frac` from the environment, the local machine | construction, `tunable_value` (through `Runtime::get_tunable`), `task_target`, `store_mappings` | the runtime, which asks for tunables, targets and mappings |
| Debug printer | `core/utilities/debug.inl` | odometer point, offset, output, host copy | `print_dense_array` | accessors |
| Region manager | `runtime/detail/region_manager.h` | entries with their next field id | get_next_field_id, has_space | stores |

Hard behaviours:

- **Local backend.** N threads share one `ThreadComm` per unique_id.
  - Rank 0 initialises it; the others busy-wait on `ready()`.
  - `alltoallv`, `alltoall` and `allgather` run in phases: publish the send buffer in the shared table, barrier, copy from every peer, barrier, reset the own slot, barrier.
  - `comm_destroy` runs a barrier and then the finalize handshake: every thread increments `entered_finalize_`. Rank 0 waits for the counter to reach N, then destroys the barrier and clears `ready_flag_`. The others spin until the flag is false.
  - What can go wrong:
    - interleavings of threads around the flag;
    - teardown while a peer is still inside `pthread_barrier_wait`;
    - slot reuse between consecutive collectives;
    - deadlock when the threads disagree on the barrier sequence.
- **Autoconfiguration.** `handle_legate_args` runs strictly sequentially. Its hazards are numeric edges:
  - zero, negative and "unset" values;
  - integer division;
  - a `LEGATE_CHECK` that aborts on a value the help text allows;
  - partial failure: exceptions thrown halfway through a `try` block are swallowed when the backend is not built.
  - call order: `set_config_value` must copy `--auto-config` into `Config` before `autoconfigure_*` reads it, and each `autoconfigure_*` call depends on the results of the earlier ones.
  - a user value equal to the `INT32_MAX` sentinel of `ScaledVar`, which reads as "unset".
- **Operation pipeline.** Its hazards are protocol sequences:
  - validate before solve;
  - one launch per operation;
  - the fallback to a single dispatch when the launch domain is null;
  - key-partition tagging.

- **Value handles.** `Scalar` owns a raw pointer whose moved-from state is null.
- **Numeric edges.** `safe_strtoll<uint32_t>` truncates silently; `print_dense_array` sizes its host copy from strides that may all be zero.

## 2. Plan

Modules, most important first (all present unless marked planned):

1. `LocalColl` — the ThreadComm protocol with comm_create, alltoallv, alltoall, allgather and comm_destroy.
2. `Autoconfig` — handle_legate_args.
3. `OperationPipeline` — Copy and Fill from submission through the window flush, validate, partitioning and launch.
4. `Deserializer` — align_for_unpack and the recursive unpacking, checked against a reference packer.
5. `ScalarOwnership`, `CoreMapper`, `DensePrint` — the smaller components with their own hazards.
6. `CollRendezvous` and `ScalarValue` — abstract specifications that `LocalColl` and `ScalarOwnership` are shown to implement.
7. Not possible from this source: `MPITags` (the tag formulas have no body here; see section 5).

## 3. Modules and how they correspond to the code

### LocalColl (`LocalColl.tla`, instance `MCLocalColl.tla`)

There is one process per rank `t \in 0..N-1`. The variable `pc[t]` names the next call the thread makes.

**ThreadComm state.** Per communicator id:

- `ready[id]` is `ThreadComm::ready_flag_`. While it is true, the barrier and the buffer table are live, because `init` and `clear` are single steps.
- `entered[id]` is `entered_finalize_`.
- `buffers[id][s]` is the slot of sender `s`.
- `barCount`, `barGen` and `myGen` model the pthread barrier as a generation counter.

**Barrier.** `pthread_barrier_wait` is split into two steps:

- `BarrierArrive` enters the call; the last arrival opens the generation.
- `BarrierLeave` returns from it.

A thread that has been released but has not yet returned still counts as inside the barrier. That is the window finalize has to respect.

**Translated from `thread_comm.cc`:**

- `ThreadCommInit` is `init`.
- `ThreadCommClear` is `clear`.
- `FinalizeEnter`, `FinalizerWait`, `FinalizerClear` and `FinalizeSpin` are the three parts of `finalize`: the increment, the finalizer's branch and the other threads' branch.

**Modelled from the spec.** The `LocalNetwork` method bodies are not in the source, so `CreateInit`, `CreateSpin`, `CreateCheck` and `Coll*` are modelled from spec.md:

- comm_create: rank 0 calls init, the others wait for ready, then a barrier.
- alltoallv, alltoall and allgather: publish, barrier, receive loop from `(rank + N - i) % N` into the sender's place in recvbuf (`RecvSlot`), barrier, reset, barrier. They differ only in the block of the sender's buffer that is copied (`SendOffset`): block `rank` (`sdispls[rank]` or `rank * count`) for the two all-to-alls, the whole buffer for allgather. `Kind(t)` is the collective of thread t's current call.
- comm_destroy: barrier, then finalize.

**Data.** A published send buffer is the triple `<<sender, round, call>>`; a received chunk is `<<buffer, block>>`.

**Constants:**

- `Rounds` is the number of communicator lifetimes per thread.
- `Calls` is the sequence of collectives every thread issues in each lifetime (`Colls == Len(Calls)`).
- `ReuseId` makes every lifetime use the same unique_id.

**Assumption.** `entered_finalize_` is declared in `thread_comm.h`, which is not in the source. Its increment is modelled as atomic, as `std::atomic` gives.

**Refinement of `CollRendezvous`.** `CollRendezvous.tla` is what the backend promises its threads: a phased rendezvous in which a participant arrives at its next point and leaves it only once everybody has arrived there. `LocalColl` maps onto it with `Abs == INSTANCE CollRendezvous WITH ...`:

- the rendezvous points of one lifetime are the comm_create barrier, three barriers per collective, the comm_destroy barrier and finalize, so `PointsPerLifetime == 3 * Colls + 3`;
- `RendezvousArrived[t]` counts the points thread `t` has entered, from `round`, `seq` and `ArrivalsAt(pc[t])`;
- `RendezvousWaiting[t]` holds while `t` is inside a barrier (arrived, not returned) or spins in finalize.

`Rendezvous == Abs!Spec` is checked as a property, fairness included: no thread leaves a barrier or finalize before every thread has entered it, and every thread eventually leaves.

### Autoconfig (`Autoconfig.tla`, instance `MCAutoconfig.tla`)

The model has one step per call that `handle_legate_args` makes, in the same order:

1. `ParseArgs`: `parser.parse_args` either exits the process on a malformed `LEGATE_CONFIG` (outcome `exit`), or succeeds and `set_config_value` copies `--auto-config`, when the user passed it, into `Config::auto_config()` (`SetConfigValue`);
2. `EnsureUtility`;
3. `Autoconfigure(f)` for gpus, fbmem, omps, numamem, cpus, sysmem and ompthreads;
4. `SetCore`, `SetCuda` and `SetOpenmp`;
5. `SetLegionDefaultArgs`;
6. `FinalChecks`.

`Phases` lists these calls in the code's order. Each `autoconfigure_*` call reads the values the earlier calls set. If the utility clamp or `autoconfigure_cpus` were moved after `autoconfigure_ompthreads`, TLC would find `OmpCoresFit` violated.

**The autoconfigure_\* functions.** Each one is a pair of operators:

- `XAuto` is the derived value.
- `XFails` is the condition under which it throws `AutoConfigurationError`.

**try_set_property.** Each `try` block of calls is `TrySetAll`, a recursion over the `<<module, flag>>` calls. It:

- aborts on a negative value;
- throws when the module is missing and the user passed the flag;
- skips the call when the module is missing and the user did not pass the flag;
- throws when the module refuses the property (`set_property` returns false). Which properties are refused is chosen from `RejectsIn` at each `set_*_config_properties` call; this is equivalent to choosing it with the machine, because each property is set once. The instance uses no refusal, or a refused zcmem;
- otherwise sets the property.

`EndTry` models the `catch (...)`: it rethrows only when the backend is built.

**Inputs.** `Init` chooses:

- the machine: the loaded Realm modules, what they report, and the build options;
- `autoConfig`, the value `Config::auto_config()` has before parsing (its default is not in the source, so both values are possible);
- `autoArg`, the user's `--auto-config`: absent (`<<>>`), or `<<TRUE>>` or `<<FALSE>>`;
- the flags the user passed, with their values.

A stored value is read through `RawValue`, which is `ScaledVar::raw_value`. For the int32 flags, a value equal to the `UNSET` sentinel, `INT32_MAX`, reads as the flag's default. The instance feeds `--gpus 2147483647` through that path.

A Realm cuda or openmp module exists only in a build with that backend.

**Data.** Memory is counted in MiB; the factor `MB` of `ScaledVar` is left out.

### OperationPipeline (`OperationPipeline.tla`, instance `MCOperationPipeline.tla`)

The runtime submits Copy and Fill operations into a window and flushes it when it reaches `WindowSize` (`Submit`) or at exit (`FlushAtExit`). A flush runs, for the whole batch in order:

1. `ValidateOp`: `Copy::validate` (`CopyValidate`: unbound, scalar-storage and transformed stores, type mismatch) and the alignment check. A failure discards the batch (`failed`).
2. `PartitionStores`: the solver's classes of aligned partition symbols (`Classes`: each symbol grown through the alignments to a fixpoint by `Joined`), a key store per class (largest volume), the tiling of the key (`KeyColors`, capped by `Procs` and `MinShardVol`), the launch domain (`LaunchDomain`) and `RecordKeyPartition`, the single `key_partition_` slot of the Strategy.
3. `LaunchOp`, one per operation: `CopyLaunch` builds the projection infos and runs `CopyLauncher::execute` over the launch domain, or `execute_single` when it is null; `FillLaunch` does the same for `FillLauncher`. `PopulateRequirement` (`ProjectionInfo::populate_requirement`) hands the ProjectionInfo's `is_key` to `BasePopulateRequirement`, which gives each requirement its partition and the key-store tag.

The solver and Strategy bodies are not all in the source; those parts are modelled from spec.md 4.1–4.3 and marked `spec_modelled`. Stores are records `[type, dim, vol, unbound, scalar, transformed]` over seven model stores.

The run checks only `TypeOK`: every dispatch is well formed. It shows that every path of validation, partitioning and launch is reachable and type-correct; it states no property of the launches, because each candidate either restated one line of `copy.cc` or followed from the spec-modelled runtime steps.

### Deserializer (`Deserializer.tla`, instance `MCDeserializer.tla`)

The buffer is a map from offsets to typed cells. Every `unpack` of `BaseDeserializer` is a recursive operator that aligns the read offset with `align_for_unpack` at the absolute address and reads the cell there. The reference packer (`BufferBuilder`, not in the source) aligns each value at its own address. Buffers are packed at bases 0, 4 and 8 modulo 16, and may be one byte short.

### DensePrint (`DensePrint.tla`, instance `MCDensePrint.tla`)

One step per pass of the do-while loop of `print_dense_array`. `Pass` is the inner for loop over the dimensions from the last, skipping stride-0 ones; `CanIncrement` and `Carry` are its two branches. `Init` is the code before the loop: the host copy of `NumElems` elements when base is device memory (`buf`), the opening brackets and `*base`. `Layouts` gives every dense layout with up to `MaxBroadcast` broadcast dimensions. The output is checked against `Reference`, a nested rendering.

### ScalarOwnership (`ScalarOwnership.tla`, instance `MCScalarOwnership.tla`)

Handles are `Scalar` objects; `impl[h]` is `impl_`, `heap` the `detail::Scalar` objects ever allocated. Every member that changes state is an action: `Construct`, `CopyConstruct` (deep copy), `MoveConstruct` (steal and null), `Destroy`, `CopyAssign` (`*impl_ = *other.impl_`), and `Read` for type/size/ptr. Dereferencing a null or deleted pointer and deleting twice are recorded in `errs`. `AssignToMovedFrom` says whether the program assigns to a moved-from `Scalar`.

**Refinement of `ScalarValue`.** `ScalarValue.tla` states value semantics: each `Scalar` holds its own value, an operation on one changes no other, and a move empties its source. `HeldValue[h]` is the value of the object `impl[h]` points at, or `Empty` (0) for a null or deleted pointer. `ValueSemantics == Abs!Spec` with `Abs == INSTANCE ScalarValue WITH value <- HeldValue` is a safety property: a shallow copy in the copy constructor or `operator=` makes a later step on one `Scalar` change another, which no `ScalarValue` step allows.

### CoreMapper (`CoreMapper.tla`, instance `MCCoreMapper.tla`)

`CreateMapper` is the member initialiser of `field_reuse_frac`: `ExtractEnv` (extract_env) reads `LEGATE_FIELD_REUSE_FRAC`, or `LEGATE_TEST` when it is unset, through `SafeStrtoll` (safe_strtoll). A number `strtoll` reads is `<<"num", q, r>>` with value q·2^32 + r, so that `static_cast<uint32_t>` is exactly r. `Query(id)` is `tunable_value`: one case per core tunable, `GlobalMemSize` for FIELD_REUSE_SIZE, and the abort for other ids; a division by zero ends in `crashed`. `Query` is reached through `Runtime::get_tunable`. `TaskTarget` is `options.front()` and `StoreMappings` the empty vector. `kind` picks the class the build contains: the newer one (`cpp/legate`) is constructed without reading the environment (`CreateCppMapper`), aborts on every tunable (`CppTunableValue`) and has no `task_target` of its own.

## 4. Runs

| Run | cfg | Expect | What it shows |
|---|---|---|---|
| `local_coll` | `MCLocalColl.cfg` | pass | Four threads, two communicator lifetimes each issuing alltoallv, alltoall and allgather: no thread uses a cleared ThreadComm, every receive buffer holds exactly the block each sender owes it in the current call, every thread returns from its last comm_destroy, and the barrier and finalize handshake implement the phased rendezvous of CollRendezvous. |
| `local_coll_reuse_id` | `MCLocalCollReuse.cfg` | violation of `Termination` | Two successive communicators with the same unique_id share one ThreadComm: a non-finalizer spinning in finalize can miss the short window in which ready_flag_ is false and spin forever. |
| `autoconfig` | `MCAutoconfig.cfg` | pass | Every combination of a few flag values and machines: aborts only on user values, autoconfigured OpenMP threads fit the cores, and a normal return means every GPU and OpenMP group is backed by its Realm module; with --auto-config=false no machine query fails and no GPU or OpenMP group is turned on by autoconfigure. |
| `autoconfig_documented_flags` | `MCAutoconfigDocumented.cfg` | violation of `NoAbortOnDocumentedFlags` | Flags given only with values their help text allows (>= 0): --omps 2 --ompthreads 0 ends in a failed LEGATE_CHECK instead of an error. |
| `deserializer` | `MCDeserializer.cfg` | pass | Every sequence of up to three task arguments of every kind, packed at base addresses 0, 4 and 8 mod 16, whole or one byte short: values come back as packed, the reader ends where the packer ended, and a short buffer never reads as complete unless the cut falls inside a string, the case the next run reports. |
| `deserializer_truncated_string` | `MCDeserializerTruncated.cfg` | violation of `NoOverrun` | A buffer one or two bytes short whose last argument ends in a string scalar: align_for_unpack checks only a 5-byte lower bound, and args_.subspan moves past the end of the span instead of throwing. |
| `dense_print` | `MCDensePrint.cfg` | pass | Every array of up to three dimensions with extents 1..3, in every dense layout order and with up to two broadcast dimensions: the printed text is always a prefix of the nested rendering and ends as all of it. For device memory every element read lies in the host copy. |
| `operation_pipeline` | `MCOperationPipeline.cfg` | pass | Every program of three Copy or Fill operations over seven stores, flushed in batches of two or at shutdown: submit, validation with its batch-wide abort, partitioning and the Copy and Fill launches are all reachable, and every dispatch is well formed. |
| `scalar_ownership` | `MCScalarOwnership.cfg` | pass | Three Scalars constructed, copied, moved, assigned, read and destroyed in any order: every live object has exactly one owner, no null, dangling or double delete happens, and Scalar implements the value type ScalarValue. |
| `scalar_assign_moved_from` | `MCScalarAssign.cfg` | violation of `MemorySafe` | Assigning to a Scalar that was moved from: operator= dereferences the impl_ the move constructor set to nullptr. |
| `core_mapper_zero_frac` | `MCCoreMapperZeroFrac.cfg` | violation of `NoDivisionByZero` | LEGATE_FIELD_REUSE_FRAC=0, or 4294967296 which static_cast<uint32_t> turns into 0: FIELD_REUSE_SIZE divides by zero. |

Every property of a passing run has a mutant in `PROJECT.json`: a plausible bug in a mapped definition, written as an operator beside it, under which TLC finds the property violated.

**Further defects the models reach outside these bounds.** Changing one constant of a passing run reaches two more problems, listed as hazards in `PROJECT.json`:

- `MCDensePrint` with `MaxBroadcast = Dims`: for device memory with every stride 0, `num_elems` is 0 and `*base` is read past the empty host buffer (`HostCopyCovers`).
- `MCOperationPipeline` with `MaxOps = 2` and `WindowSize = 2`: the Strategy's single `key_partition_` holds the key of one class, so the other operation's index launch has no key-store tag. The state is reachable, but no property states it, because spec.md does not say that every index launch needs the tag.

**Bounds.** Four threads, the scenario of spec.md 5; three are already the fewest for which the receive loop of all_to_all_v has a sender that is neither the thread itself nor its neighbour. Each lifetime issues alltoallv, alltoall and allgather, so slot reuse across calls of different kinds happens, and a block meant for one receiver can only reach another through a wrong offset. With two lifetimes, a second comm_create follows a finalize.

The autoconfig sets cover, for each branch of every autoconfigure_* function:

- a negative (derived) value, zero and a positive value;
- a failing resource query (`-1`) and a zero core count;
- one and two NUMA domains;
- each module present or absent, and each build option.

Other bounds:

- **OperationPipeline:** three operations over seven stores chosen so that every validation failure, aligned and unaligned copies, a scalar fill and stores of different volumes occur; a window of two makes batches of two operations; two processors and a minimum shard volume of 2 make tilings of 1, 2 and 4 colors.
- **Deserializer:** up to three arguments of every kind; bases 0, 4 and 8 mod 16 reach every padding `align_for_unpack` can insert for alignments up to 8.
- **DensePrint:** three dimensions with extents 1 to 3 give carries across two dimensions; every layout order and up to two broadcast dimensions.
- **ScalarOwnership:** three handles and four allocations allow a copy of a copy and a move chain h1 → h2 → h3; symmetry over the handles.
- **CoreMapper:** LEGATE_FIELD_REUSE_FRAC unset, 0, 3 and 2^32; LEGATE_TEST unset, zero, negative, positive and out of range; three machines (with GPUs, with socket memory only, with system memory only); two calls, any tunable id or an unknown one, a task target from one, two or three options, or store mappings; both mapper classes.

**Fairness.** `WF` per thread. The OS scheduler eventually runs a runnable thread, but a busy-wait loop gets no guarantee of seeing a flag that is only briefly true or false. So the model uses weak fairness, not strong. The abstract `CollRendezvous` asks the same: weak fairness per participant, which the per-thread fairness of `LocalColl` implies.No other module assumes fairness: their runs check only safety.

**Deadlock.** Every cfg sets `CHECK_DEADLOCK FALSE`, because the program or the modelled call sequence ends: every thread reaches `done`; `handle_legate_args` returns or throws; the deserializer reaches the end of the buffer; the printer leaves its loop; the pipeline has flushed its last operation; or the bound on calls is reached. Only liveness-relevant ends are checked as properties. In LocalColl a stuck thread still shows up, because `Termination` is violated.

## 5. What is not modelled, and why

- **LocalNetwork's constructor, init_comm and abort.** Their bodies are absent and spec.md does not describe them.
- **MPI backend.** Only its declarations are in the source. `mpi_network.h` declares the tag helpers but not their formulas, so tag aliasing cannot be checked faithfully.
- **Declaration-only headers.** `coll.h`, `runtime.h`, `mapping/detail/operation.h`, `instance_manager.inl`, `task.inl`, `broadcast.inl` and `task_context.cc` declare or forward to Legion; `logical_store.cc` forwards to `impl_`. There is no state of their own to model.
- **The old `legate::Strategy`** (`core/partitioning/partitioner.h`): included by `copy.cc`, but the code uses `legate::detail::Strategy`, which `OperationPipeline` models.
- **Region manager.** Only `ManagerEntry`'s inline helpers are in the source; `RegionManager::allocate_field`, `push_entry` and `import_region` have no body there and spec.md does not describe them.
- **Task launches, task context, task registration and the runtime facade.** Declarations or forwarding to Legion, with no state of their own in the source.
- **PhysicalStore and UnboundRegionField** (`physical_store.inl`): constructors and getters.
- **Logical stores** (`logical_store.h`, `logical_store.cc`): the header documents promote, project, slice, transpose and delinearize, but their bodies (`detail::LogicalStore`, `TransformStack`) are not in the source and `logical_store.cc` only forwards to them. A model would check the documentation against itself.
- **The empty rectangle of `print_dense_array`** (`debug.inl:54`): with an extent of 0 the code reads `*base` before the loop whatever the loop does. The run keeps extents of at least 1, so that it checks the walk itself.
- **The STL headers and the HDF5/KvikIO wrappers.** Compile-time code and file I/O.
- **The other `set_config_value` flags** (`--show-config`, chunk sizes, window size, field reuse, consensus) and the p2p `set_disable_mpi`. Each is a single store into `Config` that no modelled step reads. `--show-config` only prints.
- **ScaledVar overflow.** A memory flag above 2^43 MiB overflows the int64 product in `ScaledVar::value()`. This is listed as a hazard; the model counts in MiB.
