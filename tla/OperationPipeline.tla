-------------------------- MODULE OperationPipeline --------------------------
(***************************************************************************)
(* The operation pipeline: Copy and Fill operations are submitted to the   *)
(* runtime, buffered in the scheduling window, and on a flush the batch is *)
(* validated op by op, partitioned as a whole (solver, key partitions,     *)
(* launch domains: the Strategy), and launched in submission order, each   *)
(* launch producing one dispatch to the external scheduler.               *)
(*                                                                         *)
(* Sources: core/operation/detail/copy.cc (Copy), fill_launcher.cc        *)
(* (FillLauncher), projection.cc (populate_requirement), and the          *)
(* declarations of Strategy and Partitioner in partitioning/.  The bodies *)
(* of Runtime::submit, the Partitioner, the solver and Fill::launch are   *)
(* not in the source and are modelled from the specification.             *)
(*                                                                         *)
(* A partition is a tiling [tile, colors]: tile is the elements per tile, *)
(* colors the number of tiles.  NoPart is Legion's NO_PART.               *)
(***************************************************************************)
EXTENDS Integers, Sequences, FiniteSets, TLC

CONSTANTS
  StoreIds,     \* the logical stores of the program
  Stores,       \* StoreIds -> [type, dim, vol, unbound, scalar, transformed]
  Procs,        \* processors of the machine
  MinShardVol,  \* the minimum shard volume of the tiling heuristic
  WindowSize,   \* Runtime::window_size_
  MaxOps,       \* operations the program submits
  KeyTag        \* LEGATE_CORE_KEY_STORE_TAG

NoPart == [tile |-> 0, colors |-> 1]

\* The operations a program can build: a Copy of two stores (target first,
\* the order of declare_partition in the constructor), and a Fill of a
\* bound store.
CopyOps == {[kind |-> "copy", stores |-> <<t, s>>] : t, s \in StoreIds}
FillOps == {[kind |-> "fill", stores |-> <<l>>] : l \in {l \in StoreIds : ~Stores[l].unbound}}

VARIABLES
  nextId,    \* Runtime::next_unique_id_
  window,    \* Runtime::operations_: the pending batch, <<[id, op]>>
  phase,     \* "idle", "validate", "solve" or "launch"
  pos,       \* the operation of the batch being validated or launched
  strategy,  \* the Strategy of the batch being launched
  log,       \* the dispatches issued to the external scheduler
  failed     \* ids of operations whose batch failed validation

vars == <<nextId, window, phase, pos, strategy, log, failed>>

NoStrategy == [part |-> <<>>, domain |-> <<>>, key |-> {}]

\* Partition symbols: symbol k of operation id is <<id, k>>.
Syms(w) == {<<w.id, k>> : k \in 1..Len(w.op.stores)}
StoreOf(sym, ws) == LET w == CHOOSE w \in ws : w.id = sym[1] IN w.op.stores[sym[2]]
BatchOps == {window[i] : i \in DOMAIN window}
BatchSyms == UNION {Syms(w) : w \in BatchOps}
BatchIds == {w.id : w \in BatchOps}

-----------------------------------------------------------------------------
(* validate *)

ValidStore(st) == ~(st.unbound \/ st.scalar \/ st.transformed)

\* Alignment::validate: aligned stores must have the same dimensionality.
AlignmentValidate(t, s) == t.dim = s.dim

\* Copy::validate: same type; target and source neither unbound, nor
\* scalar, nor transformed; then the alignment constraint.  Each failed
\* check throws.
CopyValidate(op) ==
  LET t == Stores[op.stores[1]]  s == Stores[op.stores[2]]
  IN t.type = s.type /\ ValidStore(t) /\ ValidStore(s) /\ AlignmentValidate(t, s)

Validate(op) == IF op.kind = "copy" THEN CopyValidate(op) ELSE TRUE

-----------------------------------------------------------------------------
(* add_to_solver and partition_stores *)

\* Copy::add_to_solver: the alignment of target and source (an edge of the
\* solver's graph), then the two partition symbols.
CopyAddToSolver(w) == {{<<w.id, 1>>, <<w.id, 2>>}}

AddToSolver(w) == IF w.op.kind = "copy" THEN CopyAddToSolver(w) ELSE {}

\* The solver's equivalence classes: symbols joined, directly or through
\* others, by alignments.
RECURSIVE Joined(_, _)
\* The symbols reached from c through the alignments in edges.
Joined(c, edges) ==
  LET more == c \cup UNION {e \in edges : e \cap c # {}}
  IN IF more = c THEN c ELSE Joined(more, edges)

Classes(ws, syms) ==
  LET edges == UNION {AddToSolver(w) : w \in ws}
  IN {Joined({s}, edges) : s \in syms}

\* The key of a class: the symbol of the largest store, then the first
\* declared.
KeyOf(cls, ws) ==
  CHOOSE k \in cls : \A s \in cls \ {k} :
    LET vk == Stores[StoreOf(k, ws)].vol  vs == Stores[StoreOf(s, ws)].vol
    IN vk > vs \/ (vk = vs /\ (k[1] < s[1] \/ (k[1] = s[1] /\ k[2] < s[2])))

\* Mutant: the number of tiles is not capped by the processor count.
KeyColorsBad(st) ==
  IF st.scalar THEN 1
  ELSE LET c == st.vol \div MinShardVol IN IF c > 1 THEN c ELSE 1

\* The tiling heuristic: as many tiles as processors, but no tile below
\* the minimum shard volume; a scalar store is not partitioned.
KeyColors(st) ==
  IF st.scalar THEN 1
  ELSE LET c == IF Procs < st.vol \div MinShardVol THEN Procs ELSE st.vol \div MinShardVol
       IN IF c > 1 THEN c ELSE 1

CeilDiv(a, b) == (a + b - 1) \div b

\* The partition of a symbol: the key's tiling, and the other stores of
\* the class tiled congruently, with the key's tile.
PartitionOf(sym, cls, ws) ==
  LET key == Stores[StoreOf(KeyOf(cls, ws), ws)]
      c == KeyColors(key)
  IN IF c = 1 THEN NoPart
     ELSE LET tile == CeilDiv(key.vol, c)
          IN [tile |-> tile, colors |-> CeilDiv(Stores[StoreOf(sym, ws)].vol, tile)]

\* compute_launch_domains_: an operation whose symbols all have tilings
\* with the same number of tiles (more than one) gets that launch domain.
LaunchDomain(w, part) ==
  LET cs == {part[s].colors : s \in Syms(w)}
  IN IF Cardinality(cs) = 1 /\ (CHOOSE c \in cs : TRUE) > 1 THEN CHOOSE c \in cs : TRUE ELSE 0

\* Strategy::record_key_partition_: the Strategy keeps one key symbol (a
\* std::optional); which of the batch's class keys it keeps is left open.
RecordKeyPartition(keys) == {{k} : k \in keys}

-----------------------------------------------------------------------------
(* launch *)

\* Operation::create_projection_info: the symbol's partition when the
\* operation has a launch domain, NO_PART otherwise, flagged as key when
\* the Strategy says so.
ProjectionInfo(sym, dom) ==
  [part |-> IF dom = 0 THEN NoPart ELSE strategy.part[sym], is_key |-> sym \in strategy.key]

\* auto tag = is_key ? LEGATE_CORE_KEY_STORE_TAG : 0;
ReqTag(is_key) == IF is_key THEN KeyTag ELSE 0

\* BaseProjectionInfo::populate_requirement<false>: a region requirement
\* (NO_PART delegates to populate_requirement<true>) or a partition
\* requirement, tagged when is_key.
BasePopulateRequirement(store, part, priv, is_key) ==
  [store |-> store, part |-> part, tag |-> ReqTag(is_key), priv |-> priv]

\* ProjectionInfo::populate_requirement: the base version, handed the
\* is_key flag the ProjectionInfo carries.
PopulateRequirement(store, proj, priv) ==
  BasePopulateRequirement(store, proj.part, priv, proj.is_key)

Dispatch(w, kind, dom, reqs) == [id |-> w.id, kind |-> kind, domain |-> dom, reqs |-> reqs]

\* CopyLauncher: add_input and add_output collect the source and target
\* requirements; execute builds an index copy over the launch domain,
\* execute_single a single copy with the same arguments.
CopyLauncherArgs(w, dom) ==
  <<PopulateRequirement(w.op.stores[2], ProjectionInfo(<<w.id, 2>>, dom), "read"),
    PopulateRequirement(w.op.stores[1], ProjectionInfo(<<w.id, 1>>, dom), "write")>>
CopyLauncherExecute(w, dom) == Dispatch(w, "index_copy", dom, CopyLauncherArgs(w, dom))
CopyLauncherExecuteSingle(w) == Dispatch(w, "copy", 0, CopyLauncherArgs(w, 0))

\* Copy::launch: the source as input, the target as output, then an index
\* copy over the launch domain, or a single copy when there is none.
CopyLaunch(w) ==
  LET dom == strategy.domain[w.id]
  IN IF dom # 0 THEN CopyLauncherExecute(w, dom) ELSE CopyLauncherExecuteSingle(w)

\* FillLauncher::launch: an IndexFillLauncher over the domain writing the
\* lhs partition, tagged when lhs_proj.is_key.
FillLauncherLaunch(w, dom, proj) ==
  Dispatch(w, "index_fill", dom, <<PopulateRequirement(w.op.stores[1], proj, "write")>>)

\* FillLauncher::launch_single: a FillLauncher writing the whole region.
FillLauncherLaunchSingle(w, proj) ==
  Dispatch(w, "fill", 0, <<PopulateRequirement(w.op.stores[1], [proj EXCEPT !.part = NoPart], "write")>>)

\* Fill::launch: the index fill when the Strategy gives a launch domain.
FillLaunch(w) ==
  LET dom == strategy.domain[w.id]
      proj == ProjectionInfo(<<w.id, 1>>, dom)
  IN IF dom # 0 THEN FillLauncherLaunch(w, dom, proj) ELSE FillLauncherLaunchSingle(w, proj)

Launch(w) == IF w.op.kind = "copy" THEN CopyLaunch(w) ELSE FillLaunch(w)

-----------------------------------------------------------------------------
(* the runtime *)

Init ==
  /\ nextId = 0
  /\ window = <<>>
  /\ phase = "idle"
  /\ pos = 0
  /\ strategy = NoStrategy
  /\ log = <<>>
  /\ failed = {}

StartFlush == phase' = "validate" /\ pos' = 1

\* Runtime::submit: the operation joins the window, which is flushed when
\* it holds window_size_ operations.
Submit ==
  /\ phase = "idle"
  /\ nextId < MaxOps
  /\ \E op \in CopyOps \cup FillOps :
       window' = Append(window, [id |-> nextId, op |-> op])
  /\ nextId' = nextId + 1
  /\ IF Len(window') >= WindowSize THEN StartFlush ELSE UNCHANGED <<phase, pos>>
  /\ UNCHANGED <<strategy, log, failed>>

\* The runtime's shutdown flushes what is left in the window.
FlushAtExit ==
  /\ phase = "idle"
  /\ nextId = MaxOps
  /\ window # <<>>
  /\ StartFlush
  /\ UNCHANGED <<nextId, window, strategy, log, failed>>

\* The batch's operations validate in order; an exception aborts the whole
\* batch before anything is partitioned or launched.
ValidateOp ==
  /\ phase = "validate"
  /\ IF Validate(window[pos].op)
       THEN /\ IF pos = Len(window) THEN phase' = "solve" /\ pos' = 0
                                    ELSE pos' = pos + 1 /\ UNCHANGED phase
            /\ UNCHANGED <<window, failed>>
       ELSE /\ failed' = failed \cup BatchIds
            /\ window' = <<>>
            /\ phase' = "idle"
            /\ pos' = 0
  /\ UNCHANGED <<nextId, strategy, log>>

\* Partitioner::partition_stores: every operation's add_to_solver, the
\* classes, a partition per symbol, the key, and the launch domains.
PartitionStores ==
  /\ phase = "solve"
  /\ LET ws == BatchOps
         cls == Classes(ws, BatchSyms)
         part == [s \in BatchSyms |-> PartitionOf(s, CHOOSE c \in cls : s \in c, ws)]
     IN \E key \in RecordKeyPartition({KeyOf(c, ws) : c \in cls}) :
          strategy' = [part |-> part,
                       domain |-> [w \in BatchIds |->
                                     LaunchDomain(CHOOSE x \in ws : x.id = w, part)],
                       key |-> key]
  /\ phase' = "launch"
  /\ pos' = 1
  /\ UNCHANGED <<nextId, window, log, failed>>

\* Each operation's launch, in submission order; the Strategy is dropped
\* with the batch.
LaunchOp ==
  /\ phase = "launch"
  /\ log' = Append(log, Launch(window[pos]))
  /\ IF pos = Len(window)
       THEN phase' = "idle" /\ pos' = 0 /\ window' = <<>> /\ strategy' = NoStrategy
       ELSE pos' = pos + 1 /\ UNCHANGED <<phase, window, strategy>>
  /\ UNCHANGED <<nextId, failed>>

Next == Submit \/ FlushAtExit \/ ValidateOp \/ PartitionStores \/ LaunchOp

Spec == Init /\ [][Next]_vars

-----------------------------------------------------------------------------
IndexKinds == {"index_copy", "index_fill"}
CopyKinds == {"copy", "index_copy"}
Partitions == {NoPart} \cup [tile : 1..64, colors : 1..Procs]
Requirement == [store : StoreIds, part : Partitions, tag : {0, KeyTag}, priv : {"read", "write"}]

TypeOK ==
  /\ nextId \in 0..MaxOps
  /\ window \in Seq([id : 0..MaxOps - 1, op : CopyOps \cup FillOps])
  /\ phase \in {"idle", "validate", "solve", "launch"}
  /\ log \in Seq([id : 0..MaxOps - 1, kind : IndexKinds \cup {"copy", "fill"},
                  domain : 0..Procs, reqs : Seq(Requirement)])
  /\ failed \subseteq 0..MaxOps - 1

=============================================================================
