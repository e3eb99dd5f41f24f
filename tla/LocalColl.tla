------------------------------ MODULE LocalColl ------------------------------
(***************************************************************************)
(* The thread-local backend of the coll subsystem: ThreadComm (its         *)
(* pthread barrier, the ready flag, the entered_finalize counter and the   *)
(* shared buffer table) driven by LocalNetwork::comm_create,               *)
(* alltoallv, alltoall, allgather and comm_destroy, one process per       *)
(* participating thread.                                                   *)
(*                                                                         *)
(* ThreadComm::init/finalize/clear/barrier_local are translated from       *)
(* src/src/cpp/legate/comm/detail/thread_comm.cc.  The LocalNetwork        *)
(* methods that call them are not part of the source excerpt; they are     *)
(* modelled from spec.md 4.5 and 5 (spec_modelled in PROJECT.json).        *)
(*                                                                         *)
(* Data is abstracted: the send buffer thread s publishes for collective  *)
(* c of round r is the triple <<s, r, c>>, and a chunk of it is the pair   *)
(* <<buffer, offset>>, the offset counted in chunks.  Byte counts and      *)
(* element types are left out because no property tells them apart.       *)
(***************************************************************************)
EXTENDS Naturals, FiniteSets, Sequences

CONSTANTS
  N,          \* global_comm_size: number of participating threads
  Rounds,     \* communicator lifetimes (comm_create ... comm_destroy) per thread
  Calls,      \* Calls[c]: the collective every thread issues as call c of a lifetime
  ReuseId,    \* TRUE: every lifetime uses the same unique_id (same ThreadComm)
  NULL        \* model value: nullptr in the buffer table

ASSUME N \in Nat \ {0}
ASSUME Rounds \in Nat \ {0}
CollKinds == {"alltoallv", "alltoall", "allgather"}
ASSUME Calls \in Seq(CollKinds)

\* collectives per communicator lifetime
Colls == Len(Calls)
ASSUME ReuseId \in BOOLEAN

Ranks == 0 .. N - 1

\* unique_id of the communicator a thread uses in round r
CommId(r) == IF ReuseId THEN 1 ELSE r
Ids == {CommId(r) : r \in 1 .. Rounds}

Payload == Ranks \X (1 .. Rounds) \X (1 .. Colls)
Chunk == Payload \X Ranks

\* The barrier_local call sites: a thread at label l is about to call
\* pthread_barrier_wait; at l \o "_w" it has entered the call.
BarrierSites == {"cr_bar", "coll_bar1", "coll_bar2", "coll_bar3", "des_bar"}
WaitLabel(l) == l \o "_w"
WaitLabels == {WaitLabel(l) : l \in BarrierSites}

Labels ==
  {"cr_init", "cr_spin", "cr_check", "coll_pub", "coll_read", "coll_reset",
   "fin_inc", "fin_spin0", "fin_clear", "fin_spin", "done"}
  \cup BarrierSites \cup WaitLabels

VARIABLES
  pc,         \* pc[t]: where thread t is in its current call
  round,      \* round[t]: which communicator lifetime thread t is in
  seq,        \* seq[t]: index of the collective call thread t is in
  readIdx,    \* readIdx[t]: loop counter i of the receive loop
  ready,      \* ready[id]: ThreadComm::ready_flag_ (also: barrier and buffers live)
  entered,    \* entered[id]: ThreadComm::entered_finalize_
  barCount,   \* barCount[id]: threads blocked in the current barrier generation
  barGen,     \* barGen[id]: barrier generation parity
  myGen,      \* myGen[t]: generation parity thread t waits to see change
  buffers,    \* buffers[id][s]: ThreadComm::buffers_[s]
  recv        \* recv[t][s]: the chunk of thread t's recvbuf that came from s

vars == <<pc, round, seq, readIdx, ready, entered, barCount, barGen, myGen,
          buffers, recv>>

Id(t) == CommId(round[t])

TypeOK ==
  /\ pc \in [Ranks -> Labels]
  /\ round \in [Ranks -> 1 .. Rounds]
  /\ seq \in [Ranks -> 1 .. Colls + 1]
  /\ readIdx \in [Ranks -> 1 .. N + 1]
  /\ ready \in [Ids -> BOOLEAN]
  /\ entered \in [Ids -> 0 .. N]
  /\ barCount \in [Ids -> 0 .. N - 1]
  /\ barGen \in [Ids -> {0, 1}]
  /\ myGen \in [Ranks -> {0, 1}]
  /\ buffers \in [Ids -> [Ranks -> Payload \cup {NULL}]]
  /\ recv \in [Ranks -> [Ranks -> Chunk \cup {NULL}]]

Goto(t, l) == pc' = [pc EXCEPT ![t] = l]

\* First label of comm_create: rank 0 initialises the ThreadComm, the others
\* spin until it is ready.
CreateLabel(t) == IF t = 0 THEN "cr_init" ELSE "cr_spin"

Init ==
  /\ pc = [t \in Ranks |-> CreateLabel(t)]
  /\ round = [t \in Ranks |-> 1]
  /\ seq = [t \in Ranks |-> 1]
  /\ readIdx = [t \in Ranks |-> 1]
  /\ ready = [id \in Ids |-> FALSE]
  /\ entered = [id \in Ids |-> 0]
  /\ barCount = [id \in Ids |-> 0]
  /\ barGen = [id \in Ids |-> 0]
  /\ myGen = [t \in Ranks |-> 0]
  /\ buffers = [id \in Ids |-> [s \in Ranks |-> NULL]]
  /\ recv = [t \in Ranks |-> [s \in Ranks |-> NULL]]

-----------------------------------------------------------------------------
(* ThreadComm::barrier_local: pthread_barrier_wait split into entering the *)
(* call and returning from it.  The last thread to arrive opens the        *)
(* generation; a released thread has not returned until BarrierLeave.      *)

\* Mutant: the arrival count is not reset when a generation opens.
BarrierArriveBad(t, site) ==
  LET id == Id(t) IN
  /\ pc[t] = site
  /\ Goto(t, WaitLabel(site))
  /\ myGen' = [myGen EXCEPT ![t] = barGen[id]]
  /\ barCount' = [barCount EXCEPT ![id] = @ + 1]
  /\ barGen' = [barGen EXCEPT ![id] = IF barCount[id] + 1 = N THEN 1 - @ ELSE @]
  /\ UNCHANGED <<round, seq, readIdx, ready, entered, buffers, recv>>

BarrierArrive(t, site) ==
  LET id == Id(t) IN
  /\ pc[t] = site
  /\ Goto(t, WaitLabel(site))
  /\ myGen' = [myGen EXCEPT ![t] = barGen[id]]
  /\ IF barCount[id] + 1 = N
       THEN /\ barCount' = [barCount EXCEPT ![id] = 0]
            /\ barGen' = [barGen EXCEPT ![id] = 1 - @]
       ELSE /\ barCount' = [barCount EXCEPT ![id] = @ + 1]
            /\ UNCHANGED barGen
  /\ UNCHANGED <<round, seq, readIdx, ready, entered, buffers, recv>>

BarrierLeave(t, site, next) ==
  /\ pc[t] = WaitLabel(site)
  /\ barGen[Id(t)] # myGen[t]
  /\ Goto(t, next)
  /\ UNCHANGED <<round, seq, readIdx, ready, entered, barCount, barGen, myGen,
                 buffers, recv>>

-----------------------------------------------------------------------------
(* ThreadComm::init: barrier initialised for global_comm_size threads,     *)
(* fresh (null) buffer and displacement tables, counter reset, ready set.  *)
ThreadCommInit(id) ==
  /\ ready' = [ready EXCEPT ![id] = TRUE]
  /\ entered' = [entered EXCEPT ![id] = 0]
  /\ barCount' = [barCount EXCEPT ![id] = 0]
  /\ barGen' = [barGen EXCEPT ![id] = 0]
  /\ buffers' = [buffers EXCEPT ![id] = [s \in Ranks |-> NULL]]

(* ThreadComm::clear: barrier destroyed, tables released, ready cleared.   *)
ThreadCommClear(id) ==
  /\ ready' = [ready EXCEPT ![id] = FALSE]
  /\ buffers' = [buffers EXCEPT ![id] = [s \in Ranks |-> NULL]]

(* comm_create, rank 0: init the ThreadComm of this unique_id.             *)
CreateInit(t) ==
  /\ pc[t] = "cr_init"
  /\ ThreadCommInit(Id(t))
  /\ Goto(t, "cr_bar")
  /\ UNCHANGED <<round, seq, readIdx, myGen, recv>>

(* comm_create, other ranks: while (!ready()) {}                           *)
CreateSpin(t) ==
  /\ pc[t] = "cr_spin"
  /\ ready[Id(t)]
  /\ Goto(t, "cr_bar")
  /\ UNCHANGED <<round, seq, readIdx, ready, entered, barCount, barGen, myGen,
                 buffers, recv>>

\* Where a thread goes once its communicator is set up or a collective ends.
AfterCreate == IF Colls > 0 THEN "coll_pub" ELSE "des_bar"

(* comm_create after the barrier: LEGATE_CHECK(ready()).  A failed check   *)
(* aborts the process; the model keeps the thread at cr_check, where      *)
(* Termination and Rendezvous report it.                                    *)
CreateCheck(t) ==
  /\ pc[t] = "cr_check"
  /\ ready[Id(t)]
  /\ Goto(t, AfterCreate)
  /\ UNCHANGED <<round, seq, readIdx, ready, entered, barCount, barGen, myGen,
                 buffers, recv>>

-----------------------------------------------------------------------------
(* alltoallv, alltoall and allgather share one shape: publish the send    *)
(* buffer (and, for alltoallv, the displacements) in the shared table,     *)
(* barrier, copy one chunk from every sender (spinning while its slot is   *)
(* null), barrier, reset the own slot, barrier.  They differ in where the  *)
(* chunk starts in the sender's buffer and where it lands in recvbuf.     *)

\* The collective thread t is in.
Kind(t) == Calls[seq[t]]

CollPublish(t) ==
  /\ pc[t] = "coll_pub"
  /\ buffers' = [buffers EXCEPT ![Id(t)][t] = <<t, round[t], seq[t]>>]
  /\ recv' = [recv EXCEPT ![t] = [s \in Ranks |-> NULL]]
  /\ readIdx' = [readIdx EXCEPT ![t] = 1]
  /\ Goto(t, "coll_bar1")
  /\ UNCHANGED <<round, seq, ready, entered, barCount, barGen, myGen>>

\* Rank read in iteration i of the receive loop of thread t.
RecvFrom(t, i) == (t + N - i) % N

\* Mutant: the chunk of iteration i lands at offset i - 1 instead of at
\* the sender's displacement.
RecvSlotBad(t, i) == i - 1

\* Offset in recvbuf that the chunk read in iteration i is copied to:
\* rdispls[recvfrom_global_rank] for alltoallv, recvfrom_global_rank *
\* count for alltoall and allgather.
RecvSlot(t, i) == RecvFrom(t, i)

\* Mutant: allgather copied from alltoall reads at global_rank * count.
SendOffsetBad(kind, t) == t

\* Chunk of the sender's buffer that receiver t copies: sdispls[t] for
\* alltoallv, t * count for alltoall, the whole buffer (offset 0) for
\* allgather.
SendOffset(kind, t) == IF kind = "allgather" THEN 0 ELSE t

CollRead(t) ==
  LET i == readIdx[t]
      src == buffers[Id(t)][RecvFrom(t, i)]
  IN
  /\ pc[t] = "coll_read"
  /\ i <= N
  /\ src # NULL
  /\ recv' = [recv EXCEPT ![t][RecvSlot(t, i)] = <<src, SendOffset(Kind(t), t)>>]
  /\ readIdx' = [readIdx EXCEPT ![t] = i + 1]
  /\ UNCHANGED <<pc, round, seq, ready, entered, barCount, barGen, myGen, buffers>>

\* Mutant: the second barrier of a collective is elided.
AfterReadBad == "coll_reset"

\* What follows the receive loop: the barrier that keeps every sender's
\* slot published until all receivers have copied from it.
AfterRead == "coll_bar2"

\* The receive loop ends after N iterations.
CollReadDone(t) ==
  /\ pc[t] = "coll_read"
  /\ readIdx[t] = N + 1
  /\ Goto(t, AfterRead)
  /\ UNCHANGED <<round, seq, readIdx, ready, entered, barCount, barGen, myGen,
                 buffers, recv>>

(* resetLocalBuffer: the own slot goes back to nullptr.                    *)
CollReset(t) ==
  /\ pc[t] = "coll_reset"
  /\ buffers' = [buffers EXCEPT ![Id(t)][t] = NULL]
  /\ Goto(t, "coll_bar3")
  /\ UNCHANGED <<round, seq, readIdx, ready, entered, barCount, barGen, myGen, recv>>

\* Leaving the last barrier of a collective returns to the caller, which
\* issues the next collective or destroys the communicator.
CollReturn(t) ==
  /\ pc[t] = WaitLabel("coll_bar3")
  /\ barGen[Id(t)] # myGen[t]
  /\ seq' = [seq EXCEPT ![t] = @ + 1]
  /\ Goto(t, IF seq[t] < Colls THEN "coll_pub" ELSE "des_bar")
  /\ UNCHANGED <<round, readIdx, ready, entered, barCount, barGen, myGen,
                 buffers, recv>>

-----------------------------------------------------------------------------
(* comm_destroy: barrier, then ThreadComm::finalize(size, rank == 0).      *)

(* ++entered_finalize_                                                     *)
FinalizeEnter(t) ==
  /\ pc[t] = "fin_inc"
  /\ entered' = [entered EXCEPT ![Id(t)] = @ + 1]
  /\ Goto(t, IF t = 0 THEN "fin_spin0" ELSE "fin_spin")
  /\ UNCHANGED <<round, seq, readIdx, ready, barCount, barGen, myGen, buffers, recv>>

\* Mutant: the finalizer does not wait for its peers to enter finalize.
AllEnteredBad(id) == TRUE

\* Exit condition of the finalizer's spin loop.
AllEntered(id) == entered[id] = N

(* Finalizer: while (entered_finalize_ != global_comm_size) {}             *)
(*            entered_finalize_ = 0;                                       *)
FinalizerWait(t) ==
  /\ pc[t] = "fin_spin0"
  /\ AllEntered(Id(t))
  /\ entered' = [entered EXCEPT ![Id(t)] = 0]
  /\ Goto(t, "fin_clear")
  /\ UNCHANGED <<round, seq, readIdx, ready, barCount, barGen, myGen, buffers, recv>>

\* The thread returns from comm_destroy: the next lifetime starts with
\* comm_create, or the thread is done.
NextLifetime(t) ==
  IF round[t] < Rounds
    THEN /\ round' = [round EXCEPT ![t] = @ + 1]
         /\ seq' = [seq EXCEPT ![t] = 1]
         /\ Goto(t, CreateLabel(t))
    ELSE /\ Goto(t, "done")
         /\ UNCHANGED <<round, seq>>

(* Finalizer: clear()                                                      *)
FinalizerClear(t) ==
  /\ pc[t] = "fin_clear"
  /\ ThreadCommClear(Id(t))
  /\ NextLifetime(t)
  /\ UNCHANGED <<readIdx, entered, barCount, barGen, myGen, recv>>

\* Mutant: a non-finalizer leaves finalize without waiting for clear().
FinalizerDoneBad(id) == TRUE

\* Exit condition of the other threads' spin loop.
FinalizerDone(id) == ~ready[id]

(* Other threads: while (ready()) {}                                       *)
FinalizeSpin(t) ==
  /\ pc[t] = "fin_spin"
  /\ FinalizerDone(Id(t))
  /\ NextLifetime(t)
  /\ UNCHANGED <<readIdx, ready, entered, barCount, barGen, myGen, buffers, recv>>

-----------------------------------------------------------------------------

Thread(t) ==
  \/ CreateInit(t)
  \/ CreateSpin(t)
  \/ BarrierArrive(t, "cr_bar")
  \/ BarrierLeave(t, "cr_bar", "cr_check")
  \/ CreateCheck(t)
  \/ CollPublish(t)
  \/ BarrierArrive(t, "coll_bar1")
  \/ BarrierLeave(t, "coll_bar1", "coll_read")
  \/ CollRead(t)
  \/ CollReadDone(t)
  \/ BarrierArrive(t, "coll_bar2")
  \/ BarrierLeave(t, "coll_bar2", "coll_reset")
  \/ CollReset(t)
  \/ BarrierArrive(t, "coll_bar3")
  \/ CollReturn(t)
  \/ BarrierArrive(t, "des_bar")
  \/ BarrierLeave(t, "des_bar", "fin_inc")
  \/ FinalizeEnter(t)
  \/ FinalizerWait(t)
  \/ FinalizerClear(t)
  \/ FinalizeSpin(t)

Next == \E t \in Ranks : Thread(t)

\* Every thread is scheduled by the OS: a thread whose next step stays
\* enabled eventually takes it (weak fairness per thread).  Busy-wait loops
\* give no stronger guarantee: a spinning thread that is preempted while the
\* flag it waits for is briefly set may never observe it.
Fairness == \A t \in Ranks : WF_vars(Thread(t))

Spec == Init /\ [][Next]_vars /\ Fairness


-----------------------------------------------------------------------------
(* Properties                                                              *)

\* Labels at which a thread uses the barrier or the buffer table of its
\* ThreadComm (including while blocked in, or returning from,
\* pthread_barrier_wait).
UsesComm == BarrierSites \cup WaitLabels \cup {"coll_pub", "coll_read", "coll_reset"}

\* No thread touches the pthread barrier or the buffer table of a ThreadComm
\* after clear() destroyed them: finalize's entered_finalize_ counter must
\* keep the finalizer from calling clear() while a peer is still inside the
\* barrier_local of comm_destroy (thread_comm.cc finalize/clear).
NoUseAfterClear ==
  \A t \in Ranks : pc[t] \in UsesComm => ready[Id(t)]

\* Labels of thread t between publishing its send buffer and returning from
\* a collective, and those after its receive loop has finished.
AfterRecvLoop == {"coll_bar2", WaitLabel("coll_bar2"), "coll_reset",
                  "coll_bar3", WaitLabel("coll_bar3")}
InColl == {"coll_bar1", WaitLabel("coll_bar1"), "coll_read"} \cup AfterRecvLoop

\* What the collective owes receiver t of each sender's buffer: block t
\* for alltoallv and alltoall, the whole buffer for allgather.
OwedBlock(kind, t) == CASE kind = "allgather" -> 0 [] OTHER -> t

\* Collective round trip (spec 7): what thread t has received so far from
\* sender s is the block s owes t from its send buffer of the very
\* collective t is in (never a chunk of an earlier call, of another sender,
\* of another receiver, or of another communicator), and once t has left
\* its receive loop it holds that block of every sender, at s's place in
\* recvbuf.
CollDelivers ==
  \A t \in Ranks :
    LET mine(s) == <<<<s, round[t], seq[t]>>, OwedBlock(Kind(t), t)>> IN
    /\ pc[t] \in InColl =>
         \A s \in Ranks : recv[t][s] \in {NULL, mine(s)}
    /\ pc[t] \in AfterRecvLoop =>
         \A s \in Ranks : recv[t][s] = mine(s)

\* Every thread returns from its last comm_destroy: create, the collectives
\* and the finalize handshake never leave a thread blocked (spec 5:
\* comm_create followed by comm_destroy must return without deadlock).
Termination == <>(\A t \in Ranks : pc[t] = "done")

-----------------------------------------------------------------------------
(* Refinement: ThreadComm is a phased rendezvous (CollRendezvous).  Every   *)
(* communicator lifetime has 3 * Colls + 3 rendezvous points: the barrier  *)
(* of comm_create, the three barriers of each all_to_all_v, the barrier of *)
(* comm_destroy and the entered_finalize_ handshake of finalize.  How many *)
(* points a thread has arrived at, and whether it waits at the last one,   *)
(* is read off its pc, seq and round.                                      *)

PointsPerLifetime == 3 * Colls + 3

\* Points arrived at by a thread at label l in its current lifetime, not
\* counting the all_to_all_v calls it has returned from.
ArrivalsAt(l) ==
  CASE l \in {"cr_init", "cr_spin", "cr_bar"} -> 0
    [] l \in {WaitLabel("cr_bar"), "cr_check", "coll_pub", "coll_bar1", "des_bar"} -> 1
    [] l \in {WaitLabel("coll_bar1"), "coll_read", "coll_bar2",
              WaitLabel("des_bar"), "fin_inc"} -> 2
    [] l \in {WaitLabel("coll_bar2"), "coll_reset", "coll_bar3",
              "fin_spin0", "fin_spin", "fin_clear", "done"} -> 3
    [] l = WaitLabel("coll_bar3") -> 4

RendezvousArrived ==
  [t \in Ranks |-> (round[t] - 1) * PointsPerLifetime + 3 * (seq[t] - 1)
                     + ArrivalsAt(pc[t])]

\* Waiting inside pthread_barrier_wait or in a spin loop of finalize.
RendezvousWaiting ==
  [t \in Ranks |-> pc[t] \in WaitLabels \cup {"fin_spin0", "fin_spin"}]

Abs == INSTANCE CollRendezvous
         WITH Procs <- Ranks, Points <- Rounds * PointsPerLifetime,
              arrived <- RendezvousArrived, waiting <- RendezvousWaiting

\* The pthread barrier and the entered_finalize_/ready_flag_ handshake of
\* ThreadComm implement the phased rendezvous: no thread returns from a
\* barrier_local, and no thread leaves finalize, before every thread of the
\* communicator has reached that same point, and every thread that can move
\* on eventually does.
Rendezvous == Abs!Spec

=============================================================================
