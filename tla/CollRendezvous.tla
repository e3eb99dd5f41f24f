--------------------------- MODULE CollRendezvous ---------------------------
(***************************************************************************)
(* What the thread-local coll backend promises the threads that use it    *)
(* (spec.md 4.5 and 5): a phased rendezvous.  Every participant passes    *)
(* the same sequence of rendezvous points; a participant arrives at its   *)
(* next point and may leave it only once every participant has arrived    *)
(* there.  Nothing else is promised: the work between two points is       *)
(* invisible at this level.                                               *)
(***************************************************************************)
EXTENDS Naturals

CONSTANTS
  Procs,    \* the participants
  Points    \* how many rendezvous points each participant passes

VARIABLES
  arrived,  \* arrived[p]: rendezvous points p has arrived at
  waiting   \* waiting[p]: p has arrived at its last point and not left it

vars == <<arrived, waiting>>

TypeOK ==
  /\ arrived \in [Procs -> 0 .. Points]
  /\ waiting \in [Procs -> BOOLEAN]

Init ==
  /\ arrived = [p \in Procs |-> 0]
  /\ waiting = [p \in Procs |-> FALSE]

\* p reaches its next rendezvous point.
Arrive(p) ==
  /\ ~waiting[p]
  /\ arrived[p] < Points
  /\ arrived' = [arrived EXCEPT ![p] = @ + 1]
  /\ waiting' = [waiting EXCEPT ![p] = TRUE]

\* Every participant has reached point k.
AllArrived(k) == \A q \in Procs : arrived[q] >= k

\* p leaves the point it waits at, once everybody has reached it.
Depart(p) ==
  /\ waiting[p]
  /\ AllArrived(arrived[p])
  /\ waiting' = [waiting EXCEPT ![p] = FALSE]
  /\ UNCHANGED arrived

Next == \E p \in Procs : Arrive(p) \/ Depart(p)

\* A participant that can move on eventually does.
Fairness == \A p \in Procs : WF_vars(Arrive(p) \/ Depart(p))

Spec == Init /\ [][Next]_vars /\ Fairness

=============================================================================
