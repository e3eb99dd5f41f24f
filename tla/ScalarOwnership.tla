--------------------------- MODULE ScalarOwnership ---------------------------
(***************************************************************************)
(* legate::Scalar (src/src/core/data/scalar.cc) owns a heap-allocated     *)
(* detail::Scalar through the raw pointer impl_.  The copy constructor    *)
(* deep-copies, the move constructor steals the pointer and nulls the     *)
(* source, the destructor deletes, and the copy assignment (the only      *)
(* assignment: no move assignment is declared, so a = std::move(b) uses   *)
(* it too) assigns through impl_.                                          *)
(*                                                                         *)
(* Handles are Scalar objects of the program (variables, members); a      *)
(* handle is constructed, used and destroyed any number of times.  The    *)
(* heap holds the detail::Scalar objects ever allocated.                  *)
(***************************************************************************)
EXTENDS Naturals, FiniteSets

CONSTANTS
  Handles,           \* the Scalar objects of the program
  Values,            \* the values a detail::Scalar holds
  MaxAllocs,         \* bound on new detail::Scalar
  AssignToMovedFrom  \* whether the program assigns to a moved-from Scalar

Null == 0
Addrs == 1..MaxAllocs

VARIABLES
  live,   \* live[h]: h is constructed and not yet destroyed
  impl,   \* impl[h]: the impl_ pointer of h, Null after a move
  heap,   \* heap[a]: [freed, val] of the object at address a
  errs    \* memory errors that happened: "null_deref", "double_free", "use_after_free"

vars == <<live, impl, heap, errs>>

Allocated == DOMAIN heap

\* new detail::Scalar(...): a fresh address holding v.
New(v) == LET a == Cardinality(Allocated) + 1
          IN [a |-> a, heap |-> [x \in Allocated \cup {a} |->
                                   IF x = a THEN [freed |-> FALSE, val |-> v] ELSE heap[x]]]

\* The errors of dereferencing a pointer.
DerefErrs(p) == IF p = Null THEN {"null_deref"}
                ELSE IF heap[p].freed THEN {"use_after_free"} ELSE {}

Init ==
  /\ live = [h \in Handles |-> FALSE]
  /\ impl = [h \in Handles |-> Null]
  /\ heap = <<>>
  /\ errs = {}

\* Scalar(Type, data, copy), Scalar(const std::string&) and
\* Scalar(std::unique_ptr<detail::Scalar>): a new object, owned by h.
Construct(h, v) ==
  /\ ~live[h]
  /\ Cardinality(Allocated) < MaxAllocs
  /\ LET n == New(v)
     IN /\ heap' = n.heap
        /\ impl' = [impl EXCEPT ![h] = n.a]
  /\ live' = [live EXCEPT ![h] = TRUE]
  /\ UNCHANGED errs

CopyConstruct(h, o) ==
  /\ Cardinality(Allocated) < MaxAllocs
  /\ LET n == New(IF DerefErrs(impl[o]) = {} THEN heap[impl[o]].val ELSE CHOOSE v \in Values : TRUE)
     IN /\ heap' = n.heap
        /\ impl' = [impl EXCEPT ![h] = n.a]
  /\ errs' = errs \cup DerefErrs(impl[o])

\* Mutant: the move constructor leaves other.impl_ in place.
MoveConstructBad(h, o) ==
  /\ impl' = [impl EXCEPT ![h] = impl[o]]

\* Scalar(Scalar&& other): impl_(other.impl_) { other.impl_ = nullptr; }
MoveConstruct(h, o) ==
  /\ impl' = [impl EXCEPT ![h] = impl[o], ![o] = Null]

\* ~Scalar(): delete impl_ (deleting nullptr does nothing).
Destroy(h) ==
  /\ live[h]
  /\ live' = [live EXCEPT ![h] = FALSE]
  /\ impl' = [impl EXCEPT ![h] = Null]
  /\ IF impl[h] = Null THEN UNCHANGED <<heap, errs>>
     ELSE /\ heap' = [heap EXCEPT ![impl[h]].freed = TRUE]
          /\ errs' = errs \cup (IF heap[impl[h]].freed THEN {"double_free"} ELSE {})

\* Mutant: operator= copies the pointer, as a defaulted one would.
CopyAssignBad(h, o) ==
  /\ live[h] /\ live[o]
  /\ AssignToMovedFrom \/ impl[h] # Null
  /\ impl[o] # Null
  /\ impl' = [impl EXCEPT ![h] = impl[o]]
  /\ UNCHANGED <<live, heap, errs>>

\* operator=(const Scalar& other): *impl_ = *other.impl_.
CopyAssign(h, o) ==
  /\ live[h] /\ live[o]
  /\ AssignToMovedFrom \/ impl[h] # Null
  /\ impl[o] # Null
  /\ errs' = errs \cup DerefErrs(impl[h]) \cup DerefErrs(impl[o])
  /\ heap' = IF DerefErrs(impl[h]) \cup DerefErrs(impl[o]) = {}
               THEN [heap EXCEPT ![impl[h]].val = heap[impl[o]].val]
               ELSE heap
  /\ UNCHANGED <<live, impl>>

\* type(), size() and ptr() read through impl_.
Read(h) ==
  /\ live[h] /\ impl[h] # Null
  /\ errs' = errs \cup DerefErrs(impl[h])
  /\ UNCHANGED <<live, impl, heap>>

Next ==
  \E h, o \in Handles :
    \/ \E v \in Values : Construct(h, v)
    \* a new Scalar made from a live one that has not been moved from
    \/ /\ ~live[h] /\ live[o] /\ h # o /\ impl[o] # Null
       /\ CopyConstruct(h, o)
       /\ live' = [live EXCEPT ![h] = TRUE]
    \/ /\ ~live[h] /\ live[o] /\ h # o /\ impl[o] # Null
       /\ MoveConstruct(h, o)
       /\ live' = [live EXCEPT ![h] = TRUE]
       /\ UNCHANGED <<heap, errs>>
    \/ Destroy(h)
    \/ CopyAssign(h, o)
    \/ Read(h)

Spec == Init /\ [][Next]_vars

-----------------------------------------------------------------------------
\* Copy, move and destruction keep ownership exact: every object not yet
\* deleted belongs to exactly one live Scalar (no leak, no sharing), and a
\* live Scalar's impl_ is null or points at an object not deleted.
Ownership ==
  /\ \A a \in Allocated :
       ~heap[a].freed => Cardinality({h \in Handles : live[h] /\ impl[h] = a}) = 1
  /\ \A h \in Handles : live[h] /\ impl[h] # Null => ~heap[impl[h]].freed

\* No sequence of constructions, copies, moves, assignments, reads and
\* destructions dereferences a null or deleted impl_ or deletes twice.
MemorySafe == errs = {}

-----------------------------------------------------------------------------
(* Refinement: a live Scalar holds the value of the detail::Scalar its    *)
(* impl_ points at; a null or dangling impl_ holds nothing.              *)
\* Values are positive numbers; 0 stands for "holds nothing".
Empty == 0

HeldValue ==
  [h \in Handles |->
     IF live[h] /\ impl[h] # Null /\ ~heap[impl[h]].freed
       THEN heap[impl[h]].val ELSE Empty]

Abs == INSTANCE ScalarValue WITH value <- HeldValue

\* Scalar has value semantics: no sequence of copies, moves, assignments
\* and destructions lets a step on one Scalar change the value another
\* Scalar holds (the copy constructor and operator= copy the object, not
\* the impl_ pointer), and a moved-from Scalar holds nothing.
ValueSemantics == Abs!Spec

=============================================================================
