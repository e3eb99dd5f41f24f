----------------------------- MODULE ScalarValue -----------------------------
(***************************************************************************)
(* What legate::Scalar promises its users: it is a value type.  Each      *)
(* Scalar object holds its own value; constructing, copying, moving,      *)
(* assigning and destroying one Scalar changes no other Scalar, except    *)
(* that a move empties its source.  How the value is stored is invisible  *)
(* at this level.                                                         *)
(***************************************************************************)
CONSTANTS
  Handles,   \* the Scalar objects of the program
  Values,    \* the values a Scalar holds
  Empty      \* the "value" of a moved-from or destroyed Scalar

ASSUME Empty \notin Values

VARIABLES
  live,      \* live[h]: h is constructed and not yet destroyed
  value      \* value[h]: what h holds

vars == <<live, value>>

Init ==
  /\ live = [h \in Handles |-> FALSE]
  /\ value = [h \in Handles |-> Empty]

Construct(h, v) ==
  /\ ~live[h]
  /\ live' = [live EXCEPT ![h] = TRUE]
  /\ value' = [value EXCEPT ![h] = v]

\* A copy holds the value of its source; the source is untouched.
Copy(h, o) ==
  /\ ~live[h] /\ live[o] /\ value[o] # Empty
  /\ live' = [live EXCEPT ![h] = TRUE]
  /\ value' = [value EXCEPT ![h] = value[o]]

\* A move takes the value of its source and leaves the source empty.
Move(h, o) ==
  /\ ~live[h] /\ live[o] /\ h # o
  /\ live' = [live EXCEPT ![h] = TRUE]
  /\ value' = [value EXCEPT ![h] = value[o], ![o] = Empty]

Destroy(h) ==
  /\ live[h]
  /\ live' = [live EXCEPT ![h] = FALSE]
  /\ value' = [value EXCEPT ![h] = Empty]

\* Assignment changes the target only.
Assign(h, o) ==
  /\ live[h] /\ live[o] /\ value[o] # Empty
  /\ value' = [value EXCEPT ![h] = value[o]]
  /\ UNCHANGED live

Next ==
  \E h, o \in Handles :
    \/ \E v \in Values : Construct(h, v)
    \/ Copy(h, o)
    \/ Move(h, o)
    \/ Destroy(h)
    \/ Assign(h, o)

Spec == Init /\ [][Next]_vars

=============================================================================
