------------------------- MODULE MCScalarOwnership -------------------------
(* Three Scalar objects and up to four allocations; the handles are      *)
(* interchangeable, so they are a symmetry set.                           *)
EXTENDS ScalarOwnership, TLC

Symm == Permutations(Handles)
====
