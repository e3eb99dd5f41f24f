------------------------ MODULE MCOperationPipeline ------------------------
(* Seven stores, one per case Copy::validate and the tiling tell apart:  *)
(* two int stores of 8 and 4 elements, a float store, a transformed, a   *)
(* scalar, an unbound and a two-dimensional store.                        *)
EXTENDS OperationPipeline

MC_StoreIds == {"A", "B", "C", "T", "S", "U", "D"}

MC_Store(type, dim, vol, unbound, scalar, transformed) ==
  [type |-> type, dim |-> dim, vol |-> vol, unbound |-> unbound,
   scalar |-> scalar, transformed |-> transformed]

MC_Stores ==
  [s \in MC_StoreIds |->
     CASE s = "A" -> MC_Store("int64", 1, 8, FALSE, FALSE, FALSE)
       [] s = "B" -> MC_Store("int64", 1, 4, FALSE, FALSE, FALSE)
       [] s = "C" -> MC_Store("float64", 1, 8, FALSE, FALSE, FALSE)
       [] s = "T" -> MC_Store("int64", 1, 8, FALSE, FALSE, TRUE)
       [] s = "S" -> MC_Store("int64", 1, 1, FALSE, TRUE, FALSE)
       [] s = "U" -> MC_Store("int64", 1, 8, TRUE, FALSE, FALSE)
       [] s = "D" -> MC_Store("int64", 2, 8, FALSE, FALSE, FALSE)]
====
