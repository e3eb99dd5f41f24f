---------------------------- MODULE MCDensePrint ----------------------------
(* Arrays of up to three dimensions with extents 1 to 3 in every dense   *)
(* layout order and with up to two broadcast dimensions.                  *)
EXTENDS DensePrint

MC_Extents == 1..3
====
