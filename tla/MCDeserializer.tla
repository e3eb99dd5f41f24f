--------------------------- MODULE MCDeserializer ---------------------------
(* Task arguments for checking the deserializer: one value of every kind  *)
(* BaseDeserializer reads, with the alignments that force padding         *)
(* (1-, 8- and 16-byte values after 4-byte counts), nested type           *)
(* descriptors and transform stacks, and a machine with an empty range.   *)
EXTENDS Deserializer

MC_Items == {
  [kind |-> "prim", t |-> "int8", v |-> 1],
  [kind |-> "prim", t |-> "int64", v |-> 2],
  [kind |-> "vec", t |-> "uint64", v |-> <<1, 2>>],
  [kind |-> "pair", t1 |-> "bool", t2 |-> "int32", v1 |-> TRUE, v2 |-> 3],
  [kind |-> "scalars",
   v |-> << [type |-> [code |-> "complex128"], val |-> 1],
            [type |-> [code |-> "string"], val |-> [len |-> 3, text |-> "abc"]] >>],
  [kind |-> "scalars",
   v |-> << [type |-> [code |-> "fixed_array", uid |-> 7, n |-> 3,
                       elem |-> [code |-> "int16"]], val |-> "blob"],
            [type |-> [code |-> "nil"], val |-> "none"],
            [type |-> [code |-> "binary", size |-> 3], val |-> "bin"] >>],
  [kind |-> "type",
   ty |-> [code |-> "struct", uid |-> 5, align |-> TRUE,
           fields |-> << [code |-> "int8"],
                         [code |-> "list", uid |-> 6, elem |-> [code |-> "float64"]] >>]],
  [kind |-> "transform",
   v |-> << [code |-> "SHIFT", dim |-> 0, arg |-> 2],
            [code |-> "TRANSPOSE", axes |-> <<1, 0>>],
            [code |-> "DELINEARIZE", dim |-> 1, sizes |-> <<2, 3>>] >>],
  [kind |-> "machine", target |-> "GPU",
   ranges |-> << <<"CPU", [low |-> 0, high |-> 4, per_node_count |-> 2]>>,
                 <<"GPU", [low |-> 2, high |-> 1, per_node_count |-> 1]>> >>],
  [kind |-> "domain", v |-> <<3, 2>>]
}
MC_PackBases == {0, 4, 8}
====
