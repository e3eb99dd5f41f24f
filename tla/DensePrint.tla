------------------------------ MODULE DensePrint ------------------------------
(***************************************************************************)
(* print_dense_array (src/src/core/utilities/debug.inl): renders a strided *)
(* array as nested brackets by walking an odometer over the dimensions,   *)
(* skipping dimensions of stride 0 (broadcast), and reading the element    *)
(* at the running offset after every increment.                           *)
(*                                                                         *)
(* The output is a sequence of tokens <<kind, n>>: <<"[", 0>>, <<"]", 0>>, *)
(* <<",", 0>> (the ", " separator) and <<"e", off>>, the element at       *)
(* offset off of base.  A state is one pass of the do-while loop.         *)
(*                                                                         *)
(* When base is device memory the code first copies num_elems elements to *)
(* a host buffer and prints from it; buf is that count, -1 otherwise.     *)
(***************************************************************************)
EXTENDS Integers, Sequences, SequencesExt, FiniteSets

CONSTANTS
  Dims,        \* the template parameter DIM
  ExtentVals,  \* extents per dimension (rect.hi - rect.lo + 1)
  MaxBroadcast \* how many dimensions may have stride 0

Dim == 0..Dims-1
Open == <<"[", 0>>
Close == <<"]", 0>>
Sep == <<",", 0>>
Elem(off) == <<"e", off>>

\* The instance layouts an accessor reports: dense in some order of the
\* dimensions (innermost first), with the broadcast dimensions at stride 0.
RECURSIVE ProdExt(_, _)
ProdExt(ext, ds) == IF ds = {} THEN 1
                    ELSE LET d == CHOOSE d \in ds : TRUE IN ext[d] * ProdExt(ext, ds \ {d})
Layouts(ext) ==
  { [d \in Dim |-> IF d \in bc THEN 0
                   ELSE ProdExt(ext, {e \in Dim \ bc : ord[e] < ord[d]})] :
      bc \in {b \in SUBSET Dim : Cardinality(b) <= MaxBroadcast},
      ord \in {f \in [Dim -> Dim] : \A d1, d2 \in Dim : d1 # d2 => f[d1] # f[d2]} }

\* The "[" printed for every dimension from lo on that is not broadcast.
Opens(str, lo) == [i \in 1..Cardinality({d \in Dim : d >= lo /\ str[d] # 0}) |-> Open]

VARIABLES ext, str, buf, point, offset, out, reads, dim

vars == <<ext, str, buf, point, offset, out, reads, dim>>

\* Mutant: the host copy spans extents - 1 elements along a dimension.
NumElemsBad(e, s) == Max({s[d] * (e[d] - 1) : d \in Dim} \cup {0})

\* num_elems: the largest strides[dim] * extents[dim] over the dimensions.
NumElems(e, s) == Max({s[d] * e[d] : d \in Dim} \cup {0})

\* The code before the loop: the copy to the host when cudaPointerGetAttributes
\* says base is device memory, the opening brackets and *base.
Init ==
  /\ ext \in [Dim -> ExtentVals]
  /\ str \in Layouts(ext)
  /\ buf \in {-1, NumElems(ext, str)}
  /\ point = [d \in Dim |-> 0]
  /\ offset = 0
  /\ out = Opens(str, 0) \o <<Elem(0)>>
  /\ reads = {0}
  /\ dim = Dims - 1

\* Mutant: the carry leaves the offset of the wrapped dimension in place.
CarryBad(d, p, off) == [p |-> [p EXCEPT ![d] = 0], off |-> off]

\* Mutant: the carry subtracts one stride too many.
CarryOffByOne(d, p, off) == [p |-> [p EXCEPT ![d] = 0], off |-> off - (p[d] + 1) * str[d]]

\* offset -= point[dim] * strides[dim]; point[dim] = 0;
Carry(d, p, off) == [p |-> [p EXCEPT ![d] = 0], off |-> off - p[d] * str[d]]

\* if (point[dim] + 1 < extents[dim])
CanIncrement(d, p) == p[d] + 1 < ext[d]

\* One pass of the do-while: the for loop from the last dimension down,
\* skipping broadcast ones, either increments a dimension (", ", the
\* brackets of the dimensions after it, the element) and breaks, or
\* wraps every dimension (one "]" each) and ends with dim = -1.
RECURSIVE Pass(_, _, _, _)
Pass(d, p, off, toks) ==
  CASE d < 0 -> [dim |-> d, p |-> p, off |-> off, toks |-> toks, read |-> {}]
    [] str[d] = 0 -> Pass(d - 1, p, off, toks)
    [] CanIncrement(d, p) ->
         LET o == off + str[d]
         IN [dim |-> d, p |-> [p EXCEPT ![d] = @ + 1], off |-> o,
             toks |-> toks \o <<Sep>> \o Opens(str, d + 1) \o <<Elem(o)>>, read |-> {o}]
    [] OTHER -> LET c == Carry(d, p, off)
                IN Pass(d - 1, c.p, c.off, toks \o <<Close>>)

Step ==
  /\ dim >= 0
  /\ LET r == Pass(Dims - 1, point, offset, <<>>)
     IN /\ dim' = r.dim
        /\ point' = r.p
        /\ offset' = r.off
        /\ out' = out \o r.toks
        /\ reads' = reads \cup r.read
  /\ UNCHANGED <<ext, str, buf>>

Spec == Init /\ [][Step]_vars

-----------------------------------------------------------------------------
(* Reference rendering: nested lists over the non-broadcast dimensions in *)
(* index order, the elements at their strided offsets.                     *)
Live == SelectSeq([i \in 1..Dims |-> i - 1], LAMBDA d : str[d] # 0)

RECURSIVE Nest(_, _)
Nest(k, off) ==
  IF k > Len(Live) THEN <<Elem(off)>>
  ELSE LET d == Live[k]
           part(j) == Nest(k + 1, off + j * str[d])
           body == FoldLeft(LAMBDA acc, j : acc \o <<Sep>> \o part(j), part(0),
                            [i \in 1..ext[d] - 1 |-> i])
       IN <<Open>> \o body \o <<Close>>

Reference == Nest(1, 0)

\* while (dim >= 0): the loop ends, the staging buffer is freed and
\* ss.str() returned.
Done == dim < 0

-----------------------------------------------------------------------------
TypeOK ==
  /\ point \in [Dim -> Nat]
  /\ offset \in Nat
  /\ dim \in -1..Dims-1

\* What is printed so far is always a prefix of the nested rendering of
\* the array, and the loop ends having printed all of it.
PrintsArray ==
  /\ IsPrefix(out, Reference)
  /\ Done => out = Reference

\* For device memory, every element printed, *base included, lies in the
\* num_elems elements copied to the host buffer.
HostCopyCovers == buf >= 0 => reads \subseteq 0..buf-1

=============================================================================
