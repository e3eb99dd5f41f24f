----------------------------- MODULE Deserializer -----------------------------
(***************************************************************************)
(* BaseDeserializer (src/src/core/utilities/detail/deserializer.inl): the  *)
(* task-argument reader that walks a byte span, aligning the read pointer  *)
(* for every value with align_for_unpack and recursing into vectors,      *)
(* pairs, scalars, type descriptors, transform stacks, machines and        *)
(* domains.                                                                *)
(*                                                                         *)
(* The buffer maps offsets to cells: a value of a primitive type and its  *)
(* width.  The reader computes where each value starts *)
(* from the absolute address (buffer base + offset), exactly as            *)
(* std::align does, and reads the cell there; a read that does not hit a   *)
(* cell of the same type and width yields Garbage.  The writer            *)
(* (BufferBuilder::pack and the *::pack methods, not part of the source)   *)
(* is the reference: it aligns every value to its alignment at its own     *)
(* absolute address.                                                       *)
(***************************************************************************)
EXTENDS Integers, Sequences, SequencesExt, TLC

CONSTANTS
  Items,        \* values a task may pass (see the record shapes below)
  MaxItems,     \* bound on the number of values in one argument buffer
  PackBases,    \* buffer addresses (mod MaxAlign) of the packer
  Shifts,       \* how far the task's copy of the buffer sits from the
                \* packer's, mod MaxAlign
  Truncs,       \* how many bytes the task's copy may lack at its end
  Garbage       \* model value: the content of bytes read at the wrong place

\* alignof(std::max_align_t)
MaxAlign == 16

\* Primitive wire types: sizeof and alignof.
Size(t) ==
  CASE t \in {"bool", "int8", "uint8"} -> 1
    [] t \in {"int16", "uint16"} -> 2
    [] t \in {"int32", "uint32", "float32"} -> 4
    [] t \in {"int64", "uint64", "float64"} -> 8
    [] t = "complex128" -> 16
Align(t) == IF t = "complex128" THEN 8 ELSE Size(t)
PrimCodes == {"bool", "int8", "uint8", "int16", "uint16", "int32", "uint32",
              "float32", "int64", "uint64", "float64", "complex128"}

\* Legate type descriptors (Type::Code and the parameters unpack_type_
\* reads): their size() and alignment().
RECURSIVE TySize(_), TyAlign(_)
TySize(ty) ==
  CASE ty.code = "fixed_array" -> ty.n * TySize(ty.elem)
    [] ty.code = "binary" -> ty.size
    [] OTHER -> Size(ty.code)
TyAlign(ty) ==
  CASE ty.code = "fixed_array" -> TyAlign(ty.elem)
    [] ty.code = "binary" -> 1
    [] OTHER -> Align(ty.code)

\* Round an absolute address up to a multiple of a.
AlignUp(addr, a) == ((addr + a - 1) \div a) * a

-----------------------------------------------------------------------------
(* align_for_unpack: std::align over at most bytes + align - 1 bytes of    *)
(* the remaining capacity.  Fails (the runtime_error) when the aligned     *)
(* value does not fit, otherwise returns the padding skipped.              *)

AlignForUnpackBad(addr, capacity, bytes, align) ==
  LET orig == IF bytes < capacity THEN bytes ELSE capacity
      pad  == AlignUp(addr, align) - addr
  IN IF bytes > orig \/ pad > orig - bytes
       THEN [ok |-> FALSE]
       ELSE [ok |-> TRUE, offset |-> pad]

AlignForUnpack(addr, capacity, bytes, align) ==
  LET orig == IF bytes + align - 1 < capacity THEN bytes + align - 1 ELSE capacity
      pad  == AlignUp(addr, align) - addr
  IN IF bytes > orig \/ pad > orig - bytes
       THEN [ok |-> FALSE]
       ELSE [ok |-> TRUE, offset |-> pad]

-----------------------------------------------------------------------------
(* The packer: BufferBuilder::pack of each value at the next address       *)
(* aligned for its type, the values of a composite in the order the        *)
(* reader expects them.  A packer state is [base, len, cells].             *)

PackCell(p, t, align, w, v) ==
  LET at == AlignUp(p.base + p.len, align) - p.base
  IN [p EXCEPT !.len = at + w, !.cells = @ @@ (at :> [t |-> t, w |-> w, v |-> v])]
PackPrim(p, t, v) == PackCell(p, t, Align(t), Size(t), v)
PackVector(p, t, s) ==
  FoldLeft(LAMBDA q, x : PackPrim(q, t, x), PackPrim(p, "uint32", Len(s)), s)

RECURSIVE PackType(_, _)
PackType(p, ty) ==
  LET q == PackPrim(p, "int32", ty.code)
  IN CASE ty.code = "fixed_array" ->
            PackType(PackPrim(PackPrim(q, "uint32", ty.uid), "uint32", ty.n), ty.elem)
       [] ty.code = "struct" ->
            PackPrim(FoldLeft(PackType, PackPrim(PackPrim(q, "uint32", ty.uid),
                                                 "uint32", Len(ty.fields)), ty.fields),
                     "bool", ty.align)
       [] ty.code = "list" -> PackType(PackPrim(q, "uint32", ty.uid), ty.elem)
       [] ty.code = "binary" -> PackPrim(q, "uint32", ty.size)
       [] OTHER -> q

\* A string scalar is its uint32 length followed by the characters, at
\* max_align_t alignment; binary and fixed-array values are raw bytes.
PackScalar(p, s) ==
  LET q == PackType(p, s.type)
  IN CASE s.type.code = "nil" -> q
       [] s.type.code = "string" -> PackCell(q, "string", MaxAlign, 4 + s.val.len, s.val)
       [] s.type.code \in {"binary", "fixed_array"} ->
            PackCell(q, "bytes", TyAlign(s.type), TySize(s.type), s.val)
       [] OTHER -> PackPrim(q, s.type.code, s.val)

PackTransform(p, s) ==
  LET one(q, x) ==
        LET c == PackPrim(q, "int32", x.code)
        IN CASE x.code = "TRANSPOSE" -> PackVector(c, "int32", x.axes)
             [] x.code = "DELINEARIZE" -> PackVector(PackPrim(c, "int32", x.dim), "uint64", x.sizes)
             [] OTHER -> PackPrim(PackPrim(c, "int32", x.dim), "int64", x.arg)
  IN PackPrim(FoldLeft(one, p, s), "int32", "NONE")

PackMachine(p, m) ==
  LET one(q, kr) ==
        LET r == kr[2]
        IN PackPrim(PackPrim(PackPrim(PackPrim(q, "int32", kr[1]), "uint32", r.low),
                             "uint32", r.high), "uint32", r.per_node_count)
  IN FoldLeft(one, PackPrim(PackPrim(p, "int32", m.target), "uint32", Len(m.ranges)), m.ranges)

PackItem(p, it) ==
  CASE it.kind = "prim" -> PackPrim(p, it.t, it.v)
    [] it.kind = "vec" -> PackVector(p, it.t, it.v)
    [] it.kind = "pair" -> PackPrim(PackPrim(p, it.t1, it.v1), it.t2, it.v2)
    [] it.kind = "scalars" -> FoldLeft(PackScalar, PackPrim(p, "uint32", Len(it.v)), it.v)
    [] it.kind = "type" -> PackType(p, it.ty)
    [] it.kind = "transform" -> PackTransform(p, it.v)
    [] it.kind = "machine" -> PackMachine(p, it)
    [] it.kind = "domain" -> PackVector(p, "int64", it.v)

Packed(base, its) == FoldLeft(PackItem, [base |-> base, len |-> 0, cells |-> <<>>], its)

-----------------------------------------------------------------------------
VARIABLES
  pbase,   \* address of the packer's buffer, mod MaxAlign
  ubase,   \* address of the task's copy of it, mod MaxAlign
  items,   \* the values packed, in order
  cells,   \* what the packer wrote
  buflen,  \* bytes the packer wrote
  arglen,  \* bytes handed to the BaseDeserializer constructor
  args,    \* args_: the span [off, size] not yet read
  out,     \* the values unpacked so far
  status   \* "ok", or how the last unpack ended

vars == <<pbase, ubase, items, cells, buflen, arglen, args, out, status>>

(* A reader result: the value and the span left, or a failure:            *)
(* "throw" (runtime_error), "abort" (LEGATE_ABORT), "garbage" (bytes read *)
(* from the wrong place) or "overrun" (subspan past the end of the span). *)
Ret(v, a) == [st |-> "ok", val |-> v, off |-> a.off, size |-> a.size]
Fail(s) == [st |-> s, val |-> Garbage, off |-> 0, size |-> 0]
Bind(r, F(_, _)) == IF r.st = "ok" THEN F(r.val, r) ELSE r

\* The cell of type t the packer wrote at offset at, if any.
CellAt(at, t) == IF at \in DOMAIN cells /\ cells[at].t = t THEN cells[at] ELSE Garbage

\* Mutant: args_ shrinks by sizeof(T) only, not by the padding skipped.
UnpackImplBad(a, t) ==
  LET al == AlignForUnpack(ubase + a.off, a.size, Size(t), Align(t))
      at == a.off + al.offset
      c  == CellAt(at, t)
  IN CASE ~al.ok -> Fail("throw")
       [] c = Garbage -> Fail("garbage")
       [] OTHER -> Ret(c.v, [off |-> at + Size(t), size |-> a.size - Size(t)])

\* unpack_impl(T&): align, read, args_ = args_.subspan(align_offset + sizeof(T)).
UnpackImpl(a, t) ==
  LET al == AlignForUnpack(ubase + a.off, a.size, Size(t), Align(t))
      at == a.off + al.offset
      c  == CellAt(at, t)
  IN CASE ~al.ok -> Fail("throw")
       [] c = Garbage -> Fail("garbage")
       [] OTHER -> Ret(c.v, [off |-> at + Size(t), size |-> a.size - al.offset - Size(t)])

\* unpack_impl(std::vector<T>&): a uint32 count, then the elements.
RECURSIVE UnpackN(_, _, _, _)
UnpackN(a, t, n, acc) ==
  IF n = 0 THEN Ret(acc, a)
  ELSE Bind(UnpackImpl(a, t), LAMBDA v, b : UnpackN(b, t, n - 1, Append(acc, v)))
UnpackVector(a, t) == Bind(UnpackImpl(a, "uint32"), LAMBDA n, b : UnpackN(b, t, n, <<>>))

\* unpack_impl(std::pair<T1, T2>&)
UnpackPair(a, t1, t2) ==
  Bind(UnpackImpl(a, t1), LAMBDA v1, b : Bind(UnpackImpl(b, t2), LAMBDA v2, c : Ret(<<v1, v2>>, c)))

\* unpack_type_: the code, then the parameters of that type.
RECURSIVE UnpackType(_), UnpackTypes(_, _, _)
UnpackTypes(a, n, acc) ==
  IF n = 0 THEN Ret(acc, a)
  ELSE Bind(UnpackType(a), LAMBDA ty, b : UnpackTypes(b, n - 1, Append(acc, ty)))
UnpackType(a) ==
  Bind(UnpackImpl(a, "int32"), LAMBDA code, b :
    CASE code = "fixed_array" ->
           Bind(UnpackImpl(b, "uint32"), LAMBDA uid, c :
           Bind(UnpackImpl(c, "uint32"), LAMBDA n, d :
           Bind(UnpackType(d), LAMBDA e, f :
             Ret([code |-> code, uid |-> uid, n |-> n, elem |-> e], f))))
      [] code = "struct" ->
           Bind(UnpackImpl(b, "uint32"), LAMBDA uid, c :
           Bind(UnpackImpl(c, "uint32"), LAMBDA n, d :
           Bind(UnpackTypes(d, n, <<>>), LAMBDA fs, e :
           Bind(UnpackImpl(e, "bool"), LAMBDA al, f :
             Ret([code |-> code, uid |-> uid, fields |-> fs, align |-> al], f)))))
      [] code = "list" ->
           Bind(UnpackImpl(b, "uint32"), LAMBDA uid, c :
           Bind(UnpackType(c), LAMBDA e, d : Ret([code |-> code, uid |-> uid, elem |-> e], d)))
      [] code = "binary" ->
           Bind(UnpackImpl(b, "uint32"), LAMBDA sz, c : Ret([code |-> code, size |-> sz], c))
      [] code \in PrimCodes \cup {"nil", "string"} -> Ret([code |-> code], b)
      [] OTHER -> Fail("abort"))

\* Mutant: a string scalar's size taken as the lower bound used to align it.
ScalarSizeBad(ty, c) == IF ty.code = "string" THEN 4 + 1 ELSE TySize(ty)

\* Scalar::size(): a string's length prefix plus its characters.
ScalarSize(ty, c) == IF ty.code = "string" THEN c.w ELSE TySize(ty)

\* unpack_scalar: the type, then the value aligned for it (for a string,
\* for a 5-byte lower bound at max_align_t), then
\* args_ = args_.subspan(align_offset + result->size()).
UnpackScalar(a) ==
  Bind(UnpackType(a), LAMBDA ty, b :
    CASE ty.code = "list" -> Fail("abort")
      [] ty.code = "nil" -> Ret([type |-> ty, val |-> "none"], b)
      [] OTHER ->
           LET al == IF ty.code = "string"
                       THEN AlignForUnpack(ubase + b.off, b.size, 4 + 1, MaxAlign)
                       ELSE AlignForUnpack(ubase + b.off, b.size, TySize(ty), TyAlign(ty))
               at == b.off + al.offset
               c  == CellAt(at, CASE ty.code \in PrimCodes -> ty.code
                                  [] ty.code = "string" -> "string"
                                  [] OTHER -> "bytes")
               sz == ScalarSize(ty, c)
           IN CASE ~al.ok -> Fail("throw")
                [] c = Garbage -> Fail("garbage")
                [] al.offset + sz > b.size -> Fail("overrun")
                [] OTHER -> Ret([type |-> ty, val |-> c.v],
                                [off |-> at + sz, size |-> b.size - al.offset - sz]))

\* unpack_scalars: a uint32 count, then the scalars.
RECURSIVE UnpackScalarN(_, _, _)
UnpackScalarN(a, n, acc) ==
  IF n = 0 THEN Ret(acc, a)
  ELSE Bind(UnpackScalar(a), LAMBDA v, b : UnpackScalarN(b, n - 1, Append(acc, v)))
UnpackScalars(a) == Bind(UnpackImpl(a, "uint32"), LAMBDA n, b : UnpackScalarN(b, n, <<>>))

\* unpack_impl(ProcessorRange&)
UnpackProcessorRange(a) ==
  Bind(UnpackImpl(a, "uint32"), LAMBDA lo, b :
  Bind(UnpackImpl(b, "uint32"), LAMBDA hi, c :
  Bind(UnpackImpl(c, "uint32"), LAMBDA per, d :
    Ret([low |-> lo, high |-> hi, per_node_count |-> per], d))))

\* ProcessorRange::empty() (mapping.h): no processor in [low, high).
EmptyRange(r) == r.high <= r.low

\* Mutant: empty ranges are inserted too.
InsertRangeBad(m, kind, r) == IF kind \in DOMAIN m THEN m ELSE m @@ (kind :> r)

\* processor_ranges.insert({kind, range}) when !range.empty(); std::map
\* keeps the first entry of a kind.
InsertRange(m, kind, r) ==
  IF EmptyRange(r) \/ kind \in DOMAIN m THEN m ELSE m @@ (kind :> r)

\* unpack_impl(Machine&): the preferred target, a uint32 count, and that
\* many (kind, range) pairs.
RECURSIVE UnpackRanges(_, _, _)
UnpackRanges(a, n, m) ==
  IF n = 0 THEN Ret(m, a)
  ELSE Bind(UnpackImpl(a, "int32"), LAMBDA kind, b :
       Bind(UnpackProcessorRange(b), LAMBDA r, c :
         UnpackRanges(c, n - 1, InsertRange(m, kind, r))))
UnpackMachine(a) ==
  Bind(UnpackImpl(a, "int32"), LAMBDA tgt, b :
  Bind(UnpackImpl(b, "uint32"), LAMBDA n, c :
  Bind(UnpackRanges(c, n, <<>>), LAMBDA m, d :
    Ret([preferred_target |-> tgt, processor_ranges |-> m], d))))

\* unpack_impl(Domain&): dim, then per dimension the extent, giving the
\* rectangle lo = 0, hi = extent - 1.
DomainOf(ext) == [lo |-> [i \in DOMAIN ext |-> 0], hi |-> [i \in DOMAIN ext |-> ext[i] - 1]]
UnpackDomain(a) ==
  Bind(UnpackImpl(a, "uint32"), LAMBDA dim, b :
  Bind(UnpackN(b, "int64", dim, <<>>), LAMBDA ext, c : Ret(DomainOf(ext), c)))

\* unpack_transform_: a code (NONE is -1, the bottom of the stack), the
\* transform's parameters, then its parent.
RECURSIVE UnpackTransform(_)
UnpackTransform(a) ==
  Bind(UnpackImpl(a, "int32"), LAMBDA code, b :
    CASE code = "NONE" -> Ret(<<>>, b)
      [] code \in {"SHIFT", "PROMOTE", "PROJECT"} ->
           Bind(UnpackImpl(b, "int32"), LAMBDA x, c :
           Bind(UnpackImpl(c, "int64"), LAMBDA y, d :
           Bind(UnpackTransform(d), LAMBDA parent, e :
             Ret(<<[code |-> code, dim |-> x, arg |-> y]>> \o parent, e))))
      [] code = "TRANSPOSE" ->
           Bind(UnpackVector(b, "int32"), LAMBDA axes, c :
           Bind(UnpackTransform(c), LAMBDA parent, d :
             Ret(<<[code |-> code, axes |-> axes]>> \o parent, d)))
      [] code = "DELINEARIZE" ->
           Bind(UnpackImpl(b, "int32"), LAMBDA x, c :
           Bind(UnpackVector(c, "uint64"), LAMBDA sizes, d :
           Bind(UnpackTransform(d), LAMBDA parent, e :
             Ret(<<[code |-> code, dim |-> x, sizes |-> sizes]>> \o parent, e))))
      [] OTHER -> Fail("abort"))

\* What a task body asks for next, by the kind of value it expects.
UnpackItem(a, it) ==
  CASE it.kind = "prim" -> UnpackImpl(a, it.t)
    [] it.kind = "vec" -> UnpackVector(a, it.t)
    [] it.kind = "pair" -> UnpackPair(a, it.t1, it.t2)
    [] it.kind = "scalars" -> UnpackScalars(a)
    [] it.kind = "type" -> UnpackType(a)
    [] it.kind = "transform" -> UnpackTransform(a)
    [] it.kind = "machine" -> UnpackMachine(a)
    [] it.kind = "domain" -> UnpackDomain(a)

-----------------------------------------------------------------------------
(* The value a task should get back for each packed item.                  *)
Expected(it) ==
  CASE it.kind \in {"prim", "vec", "scalars", "transform"} -> it.v
    [] it.kind = "pair" -> <<it.v1, it.v2>>
    [] it.kind = "type" -> it.ty
    [] it.kind = "domain" -> [lo |-> [i \in DOMAIN it.v |-> 0],
                              hi |-> [i \in DOMAIN it.v |-> it.v[i] - 1]]
    [] it.kind = "machine" ->
         LET live == {i \in DOMAIN it.ranges : it.ranges[i][2].low < it.ranges[i][2].high}
         IN [preferred_target |-> it.target,
             processor_ranges |-> [k \in {it.ranges[i][1] : i \in live} |->
                                     (CHOOSE kr \in ToSet(it.ranges) : kr[1] = k)[2]]]

Statuses == {"ok", "throw", "abort", "garbage", "overrun"}

(* The task gets a copy of the packed buffer at an address Shifts away    *)
(* from the packer's (mod MaxAlign), possibly short by Truncs bytes.      *)
Init ==
  \E pb \in PackBases, d \in Shifts, tr \in Truncs,
     its \in SeqOf(Items, MaxItems) \ {<<>>} :
    LET p == Packed(pb, its)
    IN /\ tr <= p.len
       /\ pbase = pb
       /\ ubase = (pb + d) % MaxAlign
       /\ items = its
       /\ cells = p.cells
       /\ buflen = p.len
       /\ arglen = p.len - tr
       /\ args = [off |-> 0, size |-> p.len - tr]
       /\ out = <<>>
       /\ status = "ok"

\* The task body unpacks its next argument: it gets the value, or the
\* unpack throws, aborts, or goes wrong.
Unpack ==
  /\ status = "ok"
  /\ Len(out) < Len(items)
  /\ LET r == UnpackItem(args, items[Len(out) + 1])
     IN \/ /\ r.st = "ok"
           /\ out' = Append(out, r.val)
           /\ args' = [off |-> r.off, size |-> r.size]
           /\ UNCHANGED status
        \/ /\ r.st # "ok"
           /\ status' = r.st
           /\ UNCHANGED <<out, args>>
  /\ UNCHANGED <<pbase, ubase, items, cells, buflen, arglen>>

Spec == Init /\ [][Unpack]_vars

Done == Len(out) = Len(items)

-----------------------------------------------------------------------------
\* The span args_ always ends where the handed buffer ends: every unpack
\* advances its start by exactly what it shrinks its size by.
TypeOK ==
  /\ status \in Statuses
  /\ Len(out) <= Len(items)
  /\ args.size >= 0
  /\ args.off + args.size = arglen

\* Every value a task unpacks from a whole, correctly placed buffer is the
\* value that was packed (domains as lo = 0, hi = extent - 1; machines
\* without their empty ranges), and no unpack of such a buffer throws,
\* aborts, reads misplaced bytes or overruns.
RoundTrip ==
  /\ \A i \in DOMAIN out : out[i] = Expected(items[i])
  /\ (arglen = buflen /\ ubase = pbase) => status = "ok"

\* Once every argument is unpacked the reader stands exactly at the end of
\* what was packed, so the arguments that follow in the same buffer start
\* where their packer put them.
ConsumesExactly == (Done /\ status = "ok") => args.off = buflen

NoOverrun == status # "overrun"

=============================================================================
