----------------------------- MODULE FlatBuilder -----------------------------
(***************************************************************************)
(* FlatBufferBuilder: every operation takes the builder before the call    *)
(* and gives the one after.  An operation that makes an object gives       *)
(* [b |-> the builder, off |-> the object's distance from the end].        *)
(* What the code asserts (nothing nested, a field set once) is left to the *)
(* caller: Legal() is the condition the code asserts on entry.             *)
(***************************************************************************)
EXTENDS VectorDownward, FlatSchemas

CONSTANT BufferMinAlign     \* alignment of the block, a power of two

ASSUME BufferMinAlignAssumption == BufferMinAlign \in Nat \ {0}

NewBuilder(initial) ==
    [v |-> NewVector(initial, BufferMinAlign), fields |-> 0, maxvo |-> 0,
     nested |-> FALSE, finished |-> FALSE, minalign |-> 1,
     force |-> FALSE, dedup |-> TRUE, pool |-> {}]

Size(b) == b.v.size
Bounds(b, at, len) == Bytes(b.v.buf, DataAt(b.v, at), len)
Made(b) == [b |-> b, off |-> Size(b)]

\* NotNested()
Legal(b) == ~b.nested /\ b.fields = 0 /\ ~b.finished

TrackMinAlign(b, n) == [b EXCEPT !.minalign = Larger(@, n)]

Align(b, n) ==
    [TrackMinAlign(b, n) EXCEPT !.v = Fill(@, PaddingBytes(Size(b), n))]

PreAlign(b, len, align) ==
    IF len = 0 THEN b
    ELSE [TrackMinAlign(b, align) EXCEPT
             !.v = Fill(@, PaddingBytes(Size(b) + len, align))]

PushBytes(b, bytes) == [b EXCEPT !.v = Push(@, bytes)]

PushElement(b, bytes) == PushBytes(Align(b, Len(bytes)), bytes)

\* ReferTo(): the distance from the place the offset is stored at.
PushOffset(b, off) ==
    LET a == Align(b, 4)
    IN  PushElement(a, Scalar(Size(a) - off + 4, 4))

FieldLocSize == 8

TrackField(b, vo, off) ==
    [b EXCEPT !.v = ScratchPush(@, Scalar(off, 4) \o Scalar(vo, 2) \o Fresh(2)),
              !.fields = @ + 1,
              !.maxvo = Larger(@, vo)]

AddElement(b, vo, value, w, default) ==
    IF value = default /\ ~b.force THEN b
    ELSE LET p == PushElement(b, Scalar(value, w))
         IN  TrackField(p, vo, Size(p))

AddOffset(b, vo, off) ==
    IF off = 0 THEN b
    ELSE LET p == PushOffset(b, off) IN TrackField(p, vo, Size(p))

StartTable(b) == [b EXCEPT !.nested = TRUE]

\* Mutant: the field locations stay on the scratch pad.
ForgetOffsets(b) == [b EXCEPT !.fields = 0, !.maxvo = 0]

ClearOffsets(b) ==
    [b EXCEPT !.v = ScratchPop(@, b.fields * FieldLocSize),
              !.fields = 0, !.maxvo = 0]

\* The offsets of the vtables written so far, oldest first.
Vtables(b) ==
    [i \in 1..((b.v.scratch - b.fields * FieldLocSize) \div 4) |->
        ReadU(b.v.buf, 4 * (i - 1), 4)]

VtableAt(b, off) == Bounds(b, off, ReadU(b.v.buf, DataAt(b.v, off), 2))

\* The vtable of the table that starts at start and whose vtable offset is
\* stored at loc, from the field locations on the scratch pad.
NewVtable(b, start, loc) ==
    LET size == Larger(b.maxvo + 2, 4)
        Loc(i) == b.v.scratch - i * FieldLocSize
        At(vo) == {loc - ReadU(b.v.buf, Loc(i), 4) : i \in
                     {j \in 1..b.fields : ReadU(b.v.buf, Loc(j) + 4, 2) = vo}}
        Entry(vo) == IF At(vo) = {} THEN 0 ELSE CHOOSE pos \in At(vo) : TRUE
        Word(i) == IF i = 0 THEN size
                   ELSE IF i = 1 THEN loc - start ELSE Entry(2 * i)
    IN  FlattenSeq([i \in 1..(size \div 2) |-> Scalar(Word(i - 1), 2)])

\* The vtable that ends at the table at loc is kept, or taken back when one
\* of those written before is the same.
StoreVtable(b, loc, vtable) ==
    LET same == {o \in ToSet(Vtables(b)) : b.dedup /\ VtableAt(b, o) = vtable}
        Refer(x, use) ==
            [x EXCEPT !.v = WriteAt(@, DataAt(@, loc), Scalar(use - loc, 4)),
                      !.nested = FALSE]
    IN  IF same = {}
        THEN Refer([b EXCEPT !.v = ScratchPush(@, Scalar(Size(b), 4))], Size(b))
        ELSE Refer([b EXCEPT !.v = Pop(@, Size(b) - loc)],
                   CHOOSE o \in same : \A q \in same : o <= q)

EndTableAt(b, start, loc) ==
    LET vtable == NewVtable(b, start, loc)
    IN  [b |-> StoreVtable(ClearOffsets(PushBytes(b, vtable)), loc, vtable),
         off |-> loc]

EndTable(b, start) ==
    LET p == PushElement(b, Scalar(0, 4)) IN EndTableAt(p, start, Size(p))

\* The generated Create functions; an argument is a scalar or an offset.
CreateTable(b, T, args) ==
    LET f == Tables[T]
        order == AddOrder(f)
        Add(a, i) == IF f[i].kind = "num"
                     THEN AddElement(a, f[i].vo, args[i], f[i].w, f[i].default)
                     ELSE AddOffset(a, f[i].vo, args[i])
        added[k \in 0..Len(order)] ==
            IF k = 0 THEN StartTable(b) ELSE Add(added[k - 1], order[k])
    IN  EndTable(added[Len(order)], Size(b))

\* The terminator lies behind the characters.
CreateStringImpl(b, str) ==
    LET ended == [PreAlign(b, Len(str) + 1, 4) EXCEPT !.v = Fill(@, 1)]
    IN  PushElement(PushBytes(ended, str), Scalar(Len(str), 4))

CreateString(b, str) == Made(CreateStringImpl(b, str))

StringAt(b, off) ==
    Bounds(b, off - 4, ReadU(b.v.buf, DataAt(b.v, off), 4))

CreateSharedString(b, str) ==
    LET m == CreateString(b, str)
        same == {o \in b.pool : StringAt(m.b, o) = StringAt(m.b, m.off)}
    IN  IF same = {}
        THEN [m EXCEPT !.b.pool = @ \cup {m.off}]
        ELSE [b |-> [m.b EXCEPT !.v = Pop(@, Size(m.b) - Size(b))],
              off |-> CHOOSE o \in same : TRUE]

StartVector(b, len, elemsize, align) ==
    [PreAlign(PreAlign(b, len * elemsize, 4), len * elemsize, align)
        EXCEPT !.nested = TRUE]

EndVector(b, len) ==
    Made([PushElement(b, Scalar(len, 4)) EXCEPT !.nested = FALSE])

\* CreateVector() of scalars, given by their bytes.
CreateVector(b, elems, elemsize, align) ==
    EndVector(PushBytes(StartVector(b, Len(elems), elemsize, align),
                        FlattenSeq(elems)),
              Len(elems))

\* CreateVectorOfStructs(): one block of bytes, packed or copied.
CreateVectorOfStructs(b, structs, size, align) ==
    LET s == StartVector(b, Len(structs), size, align)
    IN  EndVector(PushBytes(s, FlattenSeq(structs)), Len(structs))

\* to_result_bytes(): the bytes of a value as a vector of a builder.
ToResultBytes(b, bytes) ==
    CreateVector(b, [i \in 1..Len(bytes) |-> <<bytes[i]>>], 1, 1)

ForceVectorAlignment(b, len, elemsize, align) ==
    PreAlign(b, len * elemsize, align)

\* CreateVector() of offsets: pushed from the last to the first.
CreateOffsets(b, offs) ==
    LET n == Len(offs)
        pushed[k \in 0..n] == IF k = 0 THEN StartVector(b, n, 4, 4)
                              ELSE PushOffset(pushed[k - 1], offs[n + 1 - k])
    IN  EndVector(pushed[n], n)

\* The offsets of the new strings wait on the scratch pad.
CreateVectorOfStrings(b, strs) ==
    LET n == Len(strs)
        Keep(a, str) ==
            LET m == CreateString(a, str)
            IN  [m.b EXCEPT !.v = ScratchPush(@, Scalar(m.off, 4))]
        Take(a, i) == PushOffset(a, ReadU(a.v.buf, a.v.scratch - 4 * i, 4))
        kept[k \in 0..n] == IF k = 0 THEN [b EXCEPT !.v = EnsureSpace(@, 4 * n)]
                            ELSE Keep(kept[k - 1], strs[k])
        taken[k \in 0..n] == IF k = 0 THEN StartVector(kept[n], n, 4, 4)
                             ELSE Take(taken[k - 1], k)
    IN  EndVector([taken[n] EXCEPT !.v = ScratchPop(@, 4 * n)], n)

\* The elements are written later, through the pointer to data.
CreateUninitializedVector(b, len, elemsize, align) ==
    LET s == StartVector(b, len, elemsize, align)
        room == [s EXCEPT !.v = MakeSpace(@, len * elemsize)]
        m == EndVector(room, len)
    IN  [b |-> m.b, off |-> m.off, data |-> Size(room)]

FillVector(b, data, bytes) ==
    [b EXCEPT !.v = WriteAt(@, DataAt(@, data), bytes)]

CreateStruct(b, bytes, align) == Made(PushBytes(Align(b, align), bytes))

\* Mutant: the size of what precedes the root is not taken into account.
FinishUnaligned(b, root, identifier, prefixed) ==
    LET clean == [b EXCEPT !.v = ClearScratch(@)]
        ready == PushBytes(Align(clean, clean.minalign), identifier)
        rooted == PushOffset(ready, root)
        sized == IF prefixed
                 THEN PushElement(rooted, Scalar(Size(rooted), 4))
                 ELSE rooted
    IN  [sized EXCEPT !.finished = TRUE]

\* Finish() and FinishSizePrefixed(); identifier is <<>> or four bytes.
Finish(b, root, identifier, prefixed) ==
    LET prefix == IF prefixed THEN 4 ELSE 0
        clean == TrackMinAlign([b EXCEPT !.v = ClearScratch(@)], prefix)
        ready == PushBytes(PreAlign(clean, prefix + 4 + Len(identifier),
                                    clean.minalign),
                           identifier)
        rooted == PushOffset(ready, root)
        sized == IF prefixed
                 THEN PushElement(rooted, Scalar(Size(rooted), 4))
                 ELSE rooted
    IN  [sized EXCEPT !.finished = TRUE]

\* Mutant: the pool of shared strings survives.
ClearKeepsPool(b) ==
    [ClearOffsets(b) EXCEPT !.v = ClearVector(@), !.nested = FALSE,
                            !.finished = FALSE, !.minalign = 1]

\* Clear(); Reset(), Release() and ReleaseRaw() lose the block as well.
Clear(b) ==
    [ClearOffsets(b) EXCEPT !.v = ClearVector(@), !.nested = FALSE,
                            !.finished = FALSE, !.minalign = 1, !.pool = {}]

Release(b) == Clear([b EXCEPT !.v = LoseBlock(@)])
==============================================================================
