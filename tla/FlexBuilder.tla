----------------------------- MODULE FlexBuilder -----------------------------
(***************************************************************************)
(* flexbuffers::Builder.  Finished parts are in buf, what is not yet part  *)
(* of a vector or map waits on the stack: numbers as they are, the rest by *)
(* its place in buf.  Every operation gives the builder after it.          *)
(***************************************************************************)
EXTENDS FlexTypes
LOCAL INSTANCE SequencesExt

NewBuilder(flags) ==
    [buf |-> <<>>, stack |-> <<>>, flags |-> flags, force |-> 0,
     keys |-> {}, strings |-> {}, duplicates |-> FALSE, finished |-> FALSE]

\* Builder::Value
Value(n, type, width) == [n |-> n, type |-> type, w |-> width]

Stack(b, v) == [b EXCEPT !.stack = Append(@, v)]

Zeros(n) == [i \in 1..n |-> 0]

Align(b, w) == [b EXCEPT !.buf = @ \o Zeros(PaddingBytes(Len(@), 2 ^ w))]

Write(b, n, bytes) == [b EXCEPT !.buf = @ \o Scalar(n, bytes)]

----------------------------------------------------------------------------
(* Values *)

AddNull(b) == Stack(b, Value(0, FBT_NULL, 0))
AddInt(b, i) == Stack(b, Value(i, FBT_INT, WidthI(i)))
AddUInt(b, u) == Stack(b, Value(u, FBT_UINT, WidthU(u)))
AddFloat(b, f) == Stack(b, Value(f, FBT_FLOAT, WidthF(f)))
AddBool(b, t) == Stack(b, Value(IF t THEN 1 ELSE 0, FBT_BOOL, 0))

\* Mutant: the number is written where the buffer ends.
PushUnaligned(b, n, type, w) ==
    Stack(Write(b, n, 2 ^ w), Value(Len(b.buf), type, w))

PushIndirect(b, n, type, w) ==
    LET a == Align(b, w)
    IN  Stack(Write(a, n, 2 ^ w), Value(Len(a.buf), type, w))

\* The float of IndirectFloat() is written as it is.  IndirectDouble() does
\* not convert: of its double, as many bytes are written as a float needs.
AddIndirectFloat(b, f) == PushIndirect(b, f, FBT_INDIRECT_FLOAT, 2)

AddIndirectDouble(b, f) ==
    PushIndirect(b, IF WidthF(f) = 2 THEN LowHalf(f) ELSE f,
                 FBT_INDIRECT_FLOAT, WidthF(f))

\* A key that is in the pool already is taken back.
AddKey(b, str) ==
    LET a == [b EXCEPT !.buf = @ \o str \o <<0>>]
        same == {p \in b.keys : CharsAt(b.buf, p) = str}
        Refer(x, p) == Stack(x, Value(p, FBT_KEY, 0))
    IN  CASE "keys" \notin b.flags -> Refer(a, Len(b.buf))
          [] "keys" \in b.flags /\ same = {} ->
                Refer([a EXCEPT !.keys = @ \cup {Len(b.buf)}], Len(b.buf))
          [] OTHER -> Refer(b, CHOOSE p \in same : TRUE)

CreateBlob(b, data, trailing, type) ==
    LET w == WidthU(Len(data))
        a == Write(Align(b, w), Len(data), 2 ^ w)
    IN  Stack([a EXCEPT !.buf = @ \o data \o Zeros(trailing)],
              Value(Len(a.buf), type, w))

AddBlob(b, data) == CreateBlob(b, data, 0, FBT_BLOB)

\* The pool has the places and the lengths of strings.
AddString(b, str) ==
    LET a == CreateBlob(b, str, 1, FBT_STRING)
        v == Last(a.stack)
        same == {q \in b.strings : q[2] = Len(str)
                                    /\ Bytes(b.buf, q[1], Len(str)) = str}
    IN  CASE "strings" \notin b.flags -> a
          [] "strings" \in b.flags /\ same = {} ->
                [a EXCEPT !.strings = @ \cup {<<v.n, Len(str)>>}]
          [] OTHER -> Stack(b, [v EXCEPT !.n = (CHOOSE q \in same : TRUE)[1]])

\* The elements are the numbers ns, each of width w.
ScalarVector(b, ns, type, w, fixed) ==
    LET a == Align(b, w)
        sized == IF fixed THEN a ELSE Write(a, Len(ns), 2 ^ w)
    IN  Stack(FoldLeft(LAMBDA x, n : Write(x, n, 2 ^ w), sized, ns),
              Value(Len(sized.buf),
                    ToTypedVector(type, IF fixed THEN Len(ns) ELSE 0), w))

ReuseValue(b, v) == Stack(b, v)
Undo(b) == [b EXCEPT !.stack = Front(@)]
ForceMinimumBitWidth(b, w) == [b EXCEPT !.force = w]

----------------------------------------------------------------------------
(* Vectors and maps *)

\* Mutant: every offset is taken to be stored at the end of the buffer.
ElemWidthHere(v, size, index) ==
    IF IsInline(v.type) THEN v.w ELSE WidthU(size - v.n)

\* The least width in which an element can be stored: an offset is relative
\* to the place it is stored at, which depends on that width.
ElemWidth(v, size, index) ==
    LET Offset(w) == size + PaddingBytes(size, 2 ^ w) + index * 2 ^ w - v.n
        fit == {w \in 0..3 : WidthU(Offset(w)) = w}
    IN  IF IsInline(v.type) THEN v.w
        ELSE CHOOSE w \in fit : \A x \in fit : w <= x

StoredPackedType(v, parent) ==
    PackedType(IF IsInline(v.type) THEN Larger(v.w, parent) ELSE v.w, v.type)

WriteOffset(b, p, bytes) == Write(b, Len(b.buf) - p, bytes)

WriteAny(b, v, bytes) ==
    IF IsInline(v.type) THEN Write(b, v.n, bytes)
                        ELSE WriteOffset(b, v.n, bytes)

Greatest(S) == CHOOSE w \in S : \A x \in S : x <= w

\* The vector of the values elems; keys is empty, or has the Value of the
\* vector of keys of a map.  step is 2 when every other one of the stack is
\* taken: the code then counts places twice as far apart.
CreateVector(b, elems, step, typed, fixed, keys) ==
    LET n == Len(elems)
        prefix == IF keys = <<>> THEN 1 ELSE 3
        size == Len(b.buf)
        w == Greatest({b.force, WidthU(n)}
                \cup {ElemWidth(keys[i], size, 0) : i \in 1..Len(keys)}
                \cup {ElemWidth(elems[i], size, (i - 1) * step + prefix) :
                         i \in 1..n})
        bytes == 2 ^ w
        Prefix(x, k) == Write(WriteOffset(x, k.n, bytes), 2 ^ k.w, bytes)
        sized(x) == IF fixed THEN x ELSE Write(x, n, bytes)
        start == sized(FoldLeft(Prefix, Align(b, w), keys))
        data == FoldLeft(LAMBDA x, v : WriteAny(x, v, bytes), start, elems)
        Types == [i \in 1..n |-> StoredPackedType(elems[i], w)]
        element == IF n = 0 THEN FBT_KEY ELSE elems[1].type
    IN  [b |-> IF typed THEN data ELSE [data EXCEPT !.buf = @ \o Types],
         v |-> Value(Len(start.buf),
                     CASE keys # <<>> -> FBT_MAP
                       [] typed -> ToTypedVector(element,
                                                 IF fixed THEN n ELSE 0)
                       [] OTHER -> FBT_VECTOR,
                     w)]

\* start is the size of the stack when the vector was begun.
Replace(b, start, v) == [b EXCEPT !.stack = Append(SubSeq(@, 1, start), v)]

EndVector(b, start, typed, fixed) ==
    LET m == CreateVector(b, SubSeq(b.stack, start + 1, Len(b.stack)), 1,
                          typed, fixed, <<>>)
    IN  Replace(m.b, start, m.v)

\* std::sort of the pairs of key and value.
SortPairs(b, pairs) ==
    SortSeq(pairs, LAMBDA p, q : BytesLess(CharsAt(b.buf, p[1].n),
                                           CharsAt(b.buf, q[1].n)))

EndMap(b, start) ==
    LET pairs == [i \in 1..(Len(b.stack) - start) \div 2 |->
                     <<b.stack[start + 2 * i - 1], b.stack[start + 2 * i]>>]
        sorted == SortPairs(b, pairs)
        twice == \E i, j \in 1..Len(pairs) :
                    i # j /\ CharsAt(b.buf, pairs[i][1].n)
                               = CharsAt(b.buf, pairs[j][1].n)
        k == CreateVector([b EXCEPT !.duplicates = @ \/ twice],
                          [i \in 1..Len(pairs) |-> sorted[i][1]], 2,
                          TRUE, FALSE, <<>>)
        m == CreateVector(k.b, [i \in 1..Len(pairs) |-> sorted[i][2]], 2,
                          FALSE, FALSE, <<k.v>>)
    IN  Replace(m.b, start, m.v)

Finish(b) ==
    LET v == b.stack[1]
        w == ElemWidth(v, Len(b.buf), 0)
        root == WriteAny(Align(b, w), v, 2 ^ w)
    IN  [root EXCEPT !.buf = @ \o <<StoredPackedType(v, 0), 2 ^ w>>,
                     !.finished = TRUE]

\* Mutant: the pools survive.
ClearBufferOnly(b) ==
    [b EXCEPT !.buf = <<>>, !.stack = <<>>, !.force = 0, !.finished = FALSE]

\* Clear() leaves flags_ and has_duplicate_keys_ as they are.
Clear(b) ==
    [b EXCEPT !.buf = <<>>, !.stack = <<>>, !.force = 0, !.finished = FALSE,
              !.keys = {}, !.strings = {}]
==============================================================================
