---------------------------- MODULE FlexReference ----------------------------
(***************************************************************************)
(* Reading a FlexBuffer, and its Verifier.  s is the buffer, positions are *)
(* counted from its beginning; a reference is the position of an element,  *)
(* the width of what it lies in, its own width (both in bytes), its type.  *)
(***************************************************************************)
EXTENDS FlexTypes
LOCAL INSTANCE SequencesExt

CONSTANT MaxDepth     \* max_depth_ of the Verifier

Reference(at, parent, bytes, type) ==
    [at |-> at, parent |-> parent, bytes |-> bytes, type |-> type]

NullReference == Reference(0, 1, 1, FBT_NULL)

\* An element with a packed type.
Packed(at, parent, p) == Reference(at, parent, 2 ^ (p % 4), p \div 4)

Indirect(s, at, bytes) == at - ReadU(s, at, bytes)
Target(s, r) == Indirect(s, r.at, r.parent)

GetRoot(s) ==
    LET bytes == ReadU(s, Len(s) - 1, 1)
    IN  Packed(Len(s) - 2 - bytes, bytes, ReadU(s, Len(s) - 2, 1))

\* AsInt64(), AsUInt64(), AsDouble() and AsBool() of a number.
AsNumber(s, r) ==
    CASE r.type \in {FBT_INT, FBT_FLOAT} -> ReadS(s, r.at, r.parent)
      [] r.type \in {FBT_UINT, FBT_BOOL} -> ReadU(s, r.at, r.parent)
      [] r.type \in {FBT_INDIRECT_INT, FBT_INDIRECT_FLOAT} ->
            ReadS(s, Target(s, r), r.bytes)
      [] r.type = FBT_INDIRECT_UINT -> ReadU(s, Target(s, r), r.bytes)

\* size() of what r refers to, and its elements: Null beyond the end.
SizeOf(s, r) ==
    IF IsFixedTypedVector(r.type) THEN FixedLength(r.type)
    ELSE ReadU(s, Target(s, r) - r.bytes, r.bytes)

Element(s, r, i) ==
    LET p == Target(s, r)
        n == SizeOf(s, r)
        at == p + (i - 1) * r.bytes
    IN  CASE i > n -> NullReference
          [] i <= n /\ r.type \in {FBT_VECTOR, FBT_MAP} ->
                Packed(at, r.bytes, ReadU(s, p + n * r.bytes + i - 1, 1))
          [] OTHER -> Reference(at, r.bytes, 1, ElementType(r.type))

\* The vector of the keys of the map at position p: its width is a uint8_t.
KeysBytes(s, p, bytes) == ReadU(s, p - 2 * bytes, bytes) % 256
KeysAt(s, p, bytes) == Indirect(s, p - 3 * bytes, bytes)

Keys(s, r) ==
    LET p == Target(s, r)
        bytes == KeysBytes(s, p, r.bytes)
        at == KeysAt(s, p, r.bytes)
    IN  [i \in 1..Smallest(ReadU(s, at - bytes, bytes), Len(s)) |->
            CharsAt(s, Indirect(s, at + (i - 1) * bytes, bytes))]

\* bsearch of operator[](const char *key): the element for key, or Null.
Find(s, r, key) ==
    LET ks == Keys(s, r)
        f[lo, hi \in 0..Len(ks) + 1] ==
            LET mid == (lo + hi) \div 2
            IN  CASE lo > hi -> 0
                  [] lo <= hi /\ ks[mid] = key -> mid
                  [] lo <= hi /\ ks[mid] # key /\ BytesLess(key, ks[mid]) ->
                        f[lo, mid - 1]
                  [] OTHER -> f[mid + 1, hi]
        i == f[1, Len(ks)]
    IN  IF i = 0 THEN NullReference ELSE Element(s, r, i)

RECURSIVE Meaning(_, _)

\* What the accessors give, whatever width it is stored in.
Meaning(s, r) ==
    LET p == Target(s, r)
        n == Smallest(SizeOf(s, r), Len(s))
        Items == [i \in 1..n |-> Meaning(s, Element(s, r, i))]
        ks == Keys(s, r)
        Pairs == {<<ks[i], Items[i]>> : i \in 1..Smallest(n, Len(ks))}
    IN  CASE r.type = FBT_NULL -> <<"null">>
          [] r.type \in {FBT_INT, FBT_INDIRECT_INT} -> <<"int", AsNumber(s, r)>>
          [] r.type \in {FBT_UINT, FBT_INDIRECT_UINT} ->
                <<"uint", AsNumber(s, r)>>
          [] r.type \in {FBT_FLOAT, FBT_INDIRECT_FLOAT} ->
                <<"float", AsNumber(s, r)>>
          [] r.type = FBT_BOOL -> <<"bool", AsNumber(s, r) # 0>>
          [] r.type = FBT_KEY -> <<"key", CharsAt(s, p)>>
          [] r.type = FBT_STRING -> <<"string", Bytes(s, p, SizeOf(s, r) + 1)>>
          [] r.type = FBT_BLOB -> <<"blob", Bytes(s, p, SizeOf(s, r))>>
          [] r.type = FBT_MAP -> <<"map", Pairs, n>>
          [] IsFixedTypedVector(r.type) -> <<"fixed", Items>>
          [] OTHER -> <<"vector", Items>>

\* MutateInt(), MutateUInt(), MutateBool() and MutateFloat(): in place, if
\* the number fits.
Mutate(s, r, n) ==
    LET inline == IsInline(r.type)
        at == IF inline THEN r.at ELSE Target(s, r)
        bytes == IF inline THEN r.parent ELSE r.bytes
        width == CASE r.type \in {FBT_INT, FBT_INDIRECT_INT} -> WidthI(n)
                   [] r.type \in {FBT_UINT, FBT_INDIRECT_UINT} -> WidthU(n)
                   [] r.type \in {FBT_FLOAT, FBT_INDIRECT_FLOAT} -> WidthF(n)
                   [] r.type = FBT_BOOL -> 0
    IN  IF 2 ^ width <= bytes THEN Overwrite(s, at, Scalar(n, bytes)) ELSE s

\* Only a string of the same length.
MutateString(s, r, str) ==
    IF SizeOf(s, r) = Len(str) THEN Overwrite(s, Target(s, r), str) ELSE s

----------------------------------------------------------------------------
(* Verifier.  v.track is the packed type each byte was verified as, empty  *)
(* without a reuse tracker.                                                *)

NewVerifier(s, tracked) ==
    [ok |-> TRUE, depth |-> 0, vectors |-> 0,
     track |-> IF tracked THEN [i \in 1..Len(s) |-> 0] ELSE <<>>]

Check(v, ok) == [v EXCEPT !.ok = @ /\ ok]
Then(v, Next(_)) == IF v.ok THEN Next(v) ELSE v

ByteWidths == {1, 2, 4, 8}
FromFits(s, p, len) == p >= 0 /\ len < Len(s) /\ p <= Len(s) - len
OffsetFits(s, at, o) == o <= Len(s) /\ o <= at

\* FLEX_CHECK_VERIFIED: what was verified before as the same type is left
\* at once, and as another type it is wrong.
Seen(v, at, type) == v.track # <<>> /\ v.track[at + 1] = type

MarkSeen(v, at, type) ==
    CASE v.track = <<>> -> v
      [] v.track # <<>> /\ v.track[at + 1] # 0 -> Check(v, FALSE)
      [] OTHER -> [v EXCEPT !.track[at + 1] = type]

Log2(bytes) == CHOOSE w \in 0..3 : 2 ^ w = bytes

RECURSIVE VerifyRef(_, _, _)

VerifyItems(v, s, items) ==
    FoldLeft(LAMBDA x, r : Then(x, LAMBDA y : VerifyRef(y, s, r)), v, items)

\* The vector at position p; items are those that are verified themselves.
\* A vector that was verified before leaves depth as it is here.
VerifyVector(v, s, p, bytes, type) ==
    LET n == ReadU(s, p - bytes, bytes)
        size == n * (IF type \in {FBT_STRING, FBT_BLOB} THEN 1 ELSE bytes)
        untyped == type \in {FBT_VECTOR, FBT_MAP}
        Item(i) ==
            IF untyped THEN Packed(p + (i - 1) * bytes, bytes,
                                   ReadU(s, p + size + i - 1, 1))
                       ELSE Reference(p + (i - 1) * bytes, bytes, 1, FBT_KEY)
        count == IF untyped \/ type \in {FBT_VECTOR_KEY,
                                         FBT_VECTOR_STRING_DEPRECATED}
                 THEN n ELSE 0
        Deeper(x) == [x EXCEPT !.depth = @ + 1, !.vectors = @ + 1]
        Fits(x) == Check(x, FromFits(s, p, size)
                              /\ (untyped => FromFits(s, p + size, n)))
        Items(x) == VerifyItems(x, s, [i \in 1..count |-> Item(i)])
        Leave(x) == [x EXCEPT !.depth = @ - 1]
        All(x) == Then(Then(Fits(x), Items), Leave)
        at == p - bytes
        packed == PackedType(Log2(bytes), type)
    IN  Then(Check(Deeper(v), /\ v.depth < MaxDepth
                              /\ v.vectors < Len(s)
                              /\ bytes <= p),
             LAMBDA x : IF Seen(x, at, packed) THEN x
                        ELSE Then(MarkSeen(x, at, packed), All))

VerifyKeys(v, s, p, bytes) ==
    LET at == p - 3 * bytes
        width == KeysBytes(s, p, bytes)
    IN  Then(Check(v, /\ 3 * bytes <= p
                      /\ OffsetFits(s, at, ReadU(s, at, bytes))
                      /\ width \in ByteWidths),
             LAMBDA x : VerifyVector(x, s, KeysAt(s, p, bytes), width,
                                     FBT_VECTOR_KEY))

\* VerifyKey() looks for a character, not for the zero at the end.
VerifyKey(v, s, p) ==
    IF Seen(v, p, PackedType(0, FBT_KEY)) THEN v
    ELSE Check(MarkSeen(v, p, PackedType(0, FBT_KEY)),
               \E i \in p + 1..Len(s) : s[i] # 0)

\* Mutant: without VerifyTerminator().
VerifyStringUnended(v, s, p, bytes) == VerifyVector(v, s, p, bytes, FBT_STRING)

VerifyString(v, s, p, bytes) ==
    Then(VerifyVector(v, s, p, bytes, FBT_STRING),
         LAMBDA x : Check(x, FromFits(s, p, ReadU(s, p - bytes, bytes) + 1)))

\* What r refers to, once its offset is known to be good.
VerifyTarget(v, s, r) ==
    LET p == Target(s, r)
        t == r.type
    IN  CASE t \in FBT_INDIRECT_INT..FBT_INDIRECT_FLOAT ->
                Check(v, FromFits(s, p, r.bytes))
          [] t = FBT_KEY -> VerifyKey(v, s, p)
          [] t = FBT_STRING -> VerifyString(v, s, p, r.bytes)
          [] t = FBT_MAP ->
                Then(VerifyVector(v, s, p, r.bytes, t),
                     LAMBDA x : VerifyKeys(x, s, p, r.bytes))
          [] t \in {FBT_VECTOR, FBT_BLOB} \/ IsTypedVector(t) ->
                VerifyVector(v, s, p, r.bytes, t)
          [] IsFixedTypedVector(t) ->
                Check(v, FromFits(s, p, r.bytes * FixedLength(t)))
          [] OTHER -> Check(v, FALSE)

VerifyRef(v, s, r) ==
    IF IsInline(r.type) THEN v
    ELSE Then(Check(v, OffsetFits(s, r.at, ReadU(s, r.at, r.parent))
                         /\ Target(s, r) % r.bytes = 0),
              LAMBDA x : VerifyTarget(x, s, r))

VerifyBuffer(s, tracked) ==
    Then(Check(NewVerifier(s, tracked),
               Len(s) >= 3 /\ ReadU(s, Len(s) - 1, 1) \in ByteWidths
                 /\ Len(s) - 2 >= ReadU(s, Len(s) - 1, 1)),
         LAMBDA v : VerifyRef(v, s, GetRoot(s)))
==============================================================================
