----------------------------- MODULE FlexSession -----------------------------
(***************************************************************************)
(* A client of the FlexBuffers library: it puts values on the stack of a   *)
(* builder, ends vectors and maps, finishes the buffer, changes it in      *)
(* place, and clears the builder to start again.  want is what each value  *)
(* on the stack stands for, written as Meaning() of FlexReference.         *)
(***************************************************************************)
EXTENDS FlexBuilder, FlexReference, FiniteSets
LOCAL INSTANCE SequencesExt
LOCAL INSTANCE FiniteSetsExt

CONSTANTS Menus,       \* what the client of a session may do
          Flags        \* what the builder is constructed with

VARIABLES
    b,        \* the builder
    want,     \* what the values on its stack stand for
    open,     \* the vectors and maps that were begun and not ended
    kept,     \* what LastValue() gave, if the client called it
    menu,     \* what the client of this session does
    calls     \* how many calls it made

vars == <<b, want, open, kept, menu, calls>>

\* menu.puts has pairs of a call and its argument, menu.may names calls that
\* need none, menu.again is how often in a row it reuses a value, menu.force
\* what it passes to ForceMinimumBitWidth(), menu.calls a bound on its calls.
Fresh(x) ==
    /\ b' = x /\ want' = <<>> /\ open' = <<>> /\ kept' = <<>>

Init ==
    /\ menu \in Menus
    /\ b \in {ForceMinimumBitWidth(NewBuilder(f), menu.force) : f \in Flags}
    /\ want = <<>> /\ open = <<>> /\ kept = <<>> /\ calls = 0

----------------------------------------------------------------------------
(* Putting values.                                                         *)

Call ==
    /\ calls < menu.calls /\ calls' = calls + 1
    /\ UNCHANGED menu

InMap == open # <<>> /\ Last(open).map
AtKey == InMap /\ (Len(b.stack) - Last(open).start) % 2 = 0

\* In a map keys and values take turns; outside of everything there is one
\* value, which becomes the root.
MayPut(isKey) ==
    /\ ~b.finished
    /\ IF InMap THEN isKey = AtKey ELSE open = <<>> => b.stack = <<>>

Put(op, New(_), Means(_)) ==
    /\ MayPut(op = "key")
    /\ \E put \in menu.puts :
          /\ put[1] = op
          /\ b' = New(put[2]) /\ want' = Append(want, Means(put[2]))
    /\ Call /\ UNCHANGED <<open, kept>>

PutNull == Put("null", LAMBDA x : AddNull(b), LAMBDA x : <<"null">>)
PutInt == Put("int", LAMBDA i : AddInt(b, i), LAMBDA i : <<"int", i>>)
PutUInt == Put("uint", LAMBDA u : AddUInt(b, u), LAMBDA u : <<"uint", u>>)
PutFloat == Put("float", LAMBDA f : AddFloat(b, f), LAMBDA f : <<"float", f>>)
PutBool == Put("bool", LAMBDA t : AddBool(b, t), LAMBDA t : <<"bool", t>>)

PutIndirectInt ==
    Put("iint", LAMBDA i : PushIndirect(b, i, FBT_INDIRECT_INT, WidthI(i)),
        LAMBDA i : <<"int", i>>)

PutIndirectUInt ==
    Put("iuint", LAMBDA u : PushIndirect(b, u, FBT_INDIRECT_UINT, WidthU(u)),
        LAMBDA u : <<"uint", u>>)

PutIndirectFloat ==
    Put("ifloat", LAMBDA f : AddIndirectFloat(b, f), LAMBDA f : <<"float", f>>)

\* The client means f; what it can expect is f only if no float can hold it.
PutIndirectDouble ==
    Put("idouble", LAMBDA f : AddIndirectDouble(b, f),
        LAMBDA f : <<"float", IF WidthF(f) = 2 THEN LowHalf(f) ELSE f>>)

PutKey == Put("key", LAMBDA k : AddKey(b, k), LAMBDA k : <<"key", k>>)

PutString ==
    Put("string", LAMBDA str : AddString(b, str),
        LAMBDA str : <<"string", Append(str, 0)>>)

PutBlob ==
    Put("blob", LAMBDA data : AddBlob(b, data), LAMBDA data : <<"blob", data>>)

\* Vector(elems, len) and FixedTypedVector(elems, len) of signed scalars.
PutScalars ==
    Put("scalars",
        LAMBDA x : ScalarVector(b, x.ns, FBT_INT, x.w, x.fixed),
        LAMBDA x : <<IF x.fixed THEN "fixed" ELSE "vector",
                     [i \in 1..Len(x.ns) |-> <<"int", x.ns[i]>>]>>)

----------------------------------------------------------------------------
(* Vectors and maps.                                                       *)

Begin(map) ==
    /\ MayPut(FALSE)
    /\ open' = Append(open, [start |-> Len(b.stack), map |-> map])
    /\ Call /\ UNCHANGED <<b, want, kept>>

BeginVector == "vector" \in menu.may /\ Begin(FALSE)
BeginMap == "map" \in menu.may /\ Begin(TRUE)

EndWith(x, meaning) ==
    /\ b' = x
    /\ want' = Append(SubSeq(want, 1, Last(open).start), meaning)
    /\ open' = Front(open)
    /\ Call /\ UNCHANGED kept

Inner(s) == SubSeq(s, Last(open).start + 1, Len(s))

EndPlain ==
    /\ ~b.finished /\ open # <<>> /\ ~InMap
    /\ EndWith(EndVector(b, Last(open).start, FALSE, FALSE),
               <<"vector", Inner(want)>>)

\* The elements of a typed vector have one type, which is one of those that
\* a vector can have; a fixed one has two to four numbers.
EndTyped(fixed) ==
    /\ "typed" \in menu.may
    /\ ~b.finished /\ open # <<>> /\ ~InMap
    /\ LET types == {v.type : v \in {Inner(b.stack)[i] :
                                       i \in 1..Len(Inner(b.stack))}}
           AsKey(m) == IF m[1] = "string" THEN <<"key", Front(m[2])>> ELSE m
       IN  /\ Cardinality(types) <= 1
           /\ \A t \in types : IsTypedVectorElementType(t)
           /\ fixed => /\ types \subseteq {FBT_INT, FBT_UINT, FBT_FLOAT}
                       /\ Len(Inner(b.stack)) \in 2..4
           /\ EndWith(EndVector(b, Last(open).start, TRUE, fixed),
                      <<IF fixed THEN "fixed" ELSE "vector",
                        [i \in 1..Len(Inner(want)) |-> AsKey(Inner(want)[i])]>>)

EndOfMap ==
    /\ ~b.finished /\ InMap /\ AtKey
    /\ LET w == Inner(want)
           n == Len(w) \div 2
       IN  EndWith(EndMap(b, Last(open).start),
                   <<"map", {<<w[2 * i - 1][2], w[2 * i]>> : i \in 1..n}, n>>)

----------------------------------------------------------------------------
(* Sharing, taking back, and the end.                                      *)

KeepLast ==
    /\ "reuse" \in menu.may
    /\ ~b.finished /\ b.stack # <<>>
    /\ kept' = <<Last(b.stack), Last(want)>> /\ kept' # kept
    /\ Call /\ UNCHANGED <<b, want, open>>

Reuse ==
    /\ kept # <<>> /\ MayPut(kept[1].type = FBT_KEY)
    /\ LET again == IF InMap \/ open = <<>> THEN 1 ELSE menu.again
       IN  /\ b' = FoldLeft(LAMBDA x, v : ReuseValue(x, v), b,
                            [i \in 1..again |-> kept[1]])
           /\ want' = want \o [i \in 1..again |-> kept[2]]
    /\ Call /\ UNCHANGED <<open, kept>>

UndoLast ==
    /\ "undo" \in menu.may
    /\ ~b.finished
    /\ Len(b.stack) > (IF open = <<>> THEN 0 ELSE Last(open).start)
    /\ b' = Undo(b) /\ want' = Front(want)
    /\ Call /\ UNCHANGED <<open, kept>>

FinishBuffer ==
    /\ ~b.finished /\ open = <<>> /\ Len(b.stack) = 1
    /\ b' = Finish(b)
    /\ Call /\ UNCHANGED <<want, open, kept>>

ClearBuilder ==
    /\ "clear" \in menu.may /\ calls > 0
    /\ Fresh(ForceMinimumBitWidth(Clear(b), menu.force))
    /\ Call

\* The root, or the elements of a root that has no vectors in it.
Root == GetRoot(b.buf)
RootItems == IF want[1][1] \in {"vector", "fixed"} THEN want[1][2] ELSE <<>>

Kinds == {"int", "uint", "float", "string"}

\* Every element that refers to the same place changes with it.
MutateElement(i, kind, new, val, fits) ==
    LET r == Element(b.buf, Root, i)
        Shared(j) == /\ ~IsInline(r.type)
                     /\ Element(b.buf, Root, j).type = r.type
                     /\ Target(b.buf, Element(b.buf, Root, j))
                          = Target(b.buf, r)
        changed == {j \in 1..Len(RootItems) : j = i \/ Shared(j)}
    IN  /\ "mutate" \in menu.may /\ b.finished
        /\ i \in 1..Len(RootItems) /\ RootItems[i][1] = kind
        /\ \A j \in 1..Len(RootItems) : RootItems[j][1] \in Kinds
        /\ b' = [b EXCEPT !.buf = new]
        /\ want' = IF b'.buf = b.buf /\ ~fits THEN want
                   ELSE [want EXCEPT ![1][2] =
                           [j \in DOMAIN @ |-> IF j \in changed
                                               THEN <<kind, val>> ELSE @[j]]]
        /\ Call /\ UNCHANGED <<open, kept>>

\* What ForceMinimumBitWidth() promises room for must be changed.
MutateNumber(i, kind, n) ==
    MutateElement(i, kind, Mutate(b.buf, Element(b.buf, Root, i), n), n,
                  LET t == Element(b.buf, Root, i).type
                  IN  /\ IsInline(t)
                      /\ (IF kind = "int" THEN WidthI(n)
                          ELSE IF kind = "uint" THEN WidthU(n) ELSE WidthF(n))
                            <= menu.force)

MutateText(i, str) ==
    MutateElement(i, "string",
                  MutateString(b.buf, Element(b.buf, Root, i), str),
                  Append(str, 0), Len(RootItems[i][2]) = Len(str) + 1)

PutValue ==
    \/ PutNull \/ PutInt \/ PutUInt \/ PutFloat \/ PutBool
    \/ PutIndirectInt \/ PutIndirectUInt
    \/ PutIndirectFloat \/ PutIndirectDouble
    \/ PutKey \/ PutString \/ PutBlob \/ PutScalars

Next ==
    \/ PutValue
    \/ BeginVector \/ BeginMap
    \/ EndPlain \/ (\E fixed \in BOOLEAN : EndTyped(fixed)) \/ EndOfMap
    \/ KeepLast \/ Reuse \/ UndoLast
    \/ FinishBuffer
    \/ \E i \in 1..2 : \/ \E kind \in {"int", "uint", "float"}, n \in {2, 200} :
                             MutateNumber(i, kind, n)
                       \/ MutateText(i, <<98>>)
    \/ ClearBuilder

Spec == Init /\ [][Next]_vars

----------------------------------------------------------------------------
(* Properties.                                                             *)

Pooled(p, n) == Bytes(b.buf, p, n + 1)

\* The stack and what it stands for go together, and the pools are exact:
\* every entry is a terminated string of the buffer, and no two are equal,
\* whatever was taken back or cleared in between.
TypeOK ==
    /\ Len(want) = Len(b.stack) /\ calls <= menu.calls
    /\ \A i \in 1..Len(open) : open[i].start <= Len(b.stack)
    /\ \A p \in b.keys : CharsAt(b.buf, p) # <<Junk>>
    /\ \A p, q \in b.keys : p # q => CharsAt(b.buf, p) # CharsAt(b.buf, q)
    /\ \A p \in b.strings :
          Pooled(p[1], p[2]) # <<>> /\ Last(Pooled(p[1], p[2])) = 0
    /\ \A p, q \in b.strings :
          p # q => Pooled(p[1], p[2]) # Pooled(q[1], q[2])

\* A value on the stack, read as if it were stored at the end of the buffer.
Peek(v) ==
    Meaning(WriteAny(b, v, 8).buf, Reference(Len(b.buf), 8, 2 ^ v.w, v.type))

ProbedKeys == {put[2] : put \in {p \in menu.puts : p[1] = "key"}}

\* operator[] of a map gives a value of the key, and Null for no other.
FindsKeys(m) ==
    \A k \in ProbedKeys :
        LET vals == {q[2] : q \in {p \in m[2] : p[1] = k}}
        IN  Meaning(b.buf, Find(b.buf, Root, k))
              \in (IF vals = {} THEN {<<"null">>} ELSE vals)

\* Whatever widths are chosen, values, vectors and maps read as what was put
\* into them: on the stack already, and in the finished and in the changed
\* buffer.  One call does not give back what it was given: IndirectDouble() of
\* a number that a float can hold, which reads everywhere as the low half of
\* the double (0 for small numbers).  HasDuplicateKeys() tells when a map
\* cannot give all its values.
ValuesKeepTheirMeaning ==
    /\ IF b.finished
       THEN /\ Meaning(b.buf, Root) = want[1]
            /\ want[1][1] = "map" => FindsKeys(want[1])
       ELSE \A i \in 1..Len(b.stack) : Peek(b.stack[i]) = want[i]
    /\ \A i \in 1..Len(want) :
          /\ want[i][1] = "map"
          /\ Cardinality({p[1] : p \in want[i][2]}) < want[i][3]
          => b.duplicates

RECURSIVE Depth(_), Sized(_)

Greater(S) == Greatest(S \cup {0})

\* How deep, and how many, are the things with a size the Verifier meets; one
\* that was reused is met again.  Of equal pairs of a map want has one, so that
\* with duplicate keys Sized() is only an upper bound.
Depth(m) ==
    CASE m[1] \in {"string", "blob"} -> 1
      [] m[1] = "vector" -> 1 + Greater({Depth(m[2][i]) : i \in 1..Len(m[2])})
      [] m[1] = "map" -> 1 + Greater({Depth(p[2]) : p \in m[2]})
      [] OTHER -> 0

Sized(m) ==
    CASE m[1] \in {"string", "blob"} -> 1
      [] m[1] = "vector" ->
            1 + FoldLeft(LAMBDA n, x : n + Sized(x), 0, m[2])
      [] m[1] = "map" ->
            2 + MapThenSumSet(LAMBDA p : Sized(p[2]), m[2])
              + (m[3] - Cardinality(m[2]))
                  * Greater({Sized(p[2]) : p \in m[2]})
      [] OTHER -> 0

\* The Verifier accepts a finished buffer exactly if it is not nested too
\* deep and has, counting what is shared each time it is met, no more things
\* with a size than bytes; also after it was changed in place.  So a buffer of
\* the Builder that shares much by ReuseValue() is rejected.  With a reuse
\* tracker the Verifier may count what is shared as nesting, so that accepting
\* is only certain for few things.
FinishedBufferVerifies ==
    b.finished =>
        LET v == VerifyBuffer(b.buf, FALSE)
            shallow == Depth(want[1]) <= MaxDepth
            few == Sized(want[1]) <= Len(b.buf)
        IN  /\ shallow /\ few => v.ok
            /\ v.ok => shallow /\ (few \/ b.duplicates)
            /\ v.ok => v.depth = 0
            /\ Sized(want[1]) <= MaxDepth => VerifyBuffer(b.buf, TRUE).ok

Pad == [i \in 1..16 |-> 7]

\* Bytes that, taken as a type, make keys: VerifyKey() accepts one that does
\* not end.
MakesKey(x) ==
    x \div 4 \in {FBT_KEY, FBT_MAP, FBT_VECTOR_KEY,
                  FBT_VECTOR_STRING_DEPRECATED}

\* Copies of the buffer that lost their end, or a byte of which changed.
Damaged(s) ==
    {SubSeq(s, 1, n) : n \in 0..Len(s) - 1}
       \cup {[s EXCEPT ![i] = x] : i \in 1..Len(s),
                                   x \in {0, 1, Len(s) - 1, 255}}

\* A damaged buffer the Verifier accepts can be read without leaving it: it
\* reads the same wherever it lies in memory.
VerifiedBufferIsReadInside ==
    b.finished /\ Len(b.buf) <= 32 =>
        \A s \in Damaged(b.buf) :
            /\ \A i \in 1..Len(s) : ~MakesKey(s[i])
            /\ VerifyBuffer(s, FALSE).ok
            => Meaning(s, GetRoot(s))
                 = Meaning(Pad \o s \o Pad, [GetRoot(s) EXCEPT !.at = @ + 16])
==============================================================================
