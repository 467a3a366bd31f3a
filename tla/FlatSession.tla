----------------------------- MODULE FlatSession -----------------------------
(***************************************************************************)
(* A client of the FlatBuffers library: it makes objects with a builder,   *)
(* finishes a buffer, clears or releases the builder and starts again.     *)
(* made remembers what it made, twin is a second builder that did the same *)
(* since the last Clear() and had all the memory it needs from the start.  *)
(***************************************************************************)
EXTENDS FlatBuilder, FlatAccess, FiniteSets

CONSTANTS Topics,         \* the tables a session of a run is about
          Mixed,          \* those whose sessions make other objects as well
          Texts,          \* the contents of strings and byte vectors
          InitialSizes,   \* what the builder is constructed with
          Options,        \* what ForceDefaults() and DedupVtables() are given
          KeyLists,       \* the keys of the tables to be sorted
          MaxObjects,     \* by table: bound on the objects between two clears
          MaxCalls        \* bound on the calls of a session

Identifier == <<66, 70, 66, 83>>         \* SchemaIdentifier(), "BFBS"

VARIABLES
    b, twin,                \* the builder and its twin
    topic,                  \* the table the session is about
    making, todo, waits,    \* the object being made, the calls that are left
                            \* and the offsets that wait to go into others
    made,                   \* what was made since the last Clear()
    prefixed, identifier,   \* how the buffer was finished
    calls                   \* how often the client began something

vars == <<b, twin, topic, making, todo, waits, made, prefixed, identifier,
          calls>>

Nothing == [kind |-> "none", of |-> "", val |-> <<>>]

TwinSize == 1024

Init ==
    /\ \E initial \in InitialSizes, o \in Options :
          /\ b = [NewBuilder(initial) EXCEPT !.force = o.force,
                                             !.dedup = o.dedup]
          /\ twin = [NewBuilder(TwinSize) EXCEPT !.force = o.force,
                                                 !.dedup = o.dedup]
    /\ topic \in Topics
    /\ making = Nothing /\ todo = <<>> /\ waits = <<>> /\ made = <<>>
    /\ prefixed = FALSE /\ identifier = <<>> /\ calls = 0

----------------------------------------------------------------------------
(* What the client does to make an object: calls that each make one object *)
(* from the newest of those that wait, "have" lets one wait that is there. *)

Keys == 1..3

ASSUME SessionAssumption ==
    /\ Topics \subseteq DOMAIN Tables
    /\ Texts \subseteq Seq(0..255)
    /\ InitialSizes \subseteq Nat
    /\ Options \subseteq [force : BOOLEAN, dedup : BOOLEAN]
    /\ KeyLists \subseteq Seq(Keys)
    /\ MaxObjects \in [Topics -> Nat] /\ MaxCalls \in Nat

Key(k) == <<96 + k>>
C(str) == Append(str, 0)

Step(op, of, arg) == <<[op |-> op, of |-> of, arg |-> arg]>>

\* What a client passes for a field that is to differ from its default.
Other(f) == IF f.w = 1 THEN 1 ELSE 513
Number(f, T, full, k) ==
    IF T = "EnumVal" THEN k ELSE IF full THEN Other(f) ELSE f.default

\* What a table holds is bare; a Service holds calls, and those objects.
Nesting == 2

\* The calls for a field; bare[T][k] are those that make a bare table.
Child(f, T, full, k, bare) ==
    IF f.kind = "num" THEN Step("have", "", Number(f, T, full, k))
    ELSE IF ~full /\ ~f.required THEN Step("have", "", 0)
    ELSE IF f.kind = "string" THEN Step("string", "", Key(k))
    ELSE IF f.kind = "bytes" THEN Step("bytes", "", <<k, 0, 255>>)
    ELSE IF f.kind = "strings" THEN Step("strings", "", <<Key(2), Key(1)>>)
    ELSE IF f.kind = "table" THEN bare[f.of][2]
    ELSE IF full THEN bare[f.of][2] \o bare[f.of][1]
                         \o Step("tables", f.of, 2)
    ELSE Step("tables", f.of, 0)

\* Children in the order of the fields, then the table: the generated
\* CreateXDirect functions.  A full table has every field, a bare one those
\* it needs, their vectors empty.
TableSteps(T, full, k, bare) ==
    FlattenSeq([i \in 1..Len(Tables[T]) |->
                   Child(Tables[T][i], T, full, k, bare)])
       \o Step("table", T, Len(Tables[T]))

BareSteps[depth \in 0..Nesting] ==
    [T \in DOMAIN Tables |->
        [k \in Keys |-> IF depth = 0 THEN <<>>
                        ELSE TableSteps(T, FALSE, k, BareSteps[depth - 1])]]

Steps(T, full, k) == TableSteps(T, full, k, BareSteps[Nesting])

\* What the accessors of that table are to give.
FieldValue(f, T, full, k, bare) ==
    IF f.kind = "num" THEN Number(f, T, full, k)
    ELSE IF ~full /\ ~f.required THEN <<>>
    ELSE IF f.kind = "string" THEN <<C(Key(k))>>
    ELSE IF f.kind = "bytes" THEN <<<<k, 0, 255>>>>
    ELSE IF f.kind = "strings" THEN <<<<C(Key(2)), C(Key(1))>>>>
    ELSE IF f.kind = "table" THEN <<bare[f.of][2]>>
    ELSE IF full THEN <<<<bare[f.of][1], bare[f.of][2]>>>>
    ELSE <<<<>>>>

TableValue(T, full, k, bare) ==
    [i \in 1..Len(Tables[T]) |-> FieldValue(Tables[T][i], T, full, k, bare)]

BareValues[depth \in 0..Nesting] ==
    [T \in DOMAIN Tables |->
        [k \in Keys |-> IF depth = 0 THEN <<>>
                        ELSE TableValue(T, FALSE, k, BareValues[depth - 1])]]

Value(T, full, k) == TableValue(T, full, k, BareValues[Nesting])

----------------------------------------------------------------------------
(* The calls of the library, made to both builders.                        *)

\* No buffer of a run reaches the size that stands for what is too large.
Fits(x) == Size(x) < Huge

\* The newest n of the offsets that wait are the arguments of a call that
\* takes n; what it makes is an Offset<of>.
Perform(op, n, Call(_, _, _)) ==
    /\ todo # <<>> /\ Head(todo).op = op /\ n <= Len(waits)
    /\ LET keep == Len(waits) - n
           args == [i \in 1..n |-> waits[keep + i].off]
           of == IF op = "table" THEN Head(todo).of ELSE ""
       IN  \E m \in {Call(b, Head(todo), args)},
              same \in {Call(twin, Head(todo), args)} :
              /\ Fits(m.b)
              /\ b' = m.b /\ twin' = same.b
              /\ waits' = Append(SubSeq(waits, 1, keep),
                                [of |-> of, off |-> m.off])
              /\ made' = IF Len(todo) > 1 THEN made
                         ELSE Append(made, [kind |-> making.kind,
                                            of |-> making.of, off |-> m.off,
                                            val |-> making.val])
    /\ todo' = Tail(todo)
    /\ UNCHANGED <<topic, making, prefixed, identifier, calls>>

Singles(str) == [i \in 1..Len(str) |-> <<str[i]>>]

MakeString == Perform("string", 0, LAMBDA x, c, args : CreateString(x, c.arg))

MakeSharedString ==
    Perform("shared", 0, LAMBDA x, c, args : CreateSharedString(x, c.arg))

MakeBytes ==
    Perform("bytes", 0, LAMBDA x, c, args : ToResultBytes(x, c.arg))

\* A byte vector that is to hold a buffer of its own, aligned for it, and one
\* whose elements are written afterwards.
MakeNested ==
    Perform("nested", 0, LAMBDA x, c, args :
        CreateVector(ForceVectorAlignment(x, Len(c.arg), 1, 8),
                     Singles(c.arg), 1, 1))

MakeUninitialized ==
    Perform("uninitialized", 0, LAMBDA x, c, args :
        LET m == CreateUninitializedVector(x, Len(c.arg), 1, 1)
        IN  [b |-> FillVector(m.b, m.data, c.arg), off |-> m.off])

MakeNumbers ==
    Perform("numbers", 0, LAMBDA x, c, args :
        CreateVector(x, [i \in 1..c.arg |-> Scalar(i, 8)], 8, 8))

MakeStrings ==
    Perform("strings", 0, LAMBDA x, c, args : CreateVectorOfStrings(x, c.arg))

MakeStruct ==
    Perform("struct", 0,
            LAMBDA x, c, args : CreateStruct(x, Scalar(c.arg, 8), 8))

\* Two of them in one vector.
MakeStructs ==
    Perform("structs", 0, LAMBDA x, c, args :
        CreateVectorOfStructs(x, [i \in 1..2 |-> Scalar(c.arg, 8)], 8, 8))

MakeTable ==
    Perform("table", Head(todo).arg,
            LAMBDA x, c, args : CreateTable(x, c.of, args))

\* std::stable_sort with TableKeyComparator: each goes behind those that are
\* not greater.
SortTables(x, T, offs) ==
    LET At(o) == KeyAt(x.v.buf, T, DataAt(x.v, o))
        Before(s, o) == {i \in 1..Len(s) : ~KeyLess(T, At(o), At(s[i]))}
        Insert(s, o) == InsertAt(s, Cardinality(Before(s, o)) + 1, o)
        sorted[n \in 0..Len(offs)] ==
            IF n = 0 THEN <<>> ELSE Insert(sorted[n - 1], offs[n])
    IN  sorted[Len(offs)]

\* The vector takes offsets of tables of one type.
MakeSortedTables ==
    /\ todo # <<>> /\ Head(todo).op = "tables"
    /\ \A i \in 1..Len(waits) : i > Len(waits) - Head(todo).arg =>
                                    waits[i].of = Head(todo).of
    /\ Perform("tables", Head(todo).arg,
               LAMBDA x, c, args : CreateOffsets(x, SortTables(x, c.of, args)))

Have == Perform("have", 0, LAMBDA x, c, args : [b |-> x, off |-> c.arg])

----------------------------------------------------------------------------
(* What the client decides.                                                *)

Make(kind, of, steps, val) ==
    /\ Legal(b) /\ todo = <<>>
    /\ Len(made) < MaxObjects[topic] /\ calls < MaxCalls
    /\ making' = [kind |-> kind, of |-> of, val |-> val]
    /\ todo' = steps /\ waits' = <<>> /\ calls' = calls + 1
    /\ UNCHANGED <<b, twin, topic, made, prefixed, identifier>>

AddString(str) == Make("string", "", Step("string", "", str), C(str))
AddSharedString(str) == Make("shared", "", Step("shared", "", str), C(str))
AddBytes(str) == Make("bytes", "", Step("bytes", "", str), str)

\* A byte vector that is to hold a buffer of its own, aligned for it, and one
\* whose elements are written afterwards.
AddNested(str) == Make("nested", "", Step("nested", "", str), str)
AddUninitialized(str) ==
    Make("bytes", "", Step("uninitialized", "", str), str)

AddNumbers(n) ==
    Make("numbers", "", Step("numbers", "", n), [i \in 1..n |-> i])

AddVectorOfStrings(strs) ==
    Make("strings", "", Step("strings", "", strs),
         [i \in 1..Len(strs) |-> C(strs[i])])

AddStructObject == Make("struct", "", Step("struct", "", 513), Scalar(513, 8))
AddStructs == Make("numbers", "", Step("structs", "", 513), <<513, 513>>)

AddTable(full) ==
    Make("table", topic, Steps(topic, full, 1), Value(topic, full, 1))

\* The first strings and vectors the client made become the fields.
AddMessage(type, id) ==
    LET First(kinds) == SelectInSeq(made, LAMBDA m : m.kind \in kinds)
        method == First({"string", "shared"})
        payload == First({"bytes", "nested"})
        Off(i) == Step("have", "", IF i = 0 THEN 0 ELSE made[i].off)
        Val(i) == IF i = 0 THEN <<>> ELSE <<made[i].val>>
    IN  /\ topic = "RpcMessage"
        /\ Make("table", topic,
                Step("have", "", type) \o Step("have", "", id)
                   \o Off(method) \o Off(payload) \o Step("table", topic, 4),
                <<type, id, Val(method), Val(payload)>>)

\* Tables with the given keys, and the vector of them in sorted order.
AddSortedTables(ks) ==
    /\ topic \in {"KeyValue", "EnumVal"}
    /\ Make("sorted", topic,
            FlattenSeq([i \in 1..Len(ks) |-> Steps(topic, FALSE, ks[i])])
               \o Step("tables", topic, Len(ks)),
            ks)

IsTable(m) == m.kind = "table"
RootIndex == SelectLastInSeq(made, IsTable)
RootObject == made[RootIndex]

FinishBuffer(id, p) ==
    /\ Legal(b) /\ todo = <<>> /\ RootIndex # 0
    /\ b' = Finish(b, RootObject.off, id, p)
    /\ twin' = Finish(twin, RootObject.off, id, p)
    /\ identifier' = id /\ prefixed' = p
    /\ UNCHANGED <<topic, making, todo, waits, made, calls>>

\* SetField() of the root of a finished buffer.
MutateField(i) ==
    LET f == Tables[topic][i]
        Set(x) == SetField(x.v.buf, DataAt(x.v, RootObject.off), f, 9)
        there == FieldOffset(b.v.buf, DataAt(b.v, RootObject.off), f.vo) # 0
    IN  /\ b.finished /\ calls < MaxCalls /\ f.kind = "num"
        /\ b' = [b EXCEPT !.v.buf = Set(b)]
        /\ twin' = [twin EXCEPT !.v.buf = Set(twin)]
        /\ made' = IF there THEN [made EXCEPT ![RootIndex].val[i] = 9] ELSE made
        /\ calls' = calls + 1
        /\ UNCHANGED <<topic, making, todo, waits, prefixed, identifier>>

NewTwin(x) == [NewBuilder(TwinSize) EXCEPT !.force = x.force, !.dedup = x.dedup]

StartAgain(x) ==
    /\ making # Nothing /\ calls < MaxCalls
    /\ b' = x /\ twin' = NewTwin(x)
    /\ making' = Nothing /\ todo' = <<>> /\ waits' = <<>>
    /\ made' = <<>> /\ identifier' = <<>> /\ prefixed' = FALSE
    /\ calls' = calls + 1
    /\ UNCHANGED topic

ClearBuilder == StartAgain(Clear(b))
ReleaseBuilder == b.finished /\ StartAgain(Release(b))

\* The client gives up a table it has begun.
AbandonTable ==
    Legal(b) /\ StartAgain(Clear(AddElement(StartTable(b), 6, 1, 4, 0)))

AddObject ==
    /\ topic \in Mixed
    /\ \/ \E str \in Texts : \/ AddString(str) \/ AddSharedString(str)
                             \/ AddBytes(str) \/ AddUninitialized(str)
                             \/ AddNested(str)
       \/ \E n \in 0..1 : AddNumbers(n)
       \/ AddVectorOfStrings(<<Key(2), <<>>, Key(1)>>)
       \/ AddStructObject \/ AddStructs

LibraryCall ==
    \/ MakeString \/ MakeSharedString \/ MakeBytes \/ MakeNested
    \/ MakeUninitialized \/ MakeNumbers \/ MakeStrings \/ MakeStruct
    \/ MakeStructs \/ MakeTable \/ MakeSortedTables \/ Have

Next ==
    \/ LibraryCall
    \/ AddObject
    \/ \E full \in BOOLEAN : AddTable(full)
    \/ \E type \in 0..1 : AddMessage(type, 513 * type)
    \/ \E ks \in KeyLists : AddSortedTables(ks)
    \/ \E id \in {<<>>, Identifier}, p \in BOOLEAN : FinishBuffer(id, p)
    \/ \E i \in 1..Len(Tables[topic]) : MutateField(i)
    \/ ClearBuilder \/ ReleaseBuilder \/ AbandonTable

Spec == Init /\ [][Next]_vars

----------------------------------------------------------------------------
(* Properties.                                                             *)

\* The scratch pad and the data never overlap and size_ counts the data;
\* between two calls of the client nothing is nested.
TypeOK ==
    /\ WellFormed(b.v) /\ Reserved(b.v) % BufferMinAlign = 0
    /\ ~b.nested /\ b.fields = 0
    /\ Len(made) <= MaxObjects[topic] /\ calls <= MaxCalls

\* Between two calls the scratch pad holds the vtables of the buffer and
\* nothing else, and every table refers to one of them.  While
\* DedupVtables() is on no two are equal, and CreateSharedString() never
\* stores the same contents twice.
StoredOnce ==
    /\ ~b.finished =>
          LET vts == Vtables(b)
              ats == {DataAt(b.v, vts[i]) : i \in 1..Len(vts)}
          IN  /\ \A i \in 1..Len(made) :
                    IsTable(made[i]) =>
                       VtableOf(b.v.buf, DataAt(b.v, made[i].off)) \in ats
              /\ b.dedup => \A i, j \in 1..Len(vts) :
                    VtableAt(b, vts[i]) = VtableAt(b, vts[j]) => i = j
    /\ \A i, j \in 1..Len(made) :
          /\ made[i].kind = "shared" /\ made[j].kind = "shared"
          /\ made[i].val = made[j].val
          => made[i].off = made[j].off

\* The bytes of a buffer depend on what the client made since the last
\* Clear() or Release() only: not on the block the builder had, on when it
\* was reallocated, or on what an earlier buffer or an abandoned table left.
OnlyTheCallsCount ==
    /\ Data(b.v) = Data(twin.v)
    /\ Vtables(b) = Vtables(twin)
    /\ b.minalign = twin.minalign
==============================================================================
