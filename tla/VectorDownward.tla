---------------------------- MODULE VectorDownward ----------------------------
(***************************************************************************)
(* vector_downward: the memory a builder writes into.  Bytes are pushed    *)
(* downwards from the end of the block, a scratch pad grows upwards from   *)
(* its beginning, and the block is reallocated when the two would meet.    *)
(* An operator takes the vector before the call and gives the one after.   *)
(***************************************************************************)
EXTENDS FlatBytes

\* buf is the block (empty when buf_ is null), cur and scratch are cur_ and
\* scratch_ as distances from its beginning.
NewVector(initial, align) ==
    [buf |-> <<>>, cur |-> 0, scratch |-> 0, size |-> 0,
     initial |-> initial, align |-> align]

Reserved(v) == Len(v.buf)
Unused(v) == v.cur - v.scratch
Data(v) == SubSeq(v.buf, v.cur + 1, Len(v.buf))
ScratchBytes(v) == SubSeq(v.buf, 1, v.scratch)

\* data_at(): objects are named by their distance from the end of the block.
DataAt(v, offset) == Reserved(v) - offset

Fresh(n) == [i \in 1..n |-> Junk]

\* Mutant: the data stay where they were instead of moving to the end.
ReallocateUpward(v, reserved) == v.buf \o Fresh(reserved - Reserved(v))

\* reallocate_downward() with memcpy_downward(): the data move to the end of
\* the new block, the scratch pad stays at the beginning.
ReallocateDownward(v, reserved) ==
    ScratchBytes(v) \o Fresh(reserved - v.scratch - v.size)
       \o SubSeq(v.buf, Reserved(v) - v.size + 1, Reserved(v))

Reallocate(v, len) ==
    LET grow == IF Reserved(v) # 0 THEN Reserved(v) \div 2 ELSE v.initial
        reserved == RoundUp(Reserved(v) + Larger(len, grow), v.align)
    IN  [v EXCEPT !.buf = ReallocateDownward(v, reserved),
                  !.cur = reserved - v.size]

\* Mutant: the scratch pad is forgotten.
EnsureRoomForData(v, len) == IF len > v.cur THEN Reallocate(v, len) ELSE v

EnsureSpace(v, len) == IF len > Unused(v) THEN Reallocate(v, len) ELSE v

MakeSpace(v, len) ==
    LET w == EnsureSpace(v, len)
    IN  [w EXCEPT !.cur = @ - len, !.size = @ + len]

\* push() and push_small().
Push(v, bytes) ==
    LET w == MakeSpace(v, Len(bytes))
    IN  [w EXCEPT !.buf = Overwrite(@, w.cur, bytes)]

\* fill() and fill_big().
Fill(v, n) == Push(v, [i \in 1..n |-> 0])

Pop(v, n) == [v EXCEPT !.cur = @ + n, !.size = @ - n]

\* scratch_push_small()
ScratchPush(v, bytes) ==
    LET w == EnsureSpace(v, Len(bytes))
    IN  [w EXCEPT !.buf = Overwrite(@, w.scratch, bytes),
                  !.scratch = @ + Len(bytes)]

ScratchPop(v, n) == [v EXCEPT !.scratch = @ - n]

ClearScratch(v) == [v EXCEPT !.scratch = 0]

ClearVector(v) == [v EXCEPT !.cur = Reserved(v), !.size = 0, !.scratch = 0]

\* reset(), release() and release_raw() leave a vector without a block.
LoseBlock(v) == ClearVector([v EXCEPT !.buf = <<>>])

WriteAt(v, at, bytes) == [v EXCEPT !.buf = Overwrite(@, at, bytes)]

\* What ensure_space() asserts and the size counter: the scratch pad ends
\* before the data begins, and size_ is the length of the data.
WellFormed(v) ==
    /\ 0 <= v.scratch /\ v.scratch <= v.cur /\ v.cur <= Reserved(v)
    /\ v.size = Reserved(v) - v.cur
===============================================================================
