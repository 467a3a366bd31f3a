---------------------------- MODULE FlatReadBack ----------------------------
(***************************************************************************)
(* What the client of FlatSession reads: the objects while the buffer is   *)
(* being built, and the finished buffer, verified and damaged.             *)
(***************************************************************************)
EXTENDS FlatSession, FlatTable

CONSTANT Damageable       \* the tables whose buffers are damaged

KeyValueOf(k) == IF topic = "EnumVal" THEN k ELSE C(Key(k))

\* LookupByKey() in a vector of sorted tables finds a table for every key
\* that is there and for no other.
FindsExactly(s, p, ks) ==
    \A k \in 0..4 :
        LET t == LookupByKey(s, topic, p, KeyValueOf(k))
        IN  IF \E i \in 1..Len(ks) : ks[i] = k
            THEN t # Junk /\ KeyAt(s, topic, t) = KeyValueOf(k)
            ELSE t = Junk

\* Reading an object at position p of the memory s gives what it was made of.
Holds(s, p, m) ==
    CASE m.kind \in {"string", "shared"} -> CString(s, p) = m.val
      [] m.kind \in {"bytes", "nested"} -> VectorData(s, p) = m.val
      [] m.kind = "numbers" ->
            [i \in Elements(s, p) |-> ReadU(s, ElementAt(p, i, 8), 8)] = m.val
      [] m.kind = "strings" ->
            [i \in Elements(s, p) |->
                CString(s, Follow(s, ElementAt(p, i, 4)))] = m.val
      [] m.kind = "struct" -> Bytes(s, p, Len(m.val)) = m.val
      [] m.kind = "table" -> ReadTable(s, m.of, p) = m.val
      [] m.kind = "sorted" ->
            VectorSize(s, p) = Len(m.val) /\ FindsExactly(s, p, m.val)

\* Every object keeps the value it was made with, whatever is made after it:
\* through reallocations (vector_downward::reallocate), shared vtables and
\* shared strings that are taken back, and unfinished neighbours.  What
\* SetField() changes later is the one field of the one table.
ObjectsKeepTheirValue ==
    \A i \in 1..Len(made) :
        Holds(b.v.buf, DataAt(b.v, made[i].off), made[i])

Buffer == Data(b.v)
Start == IF prefixed THEN 4 ELSE 0

Verified(s) ==
    IF prefixed THEN VerifySizePrefixedBuffer(s, topic, identifier)
                ELSE VerifyBuffer(s, topic, identifier)

ReadRoot(s, start) == ReadTable(s, topic, Root(s, start))

\* Every byte of the buffer was written, padding included, and what needs
\* an alignment has it, also the objects the root does not lead to.
CleanAndAligned ==
    /\ \A i \in 1..Len(Buffer) : Buffer[i] # Junk
    /\ Len(Buffer) % b.minalign = 0
    /\ \A i \in 1..Len(made) :
          LET p == Len(Buffer) - made[i].off
          IN  /\ p % (IF made[i].kind = "struct" THEN 8 ELSE 4) = 0
              /\ made[i].kind \in {"numbers", "nested"}
                   /\ made[i].val # <<>> => (p + 4) % 8 = 0

Pad == [i \in 1..16 |-> 7]

\* The SizeVerifier finds the end of a buffer that other bytes follow: what
\* it computes stays within the buffer and is enough to read it.
ComputedSizeIsEnough ==
    LET n == ComputedSize(Verified(Buffer \o Pad), Buffer \o Pad)
        s == SubSeq(Buffer, 1, n)
    IN  n <= Len(Buffer) /\ Verified(s).ok /\ ReadRoot(s, 0) = RootObject.val

\* The Verifier accepts every finished buffer, checks of alignment included,
\* its count of open tables is back at zero, and the root reads as it was
\* made, behind the size prefix and the identifier.
FinishedBufferVerifies ==
    b.finished =>
        /\ CleanAndAligned
        /\ Verified(Buffer).ok /\ Verified(Buffer).depth = 0
        /\ ReadRoot(Buffer, Start) = RootObject.val
        /\ IF prefixed THEN ReadU(Buffer, 0, 4) + 4 = Len(Buffer)
                       ELSE ComputedSizeIsEnough

\* Copies of the buffer that lost their end, or a byte of which changed.
Damaged(s) ==
    {SubSeq(s, 1, n) : n \in 0..Len(s) - 1}
       \cup {[s EXCEPT ![i] = x] : i \in 1..Len(s), x \in {0, 1, 255}}

\* A damaged buffer the Verifier accepts can be read without leaving it: it
\* reads the same wherever it lies in memory.
VerifiedBufferIsReadInside ==
    b.finished /\ Len(made) = 1 /\ topic \in Damageable =>
        \A s \in Damaged(Buffer) :
            Verified(s).ok =>
                ReadRoot(s, Start) = ReadRoot(Pad \o s \o Pad, 16 + Start)
=============================================================================
