------------------------------ MODULE FlatBytes ------------------------------
(***************************************************************************)
(* Memory of the FlatBuffers and FlexBuffers libraries: a sequence of      *)
(* bytes, addressed from 0.  Scalars are little endian (base.h), which is  *)
(* the byte order of every platform the program is built for.              *)
(***************************************************************************)
EXTENDS Integers, Sequences

Junk == -1         \* a byte that was allocated and never written
Huge == 1048576    \* stands for every number no buffer of a run can hold

\* The w low bytes of n, in two's complement.
Scalar(n, w) ==
    [i \in 1..w |-> IF i <= 4 THEN (n \div (256 ^ (i - 1))) % 256
                    ELSE IF n < 0 THEN 255 ELSE 0]

Inside(s, at, len) == at >= 0 /\ at + len <= Len(s)

\* What a read outside the memory gives is undefined: here nothing, or Junk.
Bytes(s, at, len) ==
    IF Inside(s, at, len) THEN SubSeq(s, at + 1, at + len) ELSE <<>>

\* ReadScalar<uint8_t .. uint64_t>, numbers from Huge on read as Huge.
ReadU(s, at, w) ==
    IF ~Inside(s, at, w) THEN Junk
    ELSE IF \E i \in 3..w : s[at + i] >= (IF i = 3 THEN 16 ELSE 1) THEN Huge
    ELSE s[at + 1] + (IF w > 1 THEN 256 * s[at + 2] ELSE 0)
                   + (IF w > 2 THEN 65536 * s[at + 3] ELSE 0)

\* ReadScalar of a signed scalar, numbers beyond Huge read as Huge.
ReadS(s, at, w) ==
    IF ~Inside(s, at, w) THEN Junk
    ELSE IF s[at + w] < 128 THEN ReadU(s, at, w)
    ELSE -1 - ReadU([i \in 1..w |-> 255 - s[at + i]], 0, w)

\* The memory with bytes written from at on.
Overwrite(s, at, bytes) ==
    SubSeq(s, 1, at) \o bytes \o SubSeq(s, at + Len(bytes) + 1, Len(s))

Smallest(a, b) == IF a < b THEN a ELSE b
Larger(a, b) == IF a > b THEN a ELSE b

PaddingBytes(size, align) == (-size) % align

RoundUp(n, align) == n + PaddingBytes(n, align)

\* memcmp() and the length decide: StringLessThan of buffer.h.
BytesLess(a, b) ==
    \/ Len(a) < Len(b) /\ SubSeq(b, 1, Len(a)) = a
    \/ \E i \in 1..Len(a) : /\ i <= Len(b)
                            /\ SubSeq(a, 1, i - 1) = SubSeq(b, 1, i - 1)
                            /\ a[i] < b[i]
==============================================================================
