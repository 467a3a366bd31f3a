------------------------------ MODULE FlexTypes ------------------------------
(***************************************************************************)
(* Types and widths of the FlexBuffers library.  A width w stands for      *)
(* 2^w bytes.  Floating point numbers are whole numbers here, of which     *)
(* those from 100 on stand for the ones a float cannot hold.               *)
(***************************************************************************)
EXTENDS FlatBytes

FBT_NULL == 0
FBT_INT == 1
FBT_UINT == 2
FBT_FLOAT == 3
FBT_KEY == 4
FBT_STRING == 5
FBT_INDIRECT_INT == 6
FBT_INDIRECT_UINT == 7
FBT_INDIRECT_FLOAT == 8
FBT_MAP == 9
FBT_VECTOR == 10
FBT_VECTOR_INT == 11
FBT_VECTOR_KEY == 14
FBT_VECTOR_STRING_DEPRECATED == 15
FBT_VECTOR_INT2 == 16
FBT_VECTOR_FLOAT4 == 24
FBT_BLOB == 25
FBT_BOOL == 26
FBT_VECTOR_BOOL == 36

IsInline(t) == t <= FBT_FLOAT \/ t = FBT_BOOL

IsTypedVectorElementType(t) == t \in FBT_INT..FBT_STRING \/ t = FBT_BOOL

IsTypedVector(t) ==
    t \in FBT_VECTOR_INT..FBT_VECTOR_STRING_DEPRECATED \/ t = FBT_VECTOR_BOOL

IsFixedTypedVector(t) == t \in FBT_VECTOR_INT2..FBT_VECTOR_FLOAT4

\* n is 0, or the length of a vector of two to four elements.
ToTypedVector(t, n) ==
    IF n = 0 THEN t - FBT_INT + FBT_VECTOR_INT
             ELSE t - FBT_INT + FBT_VECTOR_INT2 + 3 * (n - 2)

FixedLength(t) == (t - FBT_VECTOR_INT2) \div 3 + 2

\* The type as which an element is read: strings are read as keys.
ElementType(t) ==
    CASE IsFixedTypedVector(t) -> ((t - FBT_VECTOR_INT2) % 3) + FBT_INT
      [] t = FBT_VECTOR_STRING_DEPRECATED -> FBT_KEY
      [] OTHER -> t - FBT_VECTOR_INT + FBT_INT

WidthU(u) == IF u < 256 THEN 0 ELSE IF u < 65536 THEN 1 ELSE 2
WidthI(i) == WidthU(IF i >= 0 THEN 2 * i ELSE -2 * i - 1)
WidthF(f) == IF f < 100 THEN 2 ELSE 3

\* What the low half of a double is as a float, for the numbers WidthF() gives
\* 4 bytes: the few bits of a small whole number are all in the other half.
LowHalf(f) == 0

\* The characters of the key at place p, up to the first zero.
CharsAt(s, p) ==
    LET ends == {i \in p + 1..Len(s) : s[i] = 0}
    IN  IF p < 0 \/ ends = {} THEN <<Junk>>
        ELSE SubSeq(s, p + 1, (CHOOSE i \in ends : \A j \in ends : i <= j) - 1)

PackedType(w, t) == w + 4 * t
==============================================================================
