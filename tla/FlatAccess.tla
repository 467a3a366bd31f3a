------------------------------ MODULE FlatAccess ------------------------------
(***************************************************************************)
(* Reading and changing a table in place: Table, Vector and String.  s is  *)
(* the memory, positions are counted from its beginning.                   *)
(***************************************************************************)
EXTENDS FlatBytes, FlatSchemas

VtableOf(s, t) == t - ReadS(s, t, 4)

\* GetOptionalFieldOffset(): 0 when the table does not have the field.
FieldOffset(s, t, vo) ==
    IF vo < ReadU(s, VtableOf(s, t), 2)
    THEN ReadU(s, VtableOf(s, t) + vo, 2)
    ELSE 0

GetField(s, t, f) ==
    LET o == FieldOffset(s, t, f.vo)
    IN  IF o = 0 THEN f.default ELSE ReadS(s, t + o, f.w)

Follow(s, at) == at + ReadU(s, at, 4)

VectorSize(s, p) == ReadU(s, p, 4)

\* c_str(): the characters and the terminator.
CString(s, p) == Bytes(s, p + 4, VectorSize(s, p) + 1)

\* What KeyCompareLessThan() compares.
KeyAt(s, T, t) ==
    LET f == Tables[T][KeyOf(T)]
    IN  IF f.kind = "num" THEN GetField(s, t, f)
        ELSE CString(s, Follow(s, t + FieldOffset(s, t, f.vo)))

KeyLess(T, a, b) ==
    IF Tables[T][KeyOf(T)].kind = "num" THEN a < b ELSE BytesLess(a, b)

\* SetField(): the buffer after it, unchanged when the field is absent.
SetField(s, t, f, value) ==
    LET o == FieldOffset(s, t, f.vo)
    IN  IF o = 0 THEN s ELSE Overwrite(s, t + o, Scalar(value, f.w))
===============================================================================
