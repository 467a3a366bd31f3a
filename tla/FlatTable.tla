------------------------------ MODULE FlatTable ------------------------------
(***************************************************************************)
(* Reading a finished buffer: Table, Vector and String, and the Verifier   *)
(* that checks a buffer before it is read.  s is the buffer, positions are *)
(* counted from its beginning.                                             *)
(***************************************************************************)
EXTENDS FlatAccess

CONSTANTS MaxDepth, MaxTables     \* Verifier::Options

----------------------------------------------------------------------------
(* Reading a whole table. *)

\* GetRoot() and GetSizePrefixedRoot()
Root(s, start) == Follow(s, start)

ElementAt(p, i, w) == p + 4 + w * (i - 1)
Elements(s, p) == 1..Smallest(VectorSize(s, p), Len(s))

VectorData(s, p) == Bytes(s, p + 4, VectorSize(s, p))

RECURSIVE ReadTable(_, _, _)

\* What the accessor of a field gives: a scalar, or the object a pointer
\* leads to in a sequence that is empty when the pointer is null.
ReadField(s, t, f) ==
    LET o == FieldOffset(s, t, f.vo)
        p == Follow(s, t + o)
        Item(i) == Follow(s, ElementAt(p, i, 4))
    IN  CASE f.kind = "num" -> GetField(s, t, f)
          [] f.kind # "num" /\ o = 0 -> <<>>
          [] f.kind = "string" /\ o # 0 -> <<CString(s, p)>>
          [] f.kind = "bytes" /\ o # 0 -> <<VectorData(s, p)>>
          [] f.kind = "strings" /\ o # 0 ->
                <<[i \in Elements(s, p) |-> CString(s, Item(i))]>>
          [] f.kind = "table" /\ o # 0 -> <<ReadTable(s, f.of, p)>>
          [] f.kind = "tables" /\ o # 0 ->
                <<[i \in Elements(s, p) |-> ReadTable(s, f.of, Item(i))]>>

ReadTable(s, T, t) ==
    [i \in 1..Len(Tables[T]) |-> ReadField(s, t, Tables[T][i])]

\* LookupByKey(): bsearch over a vector of tables sorted by their key, the
\* position of a table with that key, or Junk.
RECURSIVE BSearch(_, _, _, _, _, _)

BSearch(s, T, p, key, lo, hi) ==
    LET mid == (lo + hi) \div 2
        t == Follow(s, ElementAt(p, mid, 4))
        at == KeyAt(s, T, t)
    IN  CASE lo > hi -> Junk
          [] lo <= hi /\ at = key -> t
          [] lo <= hi /\ at # key ->
                IF KeyLess(T, key, at) THEN BSearch(s, T, p, key, lo, mid - 1)
                                       ELSE BSearch(s, T, p, key, mid + 1, hi)

LookupByKey(s, T, p, key) == BSearch(s, T, p, key, 1, VectorSize(s, p))

----------------------------------------------------------------------------
(* Verifier.  r is its state: ok is FALSE once a check has failed, upper   *)
(* is upper_bound_.  An operator leaves r alone once a check has failed,   *)
(* as the && of the code does.                                             *)

NewVerifier == [ok |-> TRUE, depth |-> 0, tables |-> 0, upper |-> 0]

Check(r, ok) ==
    CASE ~r.ok -> r
      [] r.ok /\ ok -> r
      [] r.ok /\ ~ok -> [r EXCEPT !.ok = FALSE, !.upper = 0]

Then(r, Next(_)) == IF r.ok THEN Next(r) ELSE r

\* Verify(elem, elem_len); positions are unsigned, below 0 is far beyond.
VerifyRange(r, s, at, len) ==
    Check(IF r.ok /\ at + len > r.upper THEN [r EXCEPT !.upper = at + len]
                                        ELSE r,
          len < Len(s) /\ at >= 0 /\ at <= Len(s) - len)

VerifyScalar(r, s, at, w) ==
    VerifyRange(Check(r, at % w = 0), s, at, w)

VerifyOffset(r, s, at) ==
    Then(VerifyScalar(r, s, at, 4),
         LAMBDA x : VerifyRange(Check(x, ReadU(s, at, 4) # 0
                                           /\ ReadS(s, at, 4) >= 0),
                                s, at + ReadU(s, at, 4), 1))

\* VerifyVectorOrString()
VerifyVector(r, s, p, elemsize) ==
    Then(VerifyScalar(r, s, p, 4),
         LAMBDA x : VerifyRange(x, s, p, 4 + elemsize * VectorSize(s, p)))

\* Mutant: a string is a vector of bytes.
VerifyStringUnended(r, s, p) == VerifyVector(r, s, p, 1)

VerifyString(r, s, p) ==
    LET end == p + 4 + VectorSize(s, p)
    IN  Then(VerifyRange(VerifyVector(r, s, p, 1), s, end, 1),
             LAMBDA x : Check(x, ReadU(s, end, 1) = 0))

VerifyComplexity(r) ==
    Then(r, LAMBDA x :
        LET y == [x EXCEPT !.depth = @ + 1, !.tables = @ + 1]
        IN  Check(y, y.depth <= MaxDepth /\ y.tables <= MaxTables))

VerifyTableStart(r, s, t) ==
    Then(VerifyScalar(r, s, t, 4),
         LAMBDA x :
            LET vt == VtableOf(s, t)
            IN  Then(VerifyScalar(VerifyComplexity(x), s, vt, 2),
                     LAMBDA y : VerifyRange(Check(y, ReadU(s, vt, 2) % 2 = 0),
                                            s, vt, ReadU(s, vt, 2))))

EndVerifyTable(r) == IF r.ok THEN [r EXCEPT !.depth = @ - 1] ELSE r

RECURSIVE VerifyTable(_, _, _, _)

\* The vector at p of offsets to strings, or to tables of the type of f.
VerifyEach(r, s, p, f) ==
    LET Verify(x, q) == IF f.kind = "strings" THEN VerifyString(x, s, q)
                                              ELSE VerifyTable(x, s, f.of, q)
    IN  Then(VerifyVector(r, s, p, 4),
             LAMBDA x :
                FoldLeft(LAMBDA y, i : Then(y, LAMBDA z :
                                  Verify(z, Follow(s, ElementAt(p, i, 4)))),
                         x, [i \in 1..VectorSize(s, p) |-> i]))

VerifyTarget(r, s, p, f) ==
    CASE f.kind = "string" -> VerifyString(r, s, p)
      [] f.kind = "bytes" -> VerifyVector(r, s, p, 1)
      [] f.kind = "table" -> VerifyTable(r, s, f.of, p)
      [] f.kind \in {"strings", "tables"} -> VerifyEach(r, s, p, f)

\* VerifyField(), VerifyOffset() and their Required forms.
VerifyField(r, s, t, f) ==
    LET o == FieldOffset(s, t, f.vo)
    IN  CASE o = 0 -> Check(r, ~f.required)
          [] o # 0 /\ f.kind = "num" -> VerifyScalar(r, s, t + o, f.w)
          [] o # 0 /\ f.kind # "num" ->
                Then(VerifyOffset(r, s, t + o),
                     LAMBDA x : VerifyTarget(x, s, Follow(s, t + o), f))

\* The Verify() of a generated table.
VerifyTable(r, s, T, t) ==
    EndVerifyTable(
        FoldLeft(LAMBDA x, f : Then(x, LAMBDA y : VerifyField(y, s, t, f)),
                 VerifyTableStart(r, s, t), Tables[T]))

\* GetComputedSize() of the SizeVerifier.
ComputedSize(r, s) ==
    LET size == RoundUp(r.upper, 4) IN IF size > Len(s) THEN 0 ELSE size

HasIdentifier(s, start, identifier) ==
    Bytes(s, start + 4, Len(identifier)) = identifier

\* The SizeVerifier also rejects a buffer with ComputedSize = 0.
VerifyBufferFromStart(r, s, T, identifier, start) ==
    Then(VerifyOffset(Check(Check(r, Len(s) >= 12),
                            identifier = <<>>
                              \/ HasIdentifier(s, start, identifier)),
                      s, start),
         LAMBDA x : VerifyTable(x, s, T, Follow(s, start)))

VerifyBuffer(s, T, identifier) ==
    VerifyBufferFromStart(NewVerifier, s, T, identifier, 0)

VerifySizePrefixedBuffer(s, T, identifier) ==
    Then(VerifyScalar(NewVerifier, s, 0, 4),
         LAMBDA x :
            VerifyBufferFromStart(Check(x, ReadU(s, 0, 4) + 4 <= Len(s)),
                                  s, T, identifier, 4))
==============================================================================
