-------------------------- MODULE FlatSessionProofs --------------------------
(***************************************************************************)
(* Proofs about a session of a program with a FlatBufferBuilder: the       *)
(* inductive invariant of FlatSession, by the call the program makes next  *)
(* and by the step of it that is taken, and what follows from it.          *)
(***************************************************************************)
EXTENDS FlatSession, FlatBuilderProofs, FiniteSetTheorems

(* The loop of SortTables().                                               *)
KeyIn(x, T, o) == KeyAt(x.v.buf, T, DataAt(x.v, o))

SortStep(x, T, s, o) ==
  InsertAt(s,
    Cardinality({i \in 1..Len(s) :
                   ~KeyLess(T, KeyIn(x, T, o), KeyIn(x, T, s[i]))}) + 1,
    o)

SortedOf(x, T, offs) ==
  CHOOSE h : h = [n \in 0..Len(offs) |->
                    IF n = 0 THEN <<>> ELSE SortStep(x, T, h[n - 1], offs[n])]

LEMMA SortUnfolded ==
  ASSUME NEW x, NEW T, NEW offs
  PROVE  SortTables(x, T, offs) = SortedOf(x, T, offs)[Len(offs)]
BY DEF SortTables, SortedOf, SortStep, KeyIn

LEMMA Inserted ==
  ASSUME NEW S, NEW s \in Seq(S), NEW e \in S, NEW i \in 1..(Len(s) + 1)
  PROVE  InsertAt(s, i, e) \in Seq(S)
<1>. DEFINE a == SubSeq(s, 1, i - 1)
            c == SubSeq(s, i, Len(s))
<1>1. Len(s) \in Nat /\ \A k \in 1..Len(s) : s[k] \in S
  BY LenProperties, ElementOfSeq
<1>2. a \in Seq(S)
  <2>1. \A k \in 1..(i - 1) : s[k] \in S
    BY <1>1
  <2>. QED
    BY <1>1, <2>1, SubSeqProperties
<1>3. c \in Seq(S)
  <2>1. \A k \in i..Len(s) : s[k] \in S
    BY <1>1
  <2>. QED
    BY <1>1, <2>1, SubSeqProperties
<1>4. <<e>> \in Seq(S)
  OBVIOUS
<1>. HIDE DEF a, c
<1>5. (a \o <<e>>) \o c \in Seq(S)
  BY <1>2, <1>3, <1>4
<1>. QED
  BY <1>5 DEF InsertAt, a, c

(* The offsets of the tables that can be sorted.                           *)
Sortable(x, T) ==
  {o \in Int : ValidTable(DataOf(x), FieldsOf(Tables[T]), o)}

LEMMA FirstNumbers ==
  ASSUME NEW k \in Nat
  PROVE  IsFiniteSet(1..k) /\ Cardinality(1..k) = k
BY FS_Interval

LEMMA TwinSortStep ==
  ASSUME NEW x, NEW y, Twins(x, y), DataOf(x) \in Seq(Byte),
         NEW T, GoodTable(Tables[T]), KeyOf(T) \in 1..Len(Tables[T]),
         NEW s \in Seq(Sortable(x, T)), NEW o \in Sortable(x, T)
  PROVE  /\ SortStep(x, T, s, o) \in Seq(Sortable(x, T))
         /\ SortStep(x, T, s, o) = SortStep(y, T, s, o)
<1>. DEFINE O == Sortable(x, T)
            Before(z) == {i \in 1..Len(s) :
                            ~KeyLess(T, KeyIn(z, T, o), KeyIn(z, T, s[i]))}
            n == Cardinality(Before(x))
<1>1. /\ x \in Builders /\ y \in Builders /\ DataOf(y) = DataOf(x)
      /\ Size(x) = Size(y)
  BY TwinParts
<1>2. ASSUME NEW q \in O
      PROVE  KeyIn(x, T, q) = KeyIn(y, T, q)
  <2>1. ValidTable(DataOf(x), FieldsOf(Tables[T]), q)
    BY DEF Sortable
  <2>2. KeyIn(x, T, q) = KeyAt(DataOf(x), T, Size(x) - q)
    BY <1>1, <2>1, BuilderKey DEF KeyIn
  <2>3. KeyIn(y, T, q) = KeyAt(DataOf(y), T, Size(y) - q)
    BY <1>1, <2>1, BuilderKey DEF KeyIn
  <2>. QED
    BY <1>1, <2>2, <2>3
<1>3. Len(s) \in Nat /\ \A i \in 1..Len(s) : s[i] \in O
  BY LenProperties, ElementOfSeq
<1>4. Before(x) = Before(y)
  BY <1>2, <1>3
<1>5. n \in Nat /\ n <= Len(s)
  <2>1. IsFiniteSet(1..Len(s)) /\ Cardinality(1..Len(s)) = Len(s)
    <3>1. Len(s) \in Nat
      BY <1>3
    <3>. QED
      BY ONLY <3>1, FirstNumbers
  <2>2. Before(x) \in SUBSET (1..Len(s))
    OBVIOUS
  <2>. HIDE DEF Before
  <2>3. IsFiniteSet(Before(x)) /\ n <= Len(s)
    BY <2>1, <2>2, FS_Subset
  <2>. QED
    BY <2>3, FS_CardinalityType
<1>6. SortStep(x, T, s, o) = InsertAt(s, n + 1, o)
  BY DEF SortStep
<1>7. SortStep(y, T, s, o) = InsertAt(s, n + 1, o)
  BY <1>4 DEF SortStep
<1>. HIDE DEF n, O
<1>8. n + 1 \in 1..(Len(s) + 1)
  BY <1>3, <1>5
<1>9. InsertAt(s, n + 1, o) \in Seq(O)
  BY <1>8, Inserted DEF O
<1>. QED
  BY <1>6, <1>7, <1>9 DEF O

Sorting(h, x, T, S, offs) ==
  /\ h \in [0..Len(offs) -> Seq(S)] /\ h[0] = <<>>
  /\ \A k \in 1..Len(offs) : h[k] = SortStep(x, T, h[k - 1], offs[k])

LEMMA SortedSteps ==
  ASSUME NEW x, NEW T, NEW S, NEW offs \in Seq(S),
         \A s \in Seq(S), o \in S : SortStep(x, T, s, o) \in Seq(S)
  PROVE  Sorting(SortedOf(x, T, offs), x, T, S, offs)
<1>. DEFINE n == Len(offs)
            Put(s, k) == SortStep(x, T, s, offs[k])
            G == [p \in Seq(S) \X (1..n) |-> Put(p[1], p[2])]
            Is(h) == h = [k \in 0..n |-> IF k = 0 THEN <<>>
                                         ELSE Put(h[k - 1], k)]
            sorted == SortedOf(x, T, offs)
<1>1. n \in Nat /\ \A k \in 1..n : offs[k] \in S
  BY LenProperties, ElementOfSeq
<1>2. \A s \in Seq(S), k \in 1..n : Put(s, k) \in Seq(S)
  BY <1>1
<1>3. sorted = CHOOSE h : Is(h)
  BY DEF SortedOf
<1>. HIDE DEF Put, sorted, n
<1>4. /\ G \in [Seq(S) \X (1..n) -> Seq(S)]
      /\ \A s \in Seq(S), k \in 1..n : G[<<s, k>>] = Put(s, k)
  BY <1>2
<1>. HIDE DEF G
<1>5. PICK g \in [0..n -> Seq(S)] : Follows(g, <<>>, n, G)
  <2>1. <<>> \in Seq(S)
    BY EmptySeq
  <2>. QED
    BY <1>1, <1>4, <2>1, Recursion
<1>6. Is(g)
  <2>1. ASSUME NEW k \in 0..n
        PROVE  g[k] = IF k = 0 THEN <<>> ELSE Put(g[k - 1], k)
    <3>1. CASE k = 0
      BY <1>5, <3>1 DEF Follows
    <3>2. CASE k # 0
      <4>1. k \in 1..n /\ k - 1 \in 0..n
        BY <1>1, <3>2
      <4>2. g[k] = G[<<g[k - 1], k>>] /\ g[k - 1] \in Seq(S)
        BY <1>5, <4>1 DEF Follows
      <4>. QED
        BY <1>4, <3>2, <4>1, <4>2
    <3>. QED
      BY <3>1, <3>2
  <2>. QED
    BY <2>1
<1>7. Is(sorted)
  <2>. HIDE DEF Is
  <2>. QED
    BY <1>3, <1>6
<1>8. sorted = [k \in 0..n |-> IF k = 0 THEN <<>> ELSE Put(sorted[k - 1], k)]
  BY <1>7
<1>. HIDE DEF Is
<1>9. 0 \in 0..n /\ \A k \in 1..n : k \in 0..n /\ k # 0
  BY <1>1
<1>10. sorted[0] = <<>>
  BY <1>8, <1>9
<1>11. ASSUME NEW k \in 1..n
       PROVE  sorted[k] = Put(sorted[k - 1], k)
  <2>1. k \in 0..n /\ k # 0
    BY <1>9
  <2>. QED
    BY <1>8, <2>1
<1>12. \A k \in 0..n : sorted[k] \in Seq(S)
  <2>. DEFINE U == {k \in 0..n : sorted[k] \in Seq(S)}
  <2>1. 0 \in U
    BY <1>9, <1>10, EmptySeq
  <2>2. ASSUME NEW k \in 1..n, k - 1 \in U
        PROVE  k \in U
    BY <1>2, <1>9, <1>11, <2>2
  <2>. HIDE DEF U
  <2>3. \A k \in 0..n : k \in U
    BY <1>1, <2>1, <2>2, UpTo
  <2>. QED
    BY <2>3 DEF U
<1>13. sorted \in [0..n -> Seq(S)]
  BY <1>8, <1>12
<1>. QED
  BY <1>10, <1>11, <1>13 DEF Put, sorted, n, Sorting

(* CreateVectorOfSortedTables() reads keys out of the block it is about to *)
(* move: two builders with the same data sort their tables the same way.   *)
THEOREM TwinSortTables ==
  ASSUME NEW x, NEW y, Twins(x, y), DataOf(x) \in Seq(Byte),
         NEW T, GoodTable(Tables[T]), KeyOf(T) \in 1..Len(Tables[T]),
         NEW offs \in Seq(Sortable(x, T))
  PROVE  /\ SortTables(x, T, offs) \in Seq(Int)
         /\ SortTables(x, T, offs) = SortTables(y, T, offs)
<1>. DEFINE S == Sortable(x, T)
            n == Len(offs)
            h == SortedOf(x, T, offs)
            g == SortedOf(y, T, offs)
<1>1. n \in Nat /\ \A k \in 1..n : offs[k] \in S
  BY LenProperties, ElementOfSeq
<1>2. \A s \in Seq(S), o \in S : /\ SortStep(x, T, s, o) \in Seq(S)
                                 /\ SortStep(x, T, s, o) = SortStep(y, T, s, o)
  BY TwinSortStep
<1>3. \A s \in Seq(S), o \in S : SortStep(y, T, s, o) \in Seq(S)
  BY <1>2
<1>. HIDE DEF S
<1>4. offs \in Seq(S)
  BY DEF S
<1>5. /\ h \in [0..n -> Seq(S)] /\ h[0] = <<>>
      /\ \A k \in 1..n : h[k] = SortStep(x, T, h[k - 1], offs[k])
  <2>1. \A s \in Seq(S), o \in S : SortStep(x, T, s, o) \in Seq(S)
    BY <1>2
  <2>2. Sorting(h, x, T, S, offs)
    BY ONLY <1>4, <2>1, SortedSteps
  <2>. QED
    BY <2>2 DEF Sorting
<1>6. /\ g \in [0..n -> Seq(S)] /\ g[0] = <<>>
      /\ \A k \in 1..n : g[k] = SortStep(y, T, g[k - 1], offs[k])
  <2>1. Sorting(g, y, T, S, offs)
    BY ONLY <1>3, <1>4, SortedSteps
  <2>. QED
    BY <2>1 DEF Sorting
<1>7. SortTables(x, T, offs) = h[n] /\ SortTables(y, T, offs) = g[n]
  BY SortUnfolded
<1>. HIDE DEF h, g, n
<1>. DEFINE U == {k \in 0..n : h[k] = g[k]}
<1>8. 0 \in U
  BY <1>1, <1>5, <1>6
<1>9. ASSUME NEW k \in 1..n, k - 1 \in U
      PROVE  k \in U
  <2>1. k \in 0..n /\ k - 1 \in 0..n /\ h[k - 1] = g[k - 1]
    BY <1>1, <1>9
  <2>2. h[k - 1] \in Seq(S) /\ offs[k] \in S
    BY <1>1, <1>5, <2>1
  <2>. QED
    BY <1>2, <1>5, <1>6, <2>1, <2>2
<1>. HIDE DEF U
<1>10. \A k \in 0..n : k \in U
  BY <1>1, <1>8, <1>9, UpTo
<1>11. h[n] = g[n] /\ h[n] \in Seq(S)
  BY <1>1, <1>5, <1>10 DEF U
<1>12. Seq(S) \subseteq Seq(Int)
  <2>1. ASSUME NEW s \in Seq(S)
        PROVE  s \in Seq(Int)
    <3>1. /\ Len(s) \in Nat /\ s \in [1..Len(s) -> S]
      BY LenProperties
    <3>2. s \in [1..Len(s) -> Int]
      BY <3>1 DEF S, Sortable
    <3>. QED
      BY <3>1, <3>2, FunctionSeq
  <2>. QED
    BY <2>1
<1>. QED
  BY <1>7, <1>11, <1>12

(* The data in front of, at and behind the bytes that are written.         *)
LEMMA SplitBytes ==
  ASSUME NEW s \in Seq(Int), NEW at \in Nat, NEW w \in Nat,
         at + w <= Len(s)
  PROVE  /\ SubSeq(s, 1, at) \in Seq(Int) /\ Len(SubSeq(s, 1, at)) = at
         /\ SubSeq(s, at + 1, at + w) \in Seq(Int)
         /\ Len(SubSeq(s, at + 1, at + w)) = w
         /\ SubSeq(s, at + w + 1, Len(s)) \in Seq(Int)
         /\ s = SubSeq(s, 1, at) \o SubSeq(s, at + 1, at + w)
                  \o SubSeq(s, at + w + 1, Len(s))
<1>. DEFINE p == SubSeq(s, 1, at)
            m == SubSeq(s, at + 1, at + w)
            q == SubSeq(s, at + w + 1, Len(s))
            n == Len(s)
<1>1. n \in Nat
  BY LenProperties
<1>2. p \in Seq(Int) /\ Len(p) = at /\ \A i \in 1..at : p[i] = s[i]
  BY <1>1, PrefixBytes
<1>3. /\ q \in Seq(Int) /\ Len(q) = n - (at + w)
      /\ \A i \in 1..(n - (at + w)) : q[i] = s[(at + w) + i]
  <2>. DEFINE c == at + w
  <2>1. c \in Nat /\ c <= Len(s)
    OBVIOUS
  <2>2. q = SubSeq(s, c + 1, Len(s)) /\ n - (at + w) = Len(s) - c
    OBVIOUS
  <2>. HIDE DEF c, q, n
  <2>3. /\ SubSeq(s, c + 1, Len(s)) \in Seq(Int)
        /\ Len(SubSeq(s, c + 1, Len(s))) = Len(s) - c
        /\ \A i \in 1..(Len(s) - c) : SubSeq(s, c + 1, Len(s))[i] = s[c + i]
    BY ONLY s \in Seq(Int), <2>1, SuffixBytes
  <2>. QED
    BY <2>2, <2>3 DEF c
<1>4. m \in Seq(Int) /\ Len(m) = w /\ \A i \in 1..w : m[i] = s[at + i]
  <2>1. /\ at + 1 \in Int /\ at + w \in Int /\ 1 <= at + 1
        /\ at + 1 <= (at + w) + 1 /\ at + w <= Len(s)
    BY <1>1
  <2>2. /\ m \in Seq(Int) /\ Len(m) = (at + w) - (at + 1) + 1
        /\ \A i \in 1..((at + w) - (at + 1) + 1) : m[i] = s[(at + 1) + i - 1]
    BY <2>1, SubSeqOf
  <2>3. (at + w) - (at + 1) + 1 = w
    OBVIOUS
  <2>4. \A i \in 1..w : (at + 1) + i - 1 = at + i
    OBVIOUS
  <2>. HIDE DEF m
  <2>. QED
    BY <2>2, <2>3, <2>4
<1>. HIDE DEF p, m, q, n
<1>. DEFINE t == p \o m \o q
<1>5. /\ t \in Seq(Int) /\ Len(t) = Len(p) + Len(m) + Len(q)
      /\ \A i \in 1..Len(p) : t[i] = p[i]
      /\ \A i \in 1..Len(m) : t[Len(p) + i] = m[i]
      /\ \A i \in 1..Len(q) : t[Len(p) + Len(m) + i] = q[i]
  <2>1. p \in Seq(Int) /\ m \in Seq(Int) /\ q \in Seq(Int)
    BY <1>2, <1>3, <1>4
  <2>. QED
    BY ONLY <2>1, Concat3 DEF t
<1>. HIDE DEF t
<1>6. Len(t) = n /\ at + w <= n
  BY <1>1, <1>2, <1>3, <1>4, <1>5 DEF n
<1>7. ASSUME NEW i \in 1..n
      PROVE  t[i] = s[i]
  <2>1. CASE i <= at
    BY <1>2, <1>5, <2>1
  <2>2. CASE at < i /\ i <= at + w
    <3>. DEFINE k == i - at
    <3>1. k \in 1..w /\ i = at + k
      BY <1>1, <2>2
    <3>. HIDE DEF k
    <3>. QED
      BY <1>2, <1>4, <1>5, <3>1
  <2>3. CASE at + w < i
    <3>. DEFINE k == i - (at + w)
    <3>1. k \in 1..(n - (at + w)) /\ i = (at + w) + k
      BY <1>1, <1>6, <2>3
    <3>. HIDE DEF k
    <3>2. t[(at + w) + k] = q[k]
      BY <1>2, <1>3, <1>4, <1>5, <3>1
    <3>. QED
      BY <1>3, <3>1, <3>2
  <2>. QED
    BY <1>1, <2>1, <2>2, <2>3
<1>8. t = s
  <2>1. t \in Seq(Int) /\ s \in Seq(Int) /\ Len(t) = Len(s)
    BY <1>5, <1>6 DEF n
  <2>2. \A i \in 1..Len(t) : t[i] = s[i]
    BY <1>6, <1>7
  <2>. QED
    BY <2>1, <2>2, SeqEqual
<1>. QED
  BY <1>2, <1>3, <1>4, <1>8 DEF t, p, m, q, n

(* What is written over a table that can be read.                          *)
LEMMA WrittenTable ==
  ASSUME NEW d, NEW fs \in SUBSET Fields, NEW t, ValidAt(d, fs, t),
         NEW f \in fs, FieldOffset(d, t, f.vo) # 0,
         NEW bytes \in Seq(Byte), Len(bytes) = f.w
  PROVE  /\ ValidAt(Overwrite(d, t + FieldOffset(d, t, f.vo), bytes), fs, t)
         /\ t + FieldOffset(d, t, f.vo) \in Nat
         /\ t + FieldOffset(d, t, f.vo) + f.w <= Len(d)
<1>. DEFINE o == FieldOffset(d, t, f.vo)
            vt == VtableOf(d, t)
            size == ReadU(d, vt, 2)
            e == Overwrite(d, t + o, bytes)
            w == f.w
<1>1. /\ d \in Seq(Int) /\ t \in Nat /\ t + 4 <= Len(d)
      /\ vt \in Nat /\ size \in Nat /\ 4 <= size /\ vt + size <= Len(d)
      /\ t + 4 <= vt \/ vt + size <= t
      /\ \A g \in fs : FieldLies(d, t, g, vt, size)
  BY ValidParts
<1>2. w \in {1, 2, 4, 8} /\ w \in Nat /\ \A g \in fs : g.vo \in Nat
  BY FieldParts, FieldTypes
<1>3. /\ o \in Nat /\ 4 <= o /\ (t + o) + w <= Len(d)
      /\ (t + o) + w <= vt \/ vt + size <= t + o
  BY <1>1 DEF FieldLies
<1>4. bytes \in Seq(Int) /\ Len(bytes) = w
  BY ByteSeq
<1>5. t + o \in Nat /\ Len(d) \in Nat
  <2>1. Len(d) \in Nat
    BY <1>1, LenProperties
  <2>2. t \in Nat /\ o \in Nat
    BY <1>1, <1>3
  <2>. HIDE DEF o
  <2>. QED
    BY ONLY <2>1, <2>2
<1>6. /\ e \in Seq(Int) /\ Len(e) = Len(d)
      /\ \A i \in 1..Len(d) :
           e[i] = IF t + o < i /\ i <= (t + o) + w THEN bytes[i - (t + o)]
                                                  ELSE d[i]
  <2>. DEFINE at == t + o
  <2>1. at \in Nat /\ at + Len(bytes) <= Len(d) /\ d \in Seq(Int)
    BY <1>1, <1>3, <1>4, <1>5
  <2>. HIDE DEF at
  <2>2. /\ Overwrite(d, at, bytes) \in Seq(Int)
        /\ Len(Overwrite(d, at, bytes)) = Len(d)
        /\ \A i \in 1..Len(d) :
             Overwrite(d, at, bytes)[i] =
               IF at < i /\ i <= at + Len(bytes) THEN bytes[i - at]
                                                 ELSE d[i]
    BY ONLY <1>4, <2>1, OverwriteBytes
  <2>3. e = Overwrite(d, at, bytes)
    BY DEF at
  <2>. HIDE DEF e
  <2>. QED
    BY ONLY <1>4, <2>2, <2>3 DEF at
<1>. HIDE DEF o, vt, size, e, w
<1>7. ASSUME NEW at \in Nat, NEW k \in {1, 2, 4, 8}, at + k <= Len(d),
             at + k <= t + o \/ (t + o) + w <= at
      PROVE  /\ ReadU(e, at, k) = ReadU(d, at, k)
             /\ ReadS(e, at, k) = ReadS(d, at, k)
  <2>1. k \in Nat
    OBVIOUS
  <2>2. \A i \in 1..k : /\ at + i \in 1..Len(d)
                        /\ ~(t + o < at + i /\ at + i <= (t + o) + w)
    BY <1>2, <1>5, <1>7, <2>1
  <2>3. \A i \in 1..k : e[at + i] = d[at + i]
    BY <1>6, <2>2
  <2>4. Agree(e, at, d, at, k)
    BY <1>1, <1>6, <1>7, <2>3 DEF Agree
  <2>. QED
    BY <2>4, SameReads
<1>8. VtableOf(e, t) = vt
  <2>1. t + 4 <= t + o /\ 4 \in {1, 2, 4, 8}
    BY <1>1, <1>3
  <2>2. ReadS(e, t, 4) = ReadS(d, t, 4)
    BY <1>1, <1>7, <2>1
  <2>. QED
    BY <2>2 DEF VtableOf, vt
<1>9. ASSUME NEW k \in Nat, k + 2 <= size
      PROVE  ReadU(e, vt + k, 2) = ReadU(d, vt + k, 2)
  <2>. DEFINE at == vt + k
  <2>1. /\ at \in Nat /\ at + 2 <= Len(d) /\ 2 \in {1, 2, 4, 8}
        /\ at + 2 <= t + o \/ (t + o) + w <= at
    BY <1>1, <1>2, <1>3, <1>5, <1>9
  <2>. HIDE DEF at
  <2>2. ReadU(e, at, 2) = ReadU(d, at, 2)
    BY <1>7, <2>1
  <2>. QED
    BY <2>2 DEF at
<1>10. ReadU(e, vt, 2) = size
  <2>. DEFINE k == 0
  <2>1. k \in Nat /\ k + 2 <= size /\ vt + k = vt
    BY <1>1
  <2>. HIDE DEF k
  <2>2. ReadU(e, vt + k, 2) = ReadU(d, vt + k, 2)
    BY <1>9, <2>1
  <2>. QED
    BY <2>1, <2>2 DEF size
<1>11. ASSUME NEW g \in fs
       PROVE  FieldLies(e, t, g, vt, size)
  <2>1. FieldLies(d, t, g, vt, size) /\ g.vo \in Nat
    BY <1>1, <1>2
  <2>2. FieldOffset(e, t, g.vo) = FieldOffset(d, t, g.vo)
    <3>1. CASE g.vo < size
      <4>1. g.vo + 2 <= size
        BY <2>1, <3>1 DEF FieldLies
      <4>2. ReadU(e, vt + g.vo, 2) = ReadU(d, vt + g.vo, 2)
        BY <1>9, <2>1, <4>1
      <4>. QED
        BY <1>8, <1>10, <3>1, <4>2 DEF FieldOffset, vt, size
    <3>2. CASE ~(g.vo < size)
      BY <1>8, <1>10, <3>2 DEF FieldOffset, vt, size
    <3>. QED
      BY <3>1, <3>2
  <2>. QED
    BY <1>6, <2>1, <2>2 DEF FieldLies
<1>12. ValidWith(e, fs, t, vt, size)
  BY <1>1, <1>6, <1>11 DEF ValidWith
<1>. QED
  BY <1>3, <1>5, <1>8, <1>10, <1>12 DEF ValidAt, o, e, w

(* The builder after SetField() of the table at off.                       *)
Changed(x, off, f, value) ==
  [x EXCEPT !.v.buf = SetField(x.v.buf, DataAt(x.v, off), f, value)]

(* What a change leaves: the data with some bytes written over, or as they *)
(* were.                                                                   *)
NewData(x, off, f, value) ==
  LET d == DataOf(x)
      t == Len(d) - off
      o == FieldOffset(d, t, f.vo)
  IN  IF o = 0 THEN d ELSE Overwrite(d, t + o, Scalar(value, f.w))

LEMMA OverwrittenBytes ==
  ASSUME NEW d \in Seq(Byte), NEW at \in Nat, NEW bytes \in Seq(Byte),
         at + Len(bytes) <= Len(d)
  PROVE  Overwrite(d, at, bytes) \in Seq(Byte)
<1>. DEFINE e == Overwrite(d, at, bytes)
            w == Len(bytes)
            n == Len(d)
<1>1. /\ d \in Seq(Int) /\ bytes \in Seq(Int) /\ n \in Nat /\ w \in Nat
      /\ \A i \in 1..n : d[i] \in Byte
      /\ \A i \in 1..w : bytes[i] \in Byte
  BY ByteSeq, LenProperties, ElementOfSeq
<1>2. /\ e \in Seq(Int) /\ Len(e) = n
      /\ \A i \in 1..n : e[i] = IF at < i /\ i <= at + w THEN bytes[i - at]
                                                        ELSE d[i]
  BY <1>1, OverwriteBytes
<1>. HIDE DEF e, w, n
<1>3. ASSUME NEW i \in 1..n
      PROVE  e[i] \in Byte
  <2>1. CASE at < i /\ i <= at + w
    <3>1. i - at \in 1..w
      BY <1>1, <2>1
    <3>. QED
      BY <1>1, <1>2, <2>1, <3>1
  <2>2. CASE ~(at < i /\ i <= at + w)
    BY <1>1, <1>2, <2>2
  <2>. QED
    BY <2>1, <2>2
<1>4. e \in [1..n -> Int]
  BY <1>2, LenProperties
<1>5. e \in [1..n -> Byte]
  BY <1>3, <1>4
<1>6. e \in Seq(Byte)
  BY <1>1, <1>5, FunctionSeq
<1>. QED
  BY <1>6 DEF e

LEMMA ChangedBuilder ==
  ASSUME NEW x \in Builders, NEW fs \in SUBSET Fields, NEW off,
         ValidTable(DataOf(x), fs, off), NEW f \in fs, NEW value \in Int
  PROVE  /\ Changed(x, off, f, value) \in Builders
         /\ DataOf(Changed(x, off, f, value)) = NewData(x, off, f, value)
         /\ PadOf(Changed(x, off, f, value)) = PadOf(x)
         /\ SameRest(x, Changed(x, off, f, value))
<1>. DEFINE d == DataOf(x)
            t == Len(d) - off
            o == FieldOffset(d, t, f.vo)
            p == x.v.cur
            bytes == Scalar(value, f.w)
<1>1. /\ x.v \in Blocks /\ x.v \in Vectors /\ d \in Seq(Int) /\ Len(d) \in Nat
      /\ Size(x) = Len(d) /\ Size(x) = x.v.size /\ off \in Int
      /\ ValidAt(d, fs, t)
  BY BuilderParts, BlockContent DEF ValidTable, Size
<1>2. IsTail(x.v.buf, d, p)
  BY <1>1, BlockParts DEF DataOf
<1>3. t \in Nat /\ VtableOf(d, t) \in Nat
  BY <1>1, ValidParts
<1>4. f.vo \in Nat /\ f.w \in Nat
  BY FieldTypes
<1>5. DataAt(x.v, off) = p + t
  <2>1. p + x.v.size = Reserved(x.v) /\ p \in Nat /\ x.v.size \in Nat
    BY <1>1, VectorParts
  <2>. QED
    BY <1>1, <2>1 DEF DataAt
<1>. HIDE DEF d, t, p, bytes, o
<1>6. FieldOffset(x.v.buf, p + t, f.vo) = o
  BY <1>2, <1>3, <1>4, ShiftedTable DEF o
<1>7. CASE o = 0
  <2>1. Changed(x, off, f, value) = [x EXCEPT !.v.buf = x.v.buf]
    BY <1>5, <1>6, <1>7 DEF Changed, SetField
  <2>2. x.v = [x.v EXCEPT !.buf = x.v.buf]
    BY <1>1 DEF Vectors
  <2>3. [x EXCEPT !.v.buf = x.v.buf] = x
    BY <2>2 DEF Builders
  <2>4. NewData(x, off, f, value) = d
    BY <1>7 DEF NewData, d, o, t
  <2>. QED
    BY <2>1, <2>3, <2>4 DEF d, SameRest
<1>8. CASE o # 0
  <2>. DEFINE at == t + o
              a == SubSeq(d, 1, at)
              c == SubSeq(d, at + 1, at + f.w)
              q == SubSeq(d, at + f.w + 1, Len(d))
              place == p + at
              w == WriteAt(x.v, place, bytes)
  <2>1. bytes \in Seq(Byte) /\ bytes \in Seq(Int) /\ Len(bytes) = f.w
    BY <1>4, ScalarBytes DEF bytes
  <2>2. at \in Nat /\ at + f.w <= Len(d)
    <3>1. /\ fs \in SUBSET Fields /\ ValidAt(d, fs, t) /\ f \in fs
          /\ FieldOffset(d, t, f.vo) # 0
      BY <1>1, <1>8 DEF o
    <3>2. /\ t + FieldOffset(d, t, f.vo) \in Nat
          /\ t + FieldOffset(d, t, f.vo) + f.w <= Len(d)
      BY ONLY <2>1, <3>1, WrittenTable
    <3>. QED
      BY <3>2 DEF o
  <2>. HIDE DEF at
  <2>3. /\ a \in Seq(Int) /\ Len(a) = at /\ c \in Seq(Int) /\ Len(c) = f.w
        /\ q \in Seq(Int) /\ d = a \o c \o q
    <3>1. /\ d \in Seq(Int) /\ at \in Nat /\ f.w \in Nat
          /\ at + f.w <= Len(d)
      BY <1>1, <1>4, <2>2
    <3>. DEFINE k == f.w
    <3>2. d \in Seq(Int) /\ at \in Nat /\ k \in Nat /\ at + k <= Len(d)
      BY <3>1
    <3>. HIDE DEF k
    <3>3. /\ SubSeq(d, 1, at) \in Seq(Int) /\ Len(SubSeq(d, 1, at)) = at
          /\ SubSeq(d, at + 1, at + k) \in Seq(Int)
          /\ Len(SubSeq(d, at + 1, at + k)) = k
          /\ SubSeq(d, at + k + 1, Len(d)) \in Seq(Int)
          /\ d = SubSeq(d, 1, at) \o SubSeq(d, at + 1, at + k)
                   \o SubSeq(d, at + k + 1, Len(d))
      BY ONLY <3>2, SplitBytes
    <3>. QED
      BY ONLY <3>3 DEF a, c, q, k
  <2>. HIDE DEF a, c, q
  <2>4. place = x.v.cur + Len(a)
    BY <2>3 DEF p
  <2>. HIDE DEF place
  <2>5. Data(x.v) = a \o c \o q
    BY <2>3 DEF d, DataOf
  <2>6. Content(w, a \o bytes \o q, ScratchBytes(x.v))
    BY ONLY <1>1, <2>1, <2>3, <2>4, <2>5, BlockWrite
  <2>7. a \o bytes \o q = NewData(x, off, f, value)
    <3>1. NewData(x, off, f, value) = Overwrite(d, at, bytes)
      BY <1>8 DEF NewData, d, o, t, at, bytes
    <3>2. Overwrite(d, at, bytes) = a \o bytes \o q
      BY <2>1 DEF Overwrite, a, q
    <3>. QED
      BY <3>1, <3>2
  <2>8. Changed(x, off, f, value) = [x EXCEPT !.v = w]
    <3>1. SetField(x.v.buf, DataAt(x.v, off), f, value)
            = Overwrite(x.v.buf, (p + t) + o, bytes)
      BY <1>5, <1>6, <1>8 DEF SetField, bytes
    <3>2. p + t \in Nat /\ o \in Int /\ p \in Nat
      <4>1. p \in Nat
        BY <1>1, VectorParts DEF p
      <4>3. o \in Int
        <5>1. FieldLies(d, t, f, VtableOf(d, t), ReadU(d, VtableOf(d, t), 2))
          BY <1>1, ValidParts
        <5>. QED
          BY <5>1 DEF FieldLies, o
      <4>. QED
        BY <1>3, <4>1, <4>3
    <3>3. (p + t) + o = place
      BY <1>3, <3>2 DEF place, at
    <3>4. w = [x.v EXCEPT !.buf = Overwrite(x.v.buf, place, bytes)]
      BY DEF WriteAt
    <3>. HIDE DEF w
    <3>. QED
      BY <3>1, <3>3, <3>4 DEF Changed
  <2>. HIDE DEF w
  <2>9. Content(w, NewData(x, off, f, value), ScratchBytes(x.v))
    BY <2>6, <2>7
  <2>. QED
    BY <2>8, <2>9, OtherBlock DEF PadOf
<1>. QED
  BY <1>7, <1>8

(* SetField() does the same to two builders with the same data, and leaves *)
(* the table it changed a table of the same fields.                        *)
THEOREM TwinChanged ==
  ASSUME NEW x, NEW y, Twins(x, y), Sound(x), DataOf(x) \in Seq(Byte),
         NEW fs \in SUBSET Fields, NEW off,
         ValidTable(DataOf(x), fs, off), NEW f \in fs, NEW value \in Int
  PROVE  /\ Twins(Changed(x, off, f, value), Changed(y, off, f, value))
         /\ Sound(Changed(x, off, f, value))
         /\ DataOf(Changed(x, off, f, value)) \in Seq(Byte)
         /\ ValidTable(DataOf(Changed(x, off, f, value)), fs, off)
         /\ Changed(x, off, f, value).finished = x.finished
<1>. DEFINE p == Changed(x, off, f, value)
            q == Changed(y, off, f, value)
            d == DataOf(x)
            t == Len(d) - off
            o == FieldOffset(d, t, f.vo)
            bytes == Scalar(value, f.w)
            e == NewData(x, off, f, value)
<1>1. /\ x \in Builders /\ y \in Builders /\ DataOf(y) = DataOf(x)
      /\ PadOf(y) = PadOf(x) /\ SameRest(x, y)
  BY TwinParts
<1>2. NewData(y, off, f, value) = e
  BY <1>1 DEF NewData
<1>3. /\ p \in Builders /\ DataOf(p) = e /\ PadOf(p) = PadOf(x)
      /\ SameRest(x, p)
  BY <1>1, ChangedBuilder
<1>4. /\ q \in Builders /\ DataOf(q) = e /\ PadOf(q) = PadOf(y)
      /\ SameRest(y, q)
  BY <1>1, <1>2, ChangedBuilder
<1>. HIDE DEF p, q
<1>5. Twins(p, q)
  BY <1>1, <1>3, <1>4 DEF Twins, SameRest
<1>6. e \in Seq(Byte) /\ Len(e) = Len(d) /\ ValidTable(e, fs, off)
  <2>1. off \in Int /\ ValidAt(d, fs, t)
    BY DEF ValidTable
  <2>. HIDE DEF d, t
  <2>2. CASE o = 0
    <3>1. e = d
      BY <2>2 DEF NewData, o, t, d
    <3>. QED
      BY <3>1 DEF d
  <2>3. CASE o # 0
    <3>1. bytes \in Seq(Byte) /\ Len(bytes) = f.w
      BY FieldTypes, ScalarBytes
    <3>. HIDE DEF bytes
    <3>. DEFINE at == t + o
    <3>2. /\ at \in Nat /\ at + f.w <= Len(d)
          /\ ValidAt(Overwrite(d, at, bytes), fs, t)
      BY <2>1, <2>3, <3>1, WrittenTable
    <3>3. e = Overwrite(d, at, bytes)
      BY <2>3 DEF NewData, o, t, d, bytes
    <3>. HIDE DEF at, e
    <3>4. d \in Seq(Byte) /\ d \in Seq(Int) /\ bytes \in Seq(Int)
      BY <3>1, ByteSeq DEF d
    <3>5. e \in Seq(Byte)
      BY <3>1, <3>2, <3>3, <3>4, OverwrittenBytes
    <3>6. Len(e) = Len(d)
      BY <3>1, <3>2, <3>3, <3>4, OverwriteBytes
    <3>7. ValidTable(e, fs, off)
      BY <2>1, <3>2, <3>3, <3>6 DEF ValidTable, t
    <3>. QED
      BY <3>5, <3>6, <3>7
  <2>. QED
    BY <2>2, <2>3
<1>7. Size(p) = Size(x)
  BY <1>1, <1>3, <1>6, BuilderParts
<1>8. Sound(p)
  BY <1>3, <1>7 DEF Sound, SameRest
<1>. QED
  BY <1>3, <1>5, <1>6, <1>8 DEF SameRest, p, q

LEMMA NoBytes == <<>> \in Seq(Byte) /\ <<>> \in Seq(Int) /\ Len(<<>>) = 0
BY EmptySeq

(* A builder without data and without anything on the scratch pad.         *)
Fresher(w, force, dedup) ==
  [v |-> w, fields |-> 0, maxvo |-> 0, nested |-> FALSE, finished |-> FALSE,
   minalign |-> 1, force |-> force, dedup |-> dedup, pool |-> {}]

LEMMA FreshBuilder ==
  ASSUME NEW w, NEW u, Content(w, <<>>, <<>>), Content(u, <<>>, <<>>),
         NEW force \in BOOLEAN, NEW dedup \in BOOLEAN
  PROVE  /\ Twins(Fresher(w, force, dedup), Fresher(u, force, dedup))
         /\ Sound(Fresher(w, force, dedup))
         /\ DataOf(Fresher(w, force, dedup)) = <<>>
         /\ ~Fresher(w, force, dedup).finished
<1>. DEFINE x == Fresher(w, force, dedup)
            y == Fresher(u, force, dedup)
<1>1. x \in Builders /\ y \in Builders
  BY DEF Content, Builders, Fresher
<1>2. /\ DataOf(x) = <<>> /\ DataOf(y) = <<>>
      /\ PadOf(x) = <<>> /\ PadOf(y) = <<>>
  BY DEF Content, DataOf, PadOf, Fresher
<1>3. SameRest(x, y)
  BY DEF SameRest, Fresher
<1>4. Twins(x, y)
  BY <1>1, <1>2, <1>3 DEF Twins
<1>5. ~x.nested /\ ~x.finished /\ x.fields = 0 /\ x.maxvo = 0 /\ x.pool = {}
  BY DEF Fresher
<1>. HIDE DEF x
<1>6. Sound(x)
  <2>1. Len(PadOf(x)) = 4 * 0 /\ 0 \in Nat /\ \A i \in 1..0 : FALSE
    BY <1>2, NoBytes
  <2>. QED
    BY <1>1, <1>5, <2>1 DEF Sound
<1>. QED
  BY <1>2, <1>4, <1>5, <1>6 DEF x

LEMMA TwinNumber == TwinSize \in Nat
BY DEF TwinSize

WithOptions(x, force, dedup) ==
  [x EXCEPT !.force = force, !.dedup = dedup]

LEMMA FresherOptions ==
  ASSUME NEW w \in Blocks, NEW f0 \in BOOLEAN, NEW d0 \in BOOLEAN,
         NEW f1 \in BOOLEAN, NEW d1 \in BOOLEAN
  PROVE  WithOptions(Fresher(w, f0, d0), f1, d1) = Fresher(w, f1, d1)
<1>. DEFINE x == Fresher(w, f0, d0)
            y == Fresher(w, f1, d1)
            z == [x EXCEPT !.force = f1, !.dedup = d1]
<1>1. /\ x \in Builders /\ x.v = w /\ x.fields = 0 /\ x.maxvo = 0
      /\ x.nested = FALSE /\ x.finished = FALSE /\ x.minalign = 1
      /\ x.pool = {}
  BY DEF Fresher, Builders
<1>2. /\ y \in Builders /\ y.v = w /\ y.fields = 0 /\ y.maxvo = 0
      /\ y.nested = FALSE /\ y.finished = FALSE /\ y.minalign = 1
      /\ y.pool = {} /\ y.force = f1 /\ y.dedup = d1
  BY DEF Fresher, Builders
<1>. HIDE DEF x, y
<1>3. /\ z \in Builders /\ z.v = w /\ z.fields = 0 /\ z.maxvo = 0
      /\ z.nested = FALSE /\ z.finished = FALSE /\ z.minalign = 1
      /\ z.pool = {} /\ z.force = f1 /\ z.dedup = d1
  BY <1>1 DEF Builders
<1>. HIDE DEF z
<1>4. z = y
  BY <1>2, <1>3 DEF Builders
<1>. QED
  BY <1>4 DEF x, y, z, WithOptions

LEMMA NewFresher ==
  ASSUME NEW n \in Nat, NEW force \in BOOLEAN, NEW dedup \in BOOLEAN
  PROVE  /\ Content(NewVector(n, BufferMinAlign), <<>>, <<>>)
         /\ WithOptions(NewBuilder(n), force, dedup)
              = Fresher(NewVector(n, BufferMinAlign), force, dedup)
<1>. DEFINE w == NewVector(n, BufferMinAlign)
            f0 == FALSE
            d0 == TRUE
            x == NewBuilder(n)
<1>1. Content(w, <<>>, <<>>)
  BY BlockNew
<1>2. x = Fresher(w, f0, d0)
  BY DEF NewBuilder, Fresher
<1>3. w \in Blocks /\ f0 \in BOOLEAN /\ d0 \in BOOLEAN
  BY <1>1 DEF Content
<1>. HIDE DEF w, f0, d0, x
<1>4. WithOptions(Fresher(w, f0, d0), force, dedup)
        = Fresher(w, force, dedup)
  BY <1>3, FresherOptions
<1>. QED
  BY <1>1, <1>2, <1>4 DEF w, x

LEMMA ClearedVector ==
  ASSUME NEW w \in Vectors, NEW k \in Int
  PROVE  ClearVector(ScratchPop(w, k)) = ClearVector(w)
<1>1. w \in [buf : Seq(Int), cur : Int, scratch : Int, size : Int,
             initial : Nat, align : Nat \ {0}]
  BY DEF Vectors
<1>. QED
  BY <1>1 DEF ClearVector, ScratchPop, Reserved

LEMMA ClearedBuilder ==
  ASSUME NEW x \in Builders
  PROVE  /\ Clear(x) = Fresher(ClearVector(x.v), x.force, x.dedup)
         /\ Clear(x).force = x.force /\ Clear(x).dedup = x.dedup
         /\ NewTwin(Clear(x))
              = Fresher(NewVector(TwinSize, BufferMinAlign), x.force, x.dedup)
<1>1. Clear(x) = Fresher(ClearVector(x.v), x.force, x.dedup)
  <2>. DEFINE k == x.fields * FieldLocSize
              w == ScratchPop(x.v, k)
  <2>1. x.v \in Vectors
    BY DEF Builders, Blocks
  <2>2. ClearVector(w) = ClearVector(x.v)
    <3>1. k \in Int
      BY BuilderParts DEF FieldLocSize
    <3>. HIDE DEF k
    <3>. DEFINE z == x.v
    <3>2. z \in Vectors
      BY <2>1
    <3>. HIDE DEF z
    <3>3. ClearVector(ScratchPop(z, k)) = ClearVector(z)
      BY <3>1, <3>2, ClearedVector
    <3>. QED
      BY <3>3 DEF z
  <2>. DEFINE r == ClearVector(x.v)
              y == Fresher(r, x.force, x.dedup)
              c == ClearOffsets(x)
              Loose == [buf : Seq(Int), cur : Int, scratch : Int, size : Int,
                        initial : Nat, align : Nat \ {0}]
  <2>3. r \in Blocks
    BY BuilderParts, BlockEmpty DEF Content
  <2>4. w \in Loose
    <3>1. k \in Int
      BY BuilderParts DEF FieldLocSize
    <3>. HIDE DEF k
    <3>. QED
      BY <2>1, <3>1 DEF ScratchPop, Vectors
  <2>5. c = [x EXCEPT !.v = w, !.fields = 0, !.maxvo = 0]
    BY DEF ClearOffsets
  <2>. HIDE DEF w, k, r, c, Loose
  <2>6. /\ c \in [v : Loose, fields : Nat, maxvo : Nat, nested : BOOLEAN,
                  finished : BOOLEAN, minalign : Nat \ {0}, force : BOOLEAN,
                  dedup : BOOLEAN, pool : SUBSET Int]
        /\ c.v = w /\ c.fields = 0 /\ c.maxvo = 0
        /\ c.force = x.force /\ c.dedup = x.dedup
    BY <2>4, <2>5 DEF Builders
  <2>7. Clear(x) = [c EXCEPT !.v = r, !.nested = FALSE, !.finished = FALSE,
                             !.minalign = 1, !.pool = {}]
    BY <2>2, <2>6 DEF Clear, c, r
  <2>. DEFINE e == [c EXCEPT !.v = r, !.nested = FALSE, !.finished = FALSE,
                             !.minalign = 1, !.pool = {}]
  <2>11. [c EXCEPT !.v = r] \in Builders
    BY <2>3, <2>6 DEF Builders
  <2>12. e \in Builders
    <3>. DEFINE g == [c EXCEPT !.v = r]
                no == FALSE
                one == 1
                none == {}
    <3>1. e = [g EXCEPT !.nested = no, !.finished = no, !.minalign = one,
                        !.pool = none]
      BY <2>6
    <3>. HIDE DEF g, e
    <3>2. /\ g \in Builders /\ no \in BOOLEAN /\ one \in Nat \ {0}
          /\ none \in SUBSET Int
      BY <2>11 DEF g
    <3>. HIDE DEF no, one, none
    <3>. QED
      BY <3>1, <3>2 DEF Builders
  <2>13. /\ e.v = r /\ e.fields = c.fields /\ e.maxvo = c.maxvo
         /\ e.minalign = 1 /\ e.pool = {}
    BY <2>6
  <2>14. e.nested = FALSE /\ e.finished = FALSE
    BY <2>6
  <2>15. e.force = c.force /\ e.dedup = c.dedup
    BY <2>6
  <2>8a. /\ e \in Builders /\ e.v = r /\ e.fields = 0
        /\ e.maxvo = 0 /\ e.nested = FALSE
        /\ e.finished = FALSE /\ e.minalign = 1
        /\ e.force = x.force /\ e.dedup = x.dedup
        /\ e.pool = {}
    BY <2>6, <2>12, <2>13, <2>14, <2>15
  <2>. HIDE DEF e
  <2>8. /\ Clear(x) \in Builders /\ Clear(x).v = r /\ Clear(x).fields = 0
        /\ Clear(x).maxvo = 0 /\ Clear(x).nested = FALSE
        /\ Clear(x).finished = FALSE /\ Clear(x).minalign = 1
        /\ Clear(x).force = x.force /\ Clear(x).dedup = x.dedup
        /\ Clear(x).pool = {}
    BY ONLY <2>7, <2>8a DEF e
  <2>9. /\ y \in Builders /\ y.v = r /\ y.fields = 0 /\ y.maxvo = 0
        /\ y.nested = FALSE /\ y.finished = FALSE /\ y.minalign = 1
        /\ y.force = x.force /\ y.dedup = x.dedup /\ y.pool = {}
    BY <2>3 DEF Fresher, Builders
  <2>. HIDE DEF y
  <2>10. Clear(x) = y
    BY <2>8, <2>9 DEF Builders
  <2>. QED
    BY <2>10 DEF y, r
<1>2. Clear(x).force = x.force /\ Clear(x).dedup = x.dedup
  BY <1>1 DEF Fresher
<1>3. NewTwin(Clear(x))
        = Fresher(NewVector(TwinSize, BufferMinAlign), x.force, x.dedup)
  <2>. DEFINE r == Clear(x)
  <2>1. /\ r.force = x.force /\ r.dedup = x.dedup
        /\ x.force \in BOOLEAN /\ x.dedup \in BOOLEAN
    BY <1>2, BuilderParts
  <2>. HIDE DEF r
  <2>2. NewTwin(r)
          = Fresher(NewVector(TwinSize, BufferMinAlign), r.force, r.dedup)
    BY <2>1, TwinNumber, NewFresher DEF NewTwin, WithOptions
  <2>. QED
    BY <2>1, <2>2 DEF r
<1>. QED
  BY <1>1, <1>2, <1>3

(* Clear() leaves a builder that cannot be told from a new one, whatever   *)
(* was built before and however its block had grown.                       *)
THEOREM CleanStart ==
  ASSUME NEW x \in Builders
  PROVE  /\ Twins(Clear(x), NewTwin(Clear(x))) /\ Sound(Clear(x))
         /\ DataOf(Clear(x)) = <<>> /\ ~Clear(x).finished
<1>. DEFINE w == ClearVector(x.v)
            u == NewVector(TwinSize, BufferMinAlign)
<1>1. Content(w, <<>>, <<>>)
  BY BlockEmpty, BuilderParts
<1>2. Content(u, <<>>, <<>>)
  BY TwinNumber, BlockNew
<1>3. x.force \in BOOLEAN /\ x.dedup \in BOOLEAN
  BY BuilderParts
<1>4. /\ Clear(x) = Fresher(w, x.force, x.dedup)
      /\ NewTwin(Clear(x)) = Fresher(u, x.force, x.dedup)
  BY ClearedBuilder
<1>. HIDE DEF w, u
<1>. QED
  BY <1>1, <1>2, <1>3, <1>4, FreshBuilder

LEMMA ReleasedStart ==
  ASSUME NEW x \in Builders
  PROVE  /\ Twins(Release(x), NewTwin(Release(x))) /\ Sound(Release(x))
         /\ DataOf(Release(x)) = <<>> /\ ~Release(x).finished
<1>. DEFINE w == LoseBlock(x.v)
            y == [x EXCEPT !.v = w]
<1>1. Content(w, <<>>, <<>>)
  BY BlockEmpty, BuilderParts
<1>. HIDE DEF w
<1>2. y \in Builders
  BY <1>1, OtherBlock
<1>3. Release(x) = Clear(y)
  BY DEF Release, w
<1>. HIDE DEF y
<1>. QED
  BY <1>2, <1>3, CleanStart

(* The table a client gives up.                                            *)
Abandoned(x) == AddElement(StartTable(x), 6, 1, 4, 0)

LEMMA AbandonedStart ==
  ASSUME NEW x \in Builders
  PROVE  Abandoned(x) \in Builders
<1>. DEFINE p == StartTable(x)
            q == PushElement(p, Scalar(1, 4))
<1>1. p \in Builders
  BY OwnTwin, TwinNested, TwinParts DEF StartTable
<1>. HIDE DEF p
<1>2. q \in Builders
  <2>1. 1 \in Int /\ 4 \in Nat \ {0}
    OBVIOUS
  <2>. QED
    BY <1>1, <2>1, OwnTwin, TwinPushScalar, TwinParts
<1>. HIDE DEF q
<1>3. TrackField(q, 6, Size(q)) \in Builders
  <2>1. 6 \in Nat /\ 6 <= 30 /\ Size(q) \in Nat
    BY <1>2, BuilderParts
  <2>. QED
    BY <1>2, <2>1, FieldTracked
<1>. QED
  BY <1>1, <1>3 DEF Abandoned, AddElement, p, q

(* The builder and its twin at the beginning.                              *)
LEMMA FirstBuilder ==
  ASSUME NEW initial \in Nat, NEW force \in BOOLEAN, NEW dedup \in BOOLEAN
  PROVE  /\ Twins(WithOptions(NewBuilder(initial), force, dedup),
                  WithOptions(NewBuilder(TwinSize), force, dedup))
         /\ Sound(WithOptions(NewBuilder(initial), force, dedup))
         /\ DataOf(WithOptions(NewBuilder(initial), force, dedup)) = <<>>
         /\ ~WithOptions(NewBuilder(initial), force, dedup).finished
<1>. DEFINE w == NewVector(initial, BufferMinAlign)
            u == NewVector(TwinSize, BufferMinAlign)
<1>1. /\ Content(w, <<>>, <<>>)
      /\ WithOptions(NewBuilder(initial), force, dedup)
           = Fresher(w, force, dedup)
  BY NewFresher
<1>2. /\ Content(u, <<>>, <<>>)
      /\ WithOptions(NewBuilder(TwinSize), force, dedup)
           = Fresher(u, force, dedup)
  BY TwinNumber, NewFresher
<1>. HIDE DEF w, u
<1>. QED
  BY <1>1, <1>2, FreshBuilder

(* The scratch pad is emptied.                                             *)
LEMMA TwinClearScratch ==
  ASSUME NEW x, NEW y, Twins(x, y)
  PROVE  /\ Twins([x EXCEPT !.v = ClearScratch(@)],
                  [y EXCEPT !.v = ClearScratch(@)])
         /\ DataOf([x EXCEPT !.v = ClearScratch(@)]) = DataOf(x)
         /\ PadOf([x EXCEPT !.v = ClearScratch(@)]) = <<>>
         /\ SameRest(x, [x EXCEPT !.v = ClearScratch(@)])
<1>1. ASSUME NEW z \in Builders
      PROVE  /\ [z EXCEPT !.v = ClearScratch(@)] \in Builders
             /\ DataOf([z EXCEPT !.v = ClearScratch(@)]) = DataOf(z)
             /\ PadOf([z EXCEPT !.v = ClearScratch(@)]) = <<>>
             /\ SameRest(z, [z EXCEPT !.v = ClearScratch(@)])
  <2>. DEFINE pad == ScratchBytes(z.v)
              data == Data(z.v)
              w == ScratchPop(z.v, Len(pad))
  <2>1. /\ z.v \in Blocks /\ z.v \in Vectors /\ z.v.scratch = Len(pad)
        /\ pad \in Seq(Int) /\ data \in Seq(Int) /\ Len(pad) \in Nat
    BY BuilderParts, BlockContent DEF PadOf, DataOf
  <2>2. pad = <<>> \o pad
    BY <2>1, ConcatEmptySeq
  <2>3. <<>> \in Seq(Int)
    BY NoBytes
  <2>. HIDE DEF pad, data
  <2>4. ScratchBytes(z.v) = <<>> \o pad
    BY <2>2 DEF pad
  <2>5. Content(w, Data(z.v), <<>>)
    BY ONLY <2>1, <2>3, <2>4, BlockScratchPop
  <2>6. ClearScratch(z.v) = w
    <3>1. z.v.scratch - Len(pad) = 0
      BY <2>1
    <3>. QED
      BY <3>1 DEF ClearScratch, ScratchPop
  <2>. HIDE DEF w
  <2>7. [z EXCEPT !.v = ClearScratch(@)] = [z EXCEPT !.v = w]
    BY <2>6
  <2>. DEFINE r == [z EXCEPT !.v = w]
  <2>8. DataOf(z) = Data(z.v)
    BY DEF DataOf
  <2>. HIDE DEF r
  <2>9. r \in Builders /\ DataOf(r) = Data(z.v) /\ PadOf(r) = <<>>
        /\ SameRest(z, r)
    BY <2>5, OtherBlock DEF r
  <2>. QED
    BY <2>7, <2>8, <2>9 DEF r
<1>. DEFINE p == [x EXCEPT !.v = ClearScratch(@)]
            q == [y EXCEPT !.v = ClearScratch(@)]
<1>2. /\ x \in Builders /\ y \in Builders
      /\ DataOf(x) = DataOf(y) /\ SameRest(x, y)
  BY TwinParts
<1>3. /\ p \in Builders /\ DataOf(p) = DataOf(x) /\ PadOf(p) = <<>>
      /\ SameRest(x, p)
  BY <1>1, <1>2
<1>4. /\ q \in Builders /\ DataOf(q) = DataOf(y) /\ PadOf(q) = <<>>
      /\ SameRest(y, q)
  BY <1>1, <1>2
<1>. HIDE DEF p, q
<1>5. Twins(p, q)
  BY <1>2, <1>3, <1>4 DEF Twins, SameRest
<1>. QED
  BY <1>3, <1>5 DEF p, q

(* finished is set.                                                        *)
LEMMA TwinFinished ==
  ASSUME NEW x, NEW y, Twins(x, y)
  PROVE  /\ Twins([x EXCEPT !.finished = TRUE], [y EXCEPT !.finished = TRUE])
         /\ DataOf([x EXCEPT !.finished = TRUE]) = DataOf(x)
         /\ PadOf([x EXCEPT !.finished = TRUE]) = PadOf(x)
         /\ Size([x EXCEPT !.finished = TRUE]) = Size(x)
         /\ [x EXCEPT !.finished = TRUE].finished
         /\ [x EXCEPT !.finished = TRUE].pool = x.pool
         /\ [x EXCEPT !.finished = TRUE].nested = x.nested
         /\ [x EXCEPT !.finished = TRUE].fields = x.fields
         /\ [x EXCEPT !.finished = TRUE].maxvo = x.maxvo
<1>1. x \in Builders /\ y \in Builders
  BY TwinParts
<1>. QED
  BY <1>1 DEF Twins, Builders, DataOf, PadOf, Size, SameRest

(* What Finish() pushes in front of a builder whose scratch pad is empty.  *)
Rooted(z, prefix, root, id) ==
  PushOffset(PushBytes(PreAlign(z, prefix + 4 + Len(id), z.minalign), id), root)

Sized(z, p) == IF p THEN PushElement(z, Scalar(Size(z), 4)) ELSE z

LEMMA FinishUnfolded ==
  ASSUME NEW x, NEW root, NEW id, NEW p
  PROVE  Finish(x, root, id, p)
           = [Sized(Rooted(TrackMinAlign([x EXCEPT !.v = ClearScratch(@)],
                                         IF p THEN 4 ELSE 0),
                           IF p THEN 4 ELSE 0, root, id), p)
                EXCEPT !.finished = TRUE]
BY DEF Finish, Sized, Rooted

LEMMA TwinRooted ==
  ASSUME NEW x, NEW y, Twins(x, y), NEW prefix \in Nat, NEW root \in Int,
         NEW id \in Seq(Byte)
  PROVE  /\ Twins(Rooted(x, prefix, root, id), Rooted(y, prefix, root, id))
         /\ Grows(x, Rooted(x, prefix, root, id))
         /\ Rooted(x, prefix, root, id).nested = x.nested
<1>. DEFINE n == prefix + 4 + Len(id)
            k == x.minalign
            p == PreAlign(x, n, k)
            q == PreAlign(y, n, k)
            r == PushBytes(p, id)
            s == PushBytes(q, id)
<1>1. /\ x \in Builders /\ y \in Builders /\ y.minalign = k
      /\ k \in Nat \ {0}
  BY TwinParts, BuilderParts DEF SameRest
<1>2. n \in Nat /\ id \in Seq(Int)
  <2>1. Len(id) \in Nat
    BY LenProperties
  <2>. QED
    BY <2>1, ByteSeq
<1>. HIDE DEF n, k
<1>3. Twins(p, q) /\ Grows(x, p) /\ p.nested = x.nested
  BY <1>1, <1>2, TwinPreAlign
<1>. HIDE DEF p, q
<1>4. /\ Twins(r, s) /\ Grows(p, r)
  BY <1>2, <1>3, TwinPushBytes
<1>5. r.nested = p.nested
  BY <1>2, <1>3, TwinParts, PushBytesAdds DEF SameRest
<1>. HIDE DEF r, s
<1>6. /\ Twins(PushOffset(r, root), PushOffset(s, root))
      /\ Grows(r, PushOffset(r, root))
      /\ PushOffset(r, root).nested = r.nested
  BY <1>4, TwinPushOffset
<1>7. /\ Rooted(x, prefix, root, id) = PushOffset(r, root)
      /\ Rooted(y, prefix, root, id) = PushOffset(s, root)
  BY <1>1 DEF Rooted, r, s, p, q, n, k
<1>8. Grows(x, PushOffset(r, root))
  BY <1>3, <1>4, <1>6, GrowsMore
<1>. QED
  BY <1>3, <1>5, <1>6, <1>7, <1>8

LEMMA TwinSized ==
  ASSUME NEW x, NEW y, Twins(x, y), NEW p \in BOOLEAN
  PROVE  /\ Twins(Sized(x, p), Sized(y, p)) /\ Grows(x, Sized(x, p))
         /\ Sized(x, p).nested = x.nested
<1>1. x \in Builders /\ Size(x) = Size(y) /\ Size(x) \in Int
  BY TwinParts, BuilderParts
<1>2. CASE p
  <2>1. 4 \in Nat \ {0}
    OBVIOUS
  <2>. DEFINE k == Size(x)
  <2>2. k \in Int
    BY <1>1
  <2>3. Sized(x, p) = PushElement(x, Scalar(k, 4))
    BY <1>2 DEF Sized
  <2>4. Sized(y, p) = PushElement(y, Scalar(k, 4))
    BY <1>1, <1>2 DEF Sized
  <2>. HIDE DEF k
  <2>. QED
    BY <2>1, <2>2, <2>3, <2>4, TwinPushScalar
<1>3. CASE ~p
  BY <1>1, <1>3, GrowsNot DEF Sized
<1>. QED
  BY <1>2, <1>3

(* Finish() does the same to two builders with the same data: prefix,      *)
(* identifier and padding depend on the size of what was built only.       *)
THEOREM TwinFinish ==
  ASSUME NEW x, NEW y, Twins(x, y), Sound(x), NEW root \in Int,
         NEW id \in Seq(Byte), NEW p \in BOOLEAN
  PROVE  /\ Twins(Finish(x, root, id, p), Finish(y, root, id, p))
         /\ Sound(Finish(x, root, id, p)) /\ Adds(x, Finish(x, root, id, p))
         /\ Finish(x, root, id, p).finished
<1>. DEFINE prefix == IF p THEN 4 ELSE 0
            c == [x EXCEPT !.v = ClearScratch(@)]
            e == [y EXCEPT !.v = ClearScratch(@)]
            c1 == TrackMinAlign(c, prefix)
            e1 == TrackMinAlign(e, prefix)
            c2 == Rooted(c1, prefix, root, id)
            e2 == Rooted(e1, prefix, root, id)
            c3 == Sized(c2, p)
            e3 == Sized(e2, p)
            m == [c3 EXCEPT !.finished = TRUE]
            n == [e3 EXCEPT !.finished = TRUE]
<1>1. prefix \in Nat
  OBVIOUS
<1>2. Finish(x, root, id, p) = m /\ Finish(y, root, id, p) = n
  BY FinishUnfolded
<1>3. /\ x \in Builders /\ ~x.nested /\ x.fields = 0 /\ x.maxvo = 0
      /\ \A o \in x.pool : o <= Size(x)
  BY DEF Sound
<1>. HIDE DEF prefix
<1>4. /\ Twins(c, e) /\ DataOf(c) = DataOf(x) /\ PadOf(c) = <<>>
      /\ SameRest(x, c)
  BY TwinClearScratch
<1>. HIDE DEF c, e
<1>5. Twins(c1, e1) /\ Grows(c, c1) /\ c1.nested = c.nested
  BY <1>1, <1>4, TwinTrackMinAlign
<1>. HIDE DEF c1, e1
<1>6. Twins(c2, e2) /\ Grows(c1, c2) /\ c2.nested = c1.nested
  BY <1>1, <1>5, TwinRooted
<1>. HIDE DEF c2, e2
<1>7. Twins(c3, e3) /\ Grows(c2, c3) /\ c3.nested = c2.nested
  BY <1>6, TwinSized
<1>. HIDE DEF c3, e3
<1>8. /\ Twins(m, n) /\ DataOf(m) = DataOf(c3) /\ PadOf(m) = PadOf(c3)
      /\ Size(m) = Size(c3) /\ m.finished /\ m.pool = c3.pool
      /\ m.nested = c3.nested /\ m.fields = c3.fields /\ m.maxvo = c3.maxvo
  BY <1>7, TwinFinished
<1>. HIDE DEF m, n
<1>9. Grows(c, c3)
  BY <1>5, <1>6, <1>7, GrowsMore
<1>10. Remembers(c, c3) /\ Adds(c, c3) /\ c3 \in Builders /\ c \in Builders
  BY <1>9 DEF Grows
<1>11. Adds(x, m)
  BY <1>4, <1>8, <1>10 DEF Adds
<1>12. m \in Builders /\ Size(x) <= Size(m)
  BY <1>3, <1>8, <1>11, TwinParts, AddsSize
<1>13. ~m.nested /\ m.fields = 0 /\ m.maxvo = 0 /\ m.pool = x.pool
  BY <1>3, <1>4, <1>5, <1>6, <1>7, <1>8, <1>10 DEF Remembers, SameRest
<1>14. PadOf(m) = <<>>
  BY <1>4, <1>8, <1>10 DEF Remembers
<1>15. Sound(m)
  <2>1. Len(PadOf(m)) = 4 * 0 /\ 0 \in Nat /\ \A i \in 1..0 : FALSE
    BY <1>14, NoBytes
  <2>2. \A o \in m.pool : o <= Size(m)
    <3>1. /\ x.pool \in SUBSET Int /\ Size(x) \in Int /\ Size(m) \in Int
      BY <1>3, <1>12, BuilderParts
    <3>. QED
      BY <1>3, <1>12, <1>13, <3>1
  <2>. QED
    BY <1>12, <1>13, <2>1, <2>2 DEF Sound
<1>. QED
  BY <1>2, <1>8, <1>11, <1>15

(* The calls a client makes, and the objects it gets.                      *)
Names == DOMAIN Tables
Ops == {"string", "shared", "bytes", "nested", "uninitialized", "numbers",
        "strings", "struct", "structs", "table", "tables", "have"}
ObjectKinds == {"string", "shared", "bytes", "nested", "numbers", "strings",
                "struct", "table", "sorted"}

Marks == Names \cup {""}
Arguments == Int \cup Seq(Byte) \cup Seq(Seq(Byte))

Fitting(c) ==
  /\ c.op \in {"string", "shared", "bytes", "nested", "uninitialized"}
        => c.arg \in Seq(Byte)
  /\ c.op = "numbers" => c.arg \in Nat
  /\ c.op = "strings" => c.arg \in Seq(Seq(Byte))
  /\ c.op \in {"struct", "structs", "have"} => c.arg \in Int
  /\ c.op = "table" => c.of \in Names /\ c.arg = Len(Tables[c.of])
  /\ c.op = "tables" => c.of \in Targets /\ c.arg \in Nat

Calls == {c \in [op : Ops, of : Marks, arg : Arguments] : Fitting(c)}

Offsets == [of : Marks, off : Int]

(* The table at off of the type T can be read.                             *)
Readable(x, T, off) == ValidTable(DataOf(x), FieldsOf(Tables[T]), off)
Kept(x, of, off) == of # "" => Readable(x, of, off)

TwinsInv ==
  /\ Twins(b, twin) /\ Sound(b) /\ DataOf(b) \in Seq(Byte)
  /\ topic \in Topics /\ calls \in Nat /\ calls <= MaxCalls

(* What is made, and what is left to do.                                   *)
Ends(T) == todo[Len(todo)].op = "table" /\ todo[Len(todo)].of = T

MakingInv ==
  /\ todo \in Seq(Calls) /\ waits \in Seq(Offsets)
  /\ todo # <<>> =>
       /\ ~b.finished /\ Len(made) < MaxObjects[topic]
       /\ making.kind \in ObjectKinds /\ making.of \in Marks
       /\ making.kind = "table" => Ends(topic)
       /\ \A i \in 1..Len(waits) : Kept(b, waits[i].of, waits[i].off)

Objects(V) == [kind : ObjectKinds, of : Marks, off : Int, val : V]

Known == \E V : made \in Seq(Objects(V))

TablesReadable ==
  \A i \in 1..Len(made) : IsTable(made[i]) => Readable(b, topic, made[i].off)

RootReadable == RootIndex # 0 /\ Readable(b, topic, RootObject.off)

MadeInv ==
  /\ Known /\ Len(made) <= MaxObjects[topic]
  /\ ~b.finished => TablesReadable
  /\ b.finished => RootReadable

SessionInv == TwinsInv /\ MakingInv /\ MadeInv

LEMMA OneElement ==
  ASSUME NEW S, NEW e \in S
  PROVE  <<e>> \in Seq(S)
OBVIOUS

LEMMA IntegerArgument ==
  ASSUME NEW n \in Int
  PROVE  n \in Arguments
BY DEF Arguments

LEMMA TargetNames == Targets \in SUBSET Names
BY AllTables DEF Names

(* One call.                                                               *)
LEMMA IsCall ==
  ASSUME NEW op \in Ops, NEW of \in Marks, NEW arg \in Arguments,
         NEW c, c = [op |-> op, of |-> of, arg |-> arg], Fitting(c)
  PROVE  c \in Calls /\ Step(op, of, arg) = <<c>> /\ <<c>> \in Seq(Calls)
<1>1. c \in Calls
  BY DEF Calls
<1>2. Step(op, of, arg) = <<c>>
  BY DEF Step
<1>3. <<c>> \in Seq(Calls)
  BY ONLY <1>1, OneElement
<1>. QED
  BY <1>1, <1>2, <1>3

LEMMA HaveCall ==
  ASSUME NEW i \in Int
  PROVE  Step("have", "", i) \in Seq(Calls)
<1>. DEFINE c == [op |-> "have", of |-> "", arg |-> i]
<1>1. /\ "have" \in Ops /\ "" \in Marks /\ i \in Arguments
  BY DEF Ops, Arguments, Marks
<1>2. c.op = "have" /\ c.arg = i
  OBVIOUS
<1>. HIDE DEF c
<1>3. Fitting(c)
  BY <1>2 DEF Fitting
<1>. QED
  BY <1>1, <1>3, IsCall DEF c

LEMMA BytesCall ==
  ASSUME NEW op \in {"string", "shared", "bytes", "nested", "uninitialized"},
         NEW str \in Seq(Byte)
  PROVE  Step(op, "", str) \in Seq(Calls)
<1>. DEFINE c == [op |-> op, of |-> "", arg |-> str]
<1>1. /\ op \in Ops /\ "" \in Marks /\ str \in Arguments
  BY DEF Ops, Arguments, Marks
<1>2. c.op = op /\ c.arg = str
  OBVIOUS
<1>. HIDE DEF c
<1>3. Fitting(c)
  BY <1>2 DEF Fitting
<1>. QED
  BY <1>1, <1>3, IsCall DEF c

LEMMA StringsCall ==
  ASSUME NEW strs \in Seq(Seq(Byte))
  PROVE  Step("strings", "", strs) \in Seq(Calls)
<1>. DEFINE c == [op |-> "strings", of |-> "", arg |-> strs]
<1>1. /\ "strings" \in Ops /\ "" \in Marks /\ strs \in Arguments
  BY DEF Ops, Arguments, Marks
<1>2. c.op = "strings" /\ c.arg = strs
  OBVIOUS
<1>. HIDE DEF c
<1>3. Fitting(c)
  BY <1>2 DEF Fitting
<1>. QED
  BY <1>1, <1>3, IsCall DEF c

LEMMA NumberCall ==
  ASSUME NEW op \in {"numbers", "struct", "structs"}, NEW n \in Nat
  PROVE  Step(op, "", n) \in Seq(Calls)
<1>. DEFINE c == [op |-> op, of |-> "", arg |-> n]
<1>1. /\ op \in Ops /\ "" \in Marks /\ n \in Arguments
  BY DEF Ops, Arguments, Marks
<1>2. c.op = op /\ c.arg = n
  OBVIOUS
<1>. HIDE DEF c
<1>3. Fitting(c)
  BY <1>2 DEF Fitting
<1>. QED
  BY <1>1, <1>3, IsCall DEF c

LEMMA TablesCall ==
  ASSUME NEW T \in Targets, NEW n \in Nat
  PROVE  Step("tables", T, n) \in Seq(Calls)
<1>. DEFINE c == [op |-> "tables", of |-> T, arg |-> n]
<1>1. /\ "tables" \in Ops /\ T \in Marks /\ n \in Arguments
  <2>1. "tables" \in Ops
    BY DEF Ops
  <2>2. T \in Marks
    BY TargetNames DEF Marks
  <2>3. n \in Int
    OBVIOUS
  <2>4. n \in Arguments
    BY ONLY <2>3, IntegerArgument
  <2>. QED
    BY <2>1, <2>2, <2>4
<1>2. c.op = "tables" /\ c.arg = n /\ c.of = T
  OBVIOUS
<1>. HIDE DEF c
<1>3. Fitting(c)
  BY <1>2 DEF Fitting
<1>. QED
  BY <1>1, <1>3, IsCall DEF c

LEMMA TableCall ==
  ASSUME NEW T \in Names
  PROVE  LET c == [op |-> "table", of |-> T, arg |-> Len(Tables[T])]
         IN  c \in Calls /\ Step("table", T, Len(Tables[T])) = <<c>>
<1>. DEFINE n == Len(Tables[T])
            c == [op |-> "table", of |-> T, arg |-> n]
<1>1. n \in Nat
  BY AllTables, LenProperties DEF Regular, Names
<1>. HIDE DEF n
<1>2a. /\ c.op = "table" /\ c.arg = n /\ c.of = T
  OBVIOUS
<1>. HIDE DEF c
<1>2. /\ c.op = "table" /\ c.arg = Len(Tables[T]) /\ c.of = T
  BY ONLY <1>2a DEF n
<1>3. /\ "table" \in Ops /\ T \in Marks /\ n \in Arguments
  <2>1. "table" \in Ops
    BY DEF Ops
  <2>2. n \in Int
    BY <1>1
  <2>3. n \in Arguments
    BY ONLY <2>2, IntegerArgument
  <2>4. T \in Marks
    BY DEF Marks
  <2>. QED
    BY ONLY <2>1, <2>3, <2>4
<1>4. Fitting(c)
  BY <1>2 DEF Fitting
<1>5. c \in Calls /\ Step("table", T, n) = <<c>>
  BY <1>3, <1>4, IsCall DEF c
<1>. QED
  BY <1>5 DEF c, n

(* What a client passes.                                                   *)
LEMMA KeyBytes ==
  ASSUME NEW k \in Keys
  PROVE  Key(k) \in Seq(Byte) /\ <<k, 0, 255>> \in Seq(Byte)
<1>1. 96 + k \in Byte /\ k \in Byte /\ 0 \in Byte /\ 255 \in Byte
  BY DEF Keys, Byte
<1>2. <<96 + k>> \in Seq(Byte)
  BY <1>1
<1>3. <<k, 0, 255>> \in Seq(Byte)
  BY <1>1
<1>. QED
  BY <1>2, <1>3 DEF Key

LEMMA TwoStrings == <<Key(2), Key(1)>> \in Seq(Seq(Byte))
<1>1. Key(2) \in Seq(Byte) /\ Key(1) \in Seq(Byte)
  BY KeyBytes DEF Keys
<1>. QED
  BY <1>1

LEMMA FieldNumber ==
  ASSUME NEW f \in Fields, NEW T, NEW full \in BOOLEAN, NEW k \in Keys
  PROVE  Number(f, T, full, k) \in Int
<1>1. f.default \in Int
  BY FieldParts
<1>2. k \in Int
  BY DEF Keys
<1>. QED
  BY <1>1, <1>2 DEF Number, Other

(* The calls for a field, if those for the tables it may refer to are.     *)
Bare(bare) == \A T \in Names : \A k \in Keys : bare[T][k] \in Seq(Calls)

LEMMA ChildCalls ==
  ASSUME NEW f \in Fields, NEW T, NEW full \in BOOLEAN, NEW k \in Keys,
         NEW bare, Bare(bare)
  PROVE  Child(f, T, full, k, bare) \in Seq(Calls)
<1>1. /\ f.kind \in Kinds
      /\ f.kind \in {"table", "tables"} => f.of \in Targets
  BY DEF Fields, AnyField
<1>2. 1 \in Keys /\ 2 \in Keys /\ Targets \in SUBSET Names
  <2>1. 1 \in Keys /\ 2 \in Keys
    BY DEF Keys
  <2>. QED
    BY <2>1, TargetNames
<1>3. Step("have", "", Number(f, T, full, k)) \in Seq(Calls)
  BY FieldNumber, HaveCall
<1>4. Step("have", "", 0) \in Seq(Calls)
  <2>. DEFINE zero == 0
  <2>1. zero \in Int
    OBVIOUS
  <2>. HIDE DEF zero
  <2>2. Step("have", "", zero) \in Seq(Calls)
    BY ONLY <2>1, HaveCall
  <2>. QED
    BY ONLY <2>2 DEF zero
<1>5. Step("string", "", Key(k)) \in Seq(Calls)
  BY KeyBytes, BytesCall
<1>6. Step("bytes", "", <<k, 0, 255>>) \in Seq(Calls)
  BY KeyBytes, BytesCall
<1>7. Step("strings", "", <<Key(2), Key(1)>>) \in Seq(Calls)
  BY TwoStrings, StringsCall
<1>8. ASSUME f.of \in Targets
      PROVE  /\ bare[f.of][2] \in Seq(Calls)
             /\ bare[f.of][2] \o bare[f.of][1] \o Step("tables", f.of, 2)
                  \in Seq(Calls)
             /\ Step("tables", f.of, 0) \in Seq(Calls)
  <2>. DEFINE p == bare[f.of][2]
              q == bare[f.of][1]
              r == Step("tables", f.of, 2)
  <2>1. p \in Seq(Calls) /\ q \in Seq(Calls)
    BY <1>2, <1>8 DEF Bare
  <2>2. r \in Seq(Calls) /\ Step("tables", f.of, 0) \in Seq(Calls)
    BY <1>8, TablesCall
  <2>. HIDE DEF p, q, r
  <2>3. (p \o q) \o r \in Seq(Calls)
    BY <2>1, <2>2
  <2>. QED
    BY <2>1, <2>2, <2>3 DEF p, q, r
<1>9. CASE f.kind = "num"
  BY <1>3, <1>9 DEF Child
<1>10. CASE f.kind # "num" /\ ~full /\ ~f.required
  BY <1>4, <1>10 DEF Child
<1>11. CASE f.kind # "num" /\ ~(~full /\ ~f.required)
  <2>1. CASE f.kind = "string"
    BY <1>5, <1>11, <2>1 DEF Child
  <2>2. CASE f.kind = "bytes"
    BY <1>6, <1>11, <2>2 DEF Child
  <2>3. CASE f.kind = "strings"
    BY <1>7, <1>11, <2>3 DEF Child
  <2>4. CASE f.kind = "table"
    BY <1>1, <1>8, <1>11, <2>4 DEF Child
  <2>5. CASE f.kind = "tables"
    <3>1. CASE full
      BY <1>1, <1>8, <1>11, <2>5, <3>1 DEF Child
    <3>2. CASE ~full
      BY <1>1, <1>8, <1>11, <2>5, <3>2 DEF Child
    <3>. QED
      BY <3>1, <3>2
  <2>. QED
    BY <1>1, <1>11, <2>1, <2>2, <2>3, <2>4, <2>5 DEF Kinds
<1>. QED
  BY <1>9, <1>10, <1>11

(* The calls that make a table: those for its fields, then the table.      *)
Ending(s, T) ==
  /\ s \in Seq(Calls) /\ s # <<>>
  /\ s[Len(s)].op = "table" /\ s[Len(s)].of = T

LEMMA EndingAfter ==
  ASSUME NEW s \in Seq(Calls), NEW c \in Calls, NEW T,
         c.op = "table", c.of = T
  PROVE  Ending(s \o <<c>>, T)
<1>. DEFINE t == s \o <<c>>
<1>1. /\ <<c>> \in Seq(Calls) /\ Len(<<c>>) = 1 /\ <<c>>[1] = c
      /\ Len(s) \in Nat
  BY LenProperties
<1>2. t \in Seq(Calls) /\ Len(t) = Len(s) + 1
  BY <1>1, ConcatProperties
<1>3. t[Len(s) + 1] = c
  BY <1>1, ConcatProperties
<1>4. t # <<>>
  BY <1>1, <1>2
<1>. HIDE DEF t
<1>5. t[Len(t)] = c
  BY <1>2, <1>3
<1>6. Ending(t, T)
  BY <1>2, <1>4, <1>5 DEF Ending
<1>. QED
  BY <1>6 DEF t

LEMMA TableFields ==
  ASSUME NEW T \in Names
  PROVE  /\ Tables[T] \in Seq(Fields) /\ Len(Tables[T]) \in Nat
         /\ \A i \in 1..Len(Tables[T]) : Tables[T][i] \in Fields
<1>1. Tables[T] \in Seq(Fields)
  BY AllTables DEF Regular, Names
<1>. QED
  BY <1>1, LenProperties, ElementOfSeq

LEMMA TableStepsEnd ==
  ASSUME NEW T \in Names, NEW full \in BOOLEAN, NEW k \in Keys,
         NEW bare, Bare(bare)
  PROVE  Ending(TableSteps(T, full, k, bare), T)
<1>. DEFINE n == Len(Tables[T])
            seqs == [i \in 1..n |-> Child(Tables[T][i], T, full, k, bare)]
            c == [op |-> "table", of |-> T, arg |-> n]
<1>1. n \in Nat /\ \A i \in 1..n : Tables[T][i] \in Fields
  BY TableFields
<1>2. \A i \in 1..n : Child(Tables[T][i], T, full, k, bare) \in Seq(Calls)
  BY <1>1, ChildCalls
<1>3. seqs \in Seq(Seq(Calls))
  BY <1>1, <1>2, IsASeq
<1>4. c \in Calls /\ Step("table", T, n) = <<c>>
  BY TableCall
<1>5. c.op = "table" /\ c.of = T
  OBVIOUS
<1>6. TableSteps(T, full, k, bare) = FlattenSeq(seqs) \o <<c>>
  BY <1>4 DEF TableSteps
<1>. HIDE DEF seqs, c
<1>7. FlattenSeq(seqs) \in Seq(Calls)
  BY ONLY <1>3, FlattenType
<1>. DEFINE s == FlattenSeq(seqs)
<1>. HIDE DEF s
<1>8. s \in Seq(Calls)
  BY <1>7 DEF s
<1>9. Ending(s \o <<c>>, T)
  BY ONLY <1>4, <1>5, <1>8, EndingAfter
<1>. QED
  BY <1>6, <1>9 DEF s

(* Those for the tables a table holds.                                     *)
LEMMA BareStepsUnfolded ==
  BareSteps = [depth \in 0..Nesting |->
    [T \in DOMAIN Tables |->
        [k \in Keys |-> IF depth = 0 THEN <<>>
                        ELSE TableSteps(T, FALSE, k, BareSteps[depth - 1])]]]
<1>. DEFINE Of(h, depth) ==
              [T \in DOMAIN Tables |->
                 [k \in Keys |-> IF depth = 0 THEN <<>>
                                 ELSE TableSteps(T, FALSE, k, h[depth - 1])]]
            Is(h) == h = [depth \in 0..Nesting |-> Of(h, depth)]
<1>1. BareSteps = CHOOSE h : Is(h)
  BY DEF BareSteps
<1>. DEFINE Up(p) == [T \in DOMAIN Tables |->
                        [k \in Keys |-> TableSteps(T, FALSE, k, p)]]
            h0 == [T \in DOMAIN Tables |-> [k \in Keys |-> <<>>]]
            h1 == Up(h0)
            h2 == Up(h1)
            g == [d \in 0..2 |-> IF d = 0 THEN h0 ELSE IF d = 1 THEN h1 ELSE h2]
<1>2. g[0] = h0 /\ g[1] = h1 /\ g[2] = h2
  <2>. HIDE DEF h0, h1, h2
  <2>. QED
    OBVIOUS
<1>3. /\ Of(g, 0) = h0
      /\ \A d \in 1..2 : Of(g, d) = Up(g[d - 1])
  <2>. HIDE DEF g
  <2>1. Of(g, 0) = h0
    OBVIOUS
  <2>2. ASSUME NEW d \in 1..2
        PROVE  Of(g, d) = Up(g[d - 1])
    <3>1. d # 0
      OBVIOUS
    <3>. QED
      BY <3>1
  <2>. QED
    BY <2>1, <2>2
<1>4. Is(g)
  <2>. HIDE DEF Of, Up, h0
  <2>1. \A d \in 0..2 : d = 0 \/ d = 1 \/ d = 2
    OBVIOUS
  <2>2. Of(g, 0) = g[0] /\ Of(g, 1) = g[1] /\ Of(g, 2) = g[2]
    <3>. HIDE DEF g
    <3>1. 1 \in 1..2 /\ 2 \in 1..2 /\ 1 - 1 = 0 /\ 2 - 1 = 1
      OBVIOUS
    <3>. QED
      BY <1>2, <1>3, <3>1
  <2>3. \A d \in 0..2 : g[d] = Of(g, d)
    <3>. HIDE DEF g
    <3>. QED
      BY <2>1, <2>2
  <2>4. g = [d \in 0..2 |-> g[d]]
    <3>1. g \in [0..2 -> {g[d] : d \in 0..2}]
      OBVIOUS
    <3>. HIDE DEF g
    <3>. QED
      BY <3>1
  <2>. HIDE DEF g
  <2>5. g = [d \in 0..2 |-> Of(g, d)]
    BY <2>3, <2>4
  <2>. QED
    BY <2>5 DEF Nesting
<1>5. Is(BareSteps)
  <2>. HIDE DEF Is
  <2>. QED
    BY <1>1, <1>4
<1>. QED
  BY <1>5

LEMMA BareStepsTyped ==
  ASSUME NEW depth \in 0..Nesting
  PROVE  Bare(BareSteps[depth])
<1>. DEFINE n == Nesting
            D == {d \in 0..n : Bare(BareSteps[d])}
<1>1. n \in Nat
  BY DEF Nesting
<1>2. 0 \in D
  <2>1. 0 \in 0..Nesting
    BY <1>1
  <2>2. ASSUME NEW T \in Names, NEW k \in Keys
        PROVE  BareSteps[0][T][k] = <<>>
    BY <2>1, BareStepsUnfolded DEF Names
  <2>. QED
    BY <2>1, <2>2, EmptySeq DEF Bare
<1>3. ASSUME NEW d \in 1..n, d - 1 \in D
      PROVE  d \in D
  <2>1. d \in 0..Nesting /\ d # 0
    BY <1>1
  <2>. DEFINE p == BareSteps[d - 1]
  <2>2. ASSUME NEW T \in Names, NEW k \in Keys
        PROVE  BareSteps[d][T][k] = TableSteps(T, FALSE, k, p)
    <3>. DEFINE Of(e) ==
                  [U \in DOMAIN Tables |->
                     [j \in Keys |-> IF e = 0 THEN <<>>
                                     ELSE TableSteps(U, FALSE, j,
                                                     BareSteps[e - 1])]]
    <3>1. BareSteps = [e \in 0..Nesting |-> Of(e)]
      BY BareStepsUnfolded
    <3>2. BareSteps[d] = Of(d)
      <4>. HIDE DEF Of
      <4>. QED
        BY <2>1, <3>1
    <3>3. Of(d)[T][k] = TableSteps(T, FALSE, k, p)
      BY <2>1 DEF Names
    <3>. QED
      BY <3>2, <3>3
  <2>3. Bare(p)
    BY <1>3
  <2>. HIDE DEF p
  <2>. DEFINE no == FALSE
  <2>4. no \in BOOLEAN
    OBVIOUS
  <2>. HIDE DEF no
  <2>5. ASSUME NEW T \in Names, NEW k \in Keys
        PROVE  TableSteps(T, no, k, p) \in Seq(Calls)
    BY <2>3, <2>4, TableStepsEnd DEF Ending
  <2>6. Bare(BareSteps[d])
    BY <2>2, <2>5 DEF Bare, no
  <2>. QED
    BY <2>1, <2>6
<1>. HIDE DEF D
<1>4. \A d \in 0..n : d \in D
  BY ONLY <1>1, <1>2, <1>3, UpTo
<1>. QED
  BY <1>4 DEF D

LEMMA StepsEnd ==
  ASSUME NEW T \in Names, NEW full \in BOOLEAN, NEW k \in Keys
  PROVE  Ending(Steps(T, full, k), T)
<1>. DEFINE p == BareSteps[Nesting]
            n == Nesting
<1>1. n \in 0..Nesting
  BY DEF Nesting
<1>. HIDE DEF n
<1>2. Bare(BareSteps[n])
  BY ONLY <1>1, BareStepsTyped
<1>3. Bare(p)
  BY <1>2 DEF n
<1>. HIDE DEF p
<1>4. Ending(TableSteps(T, full, k, p), T)
  BY ONLY <1>3, TableStepsEnd, T \in Names, full \in BOOLEAN, k \in Keys
<1>. QED
  BY <1>4 DEF Steps, p

(* What a call of the library does to the session: it made m1 with the     *)
(* builder and m2 with the twin, from the newest n of what waits.          *)
Did(m1, m2, n, of) ==
  /\ todo # <<>> /\ n <= Len(waits) /\ Fits(m1.b)
  /\ b' = m1.b /\ twin' = m2.b
  /\ waits' = Append(SubSeq(waits, 1, Len(waits) - n),
                     [of |-> of, off |-> m1.off])
  /\ made' = IF Len(todo) > 1 THEN made
             ELSE Append(made, [kind |-> making.kind, of |-> making.of,
                                off |-> m1.off, val |-> making.val])
  /\ todo' = Tail(todo)
  /\ UNCHANGED <<topic, making, prefixed, identifier, calls>>

LEMMA AddsBytes ==
  ASSUME NEW x, NEW y, Adds(x, y), DataOf(x) \in Seq(Byte)
  PROVE  DataOf(y) \in Seq(Byte)
<1>1. PICK pre \in Seq(Byte) : DataOf(y) = pre \o DataOf(x)
  BY DEF Adds
<1>. QED
  BY <1>1

LEMMA NamedTables ==
  ASSUME NEW T \in Names
  PROVE  /\ GoodTable(Tables[T]) /\ FieldsOf(Tables[T]) \in SUBSET Fields
<1>1. GoodTable(Tables[T])
  BY AllTables, RegularGood DEF Names
<1>2. Tables[T] \in Seq(Fields)
  BY <1>1 DEF GoodTable
<1>3. \A i \in 1..Len(Tables[T]) : Tables[T][i] \in Fields
  BY <1>2, ElementOfSeq
<1>. QED
  BY <1>1, <1>3 DEF FieldsOf

LEMMA ReadableOn ==
  ASSUME NEW x, NEW y, Adds(x, y), NEW T \in Names, NEW off,
         Readable(x, T, off)
  PROVE  Readable(y, T, off)
<1>. DEFINE fs == FieldsOf(Tables[T])
<1>1. fs \in SUBSET Fields
  BY NamedTables
<1>. HIDE DEF fs
<1>2. ValidTable(DataOf(x), fs, off)
  BY DEF Readable, fs
<1>3. ValidTable(DataOf(y), fs, off)
  BY ONLY <1>1, <1>2, ValidAdds, Adds(x, y)
<1>. QED
  BY <1>3 DEF Readable, fs

LEMMA TailCalls ==
  ASSUME NEW S, NEW s \in Seq(S), s # <<>>
  PROVE  /\ Tail(s) \in Seq(S) /\ Len(Tail(s)) = Len(s) - 1
         /\ Len(s) \in Nat /\ Len(s) # 0
         /\ Tail(s) # <<>> => /\ Len(s) > 1
                              /\ Tail(s)[Len(Tail(s))] = s[Len(s)]
         /\ Head(s) = s[1] /\ Head(s) \in S
<1>1. /\ Tail(s) \in Seq(S) /\ Len(Tail(s)) = Len(s) - 1
      /\ Len(s) \in Nat /\ Len(s) # 0
      /\ \A i \in 1..Len(Tail(s)) : Tail(s)[i] = s[i + 1]
  BY HeadTailProperties, LenProperties
<1>2. ASSUME Tail(s) # <<>>
      PROVE  Len(s) > 1 /\ Tail(s)[Len(Tail(s))] = s[Len(s)]
  <2>1. Len(Tail(s)) # 0
    BY <1>1, <1>2, EmptySeq
  <2>. QED
    BY <1>1, <2>1
<1>. QED
  BY <1>1, <1>2, HeadTailProperties

(* r are the offsets s but for the newest n, and e.                        *)
Waiting(r, s, n, e, S) ==
  /\ r \in Seq(S) /\ Len(s) - n \in Nat /\ Len(r) = (Len(s) - n) + 1
  /\ \A i \in 1..(Len(s) - n) : r[i] = s[i] /\ i \in 1..Len(s)
  /\ r[(Len(s) - n) + 1] = e

LEMMA KeepWaits ==
  ASSUME NEW S, NEW s \in Seq(S), NEW n \in Nat, n <= Len(s), NEW e \in S
  PROVE  Waiting(Append(SubSeq(s, 1, Len(s) - n), e), s, n, e, S)
<1>. DEFINE k == Len(s) - n
            p == SubSeq(s, 1, k)
<1>1. k \in Nat /\ k <= Len(s) /\ Len(s) \in Nat
  BY LenProperties
<1>2. /\ p \in Seq(S) /\ Len(p) = k
      /\ \A i \in 1..k : p[i] = s[i] /\ i \in 1..Len(s)
  <2>. HIDE DEF k
  <2>1. 1..k \subseteq 1..Len(s)
    BY <1>1
  <2>2. \A i \in 1..k : s[i] \in S
    BY <2>1, ElementOfSeq
  <2>. QED
    BY <1>1, <2>1, <2>2
<1>. HIDE DEF p
<1>3. /\ Append(p, e) \in Seq(S) /\ Len(Append(p, e)) = Len(p) + 1
      /\ \A i \in 1..Len(p) : Append(p, e)[i] = p[i]
      /\ Append(p, e)[Len(p) + 1] = e
  BY <1>2, AppendProperties
<1>. HIDE DEF k
<1>4. /\ Append(p, e) \in Seq(S) /\ k \in Nat /\ Len(Append(p, e)) = k + 1
      /\ \A i \in 1..k : Append(p, e)[i] = s[i] /\ i \in 1..Len(s)
      /\ Append(p, e)[k + 1] = e
  BY <1>1, <1>2, <1>3
<1>5. /\ Append(p, e) \in Seq(S) /\ Len(s) - n \in Nat
      /\ Len(Append(p, e)) = (Len(s) - n) + 1
      /\ \A i \in 1..(Len(s) - n) : Append(p, e)[i] = s[i] /\ i \in 1..Len(s)
      /\ Append(p, e)[(Len(s) - n) + 1] = e
  BY ONLY <1>4 DEF k
<1>6. Waiting(Append(p, e), s, n, e, S)
  BY ONLY <1>5 DEF Waiting
<1>. QED
  BY ONLY <1>6 DEF p, k

(* What the last call makes is the object.                                 *)
Completes(m) ==
  Len(todo) = 1 /\ making.kind = "table" => Readable(m.b, topic, m.off)

LEMMA KeptOn ==
  ASSUME NEW x, NEW y, Adds(x, y), NEW of \in Marks, NEW off, Kept(x, of, off)
  PROVE  Kept(y, of, off)
<1>1. CASE of = ""
  BY <1>1 DEF Kept
<1>2. CASE of # ""
  <2>1. of \in Names /\ Readable(x, of, off)
    BY <1>2 DEF Kept, Marks
  <2>2. Readable(y, of, off)
    BY <2>1, ReadableOn
  <2>. QED
    BY <2>2 DEF Kept
<1>. QED
  BY <1>1, <1>2

LEMMA DidTwins ==
  ASSUME TwinsInv, NEW m1, NEW m2, NEW n, NEW of, Did(m1, m2, n, of),
         Done(b, twin, m1, m2)
  PROVE  TwinsInv'
<1>1. /\ b' = m1.b /\ twin' = m2.b /\ topic' = topic /\ calls' = calls
  BY DEF Did
<1>2. Twins(m1.b, m2.b) /\ Sound(m1.b) /\ Adds(b, m1.b)
  BY DEF Done
<1>3. DataOf(b) \in Seq(Byte)
  BY DEF TwinsInv
<1>. DEFINE z == m1.b
<1>. HIDE DEF z
<1>4. Adds(b, z)
  BY <1>2 DEF z
<1>5. DataOf(z) \in Seq(Byte)
  BY ONLY <1>3, <1>4, AddsBytes
<1>6. Twins(b', twin') /\ Sound(b') /\ DataOf(b') \in Seq(Byte)
  BY <1>1, <1>2, <1>5 DEF z
<1>7. topic \in Topics /\ calls \in Nat /\ calls <= MaxCalls
  BY DEF TwinsInv
<1>. QED
  BY <1>1, <1>6, <1>7 DEF TwinsInv

LEMMA DidMaking ==
  ASSUME SessionInv, NEW m1, NEW m2, NEW n \in Nat, NEW of \in Marks,
         Did(m1, m2, n, of), Done(b, twin, m1, m2),
         Kept(m1.b, of, m1.off)
  PROVE  MakingInv'
<1>. DEFINE e == [of |-> of, off |-> m1.off]
            k == Len(waits) - n
            r == Append(SubSeq(waits, 1, k), e)
<1>1. /\ todo # <<>> /\ n <= Len(waits) /\ b' = m1.b /\ waits' = r
      /\ todo' = Tail(todo) /\ topic' = topic /\ making' = making
      /\ Len(todo) > 1 => made' = made
  BY DEF Did
<1>2. /\ m1.off \in Int /\ Adds(b, m1.b) /\ m1.b.finished = b.finished
  BY DEF Done
<1>3. /\ todo \in Seq(Calls) /\ waits \in Seq(Offsets)
      /\ ~b.finished /\ Len(made) < MaxObjects[topic]
      /\ making.kind \in ObjectKinds /\ making.of \in Marks
      /\ making.kind = "table" => Ends(topic)
      /\ \A i \in 1..Len(waits) : Kept(b, waits[i].of, waits[i].off)
  BY <1>1 DEF SessionInv, MakingInv
<1>4. /\ Tail(todo) \in Seq(Calls)
      /\ Tail(todo) # <<>> => /\ Len(todo) > 1
                              /\ Tail(todo)[Len(Tail(todo))] = todo[Len(todo)]
  BY <1>1, <1>3, TailCalls
<1>5. e \in Offsets
  BY <1>2 DEF Offsets
<1>6. e.of = of /\ e.off = m1.off
  OBVIOUS
<1>. HIDE DEF e
<1>7. /\ r \in Seq(Offsets) /\ k \in Nat /\ Len(r) = k + 1
      /\ \A i \in 1..k : r[i] = waits[i] /\ i \in 1..Len(waits)
      /\ r[k + 1] = e
  <2>. DEFINE S == Offsets
              s == waits
  <2>1. s \in Seq(S) /\ n <= Len(s) /\ n \in Nat /\ e \in S
    BY <1>1, <1>3, <1>5
  <2>. HIDE DEF S, s
  <2>2. Waiting(Append(SubSeq(s, 1, Len(s) - n), e), s, n, e, S)
    BY ONLY <2>1, KeepWaits
  <2>3. Waiting(r, waits, n, e, Offsets)
    BY ONLY <2>2 DEF S, s, r, k
  <2>. HIDE DEF r
  <2>. QED
    BY <2>3 DEF Waiting, k
<1>. HIDE DEF r, k
<1>. DEFINE z == m1.b
<1>8. Kept(z, of, m1.off)
  OBVIOUS
<1>8a. Adds(b, z)
  BY <1>2
<1>. HIDE DEF z
<1>9. ASSUME NEW i \in 1..Len(r)
      PROVE  Kept(z, r[i].of, r[i].off)
  <2>1. CASE i \in 1..k
    <3>1. r[i] = waits[i] /\ i \in 1..Len(waits)
      BY <1>7, <2>1
    <3>2. waits[i] \in Offsets
      BY <1>3, <3>1, ElementOfSeq
    <3>. DEFINE T == waits[i].of
                off == waits[i].off
    <3>3. T \in Marks
      BY <3>2 DEF Offsets
    <3>4. Kept(b, T, off)
      BY <1>3, <3>1
    <3>. HIDE DEF T, off
    <3>5. Kept(z, T, off)
      BY ONLY <1>8a, <3>3, <3>4, KeptOn
    <3>. QED
      BY <3>1, <3>5 DEF T, off
  <2>2. CASE i = k + 1
    <3>1. r[i] = e
      BY <1>7, <2>2
    <3>. QED
      BY <1>6, <1>8, <3>1
  <2>3. i \in 1..k \/ i = k + 1
    <3>1. i \in 1..Len(r) /\ k \in Nat /\ Len(r) = k + 1
      BY <1>7
    <3>. QED
      BY ONLY <3>1
  <2>. QED
    BY <2>1, <2>2, <2>3
<1>10. todo' \in Seq(Calls) /\ waits' \in Seq(Offsets)
  BY <1>1, <1>4, <1>7
<1>11. ASSUME todo' # <<>>
       PROVE  /\ ~b'.finished /\ Len(made') < MaxObjects[topic']
              /\ making'.kind \in ObjectKinds
              /\ making'.of \in Marks
              /\ making'.kind = "table" => Ends(topic)'
              /\ \A i \in 1..Len(waits') :
                   Kept(b', waits'[i].of, waits'[i].off)
  <2>1. /\ Len(todo) > 1 /\ todo'[Len(todo')] = todo[Len(todo)]
        /\ made' = made
    BY <1>1, <1>4, <1>11
  <2>2. ~b'.finished /\ Len(made') < MaxObjects[topic']
    BY <1>1, <1>2, <1>3, <2>1
  <2>3. making'.kind \in ObjectKinds /\ making'.of \in Marks
    BY <1>1, <1>3
  <2>4. making'.kind = "table" => Ends(topic)'
    BY <1>1, <1>3, <2>1 DEF Ends
  <2>5. b' = z
    BY <1>1 DEF z
  <2>6. \A i \in 1..Len(waits') : Kept(b', waits'[i].of, waits'[i].off)
    BY <1>1, <1>9, <2>5
  <2>. QED
    BY <2>2, <2>3, <2>4, <2>6
<1>. QED
  BY <1>10, <1>11 DEF MakingInv

LEMMA DidMade ==
  ASSUME SessionInv, NEW m1, NEW m2, NEW n \in Nat, NEW of \in Marks,
         Did(m1, m2, n, of), Done(b, twin, m1, m2),
         Completes(m1)
  PROVE  MadeInv'
<1>1. /\ todo # <<>> /\ b' = m1.b /\ topic' = topic
      /\ made' = IF Len(todo) > 1 THEN made
                 ELSE Append(made, [kind |-> making.kind, of |-> making.of,
                                    off |-> m1.off, val |-> making.val])
  BY DEF Did
<1>2. /\ m1.off \in Int /\ Adds(b, m1.b) /\ m1.b.finished = b.finished
  BY DEF Done
<1>3. /\ todo \in Seq(Calls) /\ ~b.finished /\ Len(made) < MaxObjects[topic]
      /\ making.kind \in ObjectKinds /\ making.of \in Marks
  BY <1>1 DEF SessionInv, MakingInv
<1>4. /\ \E V : made \in Seq(Objects(V))
      /\ Len(made) <= MaxObjects[topic]
      /\ \A i \in 1..Len(made) :
           IsTable(made[i]) => Readable(b, topic, made[i].off)
  <2>1. Known /\ Len(made) <= MaxObjects[topic] /\ TablesReadable
    BY <1>3 DEF SessionInv, MadeInv
  <2>. QED
    BY <2>1 DEF Known, TablesReadable
<1>5. Len(todo) \in Nat /\ Len(todo) # 0
  BY <1>1, <1>3, TailCalls
<1>6. topic \in Names /\ MaxObjects[topic] \in Nat
  <2>1. topic \in Topics
    BY DEF SessionInv, TwinsInv
  <2>. QED
    BY <2>1, SessionAssumption DEF Names
<1>. DEFINE z == m1.b
<1>7. Adds(b, z) /\ ~z.finished /\ b' = z
  BY <1>1, <1>2, <1>3
<1>8. Len(todo) = 1 /\ making.kind = "table" => Readable(z, topic, m1.off)
  BY DEF Completes
<1>. HIDE DEF z
<1>9. ASSUME NEW i \in 1..Len(made), IsTable(made[i])
      PROVE  Readable(z, topic, made[i].off)
  <2>. DEFINE off == made[i].off
  <2>1. Readable(b, topic, off)
    BY <1>4, <1>9
  <2>. HIDE DEF off
  <2>2. Readable(z, topic, off)
    BY ONLY <1>6, <1>7, <2>1, ReadableOn
  <2>. QED
    BY <2>2 DEF off
<1>10. CASE Len(todo) > 1
  <2>1. made' = made
    BY <1>1, <1>10
  <2>2. \E V : made' \in Seq(Objects(V))
    BY <1>4, <2>1
  <2>3. \A i \in 1..Len(made') : IsTable(made'[i])
                                   => Readable(b', topic', made'[i].off)
    BY <1>1, <1>7, <1>9, <2>1
  <2>. QED
    <3>1. Known'
      BY ONLY <2>2 DEF Known
    <3>2. TablesReadable'
      BY ONLY <2>3 DEF TablesReadable, IsTable
    <3>. QED
      BY <1>1, <1>4, <1>7, <2>1, <3>1, <3>2 DEF MadeInv
<1>11. CASE Len(todo) = 1
  <2>. DEFINE o == [kind |-> making.kind, of |-> making.of,
                    off |-> m1.off, val |-> making.val]
  <2>0. ~(Len(todo) > 1)
    BY ONLY <1>11
  <2>1. made' = Append(made, o)
    BY <1>1, <2>0
  <2>2. PICK V : made \in Seq(Objects(V))
    BY <1>4
  <2>. DEFINE W == V \cup {making.val}
  <2>3. \A i \in 1..Len(made) : made[i] \in Objects(W)
    <3>1. \A i \in 1..Len(made) : made[i] \in Objects(V)
      BY <2>2, ElementOfSeq
    <3>2. \A p \in Objects(V) : p \in Objects(W)
      BY DEF Objects
    <3>. QED
      BY <3>1, <3>2
  <2>4. made \in Seq(Objects(W)) /\ Len(made) \in Nat
    <3>. DEFINE S == Objects(V)
                R == Objects(W)
    <3>1. made \in Seq(S) /\ \A i \in 1..Len(made) : made[i] \in R
      BY <2>2, <2>3
    <3>. HIDE DEF S, R
    <3>2. made \in Seq(R) /\ Len(made) \in Nat
      BY ONLY <3>1
    <3>. QED
      BY <3>2 DEF R
  <2>5. o \in Objects(W)
    BY <1>2, <1>3 DEF Objects
  <2>6. o.kind = making.kind /\ o.off = m1.off
    OBVIOUS
  <2>. HIDE DEF o, W
  <2>7. /\ Append(made, o) \in Seq(Objects(W))
        /\ Len(Append(made, o)) = Len(made) + 1
        /\ \A i \in 1..Len(made) : Append(made, o)[i] = made[i]
        /\ Append(made, o)[Len(made) + 1] = o
    <3>. DEFINE R == Objects(W)
    <3>1. made \in Seq(R) /\ o \in R
      BY <2>4, <2>5
    <3>. DEFINE s == made
    <3>2. s \in Seq(R) /\ o \in R
      BY <3>1
    <3>. HIDE DEF R, s
    <3>3. /\ Append(s, o) \in Seq(R)
          /\ Len(Append(s, o)) = Len(s) + 1
          /\ \A i \in 1..Len(s) : Append(s, o)[i] = s[i]
          /\ Append(s, o)[Len(s) + 1] = o
      BY ONLY <3>2, AppendProperties
    <3>. QED
      BY <3>3 DEF R, s
  <2>8. \E U : made' \in Seq(Objects(U))
    <3>1. made' \in Seq(Objects(W))
      BY <2>1, <2>7
    <3>. QED
      BY ONLY <3>1
  <2>9. Len(made') <= MaxObjects[topic']
    BY <1>1, <1>3, <1>6, <2>1, <2>4, <2>7
  <2>10. ASSUME NEW i \in 1..Len(made'), IsTable(made'[i])
         PROVE  Readable(b', topic', made'[i].off)
    <3>1. CASE i \in 1..Len(made)
      <4>1. made'[i] = made[i]
        BY <2>1, <2>7, <3>1
      <4>. QED
        BY <1>1, <1>7, <1>9, <2>10, <3>1, <4>1
    <3>2. CASE i = Len(made) + 1
      <4>1. made'[i] = o
        BY <2>1, <2>7, <3>2
      <4>2. making.kind = "table"
        BY <2>6, <2>10, <4>1 DEF IsTable
      <4>3. Readable(z, topic, m1.off)
        BY <1>8, <1>11, <4>2
      <4>. QED
        BY <1>1, <1>7, <2>6, <4>1, <4>3
    <3>3. Len(made') = Len(made) + 1
      BY <2>1, <2>7
    <3>4. i \in 1..Len(made) \/ i = Len(made) + 1
      <4>1. i \in 1..Len(made') /\ Len(made) \in Nat
        BY <2>4
      <4>. QED
        BY ONLY <3>3, <4>1
    <3>. QED
      BY <3>1, <3>2, <3>4
  <2>. QED
    <3>1. Known'
      BY ONLY <2>8 DEF Known
    <3>2. TablesReadable'
      BY ONLY <2>10 DEF TablesReadable, IsTable
    <3>. QED
      <4>1. ~b'.finished
        BY <1>7
      <4>. QED
        BY ONLY <2>9, <3>1, <3>2, <4>1 DEF MadeInv
<1>12. Len(todo) > 1 \/ Len(todo) = 1
  <2>. DEFINE k == Len(todo)
  <2>1. k \in Nat /\ k # 0
    BY <1>5
  <2>. HIDE DEF k
  <2>2. k > 1 \/ k = 1
    BY ONLY <2>1
  <2>. QED
    BY ONLY <2>2 DEF k
<1>. QED
  BY <1>10, <1>11, <1>12

(* A call keeps the invariant.                                             *)
LEMMA DidKeeps ==
  ASSUME SessionInv, NEW m1, NEW m2, NEW n \in Nat, NEW of \in Marks,
         Did(m1, m2, n, of), Done(b, twin, m1, m2),
         Kept(m1.b, of, m1.off),
         Completes(m1)
  PROVE  SessionInv'
<1>1. TwinsInv'
  BY DidTwins DEF SessionInv
<1>2. MakingInv'
  BY DidMaking
<1>3. MadeInv'
  BY DidMade
<1>. QED
  BY <1>1, <1>2, <1>3 DEF SessionInv

(* The next call, with what it may be given.                               *)
LEMMA NextCall ==
  ASSUME SessionInv, todo # <<>>
  PROVE  /\ Head(todo) \in Calls /\ Fitting(Head(todo))
         /\ Len(todo) = 1 /\ making.kind = "table"
              => Head(todo).op = "table" /\ Head(todo).of = topic
<1>1. todo \in Seq(Calls) /\ (making.kind = "table" => Ends(topic))
  BY DEF SessionInv, MakingInv
<1>2. Head(todo) = todo[1] /\ Head(todo) \in Calls
  BY <1>1, TailCalls
<1>3. Fitting(Head(todo))
  BY <1>2 DEF Calls
<1>4. ASSUME Len(todo) = 1, making.kind = "table"
      PROVE  Head(todo).op = "table" /\ Head(todo).of = topic
  BY <1>1, <1>2, <1>4 DEF Ends
<1>. QED
  BY <1>2, <1>3, <1>4

Unmarked == ""

(* A call that makes anything but a table.                                 *)
LEMMA PlainCall ==
  ASSUME SessionInv, NEW m1, NEW m2, NEW n \in Nat, Did(m1, m2, n, Unmarked),
         Done(b, twin, m1, m2), Head(todo).op # "table"
  PROVE  SessionInv'
<1>1. Unmarked \in Marks /\ Kept(m1.b, Unmarked, m1.off)
  BY DEF Unmarked, Marks, Kept
<1>2. todo # <<>>
  BY DEF Did
<1>3. Completes(m1)
  BY <1>2, NextCall DEF Completes
<1>. QED
  BY <1>1, <1>3, DidKeeps

(* What the calls do.                                                      *)
Arg == Head(todo).arg

LEMMA StringDid ==
  ASSUME MakeString
  PROVE  /\ todo # <<>> /\ Head(todo).op = "string"
         /\ Did(CreateString(b, Arg), CreateString(twin, Arg), 0, Unmarked)
BY DEF MakeString, Perform, Did, Arg, Unmarked

LEMMA SharedStringDid ==
  ASSUME MakeSharedString
  PROVE  /\ todo # <<>> /\ Head(todo).op = "shared"
         /\ Did(CreateSharedString(b, Arg), CreateSharedString(twin, Arg), 0,
                Unmarked)
BY DEF MakeSharedString, Perform, Did, Arg, Unmarked

LEMMA BytesDid ==
  ASSUME MakeBytes
  PROVE  /\ todo # <<>> /\ Head(todo).op = "bytes"
         /\ Did(ToResultBytes(b, Arg), ToResultBytes(twin, Arg), 0, Unmarked)
BY DEF MakeBytes, Perform, Did, Arg, Unmarked

Nested(x, str) ==
  CreateVector(ForceVectorAlignment(x, Len(str), 1, 8), Singles(str), 1, 1)

LEMMA NestedDid ==
  ASSUME MakeNested
  PROVE  /\ todo # <<>> /\ Head(todo).op = "nested"
         /\ Did(Nested(b, Arg), Nested(twin, Arg), 0, Unmarked)
BY DEF MakeNested, Perform, Did, Arg, Unmarked, Nested

Filled(x, str) ==
  LET m == CreateUninitializedVector(x, Len(str), 1, 1)
  IN  [b |-> FillVector(m.b, m.data, str), off |-> m.off]

LEMMA UninitializedDid ==
  ASSUME MakeUninitialized
  PROVE  /\ todo # <<>> /\ Head(todo).op = "uninitialized"
         /\ Did(Filled(b, Arg), Filled(twin, Arg), 0, Unmarked)
BY DEF MakeUninitialized, Perform, Did, Arg, Unmarked, Filled

Numbers(x, n) == CreateVector(x, [i \in 1..n |-> Scalar(i, 8)], 8, 8)

LEMMA NumbersDid ==
  ASSUME MakeNumbers
  PROVE  /\ todo # <<>> /\ Head(todo).op = "numbers"
         /\ Did(Numbers(b, Arg), Numbers(twin, Arg), 0, Unmarked)
BY DEF MakeNumbers, Perform, Did, Arg, Unmarked, Numbers

LEMMA StringsDid ==
  ASSUME MakeStrings
  PROVE  /\ todo # <<>> /\ Head(todo).op = "strings"
         /\ Did(CreateVectorOfStrings(b, Arg),
                CreateVectorOfStrings(twin, Arg), 0, Unmarked)
BY DEF MakeStrings, Perform, Did, Arg, Unmarked

OneStruct(x, n) == CreateStruct(x, Scalar(n, 8), 8)

LEMMA StructDid ==
  ASSUME MakeStruct
  PROVE  /\ todo # <<>> /\ Head(todo).op = "struct"
         /\ Did(OneStruct(b, Arg), OneStruct(twin, Arg), 0, Unmarked)
BY DEF MakeStruct, Perform, Did, Arg, Unmarked, OneStruct

TwoStructs(x, n) ==
  CreateVectorOfStructs(x, [i \in 1..2 |-> Scalar(n, 8)], 8, 8)

LEMMA StructsDid ==
  ASSUME MakeStructs
  PROVE  /\ todo # <<>> /\ Head(todo).op = "structs"
         /\ Did(TwoStructs(b, Arg), TwoStructs(twin, Arg), 0, Unmarked)
BY DEF MakeStructs, Perform, Did, Arg, Unmarked, TwoStructs

Shown(x, o) == [b |-> x, off |-> o]

LEMMA HaveDid ==
  ASSUME Have
  PROVE  /\ todo # <<>> /\ Head(todo).op = "have"
         /\ Did(Shown(b, Arg), Shown(twin, Arg), 0, Unmarked)
BY DEF Have, Perform, Did, Arg, Unmarked, Shown

(* The newest n of what waits.                                             *)
Newest(n) == [i \in 1..n |-> waits[(Len(waits) - n) + i].off]

LEMMA TableDid ==
  ASSUME MakeTable
  PROVE  /\ todo # <<>> /\ Head(todo).op = "table" /\ Arg <= Len(waits)
         /\ Did(CreateTable(b, Head(todo).of, Newest(Arg)),
                CreateTable(twin, Head(todo).of, Newest(Arg)), Arg,
                Head(todo).of)
BY DEF MakeTable, Perform, Did, Arg, Newest

SortedVector(x, T, offs) == CreateOffsets(x, SortTables(x, T, offs))

LEMMA TablesDid ==
  ASSUME MakeSortedTables
  PROVE  /\ todo # <<>> /\ Head(todo).op = "tables" /\ Arg <= Len(waits)
         /\ \A i \in 1..Len(waits) :
              i > Len(waits) - Arg => waits[i].of = Head(todo).of
         /\ Did(SortedVector(b, Head(todo).of, Newest(Arg)),
                SortedVector(twin, Head(todo).of, Newest(Arg)), Arg,
                Unmarked)
BY DEF MakeSortedTables, Perform, Did, Arg, Unmarked, Newest, SortedVector

LEMMA BuildersNow ==
  ASSUME SessionInv
  PROVE  /\ Twins(b, twin) /\ Sound(b) /\ ~b.nested /\ DataOf(b) \in Seq(Byte)
         /\ b \in Builders /\ topic \in Names
<1>1. /\ Twins(b, twin) /\ Sound(b) /\ DataOf(b) \in Seq(Byte)
      /\ topic \in Topics
  BY DEF SessionInv, TwinsInv
<1>. QED
  BY <1>1, SessionAssumption DEF Sound, Names

(* A call that makes neither a table nor a shared string: all it does to   *)
(* the builder is to put bytes in front of the data.                       *)
Plain(op) == op \notin {"table", "shared"}

PlainStep ==
  \E m1, m2 : \E n \in Nat :
    /\ Did(m1, m2, n, Unmarked) /\ Done(b, twin, m1, m2)
    /\ Grows(b, m1.b) /\ ~m1.b.nested /\ Plain(Head(todo).op)

LEMMA NoArguments ==
  ASSUME SessionInv, NEW m1, NEW m2, Did(m1, m2, 0, Unmarked),
         Makes(b, twin, m1, m2), Plain(Head(todo).op)
  PROVE  PlainStep
<1>1. Done(b, twin, m1, m2)
  BY BuildersNow, MakesDone
<1>2. Grows(b, m1.b) /\ ~m1.b.nested
  BY DEF Makes
<1>. DEFINE zero == 0
<1>3. zero \in Nat /\ Did(m1, m2, zero, Unmarked)
  OBVIOUS
<1>. HIDE DEF zero
<1>. QED
  BY <1>1, <1>2, <1>3 DEF PlainStep

LEMMA NoArgumentsDone ==
  ASSUME SessionInv, NEW m1, NEW m2, Did(m1, m2, 0, Unmarked),
         Done(b, twin, m1, m2), Head(todo).op # "table"
  PROVE  SessionInv'
<1>. DEFINE zero == 0
<1>2. zero \in Nat /\ Did(m1, m2, zero, Unmarked)
  OBVIOUS
<1>. HIDE DEF zero
<1>. QED
  BY <1>2, PlainCall

(* What the calls are given.                                               *)
LEMMA BytesGiven ==
  ASSUME SessionInv, todo # <<>>,
         Head(todo).op \in {"string", "shared", "bytes", "nested",
                            "uninitialized"}
  PROVE  Arg \in Seq(Byte)
BY NextCall DEF Fitting, Arg

LEMMA StringPlain ==
  ASSUME SessionInv, MakeString
  PROVE  PlainStep
<1>. DEFINE s == Arg
            m1 == CreateString(b, s)
            m2 == CreateString(twin, s)
<1>1. /\ todo # <<>> /\ Head(todo).op = "string"
      /\ Did(m1, m2, 0, Unmarked)
  BY StringDid
<1>2. s \in Seq(Byte)
  BY <1>1, BytesGiven
<1>3. Makes(b, twin, m1, m2)
  BY <1>2, BuildersNow, TwinCreateString
<1>. HIDE DEF m1, m2
<1>. QED
  BY <1>1, <1>3, NoArguments DEF Plain

LEMMA KeepsSharedString ==
  ASSUME SessionInv, MakeSharedString
  PROVE  SessionInv'
<1>. DEFINE s == Arg
            m1 == CreateSharedString(b, s)
            m2 == CreateSharedString(twin, s)
<1>1. /\ todo # <<>> /\ Head(todo).op = "shared"
      /\ Did(m1, m2, 0, Unmarked)
  BY SharedStringDid
<1>2. s \in Seq(Byte)
  BY <1>1, BytesGiven
<1>3. Done(b, twin, m1, m2)
  BY <1>2, BuildersNow, TwinCreateSharedString
<1>. HIDE DEF m1, m2
<1>. QED
  BY <1>1, <1>3, NoArgumentsDone

LEMMA BytesPlain ==
  ASSUME SessionInv, MakeBytes
  PROVE  PlainStep
<1>. DEFINE s == Arg
            m1 == ToResultBytes(b, s)
            m2 == ToResultBytes(twin, s)
<1>1. /\ todo # <<>> /\ Head(todo).op = "bytes"
      /\ Did(m1, m2, 0, Unmarked)
  BY BytesDid
<1>2. s \in Seq(Byte)
  BY <1>1, BytesGiven
<1>3. Makes(b, twin, m1, m2)
  BY <1>2, BuildersNow, TwinToResultBytes
<1>. HIDE DEF m1, m2
<1>. QED
  BY <1>1, <1>3, NoArguments DEF Plain

LEMMA NestedPlain ==
  ASSUME SessionInv, MakeNested
  PROVE  PlainStep
<1>. DEFINE s == Arg
            m1 == Nested(b, s)
            m2 == Nested(twin, s)
            elems == Singles(s)
            n == Len(s)
<1>1. /\ todo # <<>> /\ Head(todo).op = "nested"
      /\ Did(m1, m2, 0, Unmarked)
  BY NestedDid
<1>2. s \in Seq(Byte)
  BY <1>1, BytesGiven
<1>3. elems \in Seq(Seq(Byte)) /\ n \in Nat
  BY <1>2, Singletons, LenProperties DEF Singles
<1>4. Makes(b, twin, m1, m2)
  <2>. HIDE DEF elems, n
  <2>1. Makes(b, twin,
           CreateVector(ForceVectorAlignment(b, n, 1, 8), elems, 1, 1),
           CreateVector(ForceVectorAlignment(twin, n, 1, 8), elems, 1, 1))
    BY <1>3, BuildersNow, TwinNestedVector
  <2>. QED
    BY <2>1 DEF Nested, elems, n
<1>. HIDE DEF m1, m2
<1>. QED
  BY <1>1, <1>4, NoArguments DEF Plain

LEMMA UninitializedPlain ==
  ASSUME SessionInv, MakeUninitialized
  PROVE  PlainStep
<1>. DEFINE s == Arg
            m1 == Filled(b, s)
            m2 == Filled(twin, s)
<1>1. /\ todo # <<>> /\ Head(todo).op = "uninitialized"
      /\ Did(m1, m2, 0, Unmarked)
  BY UninitializedDid
<1>2. s \in Seq(Byte)
  BY <1>1, BytesGiven
<1>3. Makes(b, twin, m1, m2)
  BY <1>2, BuildersNow, TwinUninitialized DEF Filled
<1>. HIDE DEF m1, m2
<1>. QED
  BY <1>1, <1>3, NoArguments DEF Plain

LEMMA StringsPlain ==
  ASSUME SessionInv, MakeStrings
  PROVE  PlainStep
<1>. DEFINE s == Arg
            m1 == CreateVectorOfStrings(b, s)
            m2 == CreateVectorOfStrings(twin, s)
<1>1. /\ todo # <<>> /\ Head(todo).op = "strings"
      /\ Did(m1, m2, 0, Unmarked)
  BY StringsDid
<1>2. s \in Seq(Seq(Byte))
  BY <1>1, NextCall DEF Fitting, Arg
<1>3. Makes(b, twin, m1, m2)
  BY <1>2, BuildersNow, TwinCreateVectorOfStrings
<1>. HIDE DEF m1, m2
<1>. QED
  BY <1>1, <1>3, NoArguments DEF Plain

LEMMA HavePlain ==
  ASSUME SessionInv, Have
  PROVE  PlainStep
<1>. DEFINE o == Arg
            m1 == Shown(b, o)
            m2 == Shown(twin, o)
<1>1. /\ todo # <<>> /\ Head(todo).op = "have"
      /\ Did(m1, m2, 0, Unmarked)
  BY HaveDid
<1>2. o \in Int
  BY <1>1, NextCall DEF Fitting, Arg
<1>3. m1.b = b /\ m2.b = twin /\ m1.off = o /\ m2.off = o
  BY DEF Shown
<1>. HIDE DEF m1, m2, o
<1>4. Grows(b, b)
  BY BuildersNow, GrowsNot
<1>5. Done(b, twin, m1, m2) /\ Grows(b, m1.b) /\ ~m1.b.nested
  BY <1>2, <1>3, <1>4, BuildersNow DEF Done, Grows
<1>. DEFINE zero == 0
<1>6. zero \in Nat /\ Did(m1, m2, zero, Unmarked)
  BY <1>1
<1>. HIDE DEF zero
<1>7. Plain(Head(todo).op)
  BY <1>1 DEF Plain
<1>. QED
  BY <1>5, <1>6, <1>7 DEF PlainStep

(* Such a call keeps the invariant.                                        *)
LEMMA KeepsPlain ==
  ASSUME SessionInv, PlainStep
  PROVE  SessionInv'
<1>1. PICK m1, m2 : \E n \in Nat :
         /\ Did(m1, m2, n, Unmarked) /\ Done(b, twin, m1, m2)
         /\ Plain(Head(todo).op)
  BY DEF PlainStep
<1>2. Head(todo).op # "table"
  BY <1>1 DEF Plain
<1>. QED
  BY <1>1, <1>2, PlainCall

LEMMA Structs ==
  ASSUME NEW n \in Int, NEW k \in Nat
  PROVE  [i \in 1..k |-> Scalar(n, 8)] \in Seq(Seq(Byte))
<1>. DEFINE eight == 8
<1>1. eight \in Nat
  OBVIOUS
<1>. HIDE DEF eight
<1>2. Scalar(n, eight) \in Seq(Byte)
  BY <1>1, ScalarBytes
<1>. DEFINE e == Scalar(n, 8)
<1>3. e \in Seq(Byte)
  BY <1>2 DEF eight
<1>. HIDE DEF e
<1>4. [i \in 1..k |-> e] \in Seq(Seq(Byte))
  BY <1>3
<1>. QED
  BY <1>4 DEF e

LEMMA NumberElements ==
  ASSUME NEW n \in Nat
  PROVE  [i \in 1..n |-> Scalar(i, 8)] \in Seq(Seq(Byte))
<1>. DEFINE eight == 8
<1>1. eight \in Nat
  OBVIOUS
<1>. HIDE DEF eight
<1>2. ASSUME NEW i \in 1..n
      PROVE  Scalar(i, eight) \in Seq(Byte)
  <2>1. i \in Int
    OBVIOUS
  <2>. QED
    BY ONLY <1>1, <2>1, ScalarBytes
<1>. DEFINE e(i) == Scalar(i, 8)
<1>3. \A i \in 1..n : e(i) \in Seq(Byte)
  BY <1>2 DEF eight
<1>. HIDE DEF e
<1>4. [i \in 1..n |-> e(i)] \in Seq(Seq(Byte))
  BY <1>3
<1>. QED
  BY <1>4 DEF e

LEMMA EightBytes ==
  ASSUME NEW x, NEW y, Twins(x, y), NEW elems \in Seq(Seq(Byte))
  PROVE  /\ Makes(x, y, CreateVector(x, elems, 8, 8),
                        CreateVector(y, elems, 8, 8))
         /\ Makes(x, y, CreateVectorOfStructs(x, elems, 8, 8),
                        CreateVectorOfStructs(y, elems, 8, 8))
<1>. DEFINE eight == 8
<1>1. eight \in Nat /\ eight \in Nat \ {0}
  OBVIOUS
<1>. HIDE DEF eight
<1>2. /\ Makes(x, y, CreateVector(x, elems, eight, eight),
                     CreateVector(y, elems, eight, eight))
      /\ Makes(x, y, CreateVectorOfStructs(x, elems, eight, eight),
                     CreateVectorOfStructs(y, elems, eight, eight))
  BY <1>1, TwinCreateVector
<1>. QED
  BY <1>2 DEF eight

LEMMA NumbersPlain ==
  ASSUME SessionInv, MakeNumbers
  PROVE  PlainStep
<1>. DEFINE n == Arg
            m1 == Numbers(b, n)
            m2 == Numbers(twin, n)
            elems == [i \in 1..n |-> Scalar(i, 8)]
<1>1. /\ todo # <<>> /\ Head(todo).op = "numbers"
      /\ Did(m1, m2, 0, Unmarked)
  BY NumbersDid
<1>2. n \in Nat
  BY <1>1, NextCall DEF Fitting, Arg
<1>3. elems \in Seq(Seq(Byte))
  BY <1>2, NumberElements
<1>4. Makes(b, twin, m1, m2)
  <2>. HIDE DEF elems
  <2>1. Makes(b, twin, CreateVector(b, elems, 8, 8),
                       CreateVector(twin, elems, 8, 8))
    BY <1>3, BuildersNow, EightBytes
  <2>. QED
    BY <2>1 DEF Numbers, elems
<1>. HIDE DEF m1, m2
<1>. QED
  BY <1>1, <1>4, NoArguments DEF Plain

LEMMA StructPlain ==
  ASSUME SessionInv, MakeStruct
  PROVE  PlainStep
<1>. DEFINE n == Arg
            m1 == OneStruct(b, n)
            m2 == OneStruct(twin, n)
            eight == 8
            e == Scalar(n, eight)
<1>1. /\ todo # <<>> /\ Head(todo).op = "struct"
      /\ Did(m1, m2, 0, Unmarked)
  BY StructDid
<1>2. n \in Int
  BY <1>1, NextCall DEF Fitting, Arg
<1>3. eight \in Nat /\ eight \in Nat \ {0}
  OBVIOUS
<1>. HIDE DEF eight
<1>4. e \in Seq(Byte)
  BY <1>2, <1>3, ScalarBytes
<1>5. Makes(b, twin, m1, m2)
  <2>. HIDE DEF e
  <2>1. Makes(b, twin, CreateStruct(b, e, eight), CreateStruct(twin, e, eight))
    BY <1>3, <1>4, BuildersNow, TwinCreateStruct
  <2>. QED
    BY <2>1 DEF OneStruct, e, eight
<1>. HIDE DEF m1, m2
<1>. QED
  BY <1>1, <1>5, NoArguments DEF Plain

LEMMA StructsPlain ==
  ASSUME SessionInv, MakeStructs
  PROVE  PlainStep
<1>. DEFINE n == Arg
            m1 == TwoStructs(b, n)
            m2 == TwoStructs(twin, n)
            two == 2
            elems == [i \in 1..two |-> Scalar(n, 8)]
<1>1. /\ todo # <<>> /\ Head(todo).op = "structs"
      /\ Did(m1, m2, 0, Unmarked)
  BY StructsDid
<1>2. n \in Int
  BY <1>1, NextCall DEF Fitting, Arg
<1>2a. two \in Nat
  OBVIOUS
<1>. HIDE DEF two
<1>3. elems \in Seq(Seq(Byte))
  BY <1>2, <1>2a, Structs
<1>4. Makes(b, twin, m1, m2)
  <2>. HIDE DEF elems
  <2>1. Makes(b, twin, CreateVectorOfStructs(b, elems, 8, 8),
                       CreateVectorOfStructs(twin, elems, 8, 8))
    BY <1>3, BuildersNow, EightBytes
  <2>. QED
    BY <2>1 DEF TwoStructs, elems, two
<1>. HIDE DEF m1, m2
<1>. QED
  BY <1>1, <1>4, NoArguments DEF Plain

(* The newest of the offsets that wait.                                    *)
LEMMA NewestOnes ==
  ASSUME SessionInv, NEW n \in Nat, n <= Len(waits)
  PROVE  /\ Newest(n) \in [1..n -> Int]
         /\ \A i \in 1..n :
              /\ (Len(waits) - n) + i \in 1..Len(waits)
              /\ (Len(waits) - n) + i > Len(waits) - n
              /\ Newest(n)[i] = waits[(Len(waits) - n) + i].off
<1>1. waits \in Seq(Offsets)
  BY DEF SessionInv, MakingInv
<1>2. Len(waits) \in Nat /\ \A i \in 1..Len(waits) : waits[i] \in Offsets
  BY <1>1, LenProperties, ElementOfSeq
<1>3. \A i \in 1..n : /\ (Len(waits) - n) + i \in 1..Len(waits)
                      /\ (Len(waits) - n) + i > Len(waits) - n
  BY <1>2
<1>4. \A i \in 1..n : waits[(Len(waits) - n) + i].off \in Int
  BY <1>2, <1>3 DEF Offsets
<1>. QED
  BY <1>3, <1>4 DEF Newest

(* A table that was made can be read.                                      *)
LEMMA MadeReadable ==
  ASSUME NEW x \in Builders, NEW T \in Names, NEW m,
         TableMade(x, m, FieldsOf(Tables[T])), Fits(m.b)
  PROVE  Readable(m.b, T, m.off)
<1>. DEFINE fs == FieldsOf(Tables[T])
<1>1. fs \in SUBSET Fields /\ TableMade(x, m, fs)
  BY NamedTables
<1>2. Size(m.b) < Huge
  BY DEF Fits
<1>. HIDE DEF fs
<1>3. ValidTable(DataOf(m.b), fs, m.off)
  BY <1>1, <1>2, MadeTableValid
<1>. QED
  BY <1>3 DEF Readable, fs

LEMMA KeepsTable ==
  ASSUME SessionInv, MakeTable
  PROVE  SessionInv'
<1>. DEFINE T == Head(todo).of
            n == Arg
            args == Newest(n)
            m1 == CreateTable(b, T, args)
            m2 == CreateTable(twin, T, args)
<1>1. /\ todo # <<>> /\ Head(todo).op = "table" /\ n <= Len(waits)
      /\ Did(m1, m2, n, T)
  BY TableDid
<1>2. T \in Names /\ n = Len(Tables[T])
  BY <1>1, NextCall DEF Fitting, Arg
<1>3. n \in Nat
  BY <1>2, TableFields
<1>4. args \in [1..n -> Int]
  <2>. HIDE DEF n
  <2>1. n \in Nat /\ n <= Len(waits)
    BY <1>1, <1>3
  <2>. QED
    BY ONLY <2>1, SessionInv, NewestOnes
<1>5. args \in [1..Len(Tables[T]) -> Int] /\ GoodTable(Tables[T])
  BY <1>2, <1>4, NamedTables
<1>. HIDE DEF args, T
<1>6. /\ Done(b, twin, m1, m2)
      /\ TableMade(b, m1, FieldsOf(Tables[T]))
  BY <1>5, BuildersNow, TwinCreateTable
<1>7. Fits(m1.b)
  BY <1>1 DEF Did
<1>. HIDE DEF m1, m2, n
<1>8. Readable(m1.b, T, m1.off)
  BY <1>2, <1>6, <1>7, BuildersNow, MadeReadable
<1>9. T \in Marks /\ Kept(m1.b, T, m1.off)
  BY <1>2, <1>8 DEF Marks, Kept
<1>10. Completes(m1)
  <2>1. Len(todo) = 1 /\ making.kind = "table" => T = topic
    BY <1>1, NextCall DEF T
  <2>. QED
    BY <1>8, <2>1 DEF Completes
<1>. QED
  BY <1>1, <1>3, <1>6, <1>9, <1>10, DidKeeps

LEMMA TablesPlain ==
  ASSUME SessionInv, MakeSortedTables
  PROVE  PlainStep
<1>. DEFINE T == Head(todo).of
            n == Arg
            args == Newest(n)
            m1 == SortedVector(b, T, args)
            m2 == SortedVector(twin, T, args)
<1>1. /\ todo # <<>> /\ Head(todo).op = "tables" /\ n <= Len(waits)
      /\ \A i \in 1..Len(waits) : i > Len(waits) - n => waits[i].of = T
      /\ Did(m1, m2, n, Unmarked)
  BY TablesDid
<1>2. T \in Targets /\ n \in Nat
  BY <1>1, NextCall DEF Fitting, Arg
<1>3. T \in Names /\ T # "" /\ KeyOf(T) \in 1..Len(Tables[T])
  BY <1>2, TargetNames, AllTables DEF Targets
<1>4. \A i \in 1..Len(waits) : Kept(b, waits[i].of, waits[i].off)
  BY <1>1 DEF SessionInv, MakingInv
<1>. HIDE DEF n
<1>5. /\ args \in [1..n -> Int]
      /\ \A i \in 1..n :
           /\ (Len(waits) - n) + i \in 1..Len(waits)
           /\ (Len(waits) - n) + i > Len(waits) - n
           /\ args[i] = waits[(Len(waits) - n) + i].off
  <2>1. n \in Nat /\ n <= Len(waits)
    BY <1>1, <1>2
  <2>. QED
    BY ONLY <2>1, SessionInv, NewestOnes
<1>. HIDE DEF args, T
<1>6. ASSUME NEW i \in 1..n
      PROVE  args[i] \in Sortable(b, T)
  <2>. DEFINE j == (Len(waits) - n) + i
  <2>1. /\ j \in 1..Len(waits) /\ j > Len(waits) - n
        /\ args[i] = waits[j].off
    BY <1>5
  <2>. HIDE DEF j
  <2>2. waits[j].of = T
    BY <1>1, <2>1
  <2>3. Kept(b, T, args[i])
    BY <1>4, <2>1, <2>2
  <2>4. Readable(b, T, args[i])
    BY <1>3, <2>3 DEF Kept
  <2>. QED
    BY <2>4, <1>5 DEF Readable, Sortable
<1>7. args \in Seq(Sortable(b, T))
  <2>. DEFINE S == Sortable(b, T)
  <2>1. n \in Nat /\ args \in [1..n -> S]
    BY <1>2, <1>5, <1>6
  <2>. HIDE DEF S
  <2>2. args \in Seq(S)
    BY ONLY <2>1, FunctionSeq
  <2>. QED
    BY <2>2 DEF S
<1>8. /\ SortTables(b, T, args) \in Seq(Int)
      /\ SortTables(b, T, args) = SortTables(twin, T, args)
  <2>1. GoodTable(Tables[T])
    BY <1>3, NamedTables
  <2>2. /\ Twins(b, twin) /\ DataOf(b) \in Seq(Byte)
        /\ KeyOf(T) \in 1..Len(Tables[T])
    BY <1>3, BuildersNow
  <2>. QED
    BY ONLY <1>7, <2>1, <2>2, TwinSortTables
<1>. DEFINE offs == SortTables(b, T, args)
<1>9. Makes(b, twin, m1, m2)
  <2>1. /\ offs \in Seq(Int) /\ m1 = CreateOffsets(b, offs)
        /\ m2 = CreateOffsets(twin, offs)
    BY <1>8 DEF SortedVector
  <2>. HIDE DEF offs, m1, m2
  <2>. QED
    BY <2>1, BuildersNow, TwinCreateOffsets
<1>. HIDE DEF m1, m2
<1>10. Done(b, twin, m1, m2) /\ Grows(b, m1.b) /\ ~m1.b.nested
  BY <1>9, BuildersNow, MakesDone DEF Makes
<1>11. Plain(Head(todo).op)
  BY <1>1 DEF Plain
<1>12. n \in Nat /\ Did(m1, m2, n, Unmarked)
  BY <1>1, <1>2
<1>. QED
  BY ONLY <1>10, <1>11, <1>12 DEF PlainStep

Suited(kind, steps) == kind = "table" => Ending(steps, topic)

LEMMA MakeKeeps ==
  ASSUME SessionInv, NEW kind \in ObjectKinds, NEW of \in Marks,
         NEW steps \in Seq(Calls), NEW val, Suited(kind, steps),
         Make(kind, of, steps, val)
  PROVE  SessionInv'
<1>1. /\ ~b.finished /\ Len(made) < MaxObjects[topic] /\ calls < MaxCalls
      /\ making' = [kind |-> kind, of |-> of, val |-> val]
      /\ todo' = steps /\ waits' = <<>> /\ calls' = calls + 1
      /\ b' = b /\ twin' = twin /\ topic' = topic /\ made' = made
  BY DEF Make, Legal
<1>2. making'.kind = kind /\ making'.of = of
  BY <1>1
<1>3. TwinsInv'
  <2>1. /\ Twins(b, twin) /\ Sound(b) /\ DataOf(b) \in Seq(Byte)
        /\ topic \in Topics /\ calls \in Nat
    BY DEF SessionInv, TwinsInv
  <2>2. MaxCalls \in Nat
    BY SessionAssumption
  <2>3. calls' \in Nat /\ calls' <= MaxCalls
    BY <1>1, <2>1, <2>2
  <2>. QED
    BY <1>1, <2>1, <2>3 DEF TwinsInv
<1>4. MakingInv'
  <2>1. waits' \in Seq(Offsets) /\ Len(waits') = 0
    BY <1>1, EmptySeq
  <2>2. ASSUME NEW i \in 1..Len(waits')
        PROVE  Kept(b', waits'[i].of, waits'[i].off)
    <3>1. FALSE
      BY <2>1
    <3>. QED
      BY <3>1
  <2>3. ~b'.finished /\ Len(made') < MaxObjects[topic']
    BY <1>1
  <2>4. making'.kind = "table" => Ends(topic)'
    BY <1>1, <1>2 DEF Suited, Ending, Ends
  <2>. QED
    BY <1>1, <1>2, <2>1, <2>2, <2>3, <2>4 DEF MakingInv
<1>5. MadeInv'
  <2>1. Known /\ Len(made) <= MaxObjects[topic] /\ TablesReadable
    BY <1>1 DEF SessionInv, MadeInv
  <2>2. Known'
    BY <1>1, <2>1 DEF Known
  <2>3. TablesReadable'
    BY <1>1, <2>1 DEF TablesReadable
  <2>4. ~b'.finished /\ Len(made') <= MaxObjects[topic']
    BY <1>1, <2>1
  <2>. QED
    BY ONLY <2>2, <2>3, <2>4 DEF MadeInv
<1>. QED
  BY <1>3, <1>4, <1>5 DEF SessionInv

(* One call makes the object.                                              *)
LEMMA OneCall ==
  ASSUME SessionInv, NEW kind \in ObjectKinds \ {"table"},
         NEW steps \in Seq(Calls), NEW val, Make(kind, Unmarked, steps, val)
  PROVE  SessionInv'
<1>1. Unmarked \in Marks
  BY DEF Unmarked, Marks
<1>2. kind \in ObjectKinds /\ Suited(kind, steps)
  BY DEF Suited
<1>. QED
  BY <1>1, <1>2, MakeKeeps

LEMMA TextBytes ==
  ASSUME NEW str \in Texts
  PROVE  str \in Seq(Byte)
<1>1. Texts \subseteq Seq(0..255)
  BY ONLY SessionAssumption DEF SessionAssumption
<1>2. 0..255 = Byte
  BY ONLY SMT DEF Byte
<1>3. Texts \subseteq Seq(Byte)
  BY ONLY <1>1, <1>2, Zenon
<1>4. str \in Texts
  OBVIOUS
<1>. QED
  BY ONLY <1>3, <1>4

LEMMA KeepsAddText ==
  ASSUME SessionInv, NEW str \in Texts,
         \/ AddString(str) \/ AddSharedString(str) \/ AddBytes(str)
         \/ AddUninitialized(str) \/ AddNested(str)
  PROVE  SessionInv'
<1>1. str \in Seq(Byte)
  BY TextBytes
<1>2. \A op \in {"string", "shared", "bytes", "nested", "uninitialized"} :
        Step(op, Unmarked, str) \in Seq(Calls)
  BY <1>1, BytesCall DEF Unmarked
<1>3. CASE AddString(str)
  <2>. DEFINE kind == "string"
              steps == Step("string", Unmarked, str)
              val == C(str)
  <2>1. /\ kind \in ObjectKinds \ {"table"} /\ steps \in Seq(Calls)
        /\ Make(kind, Unmarked, steps, val)
    BY <1>2, <1>3 DEF ObjectKinds, AddString, Unmarked
  <2>. HIDE DEF kind, steps, val
  <2>. QED
    BY ONLY <2>1, SessionInv, OneCall
<1>4. CASE AddSharedString(str)
  <2>. DEFINE kind == "shared"
              steps == Step("shared", Unmarked, str)
              val == C(str)
  <2>1. /\ kind \in ObjectKinds \ {"table"} /\ steps \in Seq(Calls)
        /\ Make(kind, Unmarked, steps, val)
    BY <1>2, <1>4 DEF ObjectKinds, AddSharedString, Unmarked
  <2>. HIDE DEF kind, steps, val
  <2>. QED
    BY ONLY <2>1, SessionInv, OneCall
<1>5. CASE AddBytes(str)
  <2>. DEFINE kind == "bytes"
              steps == Step("bytes", Unmarked, str)
  <2>1. /\ kind \in ObjectKinds \ {"table"} /\ steps \in Seq(Calls)
        /\ Make(kind, Unmarked, steps, str)
    BY <1>2, <1>5 DEF ObjectKinds, AddBytes, Unmarked
  <2>. HIDE DEF kind, steps
  <2>. QED
    BY ONLY <2>1, SessionInv, OneCall
<1>6. CASE AddUninitialized(str)
  <2>. DEFINE kind == "bytes"
              steps == Step("uninitialized", Unmarked, str)
  <2>1. /\ kind \in ObjectKinds \ {"table"} /\ steps \in Seq(Calls)
        /\ Make(kind, Unmarked, steps, str)
    BY <1>2, <1>6 DEF ObjectKinds, AddUninitialized, Unmarked
  <2>. HIDE DEF kind, steps
  <2>. QED
    BY ONLY <2>1, SessionInv, OneCall
<1>7. CASE AddNested(str)
  <2>. DEFINE kind == "nested"
              steps == Step("nested", Unmarked, str)
  <2>1. /\ kind \in ObjectKinds \ {"table"} /\ steps \in Seq(Calls)
        /\ Make(kind, Unmarked, steps, str)
    BY <1>2, <1>7 DEF ObjectKinds, AddNested, Unmarked
  <2>. HIDE DEF kind, steps
  <2>. QED
    BY ONLY <2>1, SessionInv, OneCall
<1>. QED
  BY <1>3, <1>4, <1>5, <1>6, <1>7

LEMMA KeepsAddNumbers ==
  ASSUME SessionInv, NEW n \in 0..1, AddNumbers(n)
  PROVE  SessionInv'
<1>. DEFINE kind == "numbers"
            op == "numbers"
            steps == Step(op, Unmarked, n)
            val == [i \in 1..n |-> i]
<1>1. op \in {"numbers", "struct", "structs"} /\ n \in Nat
  OBVIOUS
<1>2. /\ kind \in ObjectKinds \ {"table"}
      /\ Make(kind, Unmarked, steps, val)
  BY DEF ObjectKinds, AddNumbers, Unmarked
<1>. HIDE DEF kind, op
<1>3. steps \in Seq(Calls)
  BY <1>1, NumberCall DEF Unmarked
<1>. HIDE DEF steps, val
<1>. QED
  BY ONLY <1>2, <1>3, SessionInv, OneCall

LEMMA KeepsAddStrings ==
  ASSUME SessionInv, AddVectorOfStrings(<<Key(2), <<>>, Key(1)>>)
  PROVE  SessionInv'
<1>. DEFINE strs == <<Key(2), <<>>, Key(1)>>
            kind == "strings"
            steps == Step("strings", Unmarked, strs)
            val == [i \in 1..Len(strs) |-> C(strs[i])]
<1>1. strs \in Seq(Seq(Byte))
  <2>1. Key(2) \in Seq(Byte) /\ Key(1) \in Seq(Byte) /\ <<>> \in Seq(Byte)
    BY KeyBytes, NoBytes DEF Keys
  <2>. QED
    BY <2>1
<1>2. AddVectorOfStrings(strs)
  OBVIOUS
<1>. HIDE DEF strs
<1>3. steps \in Seq(Calls)
  BY <1>1, StringsCall DEF Unmarked
<1>4. /\ kind \in ObjectKinds \ {"table"}
      /\ Make(kind, Unmarked, steps, val)
  BY <1>2 DEF ObjectKinds, AddVectorOfStrings, Unmarked
<1>. HIDE DEF steps, val, kind
<1>. QED
  BY ONLY <1>3, <1>4, SessionInv, OneCall

LEMMA KeepsAddStruct ==
  ASSUME SessionInv, AddStructObject \/ AddStructs
  PROVE  SessionInv'
<1>. DEFINE n == 513
<1>1. n \in Nat
  OBVIOUS
<1>. HIDE DEF n
<1>2. CASE AddStructObject
  <2>. DEFINE kind == "struct"
              op == "struct"
              steps == Step(op, Unmarked, n)
              val == Scalar(n, 8)
  <2>1. op \in {"numbers", "struct", "structs"}
    OBVIOUS
  <2>2. /\ kind \in ObjectKinds \ {"table"}
        /\ Make(kind, Unmarked, steps, val)
    BY <1>2 DEF ObjectKinds, AddStructObject, Unmarked, n
  <2>. HIDE DEF kind, op
  <2>3. steps \in Seq(Calls)
    BY <1>1, <2>1, NumberCall DEF Unmarked
  <2>. HIDE DEF steps, val
  <2>. QED
    BY ONLY <2>2, <2>3, SessionInv, OneCall
<1>3. CASE AddStructs
  <2>. DEFINE kind == "numbers"
              op == "structs"
              steps == Step(op, Unmarked, n)
              val == <<n, n>>
  <2>1. op \in {"numbers", "struct", "structs"}
    OBVIOUS
  <2>2. /\ kind \in ObjectKinds \ {"table"}
        /\ Make(kind, Unmarked, steps, val)
    BY <1>3 DEF ObjectKinds, AddStructs, Unmarked, n
  <2>. HIDE DEF kind, op
  <2>3. steps \in Seq(Calls)
    BY <1>1, <2>1, NumberCall DEF Unmarked
  <2>. HIDE DEF steps, val
  <2>. QED
    BY ONLY <2>2, <2>3, SessionInv, OneCall
<1>. QED
  BY <1>2, <1>3

LEMMA KeepsAddObject ==
  ASSUME SessionInv, AddObject
  PROVE  SessionInv'
<1>1. CASE \E str \in Texts :
             \/ AddString(str) \/ AddSharedString(str) \/ AddBytes(str)
             \/ AddUninitialized(str) \/ AddNested(str)
  BY <1>1, KeepsAddText
<1>2. CASE \E n \in 0..1 : AddNumbers(n)
  BY <1>2, KeepsAddNumbers
<1>3. CASE AddVectorOfStrings(<<Key(2), <<>>, Key(1)>>)
  BY <1>3, KeepsAddStrings
<1>4. CASE AddStructObject \/ AddStructs
  BY <1>4, KeepsAddStruct
<1>. QED
  BY <1>1, <1>2, <1>3, <1>4 DEF AddObject

LEMMA KeepsAddTable ==
  ASSUME SessionInv, NEW full \in BOOLEAN, AddTable(full)
  PROVE  SessionInv'
<1>. DEFINE kind == "table"
            one == 1
            T == topic
            steps == Steps(T, full, one)
            val == Value(T, full, one)
<1>1. one \in Keys /\ T \in Names
  BY BuildersNow DEF Keys
<1>2. /\ kind \in ObjectKinds /\ Make(kind, T, steps, val)
  BY DEF ObjectKinds, AddTable
<1>3. T \in Marks
  BY <1>1 DEF Marks
<1>. HIDE DEF one, T
<1>4. Ending(steps, T)
  BY <1>1, StepsEnd
<1>5. steps \in Seq(Calls)
  BY <1>4 DEF Ending
<1>. HIDE DEF steps, val
<1>6. Suited(kind, steps)
  BY <1>4 DEF Suited, T
<1>. HIDE DEF kind
<1>. QED
  BY ONLY <1>2, <1>3, <1>5, <1>6, SessionInv, MakeKeeps

LEMMA KeepsAddSorted ==
  ASSUME SessionInv, NEW ks \in KeyLists, AddSortedTables(ks)
  PROVE  SessionInv'
<1>. DEFINE kind == "sorted"
            T == topic
            n == Len(ks)
            no == FALSE
            parts == [i \in 1..n |-> Steps(T, no, ks[i])]
            last == Step("tables", T, n)
            steps == FlattenSeq(parts) \o last
<1>1. ks \in Seq(Keys)
  BY SessionAssumption
<1>2. n \in Nat /\ \A i \in 1..n : ks[i] \in Keys
  BY <1>1, LenProperties, ElementOfSeq
<1>3. T \in {"KeyValue", "EnumVal"} /\ Make(kind, T, steps, ks)
  BY DEF AddSortedTables
<1>4. kind \in ObjectKinds /\ Suited(kind, steps)
  BY DEF ObjectKinds, Suited
<1>5. T \in Targets
  BY <1>3 DEF Targets
<1>6. T \in Names /\ T \in Marks
  BY <1>5, TargetNames DEF Marks
<1>7. no \in BOOLEAN
  OBVIOUS
<1>. HIDE DEF kind, T, n, no
<1>8. last \in Seq(Calls)
  BY <1>2, <1>5, TablesCall
<1>9. \A i \in 1..n : Steps(T, no, ks[i]) \in Seq(Calls)
  BY <1>2, <1>6, <1>7, StepsEnd DEF Ending
<1>10. parts \in Seq(Seq(Calls))
  BY <1>2, <1>9, IsASeq
<1>. HIDE DEF parts, last
<1>11. FlattenSeq(parts) \in Seq(Calls)
  BY ONLY <1>10, FlattenType
<1>12. steps \in Seq(Calls)
  BY <1>8, <1>11
<1>. HIDE DEF steps
<1>. QED
  BY ONLY <1>3, <1>4, <1>6, <1>12, SessionInv, MakeKeeps

(* The first object of some kinds.                                         *)
LEMMA LeastOf ==
  ASSUME NEW S, S \in SUBSET Nat, S # {}
  PROVE  Min(S) \in S
<1>1. \E x \in S : \A y \in S : x <= y
  BY LeastNumber
<1>. QED
  BY <1>1 DEF Min

FirstOf(kinds) == SelectInSeq(made, LAMBDA m : m.kind \in kinds)

LEMMA FirstIndex ==
  ASSUME NEW kinds
  PROVE  FirstOf(kinds) = 0 \/ FirstOf(kinds) \in 1..Len(made)
<1>. DEFINE I == {i \in 1..Len(made) : made[i].kind \in kinds}
<1>1. FirstOf(kinds) = IF I # {} THEN Min(I) ELSE 0
  BY DEF FirstOf, SelectInSeq
<1>2. I \in SUBSET Nat /\ I \in SUBSET (1..Len(made))
  OBVIOUS
<1>. HIDE DEF I
<1>3. I # {} => Min(I) \in I
  BY <1>2, LeastOf
<1>. QED
  BY <1>1, <1>2, <1>3

LEMMA OffOf ==
  ASSUME SessionInv, NEW i, i = 0 \/ i \in 1..Len(made)
  PROVE  Step("have", "", IF i = 0 THEN 0 ELSE made[i].off) \in Seq(Calls)
<1>. DEFINE o == IF i = 0 THEN 0 ELSE made[i].off
<1>1. o \in Int
  <2>1. CASE i = 0
    BY <2>1
  <2>2. CASE i # 0
    <3>1. PICK V : made \in Seq(Objects(V))
      BY DEF SessionInv, MadeInv, Known
    <3>2. i \in 1..Len(made)
      BY <2>2
    <3>3. made[i] \in Objects(V)
      BY <3>1, <3>2, ElementOfSeq
    <3>4. made[i].off \in Int
      BY <3>3 DEF Objects
    <3>. QED
      BY <2>2, <3>4
  <2>. QED
    BY <2>1, <2>2
<1>. HIDE DEF o
<1>2. Step("have", "", o) \in Seq(Calls)
  BY <1>1, HaveCall
<1>. QED
  BY <1>2 DEF o

LEMMA MessageCalls ==
  ASSUME NEW p \in Seq(Calls), NEW q \in Seq(Calls), NEW r \in Seq(Calls),
         NEW s \in Seq(Calls), NEW T \in Names
  PROVE  Ending(p \o q \o r \o s \o Step("table", T, Len(Tables[T])), T)
<1>. DEFINE a == p \o q \o r \o s
            n == Len(Tables[T])
            c == [op |-> "table", of |-> T, arg |-> n]
<1>1. c \in Calls /\ Step("table", T, n) = <<c>>
  BY TableCall
<1>2. c.op = "table" /\ c.of = T
  OBVIOUS
<1>3. p \o q \in Seq(Calls)
  OBVIOUS
<1>4. (p \o q) \o r \in Seq(Calls)
  BY ONLY <1>3, r \in Seq(Calls), ConcatProperties
<1>5. a \in Seq(Calls)
  BY ONLY <1>4, s \in Seq(Calls), ConcatProperties
<1>. HIDE DEF a, c
<1>6. Ending(a \o <<c>>, T)
  BY ONLY <1>1, <1>2, <1>5, EndingAfter
<1>. QED
  BY <1>1, <1>6 DEF a

LEMMA MessageLength ==
  "RpcMessage" \in Names /\ Len(Tables["RpcMessage"]) = 4
<1>1. Tables["RpcMessage"] = RpcMessageTable /\ "RpcMessage" \in Names
  BY DEF Tables, Names
<1>. QED
  BY <1>1, RpcMessageTableFields

HaveOff(i) == Step("have", "", IF i = 0 THEN 0 ELSE made[i].off)

LEMMA KeepsAddMessage ==
  ASSUME SessionInv, NEW type \in 0..1, AddMessage(type, 513 * type)
  PROVE  SessionInv'
<1>. DEFINE id == 513 * type
            kind == "table"
            T == topic
            method == FirstOf({"string", "shared"})
            payload == FirstOf({"bytes", "nested"})
            p == Step("have", "", type)
            q == Step("have", "", id)
            r == HaveOff(method)
            s == HaveOff(payload)
            last == Step("table", T, 4)
            steps == p \o q \o r \o s \o last
            Val(i) == IF i = 0 THEN <<>> ELSE <<made[i].val>>
            val == <<type, id, Val(method), Val(payload)>>
<1>1. T = "RpcMessage" /\ Make(kind, T, steps, val)
  BY DEF AddMessage, FirstOf, HaveOff
<1>2. id \in Int /\ type \in Int
  OBVIOUS
<1>3. p \in Seq(Calls) /\ q \in Seq(Calls)
  <2>. HIDE DEF id
  <2>. QED
    BY <1>2, HaveCall
<1>4. r \in Seq(Calls)
  <2>. HIDE DEF method
  <2>1. method = 0 \/ method \in 1..Len(made)
    BY FirstIndex DEF method
  <2>. QED
    BY <2>1, OffOf DEF HaveOff
<1>5. s \in Seq(Calls)
  <2>. HIDE DEF payload
  <2>1. payload = 0 \/ payload \in 1..Len(made)
    BY FirstIndex DEF payload
  <2>. QED
    BY <2>1, OffOf DEF HaveOff
<1>6. T \in Names /\ 4 = Len(Tables[T])
  BY <1>1, MessageLength
<1>7. T \in Marks
  BY <1>6 DEF Marks
<1>8. last = Step("table", T, Len(Tables[T]))
  BY <1>6
<1>. HIDE DEF p, q, r, s, val, T
<1>9. Ending(p \o q \o r \o s \o Step("table", T, Len(Tables[T])), T)
  BY ONLY <1>3, <1>4, <1>5, <1>6, MessageCalls
<1>. HIDE DEF last
<1>10. Ending(steps, T)
  BY <1>8, <1>9
<1>. HIDE DEF steps
<1>11. steps \in Seq(Calls) /\ kind \in ObjectKinds /\ Suited(kind, steps)
  BY <1>10 DEF Ending, ObjectKinds, Suited, T
<1>. HIDE DEF kind
<1>. QED
  BY ONLY <1>1, <1>7, <1>11, SessionInv, MakeKeeps

(* The table that a buffer is finished with is one that was made.          *)
LEMMA GreatestOf ==
  ASSUME NEW n \in Nat, NEW S \in SUBSET (1..n), S # {}
  PROVE  Max(S) \in S
<1>. DEFINE D == {n - i : i \in S}
<1>1. D \in SUBSET Nat /\ D # {}
  <2>1. \A i \in S : n - i \in Nat
    OBVIOUS
  <2>2. PICK i : i \in S
    OBVIOUS
  <2>3. n - i \in D
    BY <2>2
  <2>4. D # {}
    BY <2>3
  <2>5. D \in SUBSET Nat
    BY <2>1
  <2>. QED
    BY <2>4, <2>5
<1>2. PICK m \in D : \A y \in D : m <= y
  BY <1>1, LeastNumber
<1>3. PICK x \in S : m = n - x
  BY <1>2
<1>4. \A y \in S : x >= y
  <2>1. ASSUME NEW y \in S
        PROVE  x >= y
    <3>1. n - y \in D
      OBVIOUS
    <3>2. n - x <= n - y
      BY <1>2, <1>3, <3>1
    <3>3. x \in Int /\ y \in Int
      OBVIOUS
    <3>. QED
      BY <3>2, <3>3
  <2>. QED
    BY <2>1
<1>. QED
  BY <1>3, <1>4 DEF Max

TableIndexes(s) == {i \in 1..Len(s) : IsTable(s[i])}

LEMMA RootUnfolded ==
  RootIndex = IF TableIndexes(made) # {} THEN Max(TableIndexes(made)) ELSE 0
BY DEF RootIndex, SelectLastInSeq, TableIndexes

LEMMA RootIsTable ==
  ASSUME Len(made) \in Nat, RootIndex # 0
  PROVE  RootIndex \in 1..Len(made) /\ IsTable(made[RootIndex])
<1>. DEFINE S == TableIndexes(made)
            n == Len(made)
<1>1. S # {} /\ RootIndex = Max(S)
  BY RootUnfolded
<1>2. n \in Nat /\ S \in SUBSET (1..n)
  BY DEF TableIndexes
<1>3. \A i \in S : i \in 1..Len(made) /\ IsTable(made[i])
  BY DEF TableIndexes
<1>. HIDE DEF S, n
<1>4. Max(S) \in S
  BY ONLY <1>1, <1>2, GreatestOf
<1>. QED
  BY <1>1, <1>3, <1>4

LEMMA KnownParts ==
  ASSUME Known
  PROVE  /\ Len(made) \in Nat
         /\ \A i \in 1..Len(made) : made[i].off \in Int
<1>1. PICK V : made \in Seq(Objects(V))
  BY DEF Known
<1>. DEFINE S == Objects(V)
<1>2. \A o \in S : o.off \in Int
  BY DEF Objects
<1>. HIDE DEF S
<1>3. Len(made) \in Nat /\ \A i \in 1..Len(made) : made[i] \in S
  BY <1>1, LenProperties, ElementOfSeq DEF S
<1>. QED
  BY <1>2, <1>3

LEMMA KeepsFinish ==
  ASSUME SessionInv, NEW id \in {<<>>, Identifier}, NEW p \in BOOLEAN,
         FinishBuffer(id, p)
  PROVE  SessionInv'
<1>. DEFINE root == RootObject.off
            x == Finish(b, root, id, p)
            y == Finish(twin, root, id, p)
<1>1. /\ ~b.finished /\ todo = <<>> /\ RootIndex # 0
      /\ b' = x /\ twin' = y
      /\ topic' = topic /\ making' = making /\ todo' = todo
      /\ waits' = waits /\ made' = made /\ calls' = calls
  BY DEF FinishBuffer, Legal
<1>2. Known /\ Len(made) <= MaxObjects[topic] /\ TablesReadable
  BY <1>1 DEF SessionInv, MadeInv
<1>3. RootIndex \in 1..Len(made) /\ IsTable(made[RootIndex])
  BY <1>1, <1>2, KnownParts, RootIsTable
<1>4. root \in Int /\ Readable(b, topic, root)
  BY <1>2, <1>3, KnownParts DEF TablesReadable, RootObject
<1>5. id \in Seq(Byte)
  <2>1. <<66, 70, 66, 83>> \in Seq(Byte)
    <3>1. 66 \in Byte /\ 70 \in Byte /\ 83 \in Byte
      BY DEF Byte
    <3>. QED
      BY ONLY <3>1
  <2>. QED
    BY <2>1, NoBytes DEF Identifier
<1>. HIDE DEF root
<1>6. /\ Twins(x, y) /\ Sound(x) /\ Adds(b, x) /\ x.finished
  BY <1>4, <1>5, BuildersNow, TwinFinish
<1>. HIDE DEF x, y
<1>7. DataOf(x) \in Seq(Byte)
  BY <1>6, BuildersNow, AddsBytes
<1>8. Readable(x, topic, root)
  BY <1>4, <1>6, BuildersNow, ReadableOn
<1>9. TwinsInv'
  BY <1>1, <1>6, <1>7 DEF TwinsInv, SessionInv
<1>10. MakingInv'
  <2>1. todo \in Seq(Calls) /\ waits \in Seq(Offsets)
    BY DEF SessionInv, MakingInv
  <2>. QED
    BY <1>1, <2>1 DEF MakingInv
<1>11. MadeInv'
  <2>1. Known'
    BY <1>1, <1>2 DEF Known
  <2>2. RootIndex' = RootIndex /\ RootObject'.off = root
    <3>1. made' = made
      BY <1>1
    <3>2. RootIndex' = RootIndex
      BY ONLY <3>1 DEF RootIndex, SelectLastInSeq, IsTable
    <3>. QED
      BY ONLY <3>1, <3>2 DEF RootObject, root
  <2>3. RootReadable'
    BY <1>1, <1>8, <2>2 DEF RootReadable
  <2>4. b'.finished /\ Len(made') <= MaxObjects[topic']
    BY <1>1, <1>2, <1>6
  <2>. QED
    BY ONLY <2>1, <2>3, <2>4 DEF MadeInv
<1>. QED
  BY <1>9, <1>10, <1>11 DEF SessionInv

(* A new start.                                                            *)
LEMMA KeepsStart ==
  ASSUME SessionInv, NEW x, StartAgain(x), Twins(x, NewTwin(x)), Sound(x),
         DataOf(x) = <<>>, ~x.finished
  PROVE  SessionInv'
<1>1. /\ b' = x /\ twin' = NewTwin(x) /\ todo' = <<>> /\ waits' = <<>>
      /\ made' = <<>> /\ topic' = topic /\ calls' = calls + 1
      /\ calls < MaxCalls
  BY DEF StartAgain
<1>2. TwinsInv'
  <2>1. topic \in Topics /\ calls \in Nat /\ MaxCalls \in Nat
    BY SessionAssumption DEF SessionInv, TwinsInv
  <2>2. calls' \in Nat /\ calls' <= MaxCalls
    BY <1>1, <2>1
  <2>. QED
    BY <1>1, <2>1, <2>2, NoBytes DEF TwinsInv
<1>3. MakingInv'
  <2>1. todo' \in Seq(Calls) /\ waits' \in Seq(Offsets)
    BY <1>1, EmptySeq
  <2>. QED
    BY <1>1, <2>1 DEF MakingInv
<1>4. MadeInv'
  <2>1. Known'
    <3>1. made' \in Seq(Objects({}))
      BY <1>1, EmptySeq
    <3>. QED
      BY ONLY <3>1 DEF Known
  <2>2. Len(made') = 0
    BY <1>1, EmptySeq
  <2>3. TablesReadable'
    BY <2>2 DEF TablesReadable
  <2>4. MaxObjects[topic'] \in Nat
    <3>1. topic \in Topics
      BY DEF SessionInv, TwinsInv
    <3>. QED
      BY <1>1, <3>1, SessionAssumption
  <2>5. Len(made') <= MaxObjects[topic']
    BY ONLY <2>2, <2>4
  <2>6. ~b'.finished
    BY <1>1
  <2>. QED
    BY ONLY <2>1, <2>3, <2>5, <2>6 DEF MadeInv
<1>. QED
  BY <1>2, <1>3, <1>4 DEF SessionInv

LEMMA KeepsClear ==
  ASSUME SessionInv, ClearBuilder
  PROVE  SessionInv'
<1>. DEFINE x == Clear(b)
<1>1. /\ Twins(x, NewTwin(x)) /\ Sound(x) /\ DataOf(x) = <<>> /\ ~x.finished
  BY BuildersNow, CleanStart
<1>2. StartAgain(x)
  BY DEF ClearBuilder
<1>. HIDE DEF x
<1>. QED
  BY <1>1, <1>2, KeepsStart

LEMMA KeepsRelease ==
  ASSUME SessionInv, ReleaseBuilder
  PROVE  SessionInv'
<1>. DEFINE x == Release(b)
<1>1. /\ Twins(x, NewTwin(x)) /\ Sound(x) /\ DataOf(x) = <<>> /\ ~x.finished
  BY BuildersNow, ReleasedStart
<1>2. StartAgain(x)
  BY DEF ReleaseBuilder
<1>. HIDE DEF x
<1>. QED
  BY <1>1, <1>2, KeepsStart

LEMMA KeepsAbandon ==
  ASSUME SessionInv, AbandonTable
  PROVE  SessionInv'
<1>. DEFINE z == Abandoned(b)
            x == Clear(z)
<1>1. z \in Builders
  BY BuildersNow, AbandonedStart
<1>2. StartAgain(x)
  BY DEF AbandonTable, Abandoned
<1>. HIDE DEF z
<1>3. /\ Twins(x, NewTwin(x)) /\ Sound(x) /\ DataOf(x) = <<>> /\ ~x.finished
  BY <1>1, CleanStart
<1>. HIDE DEF x
<1>. QED
  BY <1>2, <1>3, KeepsStart

(* The beginning.                                                          *)
LEMMA SessionBegins ==
  ASSUME Init
  PROVE  SessionInv
<1>1. PICK initial \in InitialSizes, o \in Options :
         /\ b = WithOptions(NewBuilder(initial), o.force, o.dedup)
         /\ twin = WithOptions(NewBuilder(TwinSize), o.force, o.dedup)
  BY DEF Init, WithOptions
<1>2. /\ topic \in Topics /\ todo = <<>> /\ waits = <<>> /\ made = <<>>
      /\ calls = 0
  BY DEF Init
<1>3. initial \in Nat /\ o.force \in BOOLEAN /\ o.dedup \in BOOLEAN
  BY SessionAssumption
<1>. DEFINE force == o.force
            dedup == o.dedup
<1>. HIDE DEF force, dedup
<1>4. /\ initial \in Nat /\ force \in BOOLEAN /\ dedup \in BOOLEAN
  BY <1>3 DEF force, dedup
<1>5. /\ b = WithOptions(NewBuilder(initial), force, dedup)
      /\ twin = WithOptions(NewBuilder(TwinSize), force, dedup)
  BY <1>1 DEF force, dedup
<1>6. /\ Twins(b, twin) /\ Sound(b) /\ DataOf(b) = <<>> /\ ~b.finished
  BY <1>4, <1>5, FirstBuilder
<1>7. TwinsInv
  <2>1. MaxCalls \in Nat
    BY SessionAssumption
  <2>2. calls \in Nat /\ calls <= MaxCalls
    BY <1>2, <2>1
  <2>. QED
    BY <1>2, <1>6, <2>2, NoBytes DEF TwinsInv
<1>8. MakingInv
  <2>1. todo \in Seq(Calls) /\ waits \in Seq(Offsets)
    BY <1>2, EmptySeq
  <2>. QED
    BY <1>2, <2>1 DEF MakingInv
<1>9. MadeInv
  <2>1. Known
    <3>1. made \in Seq(Objects({}))
      BY <1>2, EmptySeq
    <3>. QED
      BY ONLY <3>1 DEF Known
  <2>2. Len(made) = 0
    BY <1>2, EmptySeq
  <2>3. TablesReadable
    BY <2>2 DEF TablesReadable
  <2>4. MaxObjects[topic] \in Nat
    BY <1>2, SessionAssumption
  <2>5. Len(made) <= MaxObjects[topic]
    BY ONLY <2>2, <2>4
  <2>. QED
    BY ONLY <1>6, <2>1, <2>3, <2>5 DEF MadeInv
<1>. QED
  BY <1>7, <1>8, <1>9 DEF SessionInv

(* What a change of the root's value does to the objects.                  *)
Revalued(s, r, i) == [s EXCEPT ![r].val[i] = 9]

LEMMA RevaluedObjects ==
  ASSUME NEW V, NEW s \in Seq(Objects(V)), NEW r \in 1..Len(s), NEW i
  PROVE  LET t == Revalued(s, r, i)
         IN  /\ \E U : t \in Seq(Objects(U))
             /\ Len(t) = Len(s)
             /\ \A j \in 1..Len(s) :
                  t[j].kind = s[j].kind /\ t[j].off = s[j].off
<1>. DEFINE n == Len(s)
            o == [s[r] EXCEPT !.val[i] = 9]
            v == o.val
            W == V \cup {v}
            t == Revalued(s, r, i)
            R == Objects(W)
<1>1. n \in Nat /\ \A j \in 1..n : s[j] \in Objects(V)
  BY LenProperties, ElementOfSeq
<1>2. s[r] \in Objects(V)
  BY <1>1
<1>3. /\ o = [kind |-> s[r].kind, of |-> s[r].of, off |-> s[r].off, val |-> v]
      /\ o.kind = s[r].kind /\ o.off = s[r].off /\ o.of = s[r].of
  BY <1>2 DEF Objects
<1>4. t = [j \in 1..n |-> IF j = r THEN o ELSE s[j]]
  BY <1>1 DEF Revalued
<1>. HIDE DEF t, o, W
<1>5. o \in R
  BY <1>2, <1>3 DEF Objects, W
<1>6. \A j \in 1..n : s[j] \in R
  BY <1>1 DEF Objects, W
<1>. HIDE DEF R, n
<1>7. \A j \in 1..n : (IF j = r THEN o ELSE s[j]) \in R
  BY <1>5, <1>6
<1>8. t \in Seq(R) /\ Len(t) = n
  <2>1. t \in [1..n -> R]
    BY <1>4, <1>7
  <2>2. n \in Nat
    BY <1>1
  <2>. QED
    BY <2>1, <2>2, FunctionSeq, LenProperties
<1>9. \A j \in 1..n : t[j].kind = s[j].kind /\ t[j].off = s[j].off
  BY <1>3, <1>4
<1>10. \E U : t \in Seq(Objects(U))
  <2>1. t \in Seq(Objects(W))
    BY <1>8 DEF R
  <2>. QED
    BY ONLY <2>1
<1>. QED
  BY <1>8, <1>9, <1>10 DEF t, n

LEMMA KeepsMutate ==
  ASSUME SessionInv, NEW i \in 1..Len(Tables[topic]), MutateField(i)
  PROVE  SessionInv'
<1>. DEFINE root == RootObject.off
            T == topic
            f == Tables[T][i]
            fs == FieldsOf(Tables[T])
            value == 9
            x == Changed(b, root, f, value)
            y == Changed(twin, root, f, value)
<1>1. /\ b.finished /\ calls < MaxCalls
      /\ b' = x /\ twin' = y
      /\ topic' = topic /\ making' = making /\ todo' = todo
      /\ waits' = waits /\ calls' = calls + 1
      /\ made' = made \/ made' = Revalued(made, RootIndex, i)
  BY DEF MutateField, Changed, Revalued
<1>2. Known /\ Len(made) <= MaxObjects[topic] /\ RootReadable
  BY <1>1 DEF SessionInv, MadeInv
<1>3. todo = <<>> /\ todo \in Seq(Calls) /\ waits \in Seq(Offsets)
  BY <1>1 DEF SessionInv, MakingInv
<1>4. /\ RootIndex # 0 /\ RootIndex \in 1..Len(made)
      /\ ValidTable(DataOf(b), fs, root)
  BY <1>2, KnownParts, RootIsTable DEF RootReadable, Readable
<1>5. fs \in SUBSET Fields /\ f \in fs /\ value \in Int
  <2>1. fs \in SUBSET Fields
    BY BuildersNow, NamedTables
  <2>. QED
    BY <2>1 DEF FieldsOf
<1>6. /\ Twins(b, twin) /\ Sound(b) /\ DataOf(b) \in Seq(Byte)
  BY BuildersNow
<1>. HIDE DEF root, f, fs, value
<1>7. /\ Twins(x, y) /\ Sound(x) /\ DataOf(x) \in Seq(Byte)
      /\ ValidTable(DataOf(x), fs, root) /\ x.finished = b.finished
  BY ONLY <1>4, <1>5, <1>6, TwinChanged
<1>. HIDE DEF x, y
<1>8. Readable(x, topic, root)
  BY <1>7 DEF Readable, fs
<1>9. TwinsInv'
  <2>1. topic \in Topics /\ calls \in Nat /\ MaxCalls \in Nat
    BY SessionAssumption DEF SessionInv, TwinsInv
  <2>2. calls' \in Nat /\ calls' <= MaxCalls
    BY <1>1, <2>1
  <2>. QED
    BY <1>1, <1>7, <2>1, <2>2 DEF TwinsInv
<1>10. MakingInv'
  BY <1>1, <1>3 DEF MakingInv
<1>11. /\ Known' /\ Len(made') = Len(made)
       /\ \A j \in 1..Len(made) : /\ made'[j].kind = made[j].kind
                                  /\ made'[j].off = made[j].off
  <2>1. CASE made' = made
    <3>1. Known'
      BY <1>2, <2>1 DEF Known
    <3>. QED
      BY <2>1, <3>1
  <2>2. CASE made' = Revalued(made, RootIndex, i)
    <3>1. PICK V : made \in Seq(Objects(V))
      BY <1>2 DEF Known
    <3>. DEFINE s == made
                r == RootIndex
    <3>2. s \in Seq(Objects(V)) /\ r \in 1..Len(s)
      BY <1>4, <3>1
    <3>. HIDE DEF s, r
    <3>3. LET t == Revalued(s, r, i)
          IN  /\ \E U : t \in Seq(Objects(U))
              /\ Len(t) = Len(s)
              /\ \A j \in 1..Len(s) : /\ t[j].kind = s[j].kind
                                      /\ t[j].off = s[j].off
      BY ONLY <3>2, RevaluedObjects
    <3>. QED
      BY <2>2, <3>3 DEF Known, s, r
  <2>. QED
    BY <1>1, <2>1, <2>2
<1>12. RootIndex' = RootIndex /\ RootObject'.off = root
  <2>1. TableIndexes(made') = TableIndexes(made)
    BY <1>11 DEF TableIndexes, IsTable
  <2>2. RootIndex' = IF TableIndexes(made') # {} THEN Max(TableIndexes(made'))
                     ELSE 0
    BY DEF RootIndex, SelectLastInSeq, TableIndexes, IsTable
  <2>3. RootIndex' = RootIndex
    BY ONLY <2>1, <2>2, RootUnfolded
  <2>. QED
    BY <1>4, <1>11, <2>3 DEF RootObject, root
<1>13. MadeInv'
  <2>1. RootReadable'
    BY <1>1, <1>4, <1>8, <1>12 DEF RootReadable
  <2>2. b'.finished /\ Len(made') <= MaxObjects[topic']
    BY <1>1, <1>2, <1>7, <1>11
  <2>. QED
    BY ONLY <1>11, <2>1, <2>2 DEF MadeInv
<1>. QED
  BY <1>9, <1>10, <1>13 DEF SessionInv

LEMMA PlainCalls ==
  ASSUME SessionInv, LibraryCall, ~(MakeSharedString \/ MakeTable)
  PROVE  PlainStep
BY StringPlain, BytesPlain, NestedPlain, UninitializedPlain, NumbersPlain,
   StringsPlain, StructPlain, StructsPlain, TablesPlain, HavePlain
   DEF LibraryCall

LEMMA SessionStutters ==
  ASSUME SessionInv, UNCHANGED vars
  PROVE  SessionInv'
<1>1. /\ b' = b /\ twin' = twin /\ topic' = topic /\ making' = making
      /\ todo' = todo /\ waits' = waits /\ made' = made /\ calls' = calls
  BY DEF vars
<1>2. TwinsInv'
  BY <1>1 DEF SessionInv, TwinsInv
<1>3. MakingInv'
  BY <1>1 DEF SessionInv, MakingInv, Ends
<1>4. MadeInv'
  <2>1. Known <=> Known'
    BY <1>1 DEF Known
  <2>2. TablesReadable <=> TablesReadable'
    BY <1>1 DEF TablesReadable, IsTable
  <2>3. RootIndex' = RootIndex
    BY <1>1 DEF RootIndex, SelectLastInSeq, IsTable
  <2>4. RootReadable <=> RootReadable'
    BY <1>1, <2>3 DEF RootReadable, RootObject
  <2>. QED
    BY <1>1, <2>1, <2>2, <2>4 DEF SessionInv, MadeInv
<1>. QED
  BY <1>2, <1>3, <1>4 DEF SessionInv

(* The inductive invariant: between two calls the builder and its twin in  *)
(* the other block hold the same, every offset in the pool, the scratch    *)
(* pad and the list of objects is one of data made before, what the calls  *)
(* left to do name is made by then, and every table made can be read.      *)
THEOREM SessionInvariant == Spec => []SessionInv
<1>1. Init => SessionInv
  BY SessionBegins
<1>2. SessionInv /\ [Next]_vars => SessionInv'
  <2>. SUFFICES ASSUME SessionInv, [Next]_vars
                PROVE  SessionInv'
    OBVIOUS
  <2>1. CASE LibraryCall
    <3>1. CASE MakeSharedString \/ MakeTable
      BY <3>1, KeepsSharedString, KeepsTable
    <3>2. CASE ~(MakeSharedString \/ MakeTable)
      BY <2>1, <3>2, PlainCalls, KeepsPlain
    <3>. QED
      BY <3>1, <3>2
  <2>2. CASE AddObject
    BY <2>2, KeepsAddObject
  <2>3. CASE \E full \in BOOLEAN : AddTable(full)
    BY <2>3, KeepsAddTable
  <2>4. CASE \E type \in 0..1 : AddMessage(type, 513 * type)
    BY <2>4, KeepsAddMessage
  <2>5. CASE \E ks \in KeyLists : AddSortedTables(ks)
    BY <2>5, KeepsAddSorted
  <2>6. CASE \E id \in {<<>>, Identifier}, p \in BOOLEAN : FinishBuffer(id, p)
    BY <2>6, KeepsFinish
  <2>7. CASE \E i \in 1..Len(Tables[topic]) : MutateField(i)
    BY <2>7, KeepsMutate
  <2>8. CASE ClearBuilder \/ ReleaseBuilder \/ AbandonTable
    BY <2>8, KeepsClear, KeepsRelease, KeepsAbandon
  <2>9. CASE UNCHANGED vars
    BY <2>9, SessionStutters
  <2>. QED
    BY <2>1, <2>2, <2>3, <2>4, <2>5, <2>6, <2>7, <2>8, <2>9 DEF Next
<1>. QED
  BY <1>1, <1>2, PTL DEF Spec

(* No call leaves the builder in the middle of a table or vector, its      *)
(* block stays well formed and its reserved size aligned, for every size   *)
(* the block starts with.                                                  *)
THEOREM SessionTypeOK == Spec => []TypeOK
<1>1. SessionInv => TypeOK
  <2>. SUFFICES ASSUME SessionInv
                PROVE  TypeOK
    OBVIOUS
  <2>1. b.v \in Blocks
    BY BuildersNow, BuilderParts
  <2>2. WellFormed(b.v) /\ Reserved(b.v) % BufferMinAlign = 0
    BY <2>1 DEF Blocks, Vectors
  <2>3. ~b.nested /\ b.fields = 0
    BY BuildersNow DEF Sound
  <2>4. Len(made) <= MaxObjects[topic] /\ calls <= MaxCalls
    BY DEF SessionInv, TwinsInv, MadeInv
  <2>. QED
    BY <2>2, <2>3, <2>4 DEF TypeOK
<1>. QED
  BY <1>1, SessionInvariant, PTL

(* What a builder holds depends on the calls made since it was new or      *)
(* cleared only: not on the block it started with, on how often it moved,  *)
(* or on what was built in it before.                                      *)
THEOREM SessionOnlyTheCallsCount == Spec => []OnlyTheCallsCount
<1>1. SessionInv => OnlyTheCallsCount
  <2>. SUFFICES ASSUME SessionInv
                PROVE  OnlyTheCallsCount
    OBVIOUS
  <2>1. Twins(b, twin)
    BY BuildersNow
  <2>2. Data(b.v) = Data(twin.v)
    BY <2>1 DEF Twins, DataOf
  <2>3. Vtables(b) = Vtables(twin)
    <3>1. PICK n \in Nat : Len(PadOf(b)) = 4 * n
      BY BuildersNow DEF Sound
    <3>2. /\ b \in Builders /\ twin \in Builders /\ PadOf(b) = PadOf(twin)
          /\ b.fields = 0 /\ twin.fields = 0
      BY <2>1, BuildersNow DEF Twins, SameRest, Sound
    <3>3. Vtables(b) = [i \in 1..n |-> ReadU(PadOf(b), 4 * (i - 1), 4)]
      BY <3>1, <3>2, VtablesRead
    <3>4. Vtables(twin) = [i \in 1..n |-> ReadU(PadOf(twin), 4 * (i - 1), 4)]
      BY <3>1, <3>2, VtablesRead
    <3>. QED
      BY ONLY <3>2, <3>3, <3>4
  <2>4. b.minalign = twin.minalign
    BY <2>1 DEF Twins, SameRest
  <2>. QED
    BY <2>2, <2>3, <2>4 DEF OnlyTheCallsCount
<1>. QED
  BY <1>1, SessionInvariant, PTL

-----------------------------------------------------------------------------
(* What is stored once.                                                    *)
IsShared(m) == m.kind = "shared"

(* The builder x knows the vtable of every table of s and the contents of  *)
(* every shared string.                                                    *)
TablesKnown(x, s) ==
  \A i \in 1..Len(s) : IsTable(s[i]) => VtableKnown(x, s[i].off)

SharedKnown(x, s) ==
  \A i \in 1..Len(s) : IsShared(s[i]) =>
    \E str \in Seq(Byte) : s[i].val = C(str) /\ TextKnown(x, s[i].off, str)

StoredIn(x, s) ==
  /\ VtablesDiffer(x) /\ TextsDiffer(x)
  /\ TablesKnown(x, s) /\ SharedKnown(x, s)

SharedOnce(s) ==
  \A i, j \in 1..Len(s) :
    IsShared(s[i]) /\ IsShared(s[j]) /\ s[i].val = s[j].val
      => s[i].off = s[j].off

(* The call that makes a shared string is the only one of its object.      *)
SharedNext ==
  todo # <<>> /\ IsShared(making) =>
    Len(todo) = 1 /\ Head(todo).op = "shared" /\ making.val = C(Arg)

StoredInv ==
  /\ SharedNext /\ SharedOnce(made)
  /\ ~b.finished => StoredIn(b, made)

LEMMA SameText ==
  ASSUME NEW str \in Seq(Byte), NEW t \in Seq(Byte), C(str) = C(t)
  PROVE  str = t
<1>. DEFINE zero == 0
<1>1. zero \in Byte
  BY DEF Byte
<1>2. Append(str, zero) = Append(t, zero)
  BY DEF C
<1>. HIDE DEF zero
<1>3. /\ Len(str) \in Nat /\ Len(t) \in Nat
      /\ Len(Append(str, zero)) = Len(str) + 1
      /\ Len(Append(t, zero)) = Len(t) + 1
      /\ \A i \in 1..Len(str) : Append(str, zero)[i] = str[i]
      /\ \A i \in 1..Len(t) : Append(t, zero)[i] = t[i]
  BY <1>1, AppendProperties, LenProperties
<1>4. Len(str) = Len(t) /\ \A i \in 1..Len(str) : str[i] = t[i]
  BY <1>2, <1>3
<1>. QED
  BY <1>4

LEMMA StoredShared ==
  ASSUME NEW x, NEW s, StoredIn(x, s)
  PROVE  SharedOnce(s)
<1>. SUFFICES ASSUME NEW i \in 1..Len(s), NEW j \in 1..Len(s),
                     IsShared(s[i]), IsShared(s[j]), s[i].val = s[j].val
              PROVE  s[i].off = s[j].off
  BY DEF SharedOnce
<1>1. /\ TextsDiffer(x)
      /\ \A k \in 1..Len(s) : IsShared(s[k]) =>
           \E str \in Seq(Byte) :
             s[k].val = C(str) /\ TextKnown(x, s[k].off, str)
  BY DEF StoredIn, SharedKnown
<1>2. PICK str \in Seq(Byte) :
        s[i].val = C(str) /\ TextKnown(x, s[i].off, str)
  BY <1>1
<1>3. PICK t \in Seq(Byte) : s[j].val = C(t) /\ TextKnown(x, s[j].off, t)
  BY <1>1
<1>4. str = t
  BY <1>2, <1>3, SameText
<1>. QED
  BY <1>1, <1>2, <1>3, <1>4 DEF TextKnown, TextsDiffer

(* What is known stays known.                                              *)
LEMMA StoredMore ==
  ASSUME NEW x, NEW y, NEW s, StoredIn(x, s), Continues(x, y),
         VtablesDiffer(y), TextsDiffer(y)
  PROVE  StoredIn(y, s)
<1>1. TablesKnown(y, s)
  BY KnownStays DEF StoredIn, TablesKnown
<1>2. SharedKnown(y, s)
  <2>. SUFFICES ASSUME NEW i \in 1..Len(s), IsShared(s[i])
                PROVE  \E str \in Seq(Byte) :
                         s[i].val = C(str) /\ TextKnown(y, s[i].off, str)
    BY DEF SharedKnown
  <2>1. PICK str \in Seq(Byte) :
          s[i].val = C(str) /\ TextKnown(x, s[i].off, str)
    BY DEF StoredIn, SharedKnown
  <2>2. TextKnown(y, s[i].off, str)
    BY <2>1, KnownStays
  <2>. QED
    BY <2>1, <2>2
<1>. QED
  BY <1>1, <1>2 DEF StoredIn

(* The object e is known to the builder x.                                 *)
ObjectKnown(x, e) ==
  /\ IsTable(e) => VtableKnown(x, e.off)
  /\ IsShared(e) =>
       \E str \in Seq(Byte) : e.val = C(str) /\ TextKnown(x, e.off, str)

LEMMA StoredAppend ==
  ASSUME NEW x, NEW R, NEW s \in Seq(R), NEW e \in R,
         StoredIn(x, s), ObjectKnown(x, e)
  PROVE  StoredIn(x, Append(s, e))
<1>. DEFINE t == Append(s, e)
            n == Len(s)
<1>1. /\ n \in Nat /\ Len(t) = n + 1 /\ t[n + 1] = e
      /\ \A i \in 1..n : t[i] = s[i]
  BY AppendProperties, LenProperties
<1>2. \A i \in 1..Len(s) : ObjectKnown(x, s[i])
  BY DEF StoredIn, TablesKnown, SharedKnown, ObjectKnown
<1>. HIDE DEF t
<1>3. ASSUME NEW i \in 1..Len(t)
      PROVE  ObjectKnown(x, t[i])
  <2>1. i \in 1..n \/ i = n + 1
    BY <1>1
  <2>. QED
    BY <1>1, <1>2, <2>1 DEF n
<1>4. TablesKnown(x, t) /\ SharedKnown(x, t)
  BY ONLY <1>3 DEF TablesKnown, SharedKnown, ObjectKnown
<1>. QED
  BY <1>4 DEF StoredIn, t

(* A builder without data stores nothing.                                  *)
LEMMA FreshStored ==
  ASSUME NEW w, Content(w, <<>>, <<>>), NEW force, NEW dedup
  PROVE  StoredIn(Fresher(w, force, dedup), <<>>)
<1>. DEFINE x == Fresher(w, force, dedup)
<1>1. PadOf(x) = <<>> /\ x.pool = {}
  BY DEF Content, PadOf, Fresher
<1>. HIDE DEF x
<1>2. Len(<<>>) = 0
  BY EmptySeq
<1>3. VtablesDiffer(x)
  <2>. SUFFICES ASSUME NEW n \in Nat, Len(PadOf(x)) = 4 * n,
                       NEW i \in 1..n
                PROVE  FALSE
    BY DEF VtablesDiffer
  <2>1. n = 0
    BY <1>1, <1>2
  <2>. QED
    BY <2>1
<1>4. TextsDiffer(x)
  BY <1>1 DEF TextsDiffer
<1>. QED
  BY <1>2, <1>3, <1>4 DEF StoredIn, TablesKnown, SharedKnown, x

(* The object that the last call makes, from what it gives.                *)
NewObject(m) == [kind |-> making.kind, of |-> making.of, off |-> m.off,
                 val |-> making.val]

Knows(m) == Len(todo) = 1 => ObjectKnown(m.b, NewObject(m))

LEMMA SeqWider ==
  ASSUME NEW S, NEW s \in Seq(S), NEW e
  PROVE  s \in Seq(S \cup {e})
<1>. DEFINE R == S \cup {e}
<1>1. \A i \in 1..Len(s) : s[i] \in R
  BY ElementOfSeq
<1>. HIDE DEF R
<1>2. s \in Seq(R)
  BY <1>1
<1>. QED
  BY <1>2 DEF R

(* A call after which the builder knows what it made.                      *)
LEMMA DidStored ==
  ASSUME SessionInv, StoredInv, NEW m1, NEW m2, NEW n, NEW of,
         Did(m1, m2, n, of), Continues(b, m1.b), VtablesDiffer(m1.b),
         TextsDiffer(m1.b), Knows(m1)
  PROVE  StoredInv'
<1>. DEFINE e == NewObject(m1)
            z == m1.b
<1>1. /\ todo # <<>> /\ b' = z /\ todo' = Tail(todo) /\ making' = making
      /\ made' = IF Len(todo) > 1 THEN made ELSE Append(made, e)
  BY DEF Did, NewObject
<1>2. todo \in Seq(Calls) /\ ~b.finished
  BY <1>1 DEF SessionInv, MakingInv
<1>3. PICK V : made \in Seq(Objects(V))
  BY <1>2 DEF SessionInv, MadeInv, Known
<1>4. /\ Len(todo) \in Nat /\ Len(todo) # 0
      /\ Tail(todo) # <<>> => Len(todo) > 1
  BY <1>1, <1>2, TailCalls
<1>5. StoredIn(z, made)
  BY <1>2, StoredMore DEF StoredInv
<1>6. Len(todo) = 1 => ObjectKnown(z, e)
  BY DEF Knows
<1>. HIDE DEF e, z
<1>7. StoredIn(z, made')
  <2>1. CASE Len(todo) > 1
    <3>1. made' = made
      BY <1>1, <2>1
    <3>. QED
      BY <1>5, <3>1
  <2>2. CASE ~(Len(todo) > 1)
    <3>. DEFINE R == Objects(V) \cup {e}
    <3>1. Len(todo) = 1
      <4>. DEFINE k == Len(todo)
      <4>1. k \in Nat /\ k # 0 /\ ~(k > 1)
        BY <1>4, <2>2
      <4>. HIDE DEF k
      <4>2. k = 1
        BY ONLY <4>1
      <4>. QED
        BY ONLY <4>2 DEF k
    <3>2. made \in Seq(R) /\ e \in R /\ ObjectKnown(z, e)
      BY <1>3, <1>6, <3>1, SeqWider
    <3>. HIDE DEF R
    <3>3. StoredIn(z, Append(made, e))
      BY ONLY <1>5, <3>2, StoredAppend
    <3>4. made' = Append(made, e)
      BY <1>1, <2>2
    <3>. QED
      BY <3>3, <3>4
  <2>. QED
    BY <2>1, <2>2
<1>8. SharedOnce(made')
  BY <1>7, StoredShared
<1>9. SharedNext'
  <2>. SUFFICES ASSUME todo' # <<>>, IsShared(making')
                PROVE  FALSE
    BY DEF SharedNext
  <2>1. Len(todo) > 1
    BY <1>1, <1>4
  <2>2. Len(todo) = 1
    BY <1>1 DEF StoredInv, SharedNext
  <2>. QED
    BY <2>1, <2>2
<1>10. b' = z
  BY <1>1
<1>. QED
  BY ONLY <1>7, <1>8, <1>9, <1>10 DEF StoredInv, StoredIn, SharedOnce,
     TablesKnown, SharedKnown, VtablesDiffer, TextsDiffer, VtableKnown,
     TextKnown, IsTable, IsShared

LEMMA StoredPlain ==
  ASSUME SessionInv, StoredInv, PlainStep
  PROVE  StoredInv'
<1>1. PICK m1, m2 : \E n \in Nat :
         /\ Did(m1, m2, n, Unmarked) /\ Done(b, twin, m1, m2)
         /\ Grows(b, m1.b) /\ ~m1.b.nested /\ Plain(Head(todo).op)
  BY DEF PlainStep
<1>2. PICK n \in Nat : Did(m1, m2, n, Unmarked)
  BY <1>1
<1>3. todo # <<>> /\ ~b.finished
  BY <1>2 DEF Did, SessionInv, MakingInv
<1>4. Continues(b, m1.b) /\ StoredIn(b, made)
  BY <1>1, <1>3, BuildersNow, GrowsContinues DEF StoredInv
<1>5. VtablesDiffer(m1.b) /\ TextsDiffer(m1.b)
  <2>1. /\ m1.b \in Builders /\ Adds(b, m1.b) /\ m1.b.dedup = b.dedup
        /\ PadOf(m1.b) = PadOf(b) /\ m1.b.pool = b.pool
    BY <1>1 DEF Grows, Remembers
  <2>. QED
    BY <1>4, <2>1, BuildersNow, VtablesStay, TextsStay DEF StoredIn
<1>6. Knows(m1)
  <2>. SUFFICES ASSUME Len(todo) = 1
                PROVE  ObjectKnown(m1.b, NewObject(m1))
    BY DEF Knows
  <2>1. making.kind # "table"
    BY <1>1, <1>3, NextCall DEF Plain
  <2>2. making.kind # "shared"
    BY <1>1, <1>3 DEF StoredInv, SharedNext, IsShared, Plain
  <2>. QED
    BY <2>1, <2>2 DEF ObjectKnown, NewObject, IsTable, IsShared
<1>. QED
  BY <1>2, <1>4, <1>5, <1>6, DidStored

(* Create<table>().                                                        *)
LEMMA StoredTable ==
  ASSUME SessionInv, StoredInv, MakeTable
  PROVE  StoredInv'
<1>. DEFINE T == Head(todo).of
            n == Arg
            args == Newest(n)
            m1 == CreateTable(b, T, args)
            m2 == CreateTable(twin, T, args)
            fs == FieldsOf(Tables[T])
<1>1. /\ todo # <<>> /\ Head(todo).op = "table" /\ n <= Len(waits)
      /\ Did(m1, m2, n, T)
  BY TableDid
<1>2. T \in Names /\ n = Len(Tables[T])
  BY <1>1, NextCall DEF Fitting, Arg
<1>3. n \in Nat
  BY <1>2, TableFields
<1>4. args \in [1..n -> Int]
  <2>. HIDE DEF n
  <2>1. n \in Nat /\ n <= Len(waits)
    BY <1>1, <1>3
  <2>. QED
    BY ONLY <2>1, SessionInv, NewestOnes
<1>5. /\ args \in [1..Len(Tables[T]) -> Int] /\ GoodTable(Tables[T])
      /\ fs \in SUBSET Fields
  BY <1>2, <1>4, NamedTables
<1>. HIDE DEF args, T
<1>6. TableMade(b, m1, fs)
  BY <1>5, BuildersNow, TwinCreateTable
<1>7. Size(m1.b) < Huge
  BY <1>1 DEF Did, Fits
<1>. HIDE DEF m1, m2, n, fs
<1>8. ~b.finished
  BY <1>1 DEF SessionInv, MakingInv
<1>9. Sound(b) /\ VtablesDiffer(b) /\ TextsDiffer(b)
  BY <1>8, BuildersNow DEF StoredInv, StoredIn
<1>10. /\ Continues(b, m1.b) /\ VtableKnown(m1.b, m1.off)
       /\ VtablesDiffer(m1.b) /\ TextsDiffer(m1.b)
  BY ONLY <1>5, <1>6, <1>7, <1>9, VtableStoredOnce
<1>11. Knows(m1)
  <2>1. making.kind # "shared"
    BY <1>1 DEF StoredInv, SharedNext, IsShared
  <2>. QED
    BY <1>10, <2>1 DEF Knows, ObjectKnown, NewObject, IsShared
<1>. QED
  BY <1>1, <1>10, <1>11, DidStored

(* CreateSharedString().                                                   *)
LEMMA StoredSharedString ==
  ASSUME SessionInv, StoredInv, MakeSharedString
  PROVE  StoredInv'
<1>. DEFINE s == Arg
            m1 == CreateSharedString(b, s)
            m2 == CreateSharedString(twin, s)
<1>1. /\ todo # <<>> /\ Head(todo).op = "shared"
      /\ Did(m1, m2, 0, Unmarked)
  BY SharedStringDid
<1>2. s \in Seq(Byte)
  BY <1>1, BytesGiven
<1>3. ~b.finished
  BY <1>1 DEF SessionInv, MakingInv
<1>4. Sound(b) /\ VtablesDiffer(b) /\ TextsDiffer(b)
  BY <1>3, BuildersNow DEF StoredInv, StoredIn
<1>5. m1 = CreateSharedString(b, s)
  OBVIOUS
<1>. HIDE DEF m1, m2
<1>6. /\ Continues(b, m1.b) /\ VtablesDiffer(m1.b) /\ TextsDiffer(m1.b)
      /\ TextKnown(m1.b, m1.off, s)
  BY ONLY <1>2, <1>4, <1>5, TextStoredOnce
<1>7. Knows(m1)
  <2>. SUFFICES ASSUME Len(todo) = 1
                PROVE  ObjectKnown(m1.b, NewObject(m1))
    BY DEF Knows
  <2>1. making.kind # "table"
    BY <1>1, NextCall
  <2>2. making.kind = "shared" => making.val = C(s)
    BY <1>1 DEF StoredInv, SharedNext, IsShared
  <2>. QED
    BY <1>2, <1>6, <2>1, <2>2 DEF ObjectKnown, NewObject, IsTable, IsShared
<1>. QED
  BY <1>1, <1>6, <1>7, DidStored

(* What the client decides.                                                *)
LEMMA StoredMake ==
  ASSUME StoredInv, NEW kind, NEW of, NEW steps, NEW val,
         Make(kind, of, steps, val), kind # "shared"
  PROVE  StoredInv'
<1>1. /\ ~b.finished /\ b' = b /\ made' = made
      /\ making' = [kind |-> kind, of |-> of, val |-> val]
  BY DEF Make, Legal
<1>2. SharedNext'
  <2>1. ~IsShared(making')
    BY <1>1 DEF IsShared
  <2>. QED
    BY <2>1 DEF SharedNext, IsShared
<1>3. StoredIn(b, made) /\ SharedOnce(made)
  BY <1>1 DEF StoredInv
<1>. QED
  BY <1>1, <1>2, <1>3 DEF StoredInv, StoredIn, SharedOnce,
     TablesKnown, SharedKnown, VtablesDiffer, TextsDiffer, VtableKnown,
     TextKnown, IsTable, IsShared

LEMMA StoredMakeShared ==
  ASSUME StoredInv, NEW str, AddSharedString(str)
  PROVE  StoredInv'
<1>. DEFINE c == [op |-> "shared", of |-> Unmarked, arg |-> str]
<1>1. /\ ~b.finished /\ b' = b /\ made' = made
      /\ making' = [kind |-> "shared", of |-> Unmarked, val |-> C(str)]
      /\ todo' = <<c>>
  BY DEF AddSharedString, Make, Legal, Step, Unmarked
<1>2. c.op = "shared" /\ c.arg = str
  OBVIOUS
<1>. HIDE DEF c
<1>3. Len(todo') = 1 /\ Head(todo') = c
  BY <1>1
<1>4. SharedNext'
  BY <1>1, <1>2, <1>3 DEF SharedNext, IsShared, Arg, C
<1>5. StoredIn(b, made) /\ SharedOnce(made)
  BY <1>1 DEF StoredInv
<1>. QED
  BY <1>1, <1>4, <1>5 DEF StoredInv, StoredIn, SharedOnce,
     TablesKnown, SharedKnown, VtablesDiffer, TextsDiffer, VtableKnown,
     TextKnown, IsTable, IsShared

LEMMA StoredAddText ==
  ASSUME StoredInv, NEW str,
         \/ AddString(str) \/ AddSharedString(str) \/ AddBytes(str)
         \/ AddUninitialized(str) \/ AddNested(str)
  PROVE  StoredInv'
<1>1. CASE AddString(str)
  <2>1. Make("string", "", Step("string", "", str), C(str))
    BY <1>1 DEF AddString
  <2>. QED
    BY <2>1, StoredMake
<1>2. CASE AddSharedString(str)
  BY <1>2, StoredMakeShared
<1>3. CASE AddBytes(str)
  <2>1. Make("bytes", "", Step("bytes", "", str), str)
    BY <1>3 DEF AddBytes
  <2>. QED
    BY <2>1, StoredMake
<1>4. CASE AddUninitialized(str)
  <2>1. Make("bytes", "", Step("uninitialized", "", str), str)
    BY <1>4 DEF AddUninitialized
  <2>. QED
    BY <2>1, StoredMake
<1>5. CASE AddNested(str)
  <2>1. Make("nested", "", Step("nested", "", str), str)
    BY <1>5 DEF AddNested
  <2>. QED
    BY <2>1, StoredMake
<1>. QED
  BY <1>1, <1>2, <1>3, <1>4, <1>5

LEMMA StoredAddObject ==
  ASSUME StoredInv, AddObject
  PROVE  StoredInv'
<1>1. CASE \E str \in Texts :
             \/ AddString(str) \/ AddSharedString(str) \/ AddBytes(str)
             \/ AddUninitialized(str) \/ AddNested(str)
  BY <1>1, StoredAddText
<1>2. CASE \E n \in 0..1 : AddNumbers(n)
  <2>1. PICK n : AddNumbers(n)
    BY <1>2
  <2>2. Make("numbers", "", Step("numbers", "", n), [i \in 1..n |-> i])
    BY <2>1 DEF AddNumbers
  <2>. QED
    BY <2>2, StoredMake
<1>3. CASE AddVectorOfStrings(<<Key(2), <<>>, Key(1)>>)
  <2>. DEFINE strs == <<Key(2), <<>>, Key(1)>>
  <2>1. AddVectorOfStrings(strs)
    BY <1>3
  <2>. HIDE DEF strs
  <2>2. Make("strings", "", Step("strings", "", strs),
             [i \in 1..Len(strs) |-> C(strs[i])])
    BY <2>1 DEF AddVectorOfStrings
  <2>. QED
    BY <2>2, StoredMake
<1>4. CASE AddStructObject
  <2>1. Make("struct", "", Step("struct", "", 513), Scalar(513, 8))
    BY <1>4 DEF AddStructObject
  <2>. QED
    BY <2>1, StoredMake
<1>5. CASE AddStructs
  <2>1. Make("numbers", "", Step("structs", "", 513), <<513, 513>>)
    BY <1>5 DEF AddStructs
  <2>. QED
    BY <2>1, StoredMake
<1>. QED
  BY <1>1, <1>2, <1>3, <1>4, <1>5 DEF AddObject

LEMMA StoredAddTable ==
  ASSUME StoredInv, NEW full, AddTable(full)
  PROVE  StoredInv'
<1>1. Make("table", topic, Steps(topic, full, 1), Value(topic, full, 1))
  BY DEF AddTable
<1>. QED
  BY <1>1, StoredMake

LEMMA StoredAddMessage ==
  ASSUME StoredInv, NEW type, NEW id, AddMessage(type, id)
  PROVE  StoredInv'
<1>. DEFINE method == FirstOf({"string", "shared"})
            payload == FirstOf({"bytes", "nested"})
            steps == Step("have", "", type) \o Step("have", "", id)
                       \o HaveOff(method) \o HaveOff(payload)
                       \o Step("table", topic, 4)
            Val(i) == IF i = 0 THEN <<>> ELSE <<made[i].val>>
            val == <<type, id, Val(method), Val(payload)>>
<1>1. Make("table", topic, steps, val)
  BY DEF AddMessage, FirstOf, HaveOff
<1>. HIDE DEF steps, val
<1>. QED
  BY <1>1, StoredMake

LEMMA StoredAddSorted ==
  ASSUME StoredInv, NEW ks, AddSortedTables(ks)
  PROVE  StoredInv'
<1>. DEFINE steps == FlattenSeq([i \in 1..Len(ks) |->
                                   Steps(topic, FALSE, ks[i])])
                       \o Step("tables", topic, Len(ks))
<1>1. Make("sorted", topic, steps, ks)
  BY DEF AddSortedTables
<1>. HIDE DEF steps
<1>. QED
  BY <1>1, StoredMake

(* A buffer is finished.                                                   *)
LEMMA StoredFinish ==
  ASSUME SessionInv, StoredInv, NEW id \in {<<>>, Identifier},
         NEW p \in BOOLEAN, FinishBuffer(id, p)
  PROVE  StoredInv'
<1>1. todo' = <<>> /\ made' = made
  BY DEF FinishBuffer
<1>2. b'.finished
  BY DEF FinishBuffer, Finish
<1>3. SharedNext' /\ SharedOnce(made)
  BY <1>1 DEF StoredInv, SharedNext
<1>. QED
  BY <1>1, <1>2, <1>3 DEF StoredInv, SharedOnce, IsShared

(* A field of the root changes, which is a table.                          *)
LEMMA StoredMutate ==
  ASSUME SessionInv, StoredInv, NEW i \in 1..Len(Tables[topic]),
         MutateField(i)
  PROVE  StoredInv'
<1>1. /\ b.finished /\ todo' = todo
      /\ made' = made \/ made' = Revalued(made, RootIndex, i)
  BY DEF MutateField, Revalued
<1>2. todo = <<>> /\ Known /\ RootReadable
  BY <1>1 DEF SessionInv, MakingInv, MadeInv
<1>3. b'.finished
  BY <1>1, BuildersNow DEF MutateField, Builders
<1>4. SharedNext'
  BY <1>1, <1>2 DEF SharedNext
<1>5. SharedOnce(made)
  BY DEF StoredInv
<1>6. SharedOnce(made')
  <2>1. CASE made' = made
    BY <1>5, <2>1
  <2>2. CASE made' = Revalued(made, RootIndex, i)
    <3>1. PICK V : made \in Seq(Objects(V))
      BY <1>2 DEF Known
    <3>. DEFINE s == made
                r == RootIndex
                t == Revalued(s, r, i)
    <3>2. s \in Seq(Objects(V)) /\ r \in 1..Len(s) /\ IsTable(s[r])
      BY <1>2, <3>1, KnownParts, RootIsTable DEF RootReadable
    <3>. HIDE DEF s, r
    <3>3. /\ Len(t) = Len(s)
          /\ \A j \in 1..Len(s) : t[j].kind = s[j].kind /\ t[j].off = s[j].off
      BY ONLY <3>2, RevaluedObjects
    <3>4. \A j \in 1..Len(s) : j # r => t[j] = s[j]
      BY <3>2 DEF Revalued
    <3>. HIDE DEF t
    <3>5. \A j \in 1..Len(s) : IsShared(t[j]) => t[j] = s[j]
      BY <3>2, <3>3, <3>4 DEF IsTable, IsShared
    <3>6. SharedOnce(t)
      BY <1>5, <3>3, <3>5 DEF SharedOnce, s
    <3>. QED
      BY <2>2, <3>6 DEF t, s, r
  <2>. QED
    BY <1>1, <2>1, <2>2
<1>. QED
  BY <1>3, <1>4, <1>6 DEF StoredInv, SharedOnce, IsShared

(* A new start.                                                            *)
LEMMA StoredStart ==
  ASSUME NEW x, StartAgain(x), StoredIn(x, <<>>)
  PROVE  StoredInv'
<1>1. b' = x /\ todo' = <<>> /\ made' = <<>>
  BY DEF StartAgain
<1>2. StoredIn(x, made')
  BY <1>1
<1>3. SharedOnce(made') /\ SharedNext'
  BY <1>1, <1>2, StoredShared DEF SharedNext
<1>. QED
  BY ONLY <1>1, <1>2, <1>3 DEF StoredInv, StoredIn, SharedOnce,
     TablesKnown, SharedKnown, VtablesDiffer, TextsDiffer, VtableKnown,
     TextKnown, IsTable, IsShared

LEMMA ClearStored ==
  ASSUME NEW x \in Builders
  PROVE  StoredIn(Clear(x), <<>>)
<1>1. Content(ClearVector(x.v), <<>>, <<>>)
  BY BlockEmpty, BuilderParts
<1>2. Clear(x) = Fresher(ClearVector(x.v), x.force, x.dedup)
  BY ClearedBuilder
<1>. QED
  BY <1>1, <1>2, FreshStored

LEMMA ReleaseStored ==
  ASSUME NEW x \in Builders
  PROVE  StoredIn(Release(x), <<>>)
<1>. DEFINE w == LoseBlock(x.v)
            y == [x EXCEPT !.v = w]
<1>1. Content(w, <<>>, <<>>)
  BY BlockEmpty, BuilderParts
<1>. HIDE DEF w
<1>2. y \in Builders
  BY <1>1 DEF Content, Builders
<1>. HIDE DEF y
<1>3. StoredIn(Clear(y), <<>>)
  BY <1>2, ClearStored
<1>. QED
  BY <1>3 DEF Release, y, w

LEMMA StoredStarts ==
  ASSUME SessionInv, ClearBuilder \/ ReleaseBuilder \/ AbandonTable
  PROVE  StoredInv'
<1>1. CASE ClearBuilder
  BY <1>1, BuildersNow, ClearStored, StoredStart DEF ClearBuilder
<1>2. CASE ReleaseBuilder
  BY <1>2, BuildersNow, ReleaseStored, StoredStart DEF ReleaseBuilder
<1>3. CASE AbandonTable
  <2>. DEFINE z == Abandoned(b)
  <2>1. z \in Builders
    BY BuildersNow, AbandonedStart
  <2>2. StartAgain(Clear(z))
    BY <1>3 DEF AbandonTable, Abandoned
  <2>. HIDE DEF z
  <2>. QED
    BY <2>1, <2>2, ClearStored, StoredStart
<1>. QED
  BY <1>1, <1>2, <1>3

(* The beginning.                                                          *)
LEMMA StoredBegins ==
  ASSUME Init
  PROVE  StoredInv
<1>1. PICK initial \in InitialSizes, o \in Options :
         b = WithOptions(NewBuilder(initial), o.force, o.dedup)
  BY DEF Init, WithOptions
<1>2. todo = <<>> /\ made = <<>>
  BY DEF Init
<1>3. initial \in Nat /\ o.force \in BOOLEAN /\ o.dedup \in BOOLEAN
  BY SessionAssumption
<1>. DEFINE force == o.force
            dedup == o.dedup
<1>4. initial \in Nat /\ force \in BOOLEAN /\ dedup \in BOOLEAN
  BY <1>3
<1>5. b = WithOptions(NewBuilder(initial), force, dedup)
  BY <1>1
<1>. HIDE DEF force, dedup
<1>6. StoredIn(b, <<>>)
  BY <1>4, <1>5, NewFresher, FreshStored
<1>7. SharedOnce(made) /\ SharedNext
  BY <1>2, <1>6, StoredShared DEF SharedNext
<1>. QED
  BY <1>2, <1>6, <1>7 DEF StoredInv

LEMMA StoredStutters ==
  ASSUME StoredInv, UNCHANGED vars
  PROVE  StoredInv'
<1>1. /\ b' = b /\ making' = making /\ todo' = todo /\ made' = made
  BY DEF vars
<1>2. SharedNext' <=> SharedNext
  BY <1>1 DEF SharedNext, IsShared, Arg, C
<1>. QED
  BY <1>1, <1>2 DEF StoredInv, StoredIn, SharedOnce,
     TablesKnown, SharedKnown, VtablesDiffer, TextsDiffer, VtableKnown,
     TextKnown, IsTable, IsShared

(* The vtables of the scratch pad, as the builder reads them.              *)
LEMMA PadVtables ==
  ASSUME NEW x, Sound(x), NEW n \in Nat, Len(PadOf(x)) = 4 * n
  PROVE  /\ Vtables(x) = [i \in 1..n |-> PadOffset(x, i)]
         /\ Len(Vtables(x)) = n
         /\ \A i \in 1..n : VtableAt(x, Vtables(x)[i])
                              = EntriesIn(x, PadOffset(x, i))
<1>1. x \in Builders /\ x.fields = 0
  BY DEF Sound
<1>2. Vtables(x) = [i \in 1..n |-> PadOffset(x, i)]
  BY <1>1, VtablesRead DEF PadOffset
<1>3. Len(Vtables(x)) = n
  BY <1>2, LenProperties
<1>4. ASSUME NEW i \in 1..n
      PROVE  VtableAt(x, Vtables(x)[i]) = EntriesIn(x, PadOffset(x, i))
  <2>. DEFINE o == PadOffset(x, i)
  <2>1. o \in Int /\ o <= Size(x)
    BY PadOffsets
  <2>2. Vtables(x)[i] = o
    BY <1>2
  <2>. HIDE DEF o
  <2>3. VtableAt(x, o) = EntriesIn(x, o)
    BY <1>1, <2>1, ObjectReads DEF EntriesIn
  <2>. QED
    BY <2>2, <2>3 DEF o
<1>. QED
  BY <1>2, <1>3, <1>4

(* A table refers to the vtable at this distance.                          *)
LEMMA TableRefers ==
  ASSUME NEW x \in Builders, NEW off \in Int, off <= Size(x),
         NEW q \in Int, q <= Size(x), q = off + DistanceIn(x, off)
  PROVE  VtableOf(x.v.buf, DataAt(x.v, off)) = DataAt(x.v, q)
<1>. DEFINE dist == DistanceIn(x, off)
            at == DataAt(x.v, off)
<1>1. 4 \in {1, 2, 4, 8}
  OBVIOUS
<1>2. ReadS(x.v.buf, at, 4) = dist /\ at = x.v.cur + (Size(x) - off)
  BY <1>1, BuilderReads DEF DistanceIn
<1>3. DataAt(x.v, q) = x.v.cur + (Size(x) - q)
  BY BuilderReads
<1>4. x.v.cur \in Int /\ Size(x) \in Int
  BY BuilderParts DEF Blocks, Vectors
<1>. HIDE DEF at
<1>5. VtableOf(x.v.buf, at) = at - dist
  BY <1>2 DEF VtableOf
<1>. HIDE DEF dist
<1>6. q = off + dist
  BY DEF dist
<1>7. at - dist = x.v.cur + (Size(x) - q)
  <2>. DEFINE c == x.v.cur
              s == Size(x)
  <2>1. c \in Int /\ s \in Int /\ at = c + (s - off) /\ q = off + dist
    BY <1>2, <1>4, <1>6
  <2>2. dist \in Int
    BY BuilderParts, ReadSType DEF dist, DistanceIn
  <2>. HIDE DEF c, s
  <2>3. at - dist = c + (s - q)
    BY ONLY <2>1, <2>2, off \in Int, q \in Int
  <2>. QED
    BY <2>3 DEF c, s
<1>. QED
  BY <1>3, <1>5, <1>7 DEF at

LEMMA SamePad ==
  ASSUME NEW pad, NEW o, OnPad(pad, o), NEW n \in Nat, Len(pad) = 4 * n
  PROVE  \E k \in 1..n : ReadU(pad, 4 * (k - 1), 4) = o
<1>1. PICK m \in Nat : /\ Len(pad) = 4 * m
                       /\ \E k \in 1..m : ReadU(pad, 4 * (k - 1), 4) = o
  BY DEF OnPad
<1>2. m = n
  BY <1>1
<1>. QED
  BY <1>1, <1>2

(* What is stored once can be seen in the buffer.                          *)
LEMMA VtablesOnce ==
  ASSUME NEW x, Sound(x), NEW s, StoredIn(x, s)
  PROVE  LET vts == Vtables(x)
             ats == {DataAt(x.v, vts[i]) : i \in 1..Len(vts)}
         IN  /\ \A i \in 1..Len(s) :
                   IsTable(s[i]) =>
                     VtableOf(x.v.buf, DataAt(x.v, s[i].off)) \in ats
             /\ x.dedup => \A i, j \in 1..Len(vts) :
                   VtableAt(x, vts[i]) = VtableAt(x, vts[j]) => i = j
<1>. DEFINE vts == Vtables(x)
            ats == {DataAt(x.v, vts[i]) : i \in 1..Len(vts)}
<1>1. x \in Builders
  BY DEF Sound
<1>2. PICK n \in Nat : Len(PadOf(x)) = 4 * n
  BY DEF Sound
<1>3. /\ vts = [i \in 1..n |-> PadOffset(x, i)] /\ Len(vts) = n
      /\ \A i \in 1..n : VtableAt(x, vts[i]) = EntriesIn(x, PadOffset(x, i))
  BY <1>2, PadVtables
<1>. HIDE DEF vts
<1>4. ASSUME NEW i \in 1..Len(s), IsTable(s[i])
      PROVE  VtableOf(x.v.buf, DataAt(x.v, s[i].off)) \in ats
  <2>. DEFINE off == s[i].off
  <2>1. VtableKnown(x, off)
    BY <1>4 DEF StoredIn, TablesKnown
  <2>. HIDE DEF off
  <2>2. off \in Int /\ off <= Size(x)
    BY <2>1 DEF VtableKnown
  <2>. DEFINE q == off + DistanceIn(x, off)
  <2>3. OnPad(PadOf(x), q)
    BY <2>1 DEF VtableKnown
  <2>. HIDE DEF q
  <2>4. PICK k \in 1..n : PadOffset(x, k) = q
    BY <1>2, <2>3, SamePad DEF PadOffset
  <2>5. q \in Int /\ q <= Size(x)
    BY <1>2, <2>4, PadOffsets
  <2>6. VtableOf(x.v.buf, DataAt(x.v, off)) = DataAt(x.v, q)
    BY <1>1, <2>2, <2>5, TableRefers DEF q
  <2>7. DataAt(x.v, q) \in ats
    BY <1>3, <2>4
  <2>. QED
    BY <2>6, <2>7 DEF off
<1>5. ASSUME x.dedup, NEW i \in 1..Len(vts), NEW j \in 1..Len(vts),
             VtableAt(x, vts[i]) = VtableAt(x, vts[j])
      PROVE  i = j
  <2>1. i \in 1..n /\ j \in 1..n
    BY <1>3
  <2>2. EntriesIn(x, PadOffset(x, i)) = EntriesIn(x, PadOffset(x, j))
    BY <1>3, <1>5, <2>1
  <2>. QED
    BY <1>2, <1>5, <2>1, <2>2 DEF StoredIn, VtablesDiffer
<1>. QED
  BY <1>4, <1>5 DEF vts

(* Between two calls the builder knows the vtable of every table made and  *)
(* the contents of every shared string, whatever was made in between.      *)
THEOREM SessionStoredInvariant == Spec => []StoredInv
<1>1. Init => StoredInv
  BY StoredBegins
<1>2. SessionInv /\ StoredInv /\ [Next]_vars => StoredInv'
  <2>. SUFFICES ASSUME SessionInv, StoredInv, [Next]_vars
                PROVE  StoredInv'
    OBVIOUS
  <2>1. CASE LibraryCall
    <3>1. CASE MakeSharedString \/ MakeTable
      BY <3>1, StoredSharedString, StoredTable
    <3>2. CASE ~(MakeSharedString \/ MakeTable)
      BY <2>1, <3>2, PlainCalls, StoredPlain
    <3>. QED
      BY <3>1, <3>2
  <2>2. CASE AddObject
    BY <2>2, StoredAddObject
  <2>3. CASE \E full \in BOOLEAN : AddTable(full)
    BY <2>3, StoredAddTable
  <2>4. CASE \E type \in 0..1 : AddMessage(type, 513 * type)
    BY <2>4, StoredAddMessage
  <2>5. CASE \E ks \in KeyLists : AddSortedTables(ks)
    BY <2>5, StoredAddSorted
  <2>6. CASE \E id \in {<<>>, Identifier}, p \in BOOLEAN : FinishBuffer(id, p)
    BY <2>6, StoredFinish
  <2>7. CASE \E i \in 1..Len(Tables[topic]) : MutateField(i)
    BY <2>7, StoredMutate
  <2>8. CASE ClearBuilder \/ ReleaseBuilder \/ AbandonTable
    BY <2>8, StoredStarts
  <2>9. CASE UNCHANGED vars
    BY <2>9, StoredStutters
  <2>. QED
    BY <2>1, <2>2, <2>3, <2>4, <2>5, <2>6, <2>7, <2>8, <2>9 DEF Next
<1>. QED
  BY <1>1, <1>2, SessionInvariant, PTL DEF Spec

(* Every table refers to a vtable of the scratch pad, no two vtables are   *)
(* equal while DedupVtables() is on, and CreateSharedString() gives the    *)
(* same offset for the same contents: for all schemas of the table list,   *)
(* all texts and any number of calls, through every move of the block.     *)
THEOREM SessionStoredOnce == Spec => []StoredOnce
<1>1. SessionInv /\ StoredInv => StoredOnce
  <2>. SUFFICES ASSUME SessionInv, StoredInv
                PROVE  StoredOnce
    OBVIOUS
  <2>1. Sound(b) /\ SharedOnce(made) /\ (~b.finished => StoredIn(b, made))
    BY BuildersNow DEF StoredInv
  <2>2. ~b.finished =>
          LET vts == Vtables(b)
              ats == {DataAt(b.v, vts[i]) : i \in 1..Len(vts)}
          IN  /\ \A i \in 1..Len(made) :
                    IsTable(made[i]) =>
                       VtableOf(b.v.buf, DataAt(b.v, made[i].off)) \in ats
              /\ b.dedup => \A i, j \in 1..Len(vts) :
                    VtableAt(b, vts[i]) = VtableAt(b, vts[j]) => i = j
    BY ONLY <2>1, VtablesOnce
  <2>3. \A i, j \in 1..Len(made) :
          /\ made[i].kind = "shared" /\ made[j].kind = "shared"
          /\ made[i].val = made[j].val
          => made[i].off = made[j].off
    BY ONLY <2>1 DEF SharedOnce, IsShared
  <2>. QED
    BY ONLY <2>2, <2>3 DEF StoredOnce
<1>. QED
  BY <1>1, SessionInvariant, SessionStoredInvariant, PTL
==============================================================================
