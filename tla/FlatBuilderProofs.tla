-------------------------- MODULE FlatBuilderProofs --------------------------
(***************************************************************************)
(* Proofs about FlatBufferBuilder and the vector_downward it builds in:    *)
(* for every block, size and alignment, what is in the data and in the     *)
(* scratch pad after each operation, wherever the block has moved; and     *)
(* that what an operation makes depends on the data and the scratch pad    *)
(* only, never on the block they are in, while what was made before stays  *)
(* where it is and reads as it did, and no vtable and no shared string is  *)
(* stored twice.                                                           *)
(***************************************************************************)
EXTENDS FlatBuilder, FlatAccess, SequenceTheorems,
        WellFoundedInduction, TLAPS

-----------------------------------------------------------------------------
(* Induction.  The library's theorems take the predicate as an operator;   *)
(* here it is a set, which the provers can instantiate.                    *)

LEMMA LeastNumber ==
  ASSUME NEW T \in SUBSET Nat, T # {}
  PROVE  \E x \in T : \A y \in T : x <= y
<1>. DEFINE R == {ss \in Nat \X Nat : ss[1] < ss[2]}
<1>1. IsWellFoundedOn(R, Nat)
  BY NatLessThanWellFounded, Zenon DEF OpToRel
<1>2. \A x, y \in T : <<y, x>> \in R <=> y < x
  OBVIOUS
<1>. HIDE DEF R
<1>3. PICK x \in T : \A y \in T : ~(<<y, x>> \in R)
  BY <1>1, WFMin
<1>4. \A y \in T : ~(y < x)
  BY <1>2, <1>3
<1>5. \A y \in T : x <= y
  BY <1>4
<1>. QED
  BY <1>5

LEMMA Induction ==
  ASSUME NEW S, 0 \in S, \A n \in Nat : n \in S => n + 1 \in S
  PROVE  \A n \in Nat : n \in S
<1>. DEFINE T == Nat \ S
<1>1. SUFFICES ASSUME T # {} PROVE FALSE
  OBVIOUS
<1>2. PICK x \in T : \A y \in T : x <= y
  BY <1>1, LeastNumber
<1>3. x \in Nat /\ x # 0 /\ x \notin S
  BY <1>2
<1>4. x - 1 \in Nat /\ (x - 1) + 1 = x /\ ~(x <= x - 1)
  BY <1>3
<1>5. x - 1 \in S
  BY <1>2, <1>4
<1>. QED
  BY <1>3, <1>4, <1>5

(* What holds at the start and of every next step holds up to the end.     *)
LEMMA UpTo ==
  ASSUME NEW n \in Nat, NEW S, 0 \in S,
         \A k \in 1..n : k - 1 \in S => k \in S
  PROVE  \A k \in 0..n : k \in S
<1>. DEFINE U == {k \in Nat : k <= n => k \in S}
<1>1. 0 \in U
  OBVIOUS
<1>2. ASSUME NEW k \in Nat, k \in U
      PROVE  k + 1 \in U
  <2>1. SUFFICES ASSUME k + 1 <= n PROVE k + 1 \in S
    OBVIOUS
  <2>2. k + 1 \in 1..n /\ (k + 1) - 1 = k /\ k \in S
    BY <1>2, <2>1
  <2>. QED
    BY <2>2
<1>. HIDE DEF U
<1>3. \A k \in Nat : k \in U
  BY <1>1, <1>2, Induction
<1>. QED
  BY <1>3 DEF U

(* A function that is defined by recursion over 0..n exists, and its       *)
(* values stay in a set that the steps do not leave.                       *)
Follows(h, base, n, G) ==
  h[0] = base /\ \A k \in 1..n : h[k] = G[<<h[k - 1], k>>]

LEMMA Recursion ==
  ASSUME NEW X, NEW base \in X, NEW n \in Nat,
         NEW G \in [X \X (1..n) -> X]
  PROVE  \E h \in [0..n -> X] : Follows(h, base, n, G)
<1>. DEFINE Good(m, h) == Follows(h, base, m, G)
            S == {m \in 0..n : \E h \in [0..m -> X] : Good(m, h)}
<1>1. 0 \in S
  <2>. DEFINE h == [k \in 0..0 |-> base]
  <2>1. h \in [0..0 -> X] /\ h[0] = base /\ 1..0 = {} /\ 0 \in 0..n
    OBVIOUS
  <2>. HIDE DEF h
  <2>2. Good(0, h)
    BY <2>1 DEF Follows
  <2>. HIDE DEF Good
  <2>. QED
    BY <2>1, <2>2
<1>2. ASSUME NEW m \in 1..n, m - 1 \in S
      PROVE  m \in S
  <2>1. PICK h \in [0..(m - 1) -> X] : Good(m - 1, h)
    BY <1>2
  <2>. DEFINE x == G[<<h[m - 1], m>>]
              g == [k \in 0..m |-> IF k = m THEN x ELSE h[k]]
  <2>2. m - 1 \in 0..(m - 1) /\ h[m - 1] \in X
    OBVIOUS
  <2>3. x \in X
    BY <2>2
  <2>4. g \in [0..m -> X]
    BY <2>3
  <2>5. g[0] = base
    BY <2>1 DEF Follows
  <2>6. ASSUME NEW k \in 1..m
        PROVE  g[k] = G[<<g[k - 1], k>>]
    <3>1. CASE k = m
      <4>1. g[k - 1] = h[m - 1] /\ g[k] = x
        BY <3>1
      <4>. QED
        BY <3>1, <4>1
    <3>2. CASE k # m
      <4>1. k \in 1..(m - 1) /\ g[k] = h[k] /\ g[k - 1] = h[k - 1]
        BY <3>2
      <4>. QED
        BY <2>1, <4>1 DEF Follows
    <3>. QED
      BY <3>1, <3>2
  <2>. HIDE DEF g
  <2>7. Good(m, g)
    BY <2>5, <2>6 DEF Follows
  <2>8. m \in 0..n
    OBVIOUS
  <2>. HIDE DEF Good
  <2>. QED
    BY <2>4, <2>7, <2>8
<1>. HIDE DEF S
<1>3. \A m \in 0..n : m \in S
  BY <1>1, <1>2, UpTo
<1>4. n \in S
  BY <1>3
<1>5. PICK h \in [0..n -> X] : Good(n, h)
  BY <1>4 DEF S
<1>. QED
  BY <1>5

-----------------------------------------------------------------------------
(* FlattenSeq() is what its recursive definition says.                     *)
LEMMA FlattenParts ==
  ASSUME NEW S, NEW seqs \in Seq(Seq(S)), Len(seqs) # 0
  PROVE  \E h \in [1..Len(seqs) -> Seq(S)] :
           /\ h[1] = seqs[1]
           /\ \A i \in 2..Len(seqs) : h[i] = h[i - 1] \o seqs[i]
           /\ FlattenSeq(seqs) = h[Len(seqs)]
<1>. DEFINE n == Len(seqs)
            X == Seq(S)
            G == [p \in X \X (1..(n - 1)) |-> p[1] \o seqs[p[2] + 1]]
            base == seqs[1]
<1>1. n \in Nat /\ n - 1 \in Nat /\ \A i \in 1..n : seqs[i] \in X
  BY LenProperties, ElementOfSeq
<1>2. base \in X
  BY <1>1
<1>2a. G \in [X \X (1..(n - 1)) -> X]
  BY <1>1
<1>3. \A x \in X, k \in 1..(n - 1) : G[<<x, k>>] = x \o seqs[k + 1]
  OBVIOUS
<1>. HIDE DEF G, X, base
<1>. DEFINE m == n - 1
<1>4. PICK f \in [0..m -> X] :
         Follows(f, base, m, G)
  <2>. HIDE DEF m
  <2>1. m \in Nat /\ G \in [X \X (1..m) -> X]
    BY <1>1, <1>2a DEF m
  <2>. QED
    BY <1>2, <2>1, Recursion
<1>. DEFINE g == [i \in 1..n |-> f[i - 1]]
<1>5. g \in [1..n -> X]
  BY <1>1
<1>6. g = [i \in 1..n |-> IF i = 1 THEN seqs[i] ELSE g[i - 1] \o seqs[i]]
  <2>1. ASSUME NEW i \in 1..n
        PROVE  g[i] = IF i = 1 THEN seqs[i] ELSE g[i - 1] \o seqs[i]
    <3>1. CASE i = 1
      BY <1>1, <1>4, <3>1 DEF base, Follows
    <3>2. CASE i # 1
      <4>1. i - 1 \in 1..m /\ i - 1 \in 1..n /\ i - 1 # 0 /\ (i - 1) + 1 = i
        BY <1>1, <3>2
      <4>. DEFINE k == i - 1
      <4>2. k \in 1..m /\ k - 1 \in 0..m
        BY <4>1
      <4>. HIDE DEF k, m
      <4>3. f[k] = G[<<f[k - 1], k>>] /\ f[k - 1] \in X
        BY <1>4, <4>2 DEF Follows
      <4>4. f[k] = f[k - 1] \o seqs[k + 1]
        BY <1>3, <4>2, <4>3 DEF m
      <4>. QED
        BY <3>2, <4>1, <4>4 DEF k
    <3>. QED
      BY <3>1, <3>2
  <2>. HIDE DEF g
  <2>. QED
    BY <1>5, <2>1
<1>. DEFINE Is(h) ==
       h = [i \in 1..n |-> IF i = 1 THEN seqs[i] ELSE h[i - 1] \o seqs[i]]
            flatten == CHOOSE h : Is(h)
<1>7. Is(flatten)
  <2>1. \E h : Is(h)
    BY <1>6
  <2>. HIDE DEF Is
  <2>. QED
    BY <2>1
<1>8. FlattenSeq(seqs) = flatten[n]
  BY DEF FlattenSeq
<1>9. \A i \in 1..n : flatten[i] \in X
  <2>. DEFINE V == {i \in 0..n : i = 0 \/ flatten[i] \in X}
  <2>1. 0 \in V
    BY <1>1
  <2>2. ASSUME NEW i \in 1..n, i - 1 \in V
        PROVE  i \in V
    <3>. HIDE DEF flatten
    <3>1. CASE i = 1
      BY <1>1, <1>7, <3>1
    <3>2. CASE i # 1
      <4>1. flatten[i - 1] \in X /\ i \in 0..n
        BY <2>2, <3>2
      <4>2. flatten[i] = flatten[i - 1] \o seqs[i]
        BY <1>7, <3>2
      <4>3. flatten[i - 1] \o seqs[i] \in X
        BY <1>1, <4>1, ConcatProperties DEF X
      <4>. QED
        BY <4>1, <4>2, <4>3
    <3>. QED
      BY <3>1, <3>2
  <2>. HIDE DEF V
  <2>3. \A i \in 0..n : i \in V
    BY <1>1, <2>1, <2>2, UpTo
  <2>4. \A i \in 1..n : i \in 0..n /\ i # 0
    BY <1>1
  <2>. HIDE DEF n
  <2>. QED
    BY <2>3, <2>4 DEF V
<1>. HIDE DEF flatten
<1>10. flatten \in [1..n -> X]
  BY <1>7, <1>9
<1>11. flatten[1] = seqs[1]
  BY <1>1, <1>7
<1>12. \A i \in 2..n : flatten[i] = flatten[i - 1] \o seqs[i]
  <2>1. \A i \in 2..n : i \in 1..n /\ i # 1
    BY <1>1
  <2>. HIDE DEF n
  <2>. QED
    BY <1>7, <2>1
<1>. QED
  BY <1>8, <1>10, <1>11, <1>12 DEF X

(* The vectors a builder can have.  align is buffer_minalign_, a power of  *)
(* two; all the proofs need is that it is not 0.                           *)
Vectors ==
  {v \in [buf : Seq(Int), cur : Int, scratch : Int, size : Int,
          initial : Nat, align : Nat \ {0}] : WellFormed(v)}

(* w holds what v holds: the same data and the same scratch pad, in a      *)
(* block that may be another one.                                          *)
SameContent(v, w) ==
  /\ Data(w) = Data(v) /\ w.size = v.size
  /\ ScratchBytes(w) = ScratchBytes(v) /\ w.scratch = v.scratch

(* A block whose size is a multiple of the alignment remains one.          *)
Rounded(v, w) ==
  /\ w.align = v.align
  /\ Reserved(v) % v.align = 0 => Reserved(w) % w.align = 0

-----------------------------------------------------------------------------
(* What a subsequence of a sequence is.                                    *)
LEMMA SubSeqOf ==
  ASSUME NEW s \in Seq(Int), NEW m \in Int, NEW n \in Int,
         1 <= m, n <= Len(s), m <= n + 1
  PROVE  /\ SubSeq(s, m, n) \in Seq(Int)
         /\ Len(SubSeq(s, m, n)) = n - m + 1
         /\ \A i \in 1..(n - m + 1) : SubSeq(s, m, n)[i] = s[m + i - 1]
<1>1. \A i \in m..n : s[i] \in Int
  BY ElementOfSeq, LenProperties
<1>. QED
  BY <1>1, SubSeqProperties

(* The first bytes of a sequence.                                          *)
LEMMA PrefixBytes ==
  ASSUME NEW s \in Seq(Int), NEW p \in Nat, p <= Len(s)
  PROVE  /\ SubSeq(s, 1, p) \in Seq(Int)
         /\ Len(SubSeq(s, 1, p)) = p
         /\ \A i \in 1..p : SubSeq(s, 1, p)[i] = s[i]
<1>1. /\ SubSeq(s, 1, p) \in Seq(Int)
      /\ Len(SubSeq(s, 1, p)) = (p - 1) + 1
      /\ \A i \in 1..((p - 1) + 1) : SubSeq(s, 1, p)[i] = s[(1 + i) - 1]
  BY SubSeqOf
<1>. QED
  BY <1>1

(* The bytes of a sequence from a distance on.                             *)
LEMMA SuffixBytes ==
  ASSUME NEW s \in Seq(Int), NEW c \in Nat, c <= Len(s)
  PROVE  /\ SubSeq(s, c + 1, Len(s)) \in Seq(Int)
         /\ Len(SubSeq(s, c + 1, Len(s))) = Len(s) - c
         /\ \A i \in 1..(Len(s) - c) : SubSeq(s, c + 1, Len(s))[i] = s[c + i]
<1>. DEFINE m == c + 1
            n == Len(s)
<1>1. m \in Int /\ 1 <= m /\ n \in Int /\ n <= Len(s) /\ m <= n + 1
  BY LenProperties
<1>2. (n - m) + 1 = Len(s) - c
  BY <1>1
<1>3. \A i \in Int : (m + i) - 1 = c + i
  BY <1>1
<1>. HIDE DEF m, n
<1>4. /\ SubSeq(s, m, n) \in Seq(Int)
      /\ Len(SubSeq(s, m, n)) = (n - m) + 1
      /\ \A i \in 1..((n - m) + 1) : SubSeq(s, m, n)[i] = s[(m + i) - 1]
  BY <1>1, SubSeqOf
<1>5. ASSUME NEW i \in 1..(Len(s) - c)
      PROVE  SubSeq(s, m, n)[i] = s[c + i]
  <2>1. i \in 1..((n - m) + 1) /\ i \in Int
    BY <1>2
  <2>2. SubSeq(s, m, n)[i] = s[(m + i) - 1] /\ (m + i) - 1 = c + i
    BY <1>3, <1>4, <2>1
  <2>. QED
    BY <2>2
<1>. QED
  BY <1>2, <1>4, <1>5 DEF m, n

(* The middle and the end of three sequences in a row.                     *)
LEMMA Concat3 ==
  ASSUME NEW a \in Seq(Int), NEW b \in Seq(Int), NEW c \in Seq(Int)
  PROVE  /\ a \o b \o c \in Seq(Int)
         /\ Len(a \o b \o c) = Len(a) + Len(b) + Len(c)
         /\ \A i \in 1..Len(a) : (a \o b \o c)[i] = a[i]
         /\ \A i \in 1..Len(b) : (a \o b \o c)[Len(a) + i] = b[i]
         /\ \A i \in 1..Len(c) : (a \o b \o c)[Len(a) + Len(b) + i] = c[i]
<1>1. /\ Len(a) \in Nat /\ Len(b) \in Nat /\ Len(c) \in Nat
  BY LenProperties
<1>2. /\ a \o b \in Seq(Int) /\ Len(a \o b) = Len(a) + Len(b)
      /\ \A i \in 1..(Len(a) + Len(b)) :
           (a \o b)[i] = IF i <= Len(a) THEN a[i] ELSE b[i - Len(a)]
  BY ConcatProperties
<1>3. /\ (a \o b) \o c \in Seq(Int)
      /\ Len((a \o b) \o c) = Len(a \o b) + Len(c)
      /\ \A i \in 1..(Len(a \o b) + Len(c)) :
           ((a \o b) \o c)[i] =
             IF i <= Len(a \o b) THEN (a \o b)[i] ELSE c[i - Len(a \o b)]
  BY <1>2, ConcatProperties
<1>4. ASSUME NEW i \in 1..Len(a)
      PROVE  (a \o b \o c)[i] = a[i]
  BY <1>1, <1>2, <1>3
<1>5. ASSUME NEW i \in 1..Len(b)
      PROVE  (a \o b \o c)[Len(a) + i] = b[i]
  <2>1. /\ Len(a) + i \in 1..(Len(a) + Len(b))
        /\ ~ (Len(a) + i <= Len(a)) /\ (Len(a) + i) - Len(a) = i
    BY <1>1
  <2>. QED
    BY <1>1, <1>2, <1>3, <2>1
<1>6. ASSUME NEW i \in 1..Len(c)
      PROVE  (a \o b \o c)[Len(a) + Len(b) + i] = c[i]
  <2>1. /\ Len(a) + Len(b) + i \in 1..(Len(a) + Len(b) + Len(c))
        /\ ~ (Len(a) + Len(b) + i <= Len(a) + Len(b))
        /\ (Len(a) + Len(b) + i) - (Len(a) + Len(b)) = i
    BY <1>1
  <2>. QED
    BY <1>1, <1>2, <1>3, <2>1
<1>. QED
  BY <1>2, <1>3, <1>4, <1>5, <1>6

(* Overwrite() changes the bytes written and no others.                    *)
LEMMA OverwriteBytes ==
  ASSUME NEW s \in Seq(Int), NEW at \in Nat, NEW bytes \in Seq(Int),
         at + Len(bytes) <= Len(s)
  PROVE  /\ Overwrite(s, at, bytes) \in Seq(Int)
         /\ Len(Overwrite(s, at, bytes)) = Len(s)
         /\ \A i \in 1..Len(s) :
              Overwrite(s, at, bytes)[i] =
                IF at < i /\ i <= at + Len(bytes) THEN bytes[i - at]
                                                  ELSE s[i]
<1>. DEFINE a == SubSeq(s, 1, at)
            c == SubSeq(s, at + Len(bytes) + 1, Len(s))
<1>0. Len(s) \in Nat /\ Len(bytes) \in Nat
  BY LenProperties
<1>1. /\ a \in Seq(Int) /\ Len(a) = at
      /\ \A i \in 1..at : a[i] = s[i]
  BY <1>0, PrefixBytes
<1>2. /\ c \in Seq(Int) /\ Len(c) = Len(s) - (at + Len(bytes))
      /\ \A i \in 1..(Len(s) - (at + Len(bytes))) :
           c[i] = s[at + Len(bytes) + i]
  <2>1. at + Len(bytes) \in Nat
    BY <1>0
  <2>. QED
    BY <2>1, SuffixBytes
<1>. HIDE DEF a, c
<1>3. /\ a \o bytes \o c \in Seq(Int)
      /\ Len(a \o bytes \o c) = Len(a) + Len(bytes) + Len(c)
      /\ \A i \in 1..Len(a) : (a \o bytes \o c)[i] = a[i]
      /\ \A i \in 1..Len(bytes) : (a \o bytes \o c)[Len(a) + i] = bytes[i]
      /\ \A i \in 1..Len(c) :
           (a \o bytes \o c)[Len(a) + Len(bytes) + i] = c[i]
  <2>1. a \in Seq(Int) /\ c \in Seq(Int)
    BY <1>1, <1>2
  <2>. HIDE DEF a, c
  <2>. QED
    BY ONLY <2>1, bytes \in Seq(Int), Concat3, Zenon
<1>4. Overwrite(s, at, bytes) = a \o bytes \o c
  BY DEF Overwrite, a, c
<1>. DEFINE t == a \o bytes \o c
<1>. HIDE DEF t
<1>5. ASSUME NEW i \in 1..Len(s)
      PROVE  t[i] = IF at < i /\ i <= at + Len(bytes) THEN bytes[i - at]
                                                      ELSE s[i]
  <2>1. CASE i <= at
    BY <1>0, <1>1, <1>3, <2>1 DEF t
  <2>2. CASE at < i /\ i <= at + Len(bytes)
    <3>1. i - at \in 1..Len(bytes) /\ at + (i - at) = i
      BY <1>0, <2>2
    <3>. QED
      BY <1>1, <1>3, <2>2, <3>1 DEF t
  <2>3. CASE i > at + Len(bytes)
    <3>. DEFINE j == i - (at + Len(bytes))
    <3>1. /\ j \in 1..Len(c) /\ at + Len(bytes) + j = i
          /\ ~ (i <= at + Len(bytes))
      BY <1>0, <1>2, <2>3
    <3>. HIDE DEF j
    <3>2. t[i] = c[j] /\ c[j] = s[i]
      BY <1>1, <1>2, <1>3, <3>1 DEF t
    <3>. QED
      BY <3>1, <3>2
  <2>. QED
    BY <1>0, <2>1, <2>2, <2>3
<1>6. t \in Seq(Int) /\ Len(t) = Len(s)
  BY <1>0, <1>1, <1>2, <1>3 DEF t
<1>7. Overwrite(s, at, bytes) = t
  BY <1>4 DEF t
<1>. HIDE DEF t
<1>. QED
  BY <1>5, <1>6, <1>7

(* What Overwrite() leaves of a prefix and of a suffix, and what it adds    *)
(* to one that ends or begins where the bytes are written.                 *)
LEMMA OverwriteParts ==
  ASSUME NEW s \in Seq(Int), NEW at \in Nat, NEW bytes \in Seq(Int),
         at + Len(bytes) <= Len(s)
  PROVE  LET t == Overwrite(s, at, bytes) IN
         /\ \A p \in 0..at : SubSeq(t, 1, p) = SubSeq(s, 1, p)
         /\ \A c \in (at + Len(bytes))..Len(s) :
              SubSeq(t, c + 1, Len(t)) = SubSeq(s, c + 1, Len(s))
         /\ SubSeq(t, 1, at + Len(bytes)) = SubSeq(s, 1, at) \o bytes
         /\ SubSeq(t, at + 1, Len(t))
              = bytes \o SubSeq(s, (at + Len(bytes)) + 1, Len(s))
<1>. DEFINE t == Overwrite(s, at, bytes)
<1>0. Len(s) \in Nat /\ Len(bytes) \in Nat
  BY LenProperties
<1>1. /\ t \in Seq(Int) /\ Len(t) = Len(s)
      /\ \A i \in 1..Len(s) :
           t[i] = IF at < i /\ i <= at + Len(bytes) THEN bytes[i - at]
                                                   ELSE s[i]
  BY OverwriteBytes
<1>. HIDE DEF t
<1>2. ASSUME NEW p \in 0..at
      PROVE  SubSeq(t, 1, p) = SubSeq(s, 1, p)
  <2>1. p \in Nat /\ p <= Len(s) /\ p <= Len(t)
    BY <1>0, <1>1
  <2>2. \A i \in 1..p : t[i] = s[i]
    BY <1>0, <1>1, <2>1
  <2>3. /\ SubSeq(t, 1, p) \in Seq(Int) /\ Len(SubSeq(t, 1, p)) = p
        /\ \A i \in 1..p : SubSeq(t, 1, p)[i] = t[i]
    BY <1>1, <2>1, PrefixBytes
  <2>4. /\ SubSeq(s, 1, p) \in Seq(Int) /\ Len(SubSeq(s, 1, p)) = p
        /\ \A i \in 1..p : SubSeq(s, 1, p)[i] = s[i]
    BY <2>1, PrefixBytes
  <2>. QED
    BY <2>2, <2>3, <2>4, SeqEqual
<1>3. ASSUME NEW c \in (at + Len(bytes))..Len(s)
      PROVE  SubSeq(t, c + 1, Len(t)) = SubSeq(s, c + 1, Len(s))
  <2>1. c \in Nat /\ c <= Len(s) /\ c <= Len(t)
    BY <1>0, <1>1
  <2>2. \A i \in 1..(Len(s) - c) : t[c + i] = s[c + i]
    <3>1. \A i \in 1..(Len(s) - c) :
            c + i \in 1..Len(s) /\ ~ (c + i <= at + Len(bytes))
      BY <1>0, <2>1
    <3>. QED
      BY <1>1, <3>1
  <2>. DEFINE x == SubSeq(t, c + 1, Len(t))
              y == SubSeq(s, c + 1, Len(s))
  <2>3. /\ x \in Seq(Int) /\ Len(x) = Len(s) - c
        /\ \A i \in 1..(Len(s) - c) : x[i] = t[c + i]
    BY <1>1, <2>1, SuffixBytes
  <2>4. /\ y \in Seq(Int) /\ Len(y) = Len(s) - c
        /\ \A i \in 1..(Len(s) - c) : y[i] = s[c + i]
    BY <2>1, SuffixBytes
  <2>. HIDE DEF x, y
  <2>5. \A i \in 1..Len(x) : x[i] = y[i]
    BY <2>2, <2>3, <2>4
  <2>6. x = y
    BY <2>3, <2>4, <2>5, SeqEqual
  <2>. QED
    BY <2>6 DEF x, y
<1>4. SubSeq(t, 1, at + Len(bytes)) = SubSeq(s, 1, at) \o bytes
  <2>. DEFINE e == at + Len(bytes)
              x == SubSeq(t, 1, e)
              a == SubSeq(s, 1, at)
  <2>1. e \in Nat /\ e <= Len(t) /\ at <= Len(s)
    BY <1>0, <1>1
  <2>2. /\ x \in Seq(Int) /\ Len(x) = e
        /\ \A i \in 1..e : x[i] = t[i]
    BY <1>1, <2>1, PrefixBytes
  <2>3. /\ a \in Seq(Int) /\ Len(a) = at
        /\ \A i \in 1..at : a[i] = s[i]
    BY <2>1, PrefixBytes
  <2>. HIDE DEF x, a
  <2>4. /\ a \o bytes \in Seq(Int) /\ Len(a \o bytes) = e
        /\ \A i \in 1..e : (a \o bytes)[i] =
             IF i <= at THEN a[i] ELSE bytes[i - at]
    BY <2>3, ConcatProperties
  <2>5. ASSUME NEW i \in 1..e
        PROVE  x[i] = (a \o bytes)[i]
    <3>1. i \in 1..Len(s) /\ i \in Int
      BY <1>0
    <3>2. CASE i <= at
      <4>1. i \in 1..at /\ ~ (at < i)
        BY <3>2
      <4>2. t[i] = s[i] /\ x[i] = t[i] /\ a[i] = s[i]
        BY <1>1, <2>2, <2>3, <3>1, <4>1
      <4>. QED
        BY <2>4, <3>2, <4>2
    <3>3. CASE at < i
      <4>1. ~ (i <= at) /\ i <= at + Len(bytes)
        BY <1>0, <3>3
      <4>2. t[i] = bytes[i - at] /\ x[i] = t[i]
        BY <1>1, <2>2, <3>1, <3>3, <4>1
      <4>. QED
        BY <2>4, <4>1, <4>2
    <3>4. i <= at \/ at < i
      BY <3>1
    <3>. QED
      BY <3>2, <3>3, <3>4, Zenon
  <2>. QED
    BY <2>2, <2>4, <2>5, SeqEqual DEF x, a
<1>5. SubSeq(t, at + 1, Len(t))
        = bytes \o SubSeq(s, (at + Len(bytes)) + 1, Len(s))
  <2>. DEFINE n == Len(bytes)
              e == at + n
              x == SubSeq(t, at + 1, Len(t))
              c == SubSeq(s, e + 1, Len(s))
  <2>1. e \in Nat /\ e <= Len(s) /\ at <= Len(t) /\ n \in Nat
    BY <1>0, <1>1
  <2>2. /\ x \in Seq(Int) /\ Len(x) = Len(s) - at
        /\ \A i \in 1..(Len(s) - at) : x[i] = t[at + i]
    BY <1>1, <2>1, SuffixBytes
  <2>3. /\ c \in Seq(Int) /\ Len(c) = Len(s) - e
        /\ \A i \in 1..(Len(s) - e) : c[i] = s[e + i]
    BY <2>1, SuffixBytes
  <2>. HIDE DEF x, c
  <2>4. /\ bytes \o c \in Seq(Int) /\ Len(bytes \o c) = n + Len(c)
        /\ \A i \in 1..(n + Len(c)) : (bytes \o c)[i] =
             IF i <= n THEN bytes[i] ELSE c[i - n]
    BY <2>3, ConcatProperties
  <2>5. n + Len(c) = Len(s) - at
    BY <1>0, <2>3
  <2>6. ASSUME NEW i \in 1..(Len(s) - at)
        PROVE  x[i] = (bytes \o c)[i]
    <3>1. at + i \in 1..Len(s) /\ at < at + i /\ (at + i) - at = i
      BY <1>0
    <3>2. CASE i <= n
      BY <1>0, <1>1, <2>2, <2>4, <2>5, <3>1, <3>2
    <3>3. CASE i > n
      <4>1. /\ ~ (at + i <= at + n) /\ ~ (i <= n)
            /\ i - n \in 1..(Len(s) - e) /\ e + (i - n) = at + i
        BY <1>0, <3>3
      <4>. QED
        BY <1>1, <2>2, <2>3, <2>4, <2>5, <3>1, <4>1
    <3>4. i <= n \/ i > n
      BY <2>1
    <3>. QED
      BY <3>2, <3>3, <3>4, Zenon
  <2>. QED
    BY <2>2, <2>4, <2>5, <2>6, SeqEqual DEF x, c
<1>. QED
  BY <1>2, <1>3, <1>4, <1>5 DEF t

(* Rounding a size up to the alignment makes it no smaller, and a multiple *)
(* of the alignment.                                                       *)
LEMMA RoundUpGrows ==
  ASSUME NEW n \in Nat, NEW align \in Nat \ {0}
  PROVE  /\ RoundUp(n, align) \in Nat /\ n <= RoundUp(n, align)
         /\ RoundUp(n, align) % align = 0
<1>. DEFINE q == (-n) \div align
            r == (-n) % align
<1>1. r \in Nat /\ q \in Int /\ -n = align * q + r
  OBVIOUS
<1>. HIDE DEF q, r
<1>2. n + r = align * (-q)
  BY <1>1
<1>3. (n + r) % align = 0
  <2>. DEFINE k == n + r
              d == k \div align
              p == k % align
              e == (-q) - d
  <2>1. k \in Int /\ d \in Int /\ p \in 0..(align - 1) /\ k = align * d + p
    BY <1>1
  <2>. HIDE DEF d, p
  <2>2. e \in Int /\ align * e = p
    <3>1. align * (-q) = align * d + p
      BY <1>2, <2>1
    <3>2. \A x, y \in Int : align * (x - y) = align * x - align * y
      OBVIOUS
    <3>3. align * e = align * (-q) - align * d
      BY <1>1, <2>1, <3>2
    <3>4. align * d \in Int /\ p \in Int /\ e \in Int
      BY <1>1, <2>1
    <3>. HIDE DEF e
    <3>. QED
      BY <3>1, <3>3, <3>4
  <2>. HIDE DEF e
  <2>3. ~ (e >= 1)
    <3>1. \A x \in Int : x >= 1 => align * x >= align
      OBVIOUS
    <3>. QED
      BY <2>1, <2>2, <3>1
  <2>4. ~ (e <= -1)
    <3>1. \A x \in Int : x <= -1 => align * x < 0
      OBVIOUS
    <3>. QED
      BY <2>1, <2>2, <3>1
  <2>5. e = 0
    BY <2>2, <2>3, <2>4
  <2>. QED
    BY <2>1, <2>2, <2>5 DEF p
<1>. QED
  BY <1>1, <1>3 DEF RoundUp, PaddingBytes, r

-----------------------------------------------------------------------------
(* The parts of a vector: the scratch pad, what is free, the data.         *)
LEMMA VectorParts ==
  ASSUME NEW v \in Vectors
  PROVE  /\ v.buf \in Seq(Int) /\ Len(v.buf) \in Nat
         /\ Reserved(v) = Len(v.buf)
         /\ v.cur \in Nat /\ v.scratch \in Nat /\ v.size \in Nat
         /\ v.initial \in Nat /\ v.align \in Nat \ {0}
         /\ v.scratch <= v.cur /\ v.cur <= Len(v.buf)
         /\ v.cur + v.size = Len(v.buf)
         /\ Unused(v) = v.cur - v.scratch /\ Unused(v) \in Nat
<1>1. /\ v.buf \in Seq(Int) /\ v.cur \in Int /\ v.scratch \in Int
      /\ v.size \in Int /\ v.initial \in Nat /\ v.align \in Nat \ {0}
      /\ WellFormed(v)
  BY DEF Vectors
<1>2. Len(v.buf) \in Nat
  BY <1>1, LenProperties
<1>. QED
  BY <1>1, <1>2 DEF WellFormed, Reserved, Unused

(* A record of the right fields that is well formed is a vector.           *)
LEMMA IsVector ==
  ASSUME NEW v \in Vectors, NEW w,
         w = [buf |-> w.buf, cur |-> w.cur, scratch |-> w.scratch,
              size |-> w.size, initial |-> v.initial, align |-> v.align],
         w.buf \in Seq(Int), w.cur \in Nat, w.scratch \in Nat,
         w.scratch <= w.cur, w.cur <= Len(w.buf),
         w.size = Len(w.buf) - w.cur
  PROVE  w \in Vectors
<1>1. v.initial \in Nat /\ v.align \in Nat \ {0} /\ Len(w.buf) \in Nat
  BY VectorParts, LenProperties
<1>2. WellFormed(w)
  BY <1>1 DEF WellFormed, Reserved
<1>3. w.size \in Int
  BY <1>1
<1>4. w \in [buf : Seq(Int), cur : Int, scratch : Int, size : Int,
             initial : Nat, align : Nat \ {0}]
  BY <1>1, <1>3
<1>. QED
  BY <1>2, <1>4 DEF Vectors

(* The bytes of the data and of the scratch pad.                           *)
LEMMA DataBytes ==
  ASSUME NEW v \in Vectors
  PROVE  /\ Data(v) \in Seq(Int) /\ Len(Data(v)) = v.size
         /\ \A i \in 1..v.size : Data(v)[i] = v.buf[v.cur + i]
<1>1. /\ v.buf \in Seq(Int) /\ v.cur \in Nat /\ v.cur <= Len(v.buf)
      /\ Len(v.buf) - v.cur = v.size
  BY VectorParts
<1>. QED
  BY <1>1, SuffixBytes DEF Data

LEMMA ScratchPadBytes ==
  ASSUME NEW v \in Vectors
  PROVE  /\ ScratchBytes(v) \in Seq(Int)
         /\ Len(ScratchBytes(v)) = v.scratch
         /\ \A i \in 1..v.scratch : ScratchBytes(v)[i] = v.buf[i]
<1>1. /\ v.buf \in Seq(Int) /\ v.scratch \in Nat
      /\ v.scratch <= Len(v.buf)
  BY VectorParts
<1>. QED
  BY <1>1, PrefixBytes DEF ScratchBytes

(* Vectors with the same bytes in both parts hold the same.                *)
LEMMA SameBytes ==
  ASSUME NEW v \in Vectors, NEW w \in Vectors,
         w.size = v.size, w.scratch = v.scratch,
         \A i \in 1..v.size : w.buf[w.cur + i] = v.buf[v.cur + i],
         \A i \in 1..v.scratch : w.buf[i] = v.buf[i]
  PROVE  SameContent(v, w)
<1>1. Data(w) = Data(v)
  <2>1. /\ Data(v) \in Seq(Int) /\ Data(w) \in Seq(Int)
        /\ Len(Data(v)) = v.size /\ Len(Data(w)) = v.size
        /\ \A i \in 1..Len(Data(w)) : Data(w)[i] = Data(v)[i]
    BY DataBytes
  <2>. QED
    BY <2>1, SeqEqual
<1>2. ScratchBytes(w) = ScratchBytes(v)
  <2>1. /\ ScratchBytes(v) \in Seq(Int) /\ ScratchBytes(w) \in Seq(Int)
        /\ Len(ScratchBytes(v)) = v.scratch
        /\ Len(ScratchBytes(w)) = v.scratch
        /\ \A i \in 1..Len(ScratchBytes(w)) :
             ScratchBytes(w)[i] = ScratchBytes(v)[i]
    BY ScratchPadBytes
  <2>. QED
    BY <2>1, SeqEqual
<1>. QED
  BY <1>1, <1>2 DEF SameContent

-----------------------------------------------------------------------------
LEMMA FreshBytes ==
  ASSUME NEW n \in Nat
  PROVE  Fresh(n) \in Seq(Int) /\ Len(Fresh(n)) = n
BY DEF Fresh, Junk

(* reallocate_downward() moves the data to the end of the new block and    *)
(* leaves the scratch pad at its beginning.                                *)
LEMMA MovedBlock ==
  ASSUME NEW v \in Vectors, NEW reserved \in Nat, Len(v.buf) <= reserved
  PROVE  /\ ReallocateDownward(v, reserved) \in Seq(Int)
         /\ Len(ReallocateDownward(v, reserved)) = reserved
         /\ \A i \in 1..v.scratch :
              ReallocateDownward(v, reserved)[i] = v.buf[i]
         /\ \A i \in 1..v.size :
              ReallocateDownward(v, reserved)[(reserved - v.size) + i]
                = v.buf[v.cur + i]
<1>. DEFINE a == ScratchBytes(v)
            f == (reserved - v.scratch) - v.size
            b == Fresh(f)
            c == Data(v)
            t == a \o b \o c
<1>1. /\ Len(v.buf) \in Nat /\ Reserved(v) = Len(v.buf)
      /\ v.cur \in Nat /\ v.scratch \in Nat /\ v.size \in Nat
      /\ v.scratch <= v.cur /\ v.cur + v.size = Len(v.buf)
  BY VectorParts
<1>2. f \in Nat /\ v.scratch + f = reserved - v.size
  BY <1>1
<1>3. Reserved(v) - v.size = v.cur
  BY <1>1
<1>4. ReallocateDownward(v, reserved) = t
  BY <1>1, <1>3 DEF ReallocateDownward, Data
<1>. HIDE DEF f
<1>5. b \in Seq(Int) /\ Len(b) = f
  BY <1>2, FreshBytes
<1>6. /\ a \in Seq(Int) /\ Len(a) = v.scratch
      /\ \A i \in 1..v.scratch : a[i] = v.buf[i]
  BY ScratchPadBytes
<1>7. /\ c \in Seq(Int) /\ Len(c) = v.size
      /\ \A i \in 1..v.size : c[i] = v.buf[v.cur + i]
  BY DataBytes
<1>. HIDE DEF a, b, c
<1>8. /\ t \in Seq(Int)
      /\ Len(t) = Len(a) + Len(b) + Len(c)
      /\ \A i \in 1..Len(a) : t[i] = a[i]
      /\ \A i \in 1..Len(c) : t[Len(a) + Len(b) + i] = c[i]
  <2>1. a \in Seq(Int) /\ b \in Seq(Int) /\ c \in Seq(Int)
    BY <1>5, <1>6, <1>7
  <2>. QED
    BY ONLY <2>1, Concat3, Zenon DEF t
<1>. HIDE DEF t
<1>9. Len(t) = reserved
  BY <1>1, <1>2, <1>5, <1>6, <1>7, <1>8
<1>10. ASSUME NEW i \in 1..v.size
       PROVE  t[(reserved - v.size) + i] = v.buf[v.cur + i]
  <2>1. Len(a) + Len(b) = reserved - v.size
    BY <1>2, <1>5, <1>6
  <2>2. t[Len(a) + Len(b) + i] = c[i] /\ c[i] = v.buf[v.cur + i]
    BY <1>7, <1>8
  <2>. QED
    BY <2>1, <2>2
<1>11. \A i \in 1..v.scratch : t[i] = v.buf[i]
  BY <1>6, <1>8
<1>. QED
  BY <1>4, <1>8, <1>9, <1>10, <1>11

(* A growing vector keeps what it holds and gets room for the bytes that   *)
(* made it grow.                                                           *)
LEMMA ReallocateKeeps ==
  ASSUME NEW v \in Vectors, NEW len \in Nat
  PROVE  /\ Reallocate(v, len) \in Vectors
         /\ SameContent(v, Reallocate(v, len))
         /\ Unused(Reallocate(v, len)) >= Unused(v) + len
         /\ Rounded(v, Reallocate(v, len))
         /\ Reserved(Reallocate(v, len)) % v.align = 0
<1>. DEFINE grow == IF Reserved(v) # 0 THEN Reserved(v) \div 2 ELSE v.initial
            more == Reserved(v) + Larger(len, grow)
            reserved == RoundUp(more, v.align)
            w == Reallocate(v, len)
<1>1. /\ Len(v.buf) \in Nat /\ Reserved(v) = Len(v.buf)
      /\ v.cur \in Nat /\ v.scratch \in Nat /\ v.size \in Nat
      /\ v.initial \in Nat /\ v.align \in Nat \ {0}
      /\ v.scratch <= v.cur /\ v.cur + v.size = Len(v.buf)
      /\ Unused(v) = v.cur - v.scratch
  BY VectorParts
<1>2. grow \in Nat
  <2>1. \A n \in Nat : n \div 2 \in Nat
    OBVIOUS
  <2>2. Reserved(v) \in Nat /\ v.initial \in Nat
    BY <1>1
  <2>. QED
    BY <2>1, <2>2
<1>. HIDE DEF grow
<1>3. more \in Nat /\ more >= Len(v.buf) + len
  <2>1. Larger(len, grow) \in Nat /\ Larger(len, grow) >= len
    BY <1>2 DEF Larger
  <2>. QED
    BY <1>1, <2>1
<1>. HIDE DEF more
<1>4. reserved \in Nat /\ reserved >= more
  BY <1>1, <1>3, RoundUpGrows
<1>5. w = [v EXCEPT !.buf = ReallocateDownward(v, reserved),
                    !.cur = reserved - v.size]
  BY DEF Reallocate, reserved, more, grow
<1>. HIDE DEF reserved, w
<1>6. /\ w.buf = ReallocateDownward(v, reserved)
      /\ w.cur = reserved - v.size
      /\ w.scratch = v.scratch /\ w.size = v.size
      /\ w = [buf |-> w.buf, cur |-> w.cur, scratch |-> w.scratch,
              size |-> w.size, initial |-> v.initial, align |-> v.align]
  BY <1>5 DEF Vectors
<1>7. /\ w.buf \in Seq(Int) /\ Len(w.buf) = reserved
      /\ \A i \in 1..v.scratch : w.buf[i] = v.buf[i]
      /\ \A i \in 1..v.size : w.buf[w.cur + i] = v.buf[v.cur + i]
  <2>1. Len(v.buf) <= reserved
    BY <1>1, <1>3, <1>4
  <2>. QED
    BY <1>4, <1>6, <2>1, MovedBlock
<1>8. w \in Vectors
  <2>1. reserved >= Len(v.buf)
    BY <1>1, <1>3, <1>4
  <2>2. /\ w.cur \in Nat /\ w.scratch \in Nat /\ w.scratch <= w.cur
        /\ w.cur <= reserved /\ w.size = reserved - w.cur
    BY <1>1, <1>4, <1>6, <2>1
  <2>. QED
    BY <1>6, <1>7, <2>2, IsVector
<1>9. SameContent(v, w)
  BY <1>6, <1>7, <1>8, SameBytes
<1>10. Unused(w) >= Unused(v) + len
  <2>1. reserved >= Len(v.buf) + len
    BY <1>1, <1>3, <1>4
  <2>2. Unused(w) = (reserved - v.size) - v.scratch
    BY <1>6 DEF Unused
  <2>3. reserved >= (v.cur + v.size) + len
    BY <1>1, <2>1
  <2>4. \A r, c, s, p, l \in Int :
          r >= (c + s) + l => (r - s) - p >= (c - p) + l
    OBVIOUS
  <2>5. (reserved - v.size) - v.scratch >= (v.cur - v.scratch) + len
    <3>1. /\ reserved \in Int /\ v.cur \in Int /\ v.size \in Int
          /\ v.scratch \in Int /\ len \in Int
      BY <1>1, <1>4
    <3>. QED
      BY <2>3, <2>4, <3>1, Zenon
  <2>. QED
    BY <1>1, <2>2, <2>5
<1>11. Reserved(w) % v.align = 0
  <2>1. reserved % v.align = 0
    BY <1>1, <1>3, RoundUpGrows DEF reserved
  <2>. QED
    BY <1>7, <2>1 DEF Reserved
<1>12. w.align = v.align
  BY <1>6
<1>. QED
  BY <1>8, <1>9, <1>10, <1>11, <1>12 DEF w, Rounded

(* ensure_space() leaves the content alone and makes the room it was asked *)
(* for.                                                                    *)
LEMMA EnsureSpaceKeeps ==
  ASSUME NEW v \in Vectors, NEW len \in Nat
  PROVE  /\ EnsureSpace(v, len) \in Vectors
         /\ SameContent(v, EnsureSpace(v, len))
         /\ len <= Unused(EnsureSpace(v, len))
         /\ Rounded(v, EnsureSpace(v, len))
<1>1. Unused(v) \in Nat
  BY VectorParts
<1>2. CASE len > Unused(v)
  <2>1. EnsureSpace(v, len) = Reallocate(v, len)
    BY <1>2 DEF EnsureSpace
  <2>. DEFINE w == Reallocate(v, len)
  <2>. HIDE DEF w
  <2>2. /\ w \in Vectors /\ SameContent(v, w)
        /\ Unused(w) >= Unused(v) + len /\ Rounded(v, w)
    BY ReallocateKeeps DEF w
  <2>3. Unused(w) \in Nat
    BY <2>2, VectorParts
  <2>. QED
    BY <1>1, <2>1, <2>2, <2>3 DEF w
<1>3. CASE ~ (len > Unused(v))
  BY <1>1, <1>3 DEF EnsureSpace, SameContent, Rounded
<1>. QED
  BY <1>2, <1>3

-----------------------------------------------------------------------------
(* push() puts the bytes in front of the data and touches nothing else,    *)
(* whether or not the block had to grow for them.                          *)
THEOREM PushPrepends ==
  ASSUME NEW v \in Vectors, NEW bytes \in Seq(Int)
  PROVE  /\ Push(v, bytes) \in Vectors
         /\ Data(Push(v, bytes)) = bytes \o Data(v)
         /\ ScratchBytes(Push(v, bytes)) = ScratchBytes(v)
         /\ Rounded(v, Push(v, bytes))
<1>. DEFINE n == Len(bytes)
            e == EnsureSpace(v, n)
            at == e.cur - n
            t == Overwrite(e.buf, at, bytes)
            w == Push(v, bytes)
<1>1. n \in Nat
  BY LenProperties
<1>2. /\ e \in Vectors /\ SameContent(v, e) /\ n <= Unused(e)
      /\ Rounded(v, e)
  BY <1>1, EnsureSpaceKeeps
<1>. HIDE DEF e
<1>3. /\ e.buf \in Seq(Int) /\ Len(e.buf) \in Nat
      /\ e.cur \in Nat /\ e.scratch \in Nat /\ e.size \in Nat
      /\ e.cur + e.size = Len(e.buf) /\ n <= e.cur - e.scratch
  BY <1>2, VectorParts
<1>4. /\ at \in Nat /\ at + n = e.cur /\ e.cur \in (at + n)..Len(e.buf)
      /\ at + n <= Len(e.buf) /\ e.scratch \in 0..at
      /\ e.size + n = Len(e.buf) - at /\ at <= Len(e.buf)
  BY <1>1, <1>3
<1>5. /\ w.buf = t /\ w.cur = at
      /\ w.scratch = e.scratch /\ w.size = e.size + n
      /\ w = [buf |-> w.buf, cur |-> w.cur, scratch |-> w.scratch,
              size |-> w.size, initial |-> e.initial, align |-> e.align]
  <2>1. w = [[e EXCEPT !.cur = @ - n, !.size = @ + n]
               EXCEPT !.buf = Overwrite(e.buf, e.cur - n, bytes)]
    BY <1>2 DEF Push, MakeSpace, Vectors, e
  <2>. HIDE DEF t, w
  <2>. QED
    BY <1>2, <2>1 DEF Vectors, t
<1>. HIDE DEF n, at, w
<1>6. /\ t \in Seq(Int) /\ Len(t) = Len(e.buf)
      /\ SubSeq(t, 1, e.scratch) = SubSeq(e.buf, 1, e.scratch)
      /\ SubSeq(t, at + 1, Len(t))
           = bytes \o SubSeq(e.buf, e.cur + 1, Len(e.buf))
  <2>. DEFINE s == e.buf
  <2>1. s \in Seq(Int) /\ at + Len(bytes) <= Len(s) /\ at \in Nat
    BY <1>3, <1>4 DEF n
  <2>. HIDE DEF s
  <2>2. /\ \A p \in 0..at : SubSeq(t, 1, p) = SubSeq(s, 1, p)
        /\ SubSeq(t, at + 1, Len(t))
             = bytes \o SubSeq(s, (at + Len(bytes)) + 1, Len(s))
        /\ t \in Seq(Int) /\ Len(t) = Len(s)
    <3>1. t = Overwrite(s, at, bytes)
      BY DEF s
    <3>2. t \in Seq(Int) /\ Len(t) = Len(s)
      BY <2>1, <3>1, OverwriteBytes
    <3>. DEFINE o == Overwrite(s, at, bytes)
    <3>3. /\ \A p \in 0..at : SubSeq(o, 1, p) = SubSeq(s, 1, p)
          /\ SubSeq(o, at + 1, Len(o))
               = bytes \o SubSeq(s, (at + Len(bytes)) + 1, Len(s))
      BY <2>1, OverwriteParts
    <3>. HIDE DEF t, o
    <3>4. t = o
      BY <3>1 DEF o
    <3>. QED
      BY <3>2, <3>3, <3>4
  <2>. HIDE DEF t
  <2>. QED
    BY <1>4, <2>2 DEF s, n
<1>. HIDE DEF t
<1>7. w \in Vectors
  <2>1. w.scratch <= w.cur /\ w.cur <= Len(w.buf)
    BY <1>4, <1>5, <1>6
  <2>2. w.size = Len(w.buf) - w.cur
    BY <1>4, <1>5, <1>6
  <2>3. w.buf \in Seq(Int) /\ w.cur \in Nat /\ w.scratch \in Nat
    BY <1>3, <1>4, <1>5, <1>6
  <2>. QED
    BY <1>2, <1>5, <2>1, <2>2, <2>3, IsVector
<1>8. Data(w) = bytes \o Data(e) /\ ScratchBytes(w) = ScratchBytes(e)
  BY <1>5, <1>6 DEF Data, ScratchBytes
<1>9. w.align = e.align /\ Reserved(w) = Reserved(e)
  BY <1>5, <1>6 DEF Reserved
<1>10. Rounded(v, w)
  BY <1>2, <1>9 DEF Rounded
<1>. QED
  BY <1>2, <1>7, <1>8, <1>10 DEF SameContent, w

(* scratch_push_small() appends to the scratch pad and touches nothing     *)
(* else.                                                                   *)
THEOREM ScratchPushAppends ==
  ASSUME NEW v \in Vectors, NEW bytes \in Seq(Int)
  PROVE  /\ ScratchPush(v, bytes) \in Vectors
         /\ Data(ScratchPush(v, bytes)) = Data(v)
         /\ ScratchBytes(ScratchPush(v, bytes)) = ScratchBytes(v) \o bytes
         /\ Rounded(v, ScratchPush(v, bytes))
<1>. DEFINE n == Len(bytes)
            e == EnsureSpace(v, n)
            at == e.scratch
            t == Overwrite(e.buf, at, bytes)
            w == ScratchPush(v, bytes)
<1>1. n \in Nat
  BY LenProperties
<1>2. /\ e \in Vectors /\ SameContent(v, e) /\ n <= Unused(e)
      /\ Rounded(v, e)
  BY <1>1, EnsureSpaceKeeps
<1>. HIDE DEF e
<1>3. /\ e.buf \in Seq(Int) /\ Len(e.buf) \in Nat
      /\ e.cur \in Nat /\ at \in Nat /\ e.size \in Nat
      /\ e.cur + e.size = Len(e.buf) /\ n <= e.cur - at
  BY <1>2, VectorParts
<1>4. /\ at + n \in Nat /\ e.cur \in (at + n)..Len(e.buf)
      /\ at + n <= Len(e.buf) /\ at + n <= e.cur /\ e.cur <= Len(e.buf)
      /\ e.size = Len(e.buf) - e.cur
  BY <1>1, <1>3
<1>5. /\ w.buf = t /\ w.cur = e.cur
      /\ w.scratch = at + n /\ w.size = e.size
      /\ w = [buf |-> w.buf, cur |-> w.cur, scratch |-> w.scratch,
              size |-> w.size, initial |-> e.initial, align |-> e.align]
  <2>1. w = [e EXCEPT !.buf = Overwrite(e.buf, e.scratch, bytes),
                      !.scratch = e.scratch + n]
    BY <1>2 DEF ScratchPush, Vectors, e
  <2>. HIDE DEF t, w
  <2>. QED
    BY <1>2, <2>1 DEF Vectors, t
<1>. HIDE DEF n, at, w
<1>6. /\ t \in Seq(Int) /\ Len(t) = Len(e.buf)
      /\ SubSeq(t, 1, at + n) = SubSeq(e.buf, 1, at) \o bytes
      /\ SubSeq(t, e.cur + 1, Len(t)) = SubSeq(e.buf, e.cur + 1, Len(e.buf))
  <2>. DEFINE s == e.buf
  <2>1. s \in Seq(Int) /\ at + Len(bytes) <= Len(s) /\ at \in Nat
    BY <1>3, <1>4 DEF n
  <2>. HIDE DEF s
  <2>2. /\ \A c \in (at + Len(bytes))..Len(s) :
             SubSeq(t, c + 1, Len(t)) = SubSeq(s, c + 1, Len(s))
        /\ SubSeq(t, 1, at + Len(bytes)) = SubSeq(s, 1, at) \o bytes
        /\ t \in Seq(Int) /\ Len(t) = Len(s)
    <3>1. t = Overwrite(s, at, bytes)
      BY DEF s
    <3>2. t \in Seq(Int) /\ Len(t) = Len(s)
      BY <2>1, <3>1, OverwriteBytes
    <3>. DEFINE o == Overwrite(s, at, bytes)
    <3>3. /\ \A c \in (at + Len(bytes))..Len(s) :
               SubSeq(o, c + 1, Len(o)) = SubSeq(s, c + 1, Len(s))
          /\ SubSeq(o, 1, at + Len(bytes)) = SubSeq(s, 1, at) \o bytes
      BY <2>1, OverwriteParts
    <3>. HIDE DEF t, o
    <3>4. t = o
      BY <3>1 DEF o
    <3>. QED
      BY <3>2, <3>3, <3>4
  <2>. HIDE DEF t
  <2>. QED
    BY <1>4, <2>2 DEF s, n
<1>. HIDE DEF t
<1>7. w \in Vectors
  <2>1. w.scratch <= w.cur /\ w.cur <= Len(w.buf)
    BY <1>4, <1>5, <1>6
  <2>2. w.size = Len(w.buf) - w.cur
    BY <1>4, <1>5, <1>6
  <2>3. w.buf \in Seq(Int) /\ w.cur \in Nat /\ w.scratch \in Nat
    BY <1>3, <1>4, <1>5, <1>6
  <2>. QED
    BY <1>2, <1>5, <2>1, <2>2, <2>3, IsVector
<1>8. Data(w) = Data(e) /\ ScratchBytes(w) = ScratchBytes(e) \o bytes
  BY <1>5, <1>6 DEF Data, ScratchBytes, at
<1>9. w.align = e.align /\ Reserved(w) = Reserved(e)
  BY <1>5, <1>6 DEF Reserved
<1>10. Rounded(v, w)
  BY <1>2, <1>9 DEF Rounded
<1>. QED
  BY <1>2, <1>7, <1>8, <1>10 DEF SameContent, w

-----------------------------------------------------------------------------
(* The byte that an offset names is found in the data alone: where the     *)
(* block is, and how large, does not matter.                               *)
LEMMA NamedByte ==
  ASSUME NEW v \in Vectors, NEW offset \in 1..v.size
  PROVE  /\ v.buf[DataAt(v, offset) + 1] = Data(v)[(v.size - offset) + 1]
         /\ (v.size - offset) + 1 \in 1..v.size
<1>1. /\ Len(v.buf) \in Nat /\ Reserved(v) = Len(v.buf)
      /\ v.cur \in Nat /\ v.size \in Nat /\ v.cur + v.size = Len(v.buf)
  BY VectorParts
<1>. DEFINE i == (v.size - offset) + 1
<1>2. i \in 1..v.size /\ (Len(v.buf) - offset) + 1 = v.cur + i
  BY <1>1
<1>3. DataAt(v, offset) + 1 = v.cur + i
  BY <1>1, <1>2 DEF DataAt
<1>. HIDE DEF i
<1>4. Data(v)[i] = v.buf[v.cur + i]
  BY <1>2, DataBytes
<1>. QED
  BY <1>2, <1>3, <1>4 DEF i

(* An offset that was given out keeps naming the same byte, whatever is    *)
(* pushed afterwards and however often the block moves for it: what the    *)
(* offsets kept in tables, in the scratch pad and by the caller rely on.   *)
THEOREM OffsetsSurvivePush ==
  ASSUME NEW v \in Vectors, NEW bytes \in Seq(Int), NEW offset \in 1..v.size,
         NEW w \in {Push(v, bytes), ScratchPush(v, bytes)}
  PROVE  w.buf[DataAt(w, offset) + 1] = v.buf[DataAt(v, offset) + 1]
<1>. DEFINE i == (v.size - offset) + 1
            n == Len(bytes)
<1>1. /\ n \in Nat /\ v.size \in Nat /\ i \in 1..v.size
      /\ Data(v) \in Seq(Int) /\ Len(Data(v)) = v.size
  BY LenProperties, VectorParts, DataBytes
<1>2. v.buf[DataAt(v, offset) + 1] = Data(v)[i]
  BY NamedByte
<1>3. CASE w = Push(v, bytes)
  <2>1. w \in Vectors /\ Data(w) = bytes \o Data(v)
    BY <1>3, PushPrepends
  <2>2. /\ Len(bytes \o Data(v)) = n + v.size
        /\ \A j \in 1..(n + v.size) : (bytes \o Data(v))[j] =
             IF j <= n THEN bytes[j] ELSE Data(v)[j - n]
    <3>. DEFINE d == Data(v)
    <3>1. d \in Seq(Int) /\ Len(d) = v.size
      BY <1>1
    <3>. HIDE DEF d
    <3>2. /\ Len(bytes \o d) = Len(bytes) + Len(d)
          /\ \A j \in 1..(Len(bytes) + Len(d)) : (bytes \o d)[j] =
               IF j <= Len(bytes) THEN bytes[j] ELSE d[j - Len(bytes)]
      BY <3>1, ConcatProperties
    <3>. QED
      BY <3>1, <3>2 DEF d
  <2>3. w.size = n + v.size
    BY <2>1, <2>2, DataBytes
  <2>. HIDE DEF n
  <2>4. /\ offset \in 1..w.size
        /\ (w.size - offset) + 1 = n + i /\ n + i \in 1..(n + v.size)
        /\ ~ (n + i <= n) /\ (n + i) - n = i
    <3>1. \A a, b, c \in Int :
            /\ 0 <= a /\ 1 <= c /\ c <= b
            => /\ c \in 1..(a + b)
               /\ ((a + b) - c) + 1 = a + ((b - c) + 1)
               /\ a + ((b - c) + 1) \in 1..(a + b)
               /\ ~ (a + ((b - c) + 1) <= a)
               /\ (a + ((b - c) + 1)) - a = (b - c) + 1
      OBVIOUS
    <3>2. /\ n \in Int /\ v.size \in Int /\ offset \in Int
          /\ 0 <= n /\ 1 <= offset /\ offset <= v.size
      BY <1>1
    <3>. DEFINE z == v.size
                x == w.size
    <3>3. x = n + z
      BY <2>3
    <3>4. /\ offset \in 1..(n + z)
          /\ ((n + z) - offset) + 1 = n + i /\ n + i \in 1..(n + z)
          /\ ~ (n + i <= n) /\ (n + i) - n = i
      <4>. HIDE DEF z
      <4>. QED
        BY <3>1, <3>2, Zenon DEF z
    <3>. HIDE DEF x
    <3>. QED
      BY <3>3, <3>4 DEF x
  <2>5. w.buf[DataAt(w, offset) + 1] = Data(w)[n + i]
    BY <2>1, <2>4, NamedByte
  <2>6. Data(w)[n + i] = Data(v)[i]
    <3>. HIDE DEF i
    <3>. QED
      BY <2>1, <2>2, <2>4
  <2>. QED
    BY <1>2, <2>5, <2>6
<1>4. CASE w = ScratchPush(v, bytes)
  <2>1. w \in Vectors /\ Data(w) = Data(v)
    BY <1>4, ScratchPushAppends
  <2>2. w.size = v.size
    BY <1>1, <2>1, DataBytes
  <2>3. w.buf[DataAt(w, offset) + 1] = Data(w)[(w.size - offset) + 1]
    BY <2>1, <2>2, NamedByte
  <2>. QED
    BY <1>2, <2>1, <2>2, <2>3
<1>. QED
  BY <1>3, <1>4

(* pop() drops the newest bytes of the data, and an offset of what remains *)
(* still names the same byte.                                              *)
THEOREM PopDrops ==
  ASSUME NEW v \in Vectors, NEW n \in 0..v.size
  PROVE  /\ Pop(v, n) \in Vectors
         /\ Data(Pop(v, n)) = SubSeq(v.buf, (v.cur + n) + 1, Len(v.buf))
         /\ ScratchBytes(Pop(v, n)) = ScratchBytes(v)
         /\ Rounded(v, Pop(v, n))
         /\ \A offset \in 1..(v.size - n) :
              Pop(v, n).buf[DataAt(Pop(v, n), offset) + 1]
                = v.buf[DataAt(v, offset) + 1]
<1>. DEFINE w == Pop(v, n)
<1>1. /\ v.buf \in Seq(Int) /\ Len(v.buf) \in Nat
      /\ v.cur \in Nat /\ v.scratch \in Nat /\ v.size \in Nat
      /\ v.scratch <= v.cur /\ v.cur + v.size = Len(v.buf)
  BY VectorParts
<1>2. /\ w.buf = v.buf /\ w.cur = v.cur + n
      /\ w.scratch = v.scratch /\ w.size = v.size - n
      /\ w = [buf |-> w.buf, cur |-> w.cur, scratch |-> w.scratch,
              size |-> w.size, initial |-> v.initial, align |-> v.align]
  <2>. DEFINE c == v.cur + n
              s == v.size - n
  <2>1. w = [v EXCEPT !.cur = c, !.size = s]
    BY DEF Pop
  <2>. HIDE DEF c, s, w
  <2>2. /\ w.buf = v.buf /\ w.cur = c
        /\ w.scratch = v.scratch /\ w.size = s
        /\ w = [buf |-> w.buf, cur |-> w.cur, scratch |-> w.scratch,
                size |-> w.size, initial |-> v.initial, align |-> v.align]
    BY <2>1 DEF Vectors
  <2>. QED
    BY <2>2 DEF c, s
<1>. HIDE DEF w
<1>3. /\ v.cur + n \in Nat /\ v.scratch <= v.cur + n
      /\ v.cur + n <= Len(v.buf) /\ v.size - n = Len(v.buf) - (v.cur + n)
  BY <1>1
<1>4. w \in Vectors
  BY <1>1, <1>2, <1>3, IsVector
<1>5. /\ Data(w) = SubSeq(v.buf, (v.cur + n) + 1, Len(v.buf))
      /\ ScratchBytes(w) = ScratchBytes(v)
      /\ \A offset : DataAt(w, offset) = DataAt(v, offset)
  BY <1>2 DEF Data, ScratchBytes, DataAt, Reserved
<1>6. w.align = v.align /\ Reserved(w) = Reserved(v)
  BY <1>2 DEF Reserved
<1>. QED
  BY <1>2, <1>4, <1>5, <1>6 DEF w, Rounded

(* The scratch pad is popped and cleared without touching the data.        *)
THEOREM ScratchPopDrops ==
  ASSUME NEW v \in Vectors, NEW n \in 0..v.scratch
  PROVE  /\ ScratchPop(v, n) \in Vectors
         /\ Data(ScratchPop(v, n)) = Data(v)
         /\ ScratchBytes(ScratchPop(v, n)) = SubSeq(v.buf, 1, v.scratch - n)
         /\ ClearScratch(v) = ScratchPop(v, v.scratch)
         /\ Rounded(v, ScratchPop(v, n))
<1>. DEFINE w == ScratchPop(v, n)
<1>1. /\ v.buf \in Seq(Int) /\ Len(v.buf) \in Nat
      /\ v.cur \in Nat /\ v.scratch \in Nat /\ v.size \in Nat
      /\ v.scratch <= v.cur /\ v.cur + v.size = Len(v.buf)
  BY VectorParts
<1>2. /\ w.buf = v.buf /\ w.cur = v.cur
      /\ w.scratch = v.scratch - n /\ w.size = v.size
      /\ w = [buf |-> w.buf, cur |-> w.cur, scratch |-> w.scratch,
              size |-> w.size, initial |-> v.initial, align |-> v.align]
  BY DEF ScratchPop, Vectors
<1>. HIDE DEF w
<1>3. /\ v.scratch - n \in Nat /\ v.scratch - n <= v.cur
      /\ v.cur <= Len(v.buf) /\ v.size = Len(v.buf) - v.cur
  BY <1>1
<1>4. w \in Vectors
  BY <1>1, <1>2, <1>3, IsVector
<1>5. /\ Data(w) = Data(v)
      /\ ScratchBytes(w) = SubSeq(v.buf, 1, v.scratch - n)
  BY <1>2 DEF Data, ScratchBytes
<1>6. ClearScratch(v) = ScratchPop(v, v.scratch)
  <2>1. v.scratch - v.scratch = 0
    BY <1>1
  <2>. QED
    BY <2>1 DEF ClearScratch, ScratchPop
<1>7. w.align = v.align /\ Reserved(w) = Reserved(v)
  BY <1>2 DEF Reserved
<1>. QED
  BY <1>4, <1>5, <1>6, <1>7 DEF w, Rounded

(* Writing in place inside the data changes neither the scratch pad nor    *)
(* where anything is.                                                      *)
THEOREM WriteInPlace ==
  ASSUME NEW v \in Vectors, NEW bytes \in Seq(Int), NEW at \in Nat,
         v.cur <= at, at + Len(bytes) <= Reserved(v)
  PROVE  /\ WriteAt(v, at, bytes) \in Vectors
         /\ ScratchBytes(WriteAt(v, at, bytes)) = ScratchBytes(v)
         /\ WriteAt(v, at, bytes).size = v.size
         /\ Rounded(v, WriteAt(v, at, bytes))
<1>. DEFINE w == WriteAt(v, at, bytes)
            t == Overwrite(v.buf, at, bytes)
<1>1. /\ v.buf \in Seq(Int) /\ Len(v.buf) \in Nat /\ Reserved(v) = Len(v.buf)
      /\ v.cur \in Nat /\ v.scratch \in Nat /\ v.size \in Nat
      /\ v.scratch <= v.cur /\ v.cur + v.size = Len(v.buf)
  BY VectorParts
<1>2. /\ w.buf = t /\ w.cur = v.cur
      /\ w.scratch = v.scratch /\ w.size = v.size
      /\ w = [buf |-> w.buf, cur |-> w.cur, scratch |-> w.scratch,
              size |-> w.size, initial |-> v.initial, align |-> v.align]
  <2>. HIDE DEF t
  <2>. QED
    BY DEF WriteAt, Vectors, t
<1>3. t \in Seq(Int) /\ Len(t) = Len(v.buf)
  BY <1>1, OverwriteBytes
<1>4. SubSeq(t, 1, v.scratch) = SubSeq(v.buf, 1, v.scratch)
  <2>. DEFINE s == v.buf
              p == v.scratch
  <2>1. s \in Seq(Int) /\ at + Len(bytes) <= Len(s) /\ p \in 0..at
    BY <1>1
  <2>. HIDE DEF s, p
  <2>2. SubSeq(Overwrite(s, at, bytes), 1, p) = SubSeq(s, 1, p)
    BY <2>1, OverwriteParts
  <2>. QED
    BY <2>2 DEF s, p
<1>. HIDE DEF t, w
<1>5. w \in Vectors
  <2>1. v.cur <= Len(v.buf) /\ v.size = Len(v.buf) - v.cur
    BY <1>1
  <2>. QED
    BY <1>1, <1>2, <1>3, <2>1, IsVector
<1>6. ScratchBytes(w) = ScratchBytes(v)
  BY <1>2, <1>4 DEF ScratchBytes
<1>7. w.align = v.align /\ Reserved(w) = Reserved(v)
  BY <1>2, <1>3 DEF Reserved
<1>. QED
  BY <1>2, <1>5, <1>6, <1>7 DEF w, Rounded

(* A new vector, a cleared one and one whose block was taken are empty.    *)
THEOREM EmptyVectors ==
  ASSUME NEW v \in Vectors
  PROVE  \A w \in {NewVector(v.initial, v.align), ClearVector(v),
                   LoseBlock(v)} :
           w \in Vectors /\ w.size = 0 /\ w.scratch = 0 /\ Rounded(v, w)
<1>1. /\ v.buf \in Seq(Int) /\ Len(v.buf) \in Nat
      /\ Reserved(v) = Len(v.buf)
  BY VectorParts
<1>2. << >> \in Seq(Int) /\ Len(<< >>) = 0
  BY EmptySeq
<1>3. ASSUME NEW b \in Seq(Int), NEW w,
             w = [buf |-> b, cur |-> Len(b), scratch |-> 0, size |-> 0,
                  initial |-> v.initial, align |-> v.align]
      PROVE  w \in Vectors /\ w.size = 0 /\ w.scratch = 0
  <2>1. Len(b) \in Nat
    BY LenProperties
  <2>2. /\ w.buf = b /\ w.cur = Len(b) /\ w.scratch = 0 /\ w.size = 0
        /\ w = [buf |-> w.buf, cur |-> w.cur, scratch |-> w.scratch,
                size |-> w.size, initial |-> v.initial, align |-> v.align]
    BY <1>3
  <2>3. 0 <= Len(b) /\ Len(b) <= Len(b) /\ 0 = Len(b) - Len(b)
    BY <2>1
  <2>4. w \in Vectors
    BY <2>1, <2>2, <2>3, IsVector
  <2>. QED
    BY <2>2, <2>4
<1>4. NewVector(v.initial, v.align)
        = [buf |-> << >>, cur |-> Len(<< >>), scratch |-> 0, size |-> 0,
           initial |-> v.initial, align |-> v.align]
  BY <1>2 DEF NewVector
<1>5. ClearVector(v)
        = [buf |-> v.buf, cur |-> Len(v.buf), scratch |-> 0, size |-> 0,
           initial |-> v.initial, align |-> v.align]
  <2>. DEFINE c == Len(v.buf)
  <2>1. ClearVector(v) = [v EXCEPT !.cur = c, !.size = 0, !.scratch = 0]
    BY DEF ClearVector, Reserved
  <2>. HIDE DEF c
  <2>2. ClearVector(v)
          = [buf |-> v.buf, cur |-> c, scratch |-> 0, size |-> 0,
             initial |-> v.initial, align |-> v.align]
    BY <2>1 DEF Vectors
  <2>. QED
    BY <2>2 DEF c
<1>6. LoseBlock(v)
        = [buf |-> << >>, cur |-> Len(<< >>), scratch |-> 0, size |-> 0,
           initial |-> v.initial, align |-> v.align]
  <2>. DEFINE u == [v EXCEPT !.buf = << >>]
              c == Len(<< >>)
  <2>1. u.buf = << >>
    BY DEF Vectors
  <2>2. LoseBlock(v) = [u EXCEPT !.cur = c, !.size = 0, !.scratch = 0]
    BY <2>1 DEF LoseBlock, ClearVector, Reserved
  <2>. HIDE DEF c
  <2>3. LoseBlock(v)
          = [buf |-> << >>, cur |-> c, scratch |-> 0, size |-> 0,
             initial |-> v.initial, align |-> v.align]
    BY <2>2 DEF Vectors
  <2>. QED
    BY <2>3 DEF c
<1>7. /\ LET w == NewVector(v.initial, v.align)
         IN  w \in Vectors /\ w.size = 0 /\ w.scratch = 0
      /\ LET w == LoseBlock(v)
         IN  w \in Vectors /\ w.size = 0 /\ w.scratch = 0
  BY <1>2, <1>3, <1>4, <1>6
<1>8. LET w == ClearVector(v)
      IN  w \in Vectors /\ w.size = 0 /\ w.scratch = 0
  BY <1>1, <1>3, <1>5
<1>9. 0 % v.align = 0
  BY VectorParts
<1>10. /\ NewVector(v.initial, v.align).align = v.align
       /\ Reserved(NewVector(v.initial, v.align)) = 0
       /\ LoseBlock(v).align = v.align /\ Reserved(LoseBlock(v)) = 0
       /\ ClearVector(v).align = v.align
       /\ Reserved(ClearVector(v)) = Reserved(v)
  BY <1>2, <1>4, <1>5, <1>6 DEF Reserved
<1>. QED
  BY <1>7, <1>8, <1>9, <1>10 DEF Rounded

-----------------------------------------------------------------------------
(* Scalars in memory: what is written reads back, and where the memory     *)
(* begins or ends does not matter.                                         *)
Byte == {i \in Nat : i < 256}

LEMMA Powers ==
  256 ^ 0 = 1 /\ 256 ^ 1 = 256 /\ 256 ^ 2 = 65536 /\ 256 ^ 3 = 16777216
BY SMT

LEMMA PowersPositive == \A k \in 0..3 : 256 ^ k \in Nat \ {0}
<1>1. /\ 256 ^ 0 \in Nat \ {0} /\ 256 ^ 1 \in Nat \ {0}
      /\ 256 ^ 2 \in Nat \ {0} /\ 256 ^ 3 \in Nat \ {0}
  BY SMT
<1>2. ASSUME NEW k \in 0..3 PROVE 256 ^ k \in Nat \ {0}
  <2>1. k = 0 \/ k = 1 \/ k = 2 \/ k = 3
    OBVIOUS
  <2>. QED
    BY ONLY <1>1, <2>1, Zenon
<1>. QED
  BY <1>2

LEMMA ScalarBytes ==
  ASSUME NEW n \in Int, NEW w \in Nat
  PROVE  /\ Scalar(n, w) \in Seq(Byte) /\ Len(Scalar(n, w)) = w
         /\ Scalar(n, w) \in Seq(Int)
<1>. DEFINE e(i) == IF i <= 4 THEN (n \div (256 ^ (i - 1))) % 256
                    ELSE IF n < 0 THEN 255 ELSE 0
<1>1. ASSUME NEW i \in 1..w
      PROVE  e(i) \in Byte
  <2>1. CASE i <= 4
    <3>. DEFINE k == 256 ^ (i - 1)
    <3>1. i - 1 \in 0..3
      BY <2>1
    <3>2. k \in Nat \ {0}
      BY ONLY <3>1, PowersPositive, Zenon
    <3>. HIDE DEF k
    <3>3. (n \div k) % 256 \in Byte
      BY <3>2, SMT DEF Byte
    <3>. QED
      BY <2>1, <3>3 DEF k
  <2>2. CASE ~(i <= 4)
    BY <2>2 DEF Byte
  <2>. QED
    BY <2>1, <2>2
<1>2. Scalar(n, w) = [i \in 1..w |-> e(i)]
  BY DEF Scalar
<1>. HIDE DEF e
<1>3. [i \in 1..w |-> e(i)] \in Seq(Byte) /\ Len([i \in 1..w |-> e(i)]) = w
  BY <1>1
<1>4. Byte \subseteq Int
  BY DEF Byte
<1>5. Scalar(n, w) \in Seq(Byte)
  BY <1>2, <1>3
<1>6. Scalar(n, w) \in Seq(Int)
  BY <1>4, <1>5, SeqMonotonic
<1>7. Len(Scalar(n, w)) = w
  BY <1>2, <1>3, Zenon
<1>. QED
  BY <1>5, <1>6, <1>7

(* The widths of offsets and of the words of a vtable.                     *)
LEMMA ScalarOfFour ==
  ASSUME NEW n \in Int
  PROVE  /\ Scalar(n, 4) \in Seq(Byte) /\ Scalar(n, 4) \in Seq(Int)
         /\ Len(Scalar(n, 4)) = 4
<1>. 4 \in Nat
  OBVIOUS
<1>1. Scalar(n, 4) \in Seq(Byte)
  BY ScalarBytes, Zenon
<1>2. Scalar(n, 4) \in Seq(Int)
  BY ScalarBytes, Zenon
<1>3. Len(Scalar(n, 4)) = 4
  BY ScalarBytes, Zenon
<1>. QED
  BY <1>1, <1>2, <1>3

LEMMA ScalarOfTwo ==
  ASSUME NEW n \in Int
  PROVE  /\ Scalar(n, 2) \in Seq(Byte) /\ Scalar(n, 2) \in Seq(Int)
         /\ Len(Scalar(n, 2)) = 2
<1>. 2 \in Nat
  OBVIOUS
<1>1. Scalar(n, 2) \in Seq(Byte)
  BY ScalarBytes, Zenon
<1>2. Scalar(n, 2) \in Seq(Int)
  BY ScalarBytes, Zenon
<1>3. Len(Scalar(n, 2)) = 2
  BY ScalarBytes, Zenon
<1>. QED
  BY <1>1, <1>2, <1>3

TwoDigits(s, n) == s[1] = n % 256 /\ s[2] = (n \div 256) % 256

FourDigits(s, n) ==
  /\ s[1] = n % 256 /\ s[2] = (n \div 256) % 256
  /\ s[3] = (n \div 65536) % 256 /\ s[4] = (n \div 16777216) % 256

LEMMA ScalarDigits ==
  ASSUME NEW n \in Int
  PROVE  FourDigits(Scalar(n, 4), n) /\ TwoDigits(Scalar(n, 2), n)
<1>1. n \div 1 = n
  BY SMT
<1>2. 1..4 = {1, 2, 3, 4} /\ 1..2 = {1, 2}
  BY SMT
<1>3. Scalar(n, 4)[1] = (n \div (256 ^ (1 - 1))) % 256
  BY <1>2, SMT DEF Scalar
<1>4. Scalar(n, 4)[2] = (n \div (256 ^ (2 - 1))) % 256
  BY <1>2, SMT DEF Scalar
<1>5. Scalar(n, 4)[3] = (n \div (256 ^ (3 - 1))) % 256
  BY <1>2, SMT DEF Scalar
<1>6. Scalar(n, 4)[4] = (n \div (256 ^ (4 - 1))) % 256
  BY <1>2, SMT DEF Scalar
<1>7. Scalar(n, 2)[1] = (n \div (256 ^ (1 - 1))) % 256
  BY <1>2, SMT DEF Scalar
<1>8. Scalar(n, 2)[2] = (n \div (256 ^ (2 - 1))) % 256
  BY <1>2, SMT DEF Scalar
<1>. QED
  BY <1>1, <1>3, <1>4, <1>5, <1>6, <1>7, <1>8, Powers, SMT
     DEF FourDigits, TwoDigits

(* Reading two and four bytes.                                             *)
LEMMA ReadTwo ==
  ASSUME NEW s \in Seq(Int), NEW at \in Nat, at + 2 <= Len(s)
  PROVE  ReadU(s, at, 2) = s[at + 1] + 256 * s[at + 2]
<1>1. Len(s) \in Nat
  BY LenProperties
<1>2. Inside(s, at, 2)
  BY <1>1 DEF Inside
<1>3. ~(\E i \in 3..2 : s[at + i] >= (IF i = 3 THEN 16 ELSE 1))
  OBVIOUS
<1>4. s[at + 1] \in Int /\ s[at + 2] \in Int
  BY <1>1
<1>. QED
  BY <1>2, <1>3, <1>4 DEF ReadU

LEMMA ReadFour ==
  ASSUME NEW s \in Seq(Int), NEW at \in Nat, at + 4 <= Len(s)
  PROVE  ReadU(s, at, 4) =
           IF s[at + 3] >= 16 \/ s[at + 4] >= 1 THEN Huge
           ELSE s[at + 1] + 256 * s[at + 2] + 65536 * s[at + 3]
<1>1. Len(s) \in Nat
  BY SMT, LenProperties
<1>2. Inside(s, at, 4)
  BY SMT, <1>1 DEF Inside
<1>3. (\E i \in 3..4 : s[at + i] >= (IF i = 3 THEN 16 ELSE 1))
        <=> s[at + 3] >= 16 \/ s[at + 4] >= 1
  <2>1. 3..4 = {3, 4}
    BY SMT
  <2>. QED
    BY SMT, <2>1
<1>4. s[at + 1] \in Int /\ s[at + 2] \in Int /\ s[at + 3] \in Int
  BY SMT, <1>1
<1>. QED
  BY SMT, <1>2, <1>3, <1>4 DEF ReadU

(* What a read of unsigned bytes can give.                                 *)
LEMMA ReadRange ==
  ASSUME NEW s \in Seq(Byte), NEW at \in Int, NEW w \in {1, 2, 4, 8}
  PROVE  /\ ReadU(s, at, w) \in Int /\ ReadU(s, at, w) >= Junk
         /\ Inside(s, at, w) => /\ ReadU(s, at, w) \in Nat
                                /\ ReadU(s, at, w) <= Huge
<1>1. Len(s) \in Nat
  BY SMT, LenProperties
<1>2. CASE ~Inside(s, at, w)
  BY SMT, <1>2 DEF ReadU, Junk
<1>3. CASE Inside(s, at, w)
  <2>1. at >= 0 /\ at + w <= Len(s)
    BY SMT, <1>3 DEF Inside
  <2>2. \A i \in 1..w : s[at + i] \in Byte
    <3>1. \A i \in 1..w : at + i \in 1..Len(s)
      BY SMT, <1>1, <2>1
    <3>. QED
      BY SMT, <3>1, ElementOfSeq DEF Byte
  <2>3. CASE \E i \in 3..w : s[at + i] >= (IF i = 3 THEN 16 ELSE 1)
    BY SMT, <1>3, <2>3 DEF ReadU, Junk, Huge
  <2>4. CASE ~(\E i \in 3..w : s[at + i] >= (IF i = 3 THEN 16 ELSE 1))
    <3>. DEFINE a == s[at + 1]
                b == IF w > 1 THEN 256 * s[at + 2] ELSE 0
                c == IF w > 2 THEN 65536 * s[at + 3] ELSE 0
    <3>1. ReadU(s, at, w) = a + b + c
      BY SMT, <1>3, <2>4 DEF ReadU
    <3>2. a \in Nat /\ a < 256
      BY SMT, <2>2 DEF Byte
    <3>3. b \in Nat /\ b <= 65280
      BY SMT, <2>2 DEF Byte
    <3>4. c \in Nat /\ c <= 983040
      <4>1. CASE w > 2
        <5>1. 3 \in 3..w /\ 3 \in 1..w
          BY SMT, <4>1
        <5>2. ~(s[at + 3] >= 16) /\ s[at + 3] \in Byte
          BY SMT, <2>2, <2>4, <5>1
        <5>. QED
          BY SMT, <4>1, <5>2 DEF Byte
      <4>2. CASE ~(w > 2)
        BY SMT, <4>2
      <4>. QED
        BY SMT, <4>1, <4>2
    <3>. HIDE DEF a, b, c
    <3>. QED
      BY SMT, <3>1, <3>2, <3>3, <3>4 DEF Junk, Huge
  <2>. QED
    BY SMT, <2>3, <2>4
<1>. QED
  BY SMT, <1>2, <1>3

FirstFour(s) ==
  IF s[3] >= 16 \/ s[4] >= 1 THEN Huge
  ELSE s[1] + 256 * s[2] + 65536 * s[3]

LEMMA ReadFirst ==
  ASSUME NEW s \in Seq(Int)
  PROVE  /\ Len(s) = 2 => ReadU(s, 0, 2) = s[1] + 256 * s[2]
         /\ Len(s) = 4 => ReadU(s, 0, 4) = FirstFour(s)
<1>1. ASSUME NEW at \in Nat, at = 0, Len(s) = 2
      PROVE  ReadU(s, at, 2) = s[1] + 256 * s[2]
  <2>1. at + 2 <= Len(s) /\ at + 1 = 1 /\ at + 2 = 2
    BY <1>1, SMT
  <2>2. ReadU(s, at, 2) = s[at + 1] + 256 * s[at + 2]
    BY <2>1, ReadTwo, SMT
  <2>. QED
    BY <2>1, <2>2, SMT
<1>2. ASSUME NEW at \in Nat, at = 0, Len(s) = 4
      PROVE  ReadU(s, at, 4) = FirstFour(s)
  <2>1. /\ at + 4 <= Len(s) /\ at + 1 = 1 /\ at + 2 = 2
        /\ at + 3 = 3 /\ at + 4 = 4
    BY <1>2, SMT
  <2>2. ReadU(s, at, 4) =
          IF s[at + 3] >= 16 \/ s[at + 4] >= 1 THEN Huge
          ELSE s[at + 1] + 256 * s[at + 2] + 65536 * s[at + 3]
    BY <2>1, ReadFour, SMT
  <2>. QED
    BY <2>1, <2>2, SMT DEF FirstFour
<1>. QED
  BY <1>1, <1>2, SMT

(* Four bytes of an unsigned number that is not huge, and of a signed one. *)
LEMMA ReadBackFour ==
  ASSUME NEW n \in Int, 0 <= n
  PROVE  /\ ReadU(Scalar(n, 4), 0, 4) \in Nat /\ ReadU(Scalar(n, 4), 0, 4) <= n
         /\ n < Huge => ReadU(Scalar(n, 4), 0, 4) = n
<1>. DEFINE s == Scalar(n, 4)
            a == n % 256
            b == (n \div 256) % 256
            c == (n \div 65536) % 256
            d == (n \div 16777216) % 256
<1>1. s \in Seq(Int) /\ Len(s) = 4 /\ s \in Seq(Byte)
  BY ScalarOfFour
<1>2. s[1] = a /\ s[2] = b /\ s[3] = c /\ s[4] = d
  <2>1. FourDigits(Scalar(n, 4), n)
    BY ScalarDigits, Zenon
  <2>. QED
    BY <2>1, SMT DEF FourDigits
<1>. HIDE DEF s
<1>3. ReadU(s, 0, 4) = FirstFour(s)
  BY ONLY <1>1, ReadFirst, Zenon
<1>4. /\ a \in Nat /\ b \in Nat /\ c \in Nat /\ d \in Nat
  BY SMT
<1>. HIDE DEF s
<1>5. CASE n < Huge
  <2>1. n < 1048576
    BY SMT, <1>5 DEF Huge
  <2>2. c < 16 /\ d = 0
    BY SMT, <2>1
  <2>3. n = a + 256 * b + 65536 * c
    BY SMT, <2>1
  <2>. HIDE DEF a, b, c, d
  <2>. QED
    BY SMT, <1>2, <1>3, <1>4, <2>2, <2>3 DEF s, FirstFour
<1>6. CASE n >= Huge
  <2>. HIDE DEF a, b, c, d
  <2>1. ReadU(s, 0, 4) \in Nat /\ ReadU(s, 0, 4) <= Huge
    <3>1. Inside(s, 0, 4)
      BY SMT, <1>1 DEF Inside
    <3>. QED
      BY SMT, <1>1, <3>1, ReadRange
  <2>. QED
    BY SMT, <1>6, <2>1 DEF Huge, s
<1>7. n < Huge \/ n >= Huge
  BY SMT DEF Huge
<1>. QED
  BY SMT, <1>5, <1>6, <1>7

LEMMA ReadBackTwo ==
  ASSUME NEW n \in Int, 0 <= n, n < 65536
  PROVE  ReadU(Scalar(n, 2), 0, 2) = n
<1>1. Scalar(n, 2) \in Seq(Int) /\ Len(Scalar(n, 2)) = 2
  BY ScalarOfTwo
<1>. DEFINE s == Scalar(n, 2)
            a == n % 256
            b == (n \div 256) % 256
<1>2. s[1] = a /\ s[2] = b
  <2>1. TwoDigits(Scalar(n, 2), n)
    BY ONLY ScalarDigits, n \in Int, Zenon
  <2>. QED
    BY <2>1, SMT DEF TwoDigits
<1>3. s \in Seq(Int) /\ Len(s) = 2
  BY <1>1
<1>. HIDE DEF s
<1>3a. ReadU(s, 0, 2) = s[1] + 256 * s[2]
  BY <1>3, ReadFirst, SMT
<1>4. n = a + 256 * b
  OBVIOUS
<1>. HIDE DEF a, b
<1>. QED
  BY <1>2, <1>3a, <1>4, SMT DEF s

LEMMA Complement ==
  ASSUME NEW x \in Int
  PROVE  /\ 255 - (x % 256) = (-1 - x) % 256
         /\ 255 - ((x \div 256) % 256) = ((-1 - x) \div 256) % 256
         /\ 255 - ((x \div 65536) % 256) = ((-1 - x) \div 65536) % 256
         /\ 255 - ((x \div 16777216) % 256) = ((-1 - x) \div 16777216) % 256
<1>1. \A q \in Int : 255 - (q % 256) = (-1 - q) % 256
  BY SMT
<1>2. \A q \in Int : (-1 - q) \div 256 = -1 - (q \div 256)
  BY SMT
<1>3. \A q \in Int : (-1 - q) \div 65536 = -1 - (q \div 65536)
  BY SMT
<1>4. \A q \in Int : (-1 - q) \div 16777216 = -1 - (q \div 16777216)
  BY SMT
<1>5. x \div 256 \in Int /\ x \div 65536 \in Int /\ x \div 16777216 \in Int
  BY SMT
<1>6. 255 - ((x \div 256) % 256) = ((-1 - x) \div 256) % 256
  <2>. DEFINE u == (-1 - x) \div 256
              d == x \div 256
  <2>1. u = -1 - d
    BY ONLY <1>2, x \in Int, SMT
  <2>2. d \in Int
    BY <1>5
  <2>. HIDE DEF u, d
  <2>3. 255 - (d % 256) = u % 256
    BY ONLY <2>1, <2>2, SMT
  <2>. QED
    BY <2>3 DEF u, d
<1>7. 255 - ((x \div 65536) % 256) = ((-1 - x) \div 65536) % 256
  <2>. DEFINE u == (-1 - x) \div 65536
              d == x \div 65536
  <2>1. u = -1 - d
    BY ONLY <1>3, x \in Int, SMT
  <2>2. d \in Int
    BY <1>5
  <2>. HIDE DEF u, d
  <2>3. 255 - (d % 256) = u % 256
    BY ONLY <2>1, <2>2, SMT
  <2>. QED
    BY <2>3 DEF u, d
<1>8. 255 - ((x \div 16777216) % 256) = ((-1 - x) \div 16777216) % 256
  <2>. DEFINE u == (-1 - x) \div 16777216
              d == x \div 16777216
  <2>1. u = -1 - d
    BY ONLY <1>4, x \in Int, SMT
  <2>2. d \in Int
    BY <1>5
  <2>. HIDE DEF u, d
  <2>3. 255 - (d % 256) = u % 256
    BY ONLY <2>1, <2>2, SMT
  <2>. QED
    BY <2>3 DEF u, d
<1>. QED
  BY SMT, <1>1, <1>6, <1>7, <1>8

LEMMA ReadBackSigned ==
  ASSUME NEW x \in Int, -Huge < x, x < Huge
  PROVE  ReadS(Scalar(x, 4), 0, 4) = x
<1>. DEFINE s == Scalar(x, 4)
            y == -1 - x
<1>1. s \in Seq(Int) /\ Len(s) = 4
  BY ScalarOfFour
<1>2. /\ s[1] = x % 256 /\ s[2] = (x \div 256) % 256
      /\ s[3] = (x \div 65536) % 256 /\ s[4] = (x \div 16777216) % 256
  <2>1. FourDigits(Scalar(x, 4), x)
    BY ScalarDigits, Zenon
  <2>. QED
    BY <2>1, SMT DEF FourDigits
<1>. HIDE DEF s
<1>3. Inside(s, 0, 4)
  BY SMT, <1>1 DEF Inside
<1>4. CASE x >= 0
  <2>1. (x \div 16777216) % 256 < 128
    BY SMT, <1>4 DEF Huge
  <2>2. s[0 + 4] < 128
    BY SMT, <1>2, <2>1
  <2>3. ReadS(s, 0, 4) = ReadU(s, 0, 4)
    BY SMT, <1>3, <2>2 DEF ReadS
  <2>4. 0 <= x
    BY SMT, <1>4
  <2>. QED
    BY SMT, <2>3, <2>4, ReadBackFour DEF s
<1>5. CASE x < 0
  <2>1. (x \div 16777216) % 256 = 255
    BY SMT, <1>5 DEF Huge
  <2>2. ~(s[0 + 4] < 128)
    BY SMT, <1>2, <2>1
  <2>. DEFINE t == [i \in 1..4 |-> 255 - s[0 + i]]
              u == Scalar(y, 4)
  <2>3. ReadS(s, 0, 4) = -1 - ReadU(t, 0, 4)
    BY SMT, <1>3, <2>2 DEF ReadS
  <2>4. y \in Nat /\ y < Huge /\ -1 - y = x
    BY SMT, <1>5 DEF Huge
  <2>5. u \in Seq(Int) /\ Len(u) = 4
    <3>. HIDE DEF y
    <3>. QED
      BY <2>4, ScalarOfFour, SMT
  <2>6. /\ u[1] = 255 - s[1] /\ u[2] = 255 - s[2]
        /\ u[3] = 255 - s[3] /\ u[4] = 255 - s[4]
    <3>1. y \in Int
      BY <2>4
    <3>2. /\ u[1] = y % 256 /\ u[2] = (y \div 256) % 256
          /\ u[3] = (y \div 65536) % 256 /\ u[4] = (y \div 16777216) % 256
      <4>. HIDE DEF y
      <4>1. FourDigits(Scalar(y, 4), y)
        BY <3>1, ScalarDigits, Zenon
      <4>. QED
        BY <4>1, SMT DEF FourDigits, u
    <3>3. /\ 255 - (x % 256) = y % 256
          /\ 255 - ((x \div 256) % 256) = (y \div 256) % 256
          /\ 255 - ((x \div 65536) % 256) = (y \div 65536) % 256
          /\ 255 - ((x \div 16777216) % 256) = (y \div 16777216) % 256
      BY Complement, SMT
    <3>. HIDE DEF u, y
    <3>. QED
      BY <1>2, <3>2, <3>3, SMT
  <2>. HIDE DEF u, y
  <2>7. t = u
    <3>1. 1..4 = {1, 2, 3, 4}
      BY SMT
    <3>2. \A i \in 1..4 : 0 + i = i /\ s[i] \in Int
      <4>1. \A i \in 1..Len(s) : s[i] \in Int
        BY <1>1, ElementOfSeq, Zenon
      <4>. QED
        BY <1>1, <4>1, SMT
    <3>3. \A i \in 1..4 : t[i] = 255 - s[i]
      BY <3>2, SMT
    <3>4. \A i \in 1..4 : t[i] = u[i]
      <4>. HIDE DEF t
      <4>. QED
        BY <2>6, <3>1, <3>3, SMT
    <3>5. t \in Seq(Int) /\ Len(t) = 4
      <4>1. \A i \in 1..4 : 255 - s[0 + i] \in Int
        BY <3>2, SMT
      <4>. QED
        BY <4>1, SMT
    <3>. HIDE DEF t
    <3>6. Len(t) = Len(u) /\ \A i \in 1..Len(t) : t[i] = u[i]
      BY <2>5, <3>4, <3>5, Zenon
    <3>. QED
      BY <2>5, <3>5, <3>6, SeqEqual, Zenon
  <2>8. ReadU(u, 0, 4) = y
    BY SMT, <2>4, ReadBackFour DEF u
  <2>. HIDE DEF t
  <2>. QED
    BY SMT, <2>3, <2>4, <2>7, <2>8 DEF s
<1>. QED
  BY SMT, <1>4, <1>5

(* A read depends on the bytes it reads only.                              *)
Agree(s, a, t, b, w) ==
  /\ s \in Seq(Int) /\ t \in Seq(Int) /\ a \in Nat /\ b \in Nat
  /\ w \in {1, 2, 4, 8} /\ a + w <= Len(s) /\ b + w <= Len(t)
  /\ \A i \in 1..w : s[a + i] = t[b + i]

LEMMA SameReads ==
  ASSUME NEW s, NEW t, NEW a, NEW b, NEW w, Agree(s, a, t, b, w)
  PROVE  ReadU(s, a, w) = ReadU(t, b, w) /\ ReadS(s, a, w) = ReadS(t, b, w)
<1>. /\ s \in Seq(Int) /\ t \in Seq(Int) /\ a \in Nat /\ b \in Nat
     /\ w \in {1, 2, 4, 8} /\ a + w <= Len(s) /\ b + w <= Len(t)
     /\ \A i \in 1..w : s[a + i] = t[b + i]
  BY DEF Agree
<1>1. Inside(s, a, w) /\ Inside(t, b, w)
  BY DEF Inside
<1>2. w \in 1..w /\ 1 \in 1..w /\ (w > 1 => 2 \in 1..w) /\ (w > 2 => 3 \in 1..w)
  OBVIOUS
<1>3. ReadU(s, a, w) = ReadU(t, b, w)
  <2>1. (\E i \in 3..w : s[a + i] >= (IF i = 3 THEN 16 ELSE 1))
          <=> (\E i \in 3..w : t[b + i] >= (IF i = 3 THEN 16 ELSE 1))
    <3>1. \A i \in 3..w : s[a + i] = t[b + i]
      OBVIOUS
    <3>. QED
      BY <3>1
  <2>2. s[a + 1] = t[b + 1] /\ (w > 1 => s[a + 2] = t[b + 2])
        /\ (w > 2 => s[a + 3] = t[b + 3])
    BY <1>2
  <2>3. CASE \E i \in 3..w : s[a + i] >= (IF i = 3 THEN 16 ELSE 1)
    <3>1. ReadU(s, a, w) = Huge
      BY ONLY <1>1, <2>3, SMT DEF ReadU
    <3>2. ReadU(t, b, w) = Huge
      BY ONLY <1>1, <2>1, <2>3, SMT DEF ReadU
    <3>. QED
      BY <3>1, <3>2
  <2>4. CASE ~(\E i \in 3..w : s[a + i] >= (IF i = 3 THEN 16 ELSE 1))
    <3>1. ReadU(s, a, w) = s[a + 1] + (IF w > 1 THEN 256 * s[a + 2] ELSE 0)
                             + (IF w > 2 THEN 65536 * s[a + 3] ELSE 0)
      BY ONLY <1>1, <2>4, SMT DEF ReadU
    <3>2. ReadU(t, b, w) = t[b + 1] + (IF w > 1 THEN 256 * t[b + 2] ELSE 0)
                             + (IF w > 2 THEN 65536 * t[b + 3] ELSE 0)
      BY ONLY <1>1, <2>1, <2>4, SMT DEF ReadU
    <3>. QED
      BY ONLY <2>2, <3>1, <3>2, SMT
  <2>. QED
    BY ONLY <2>3, <2>4, Zenon
<1>4. [i \in 1..w |-> 255 - s[a + i]] = [i \in 1..w |-> 255 - t[b + i]]
  OBVIOUS
<1>5. s[a + w] = t[b + w]
  BY <1>2
<1>. QED
  BY ONLY <1>1, <1>3, <1>4, <1>5, Zenon DEF ReadS

(* d is what follows the first p bytes of s, h is its beginning.           *)
IsTail(s, d, p) ==
  /\ s \in Seq(Int) /\ d \in Seq(Int) /\ p \in Nat /\ Len(s) = p + Len(d)
  /\ \A i \in 1..Len(d) : s[p + i] = d[i]

IsHead(s, h) ==
  /\ s \in Seq(Int) /\ h \in Seq(Int) /\ Len(h) <= Len(s)
  /\ \A i \in 1..Len(h) : s[i] = h[i]

LEMMA TailReads ==
  ASSUME NEW s, NEW d, NEW p, IsTail(s, d, p),
         NEW at \in Nat, NEW w \in {1, 2, 4, 8}
  PROVE  /\ ReadU(s, p + at, w) = ReadU(d, at, w)
         /\ ReadS(s, p + at, w) = ReadS(d, at, w)
         /\ Inside(s, p + at, w) <=> Inside(d, at, w)
<1>1. /\ s \in Seq(Int) /\ d \in Seq(Int) /\ p \in Nat /\ Len(s) = p + Len(d)
      /\ Len(s) \in Nat /\ Len(d) \in Nat
      /\ \A i \in 1..Len(d) : s[p + i] = d[i]
  BY LenProperties DEF IsTail
<1>2. p + at \in Nat
  BY <1>1
<1>3. Inside(s, p + at, w) <=> Inside(d, at, w)
  BY <1>1 DEF Inside
<1>4. CASE at + w <= Len(d)
  <2>1. \A i \in 1..w : s[(p + at) + i] = d[at + i]
    <3>0. Len(d) \in Nat /\ p \in Nat
      BY <1>1
    <3>1. \A i \in 1..w : at + i \in 1..Len(d) /\ (p + at) + i = p + (at + i)
      BY ONLY <3>0, <1>4, at \in Nat, w \in {1, 2, 4, 8}
    <3>. QED
      BY <1>1, <3>1
  <2>2. (p + at) + w <= Len(s)
    BY <1>1, <1>4
  <2>. DEFINE q == p + at
  <2>. HIDE DEF q
  <2>3. /\ \A i \in 1..w : s[q + i] = d[at + i]
        /\ q + w <= Len(s) /\ q \in Nat
    BY <1>2, <2>1, <2>2 DEF q
  <2>3a. Agree(s, q, d, at, w)
    BY <1>1, <1>4, <2>3 DEF Agree
  <2>4. ReadU(s, q, w) = ReadU(d, at, w) /\ ReadS(s, q, w) = ReadS(d, at, w)
    BY ONLY <2>3a, SameReads, SMT
  <2>. QED
    BY <1>3, <2>4 DEF q
<1>5. CASE ~(at + w <= Len(d))
  <2>1. ~Inside(d, at, w)
    BY <1>1, <1>5 DEF Inside
  <2>2. ~Inside(s, p + at, w)
    BY ONLY <1>3, <2>1, Zenon
  <2>3. ReadU(s, p + at, w) = Junk /\ ReadS(s, p + at, w) = Junk
    BY ONLY <2>2, SMT DEF ReadU, ReadS
  <2>4. ReadU(d, at, w) = Junk /\ ReadS(d, at, w) = Junk
    BY ONLY <2>1, SMT DEF ReadU, ReadS
  <2>. QED
    BY ONLY <1>3, <2>3, <2>4, Zenon
<1>. QED
  BY <1>4, <1>5

LEMMA TailBytes ==
  ASSUME NEW s, NEW d, NEW p, IsTail(s, d, p),
         NEW at \in Nat, NEW len \in Int
  PROVE  Bytes(s, p + at, len) = Bytes(d, at, len)
<1>1. /\ s \in Seq(Int) /\ d \in Seq(Int) /\ p \in Nat /\ Len(s) = p + Len(d)
      /\ Len(s) \in Nat /\ Len(d) \in Nat
      /\ \A i \in 1..Len(d) : s[p + i] = d[i]
  BY LenProperties DEF IsTail
<1>2. p + at \in Nat
  BY <1>1
<1>3. Inside(s, p + at, len) <=> Inside(d, at, len)
  BY <1>1 DEF Inside
<1>. DEFINE x == SubSeq(s, (p + at) + 1, (p + at) + len)
            y == SubSeq(d, at + 1, at + len)
<1>4. CASE ~Inside(d, at, len)
  BY <1>3, <1>4, Zenon DEF Bytes
<1>5. CASE Inside(d, at, len) /\ len <= 0
  <2>1. x = <<>>
    <3>1. /\ (p + at) + 1 \in Int /\ (p + at) + len \in Int
          /\ (p + at) + len < (p + at) + 1
      BY <1>1, <1>5
    <3>. QED
      BY ONLY <3>1, SubSeqEmpty
  <2>2. y = <<>>
    <3>1. at + 1 \in Int /\ at + len \in Int /\ at + len < at + 1
      BY <1>5
    <3>. QED
      BY ONLY <3>1, SubSeqEmpty
  <2>. QED
    BY <1>3, <1>5, <2>1, <2>2, Zenon DEF Bytes
<1>6. CASE Inside(d, at, len) /\ len > 0
  <2>1. at + len <= Len(d)
    BY <1>6 DEF Inside
  <2>2. /\ x \in Seq(Int) /\ Len(x) = len
        /\ \A i \in 1..len : x[i] = s[(p + at) + i]
    <3>. DEFINE m == (p + at) + 1
                n == (p + at) + len
    <3>0. /\ p \in Nat /\ at \in Nat /\ len \in Int /\ len > 0
          /\ Len(d) \in Nat /\ Len(s) \in Nat /\ p + Len(d) <= Len(s)
      BY <1>1, <1>6
    <3>1. /\ m \in Int /\ n \in Int /\ 1 <= m /\ n <= Len(s) /\ m <= n + 1
          /\ (n - m) + 1 = len
      BY ONLY <2>1, <3>0
    <3>2. \A i \in 1..len : (m + i) - 1 = (p + at) + i
      BY ONLY <3>0
    <3>. HIDE DEF m, n
    <3>. s \in Seq(Int)
      BY <1>1
    <3>3. /\ SubSeq(s, m, n) \in Seq(Int) /\ Len(SubSeq(s, m, n)) = (n - m) + 1
          /\ \A i \in 1..((n - m) + 1) : SubSeq(s, m, n)[i] = s[(m + i) - 1]
      BY ONLY s \in Seq(Int), <3>1, SubSeqOf
    <3>4. \A i \in 1..len : SubSeq(s, m, n)[i] = s[(p + at) + i]
      BY <3>1, <3>2, <3>3
    <3>. QED
      BY <3>1, <3>3, <3>4 DEF m, n
  <2>3. y \in Seq(Int) /\ Len(y) = len /\ \A i \in 1..len : y[i] = d[at + i]
    <3>. DEFINE m == at + 1
                n == at + len
    <3>1. /\ m \in Int /\ n \in Int /\ 1 <= m /\ n <= Len(d) /\ m <= n + 1
          /\ (n - m) + 1 = len
      BY <1>1, <1>6, <2>1
    <3>2. \A i \in 1..len : (m + i) - 1 = at + i
      BY <1>1
    <3>. HIDE DEF m, n
    <3>3. /\ SubSeq(d, m, n) \in Seq(Int) /\ Len(SubSeq(d, m, n)) = (n - m) + 1
          /\ \A i \in 1..((n - m) + 1) : SubSeq(d, m, n)[i] = d[(m + i) - 1]
      BY <1>1, <3>1, SubSeqOf
    <3>4. \A i \in 1..len : SubSeq(d, m, n)[i] = d[at + i]
      BY <3>1, <3>2, <3>3
    <3>. QED
      BY <3>1, <3>3, <3>4 DEF m, n
  <2>4. \A i \in 1..len : s[(p + at) + i] = d[at + i]
    <3>0. Len(d) \in Nat /\ p \in Nat
      BY <1>1
    <3>1. \A i \in 1..len : at + i \in 1..Len(d) /\ (p + at) + i = p + (at + i)
      BY ONLY <3>0, <2>1, at \in Nat, len \in Int
    <3>. QED
      BY <1>1, <3>1
  <2>. HIDE DEF x, y
  <2>5. x = y
    BY <2>2, <2>3, <2>4, SeqEqual
  <2>. QED
    BY <1>3, <1>6, <2>5, Zenon DEF Bytes, x, y
<1>. QED
  BY <1>4, <1>5, <1>6

LEMMA HeadReads ==
  ASSUME NEW s, NEW h, IsHead(s, h),
         NEW at \in Nat, NEW w \in {1, 2, 4, 8}, at + w <= Len(h)
  PROVE  ReadU(s, at, w) = ReadU(h, at, w) /\ ReadS(s, at, w) = ReadS(h, at, w)
<1>1. /\ s \in Seq(Int) /\ h \in Seq(Int) /\ Len(h) <= Len(s)
      /\ Len(s) \in Nat /\ Len(h) \in Nat
      /\ \A i \in 1..Len(h) : s[i] = h[i]
  BY LenProperties DEF IsHead
<1>2. \A i \in 1..w : at + i \in 1..Len(h)
  <2>. DEFINE k == Len(h)
  <2>1. at \in Nat /\ w \in Nat /\ k \in Nat /\ at + w <= k
    BY <1>1
  <2>. HIDE DEF k
  <2>2. \A i \in 1..w : at + i \in 1..k
    BY ONLY <2>1
  <2>. QED
    BY ONLY <2>2 DEF k
<1>3. at + w <= Len(s) /\ \A i \in 1..w : s[at + i] = h[at + i]
  BY <1>1, <1>2
<1>4. Agree(s, at, h, at, w)
  BY <1>1, <1>3 DEF Agree
<1>. QED
  BY ONLY <1>4, SameReads, SMT

LEMMA Concatenated ==
  ASSUME NEW a \in Seq(Int), NEW d \in Seq(Int)
  PROVE  /\ IsHead(a \o d, a) /\ IsTail(a \o d, d, Len(a))
         /\ a \o d \in Seq(Int) /\ Len(a \o d) = Len(a) + Len(d)
<1>1. /\ a \o d \in Seq(Int) /\ Len(a \o d) = Len(a) + Len(d)
      /\ Len(a) \in Nat /\ Len(d) \in Nat
      /\ \A i \in 1..(Len(a) + Len(d)) :
           (a \o d)[i] = IF i <= Len(a) THEN a[i] ELSE d[i - Len(a)]
  BY ConcatProperties, LenProperties
<1>. DEFINE c == a \o d
<1>. HIDE DEF c
<1>2. \A i \in 1..Len(a) : c[i] = a[i]
  BY <1>1 DEF c
<1>3. ASSUME NEW i \in 1..Len(d) PROVE c[Len(a) + i] = d[i]
  <2>1. /\ Len(a) + i \in 1..(Len(a) + Len(d)) /\ ~(Len(a) + i <= Len(a))
        /\ (Len(a) + i) - Len(a) = i
    BY <1>1
  <2>. QED
    BY <1>1, <2>1 DEF c
<1>4. IsHead(c, a)
  BY <1>1, <1>2 DEF c, IsHead
<1>5. IsTail(c, d, Len(a))
  BY <1>1, <1>3 DEF c, IsTail
<1>. QED
  BY <1>1, <1>4, <1>5 DEF c

LEMMA BlockParts ==
  ASSUME NEW v \in Vectors
  PROVE  /\ IsHead(v.buf, ScratchBytes(v)) /\ IsTail(v.buf, Data(v), v.cur)
<1>1. /\ v.buf \in Seq(Int) /\ Len(v.buf) \in Nat
      /\ v.cur \in Nat /\ v.scratch \in Nat /\ v.scratch <= v.cur
      /\ v.cur + v.size = Len(v.buf) /\ v.size \in Nat
  BY VectorParts
<1>2. /\ Data(v) \in Seq(Int) /\ Len(Data(v)) = v.size
      /\ \A i \in 1..v.size : Data(v)[i] = v.buf[v.cur + i]
  BY DataBytes
<1>3. /\ ScratchBytes(v) \in Seq(Int) /\ Len(ScratchBytes(v)) = v.scratch
      /\ \A i \in 1..v.scratch : ScratchBytes(v)[i] = v.buf[i]
  BY ScratchPadBytes
<1>. QED
  BY <1>1, <1>2, <1>3 DEF IsHead, IsTail

(* The blocks of a builder.                                                *)
Blocks ==
  {v \in Vectors : v.align = BufferMinAlign
                   /\ Reserved(v) % BufferMinAlign = 0}

Content(w, data, pad) ==
  /\ w \in Blocks /\ Data(w) = data /\ ScratchBytes(w) = pad
  /\ w.size = Len(data) /\ w.scratch = Len(pad)
  /\ data \in Seq(Int) /\ pad \in Seq(Int)

LEMMA BlockContent ==
  ASSUME NEW v \in Blocks
  PROVE  /\ v \in Vectors /\ Content(v, Data(v), ScratchBytes(v))
         /\ Len(Data(v)) \in Nat /\ Len(ScratchBytes(v)) \in Nat
<1>1. v \in Vectors
  BY DEF Blocks
<1>2. Data(v) \in Seq(Int) /\ Len(Data(v)) = v.size
  BY <1>1, DataBytes
<1>3. ScratchBytes(v) \in Seq(Int) /\ Len(ScratchBytes(v)) = v.scratch
  BY <1>1, ScratchPadBytes
<1>. QED
  BY <1>1, <1>2, <1>3, LenProperties DEF Content

LEMMA RoundedBlock ==
  ASSUME NEW v \in Blocks, NEW w \in Vectors, Rounded(v, w)
  PROVE  Content(w, Data(w), ScratchBytes(w))
<1>1. w \in Blocks
  BY DEF Blocks, Rounded
<1>. QED
  BY <1>1, BlockContent

LEMMA BlockPush ==
  ASSUME NEW v \in Blocks, NEW bytes \in Seq(Int)
  PROVE  Content(Push(v, bytes), bytes \o Data(v), ScratchBytes(v))
<1>1. v \in Vectors
  BY BlockContent
<1>. DEFINE w == Push(v, bytes)
<1>2. /\ w \in Vectors /\ Rounded(v, w)
      /\ Data(w) = bytes \o Data(v) /\ ScratchBytes(w) = ScratchBytes(v)
  BY <1>1, PushPrepends
<1>. HIDE DEF w
<1>3. Content(w, Data(w), ScratchBytes(w))
  BY <1>2, RoundedBlock
<1>. QED
  BY <1>2, <1>3 DEF w

LEMMA BlockScratchPush ==
  ASSUME NEW v \in Blocks, NEW bytes \in Seq(Int)
  PROVE  Content(ScratchPush(v, bytes), Data(v), ScratchBytes(v) \o bytes)
<1>1. v \in Vectors
  BY BlockContent
<1>. DEFINE w == ScratchPush(v, bytes)
<1>2. /\ w \in Vectors /\ Rounded(v, w)
      /\ Data(w) = Data(v) /\ ScratchBytes(w) = ScratchBytes(v) \o bytes
  BY <1>1, ScratchPushAppends
<1>. HIDE DEF w
<1>3. Content(w, Data(w), ScratchBytes(w))
  BY <1>2, RoundedBlock
<1>. QED
  BY <1>2, <1>3 DEF w

LEMMA BlockPop ==
  ASSUME NEW v \in Blocks, NEW a \in Seq(Int), NEW d \in Seq(Int),
         Data(v) = a \o d
  PROVE  Content(Pop(v, Len(a)), d, ScratchBytes(v))
<1>1. /\ v \in Vectors /\ Content(v, Data(v), ScratchBytes(v))
      /\ Len(a) \in Nat /\ Len(d) \in Nat
  BY BlockContent, LenProperties
<1>2. v.size = Len(a) + Len(d)
  BY <1>1, Concatenated DEF Content
<1>. DEFINE n == Len(a)
            w == Pop(v, n)
<1>3. n \in 0..v.size
  BY <1>1, <1>2
<1>4. /\ w \in Vectors /\ Rounded(v, w) /\ ScratchBytes(w) = ScratchBytes(v)
      /\ Data(w) = SubSeq(v.buf, (v.cur + n) + 1, Len(v.buf))
  <2>. HIDE DEF n
  <2>. QED
    BY <1>1, <1>3, PopDrops
<1>5. IsTail(v.buf, Data(v), v.cur) /\ IsTail(Data(v), d, n)
  BY <1>1, BlockParts, Concatenated
<1>6. v.buf \in Seq(Int) /\ v.cur \in Nat /\ Len(v.buf) \in Nat
      /\ Len(v.buf) = (v.cur + n) + Len(d)
  BY <1>1, <1>5, LenProperties DEF IsTail
<1>7. \A i \in 1..Len(d) : v.buf[(v.cur + n) + i] = d[i]
  <2>. SUFFICES ASSUME NEW i \in 1..Len(d)
                PROVE  v.buf[(v.cur + n) + i] = d[i]
    OBVIOUS
  <2>1. Data(v)[n + i] = d[i] /\ Len(Data(v)) = n + Len(d)
    BY <1>5 DEF IsTail
  <2>. HIDE DEF n
  <2>2. n + i \in 1..Len(Data(v)) /\ v.cur + (n + i) = (v.cur + n) + i
    BY <1>1, <1>3, <1>6, <2>1 DEF n
  <2>3. v.buf[v.cur + (n + i)] = Data(v)[n + i]
    BY <1>5, <2>2 DEF IsTail
  <2>. QED
    BY <2>1, <2>2, <2>3
<1>. DEFINE c == v.cur + n
            s == v.buf
<1>8. Data(w) = d
  <2>1. c \in Nat /\ c <= Len(s) /\ Len(s) - c = Len(d) /\ s \in Seq(Int)
    BY <1>1, <1>6
  <2>2. \A i \in 1..Len(d) : s[c + i] = d[i]
    BY <1>7
  <2>. HIDE DEF c, s, w, n
  <2>3. /\ SubSeq(s, c + 1, Len(s)) \in Seq(Int)
        /\ Len(SubSeq(s, c + 1, Len(s))) = Len(d)
        /\ \A i \in 1..Len(d) : SubSeq(s, c + 1, Len(s))[i] = s[c + i]
    BY <2>1, SuffixBytes
  <2>4. SubSeq(s, c + 1, Len(s)) = d
    BY <2>2, <2>3, SeqEqual
  <2>. QED
    BY <1>4, <2>4 DEF c, s
<1>. HIDE DEF w
<1>9. Content(w, Data(w), ScratchBytes(w))
  BY <1>4, RoundedBlock
<1>. QED
  BY <1>4, <1>8, <1>9 DEF w

LEMMA BlockScratchPop ==
  ASSUME NEW v \in Blocks, NEW a \in Seq(Int), NEW d \in Seq(Int),
         ScratchBytes(v) = a \o d
  PROVE  Content(ScratchPop(v, Len(d)), Data(v), a)
<1>1. /\ v \in Vectors /\ Content(v, Data(v), ScratchBytes(v))
      /\ Len(a) \in Nat /\ Len(d) \in Nat
  BY BlockContent, LenProperties
<1>2. v.scratch = Len(a) + Len(d)
  BY <1>1, Concatenated DEF Content
<1>. DEFINE n == Len(d)
            w == ScratchPop(v, n)
<1>3. n \in 0..v.scratch /\ v.scratch - n = Len(a)
  BY <1>1, <1>2
<1>4. /\ w \in Vectors /\ Rounded(v, w) /\ Data(w) = Data(v)
      /\ ScratchBytes(w) = SubSeq(v.buf, 1, Len(a))
  <2>. HIDE DEF n
  <2>. QED
    BY <1>1, <1>3, ScratchPopDrops
<1>5. IsHead(v.buf, ScratchBytes(v)) /\ IsHead(ScratchBytes(v), a)
  BY <1>1, BlockParts, Concatenated
<1>. DEFINE s == v.buf
<1>6. s \in Seq(Int) /\ Len(a) <= Len(s) /\ \A i \in 1..Len(a) : s[i] = a[i]
  <2>1. Len(s) \in Nat /\ Len(ScratchBytes(v)) \in Nat
    BY <1>5, LenProperties DEF IsHead
  <2>. QED
    BY <1>1, <1>5, <2>1 DEF IsHead
<1>7. ScratchBytes(w) = a
  <2>. HIDE DEF s, w, n
  <2>1. /\ SubSeq(s, 1, Len(a)) \in Seq(Int)
        /\ Len(SubSeq(s, 1, Len(a))) = Len(a)
        /\ \A i \in 1..Len(a) : SubSeq(s, 1, Len(a))[i] = s[i]
    BY <1>1, <1>6, PrefixBytes
  <2>2. SubSeq(s, 1, Len(a)) = a
    BY <1>6, <2>1, SeqEqual
  <2>. QED
    BY <1>4, <2>2 DEF s
<1>. HIDE DEF w
<1>9. Content(w, Data(w), ScratchBytes(w))
  BY <1>4, RoundedBlock
<1>. QED
  BY <1>4, <1>7, <1>9 DEF w

LEMMA BlockEnsureSpace ==
  ASSUME NEW v \in Blocks, NEW len \in Nat
  PROVE  /\ Content(EnsureSpace(v, len), Data(v), ScratchBytes(v))
         /\ len <= Unused(EnsureSpace(v, len))
<1>. DEFINE w == EnsureSpace(v, len)
<1>1. v \in Vectors
  BY BlockContent
<1>2. /\ w \in Vectors /\ Rounded(v, w) /\ SameContent(v, w)
      /\ len <= Unused(w)
  BY <1>1, EnsureSpaceKeeps
<1>. HIDE DEF w
<1>3. Content(w, Data(w), ScratchBytes(w))
  BY <1>2, RoundedBlock
<1>. QED
  BY <1>2, <1>3 DEF w, SameContent

(* What is exposed by make_space() are bytes that anything may have left.  *)
LEMMA BlockMakeSpace ==
  ASSUME NEW v \in Blocks, NEW n \in Nat
  PROVE  \E u \in Seq(Int) :
           /\ Len(u) = n
           /\ Content(MakeSpace(v, n), u \o Data(v), ScratchBytes(v))
<1>. DEFINE e == EnsureSpace(v, n)
            c == e.cur - n
            w == MakeSpace(v, n)
<1>1. Content(e, Data(v), ScratchBytes(v)) /\ n <= Unused(e)
  BY BlockEnsureSpace
<1>. HIDE DEF e
<1>2. e \in Blocks /\ e \in Vectors
  BY <1>1 DEF Content, Blocks
<1>3. /\ e.buf \in Seq(Int) /\ Len(e.buf) \in Nat /\ Reserved(e) = Len(e.buf)
      /\ e.cur \in Nat /\ e.scratch \in Nat /\ e.size \in Nat
      /\ e.scratch <= e.cur /\ e.cur + e.size = Len(e.buf)
      /\ Unused(e) = e.cur - e.scratch
  BY <1>2, VectorParts
<1>4. /\ c \in Nat /\ e.scratch <= c /\ c <= Len(e.buf)
      /\ e.size + n = Len(e.buf) - c /\ c + n = e.cur
  BY <1>1, <1>3
<1>5. /\ w.buf = e.buf /\ w.cur = c /\ w.scratch = e.scratch
      /\ w.size = e.size + n
      /\ w = [buf |-> w.buf, cur |-> w.cur, scratch |-> w.scratch,
              size |-> w.size, initial |-> e.initial, align |-> e.align]
  <2>1. w = [e EXCEPT !.cur = @ - n, !.size = @ + n]
    BY DEF MakeSpace, e
  <2>2. w = [e EXCEPT !.cur = c, !.size = e.size + n]
    BY <2>1
  <2>. DEFINE s == e.size + n
  <2>. HIDE DEF c, w, s
  <2>3. w = [e EXCEPT !.cur = c, !.size = s]
    BY <2>2 DEF s
  <2>4. /\ w.buf = e.buf /\ w.cur = c /\ w.scratch = e.scratch
        /\ w.size = s
        /\ w = [buf |-> w.buf, cur |-> w.cur, scratch |-> w.scratch,
                size |-> w.size, initial |-> e.initial, align |-> e.align]
    BY <1>2, <2>3 DEF Vectors
  <2>. QED
    BY <2>4 DEF s
<1>. HIDE DEF w
<1>6. w \in Vectors
  BY <1>2, <1>3, <1>4, <1>5, IsVector
<1>7. Rounded(e, w)
  <2>1. w.align = e.align /\ Reserved(w) = Reserved(e)
    BY <1>5 DEF Reserved
  <2>. QED
    BY <2>1 DEF Rounded
<1>8. Content(w, Data(w), ScratchBytes(w))
  BY <1>2, <1>6, <1>7, RoundedBlock
<1>9. ScratchBytes(w) = ScratchBytes(v)
  <2>1. ScratchBytes(w) = ScratchBytes(e)
    BY <1>5 DEF ScratchBytes
  <2>. QED
    BY <1>1, <2>1 DEF Content
<1>. DEFINE s == e.buf
            d == Data(e)
            D == Data(w)
            u == SubSeq(D, 1, n)
<1>10. /\ IsTail(s, d, e.cur) /\ IsTail(s, D, c) /\ Len(d) = e.size
       /\ Len(D) = n + Len(d) /\ D \in Seq(Int) /\ d \in Seq(Int)
       /\ Len(d) \in Nat /\ d = Data(v)
  <2>1. IsTail(s, d, e.cur)
    BY <1>2, BlockParts
  <2>2. IsTail(w.buf, D, w.cur)
    BY <1>6, BlockParts
  <2>3. Len(d) = e.size /\ d \in Seq(Int) /\ d = Data(v)
    BY <1>1 DEF Content
  <2>4. Len(D) = w.size /\ D \in Seq(Int)
    BY <1>8 DEF Content
  <2>5. w.size = n + e.size
    BY <1>3, <1>5
  <2>. QED
    BY <1>3, <1>5, <2>1, <2>2, <2>3, <2>4, <2>5
<1>. HIDE DEF s, d, D
<1>11. u \in Seq(Int) /\ Len(u) = n /\ \A i \in 1..n : u[i] = D[i]
  <2>1. n <= Len(D)
    BY <1>10
  <2>. QED
    BY <1>10, <2>1, PrefixBytes
<1>. HIDE DEF u
<1>12. \A i \in 1..Len(d) : D[n + i] = d[i]
  <2>. SUFFICES ASSUME NEW i \in 1..Len(d) PROVE D[n + i] = d[i]
    OBVIOUS
  <2>0. c \in Nat /\ c + n = e.cur /\ n \in Nat
    BY <1>4
  <2>. HIDE DEF c
  <2>1. n + i \in 1..Len(D) /\ c + (n + i) = e.cur + i
    BY <1>10, <2>0
  <2>2. s[c + (n + i)] = D[n + i] /\ s[e.cur + i] = d[i]
    BY <1>10, <2>1 DEF IsTail
  <2>. QED
    BY <2>1, <2>2
<1>13. D = u \o d
  <2>1. /\ u \o d \in Seq(Int) /\ Len(u \o d) = n + Len(d)
        /\ \A i \in 1..(n + Len(d)) :
             (u \o d)[i] = IF i <= n THEN u[i] ELSE d[i - n]
    BY <1>10, <1>11, ConcatProperties
  <2>2. ASSUME NEW i \in 1..Len(D) PROVE D[i] = (u \o d)[i]
    <3>1. CASE i <= n
      BY <1>10, <1>11, <2>1, <3>1
    <3>2. CASE ~(i <= n)
      <4>1. i - n \in 1..Len(d) /\ n + (i - n) = i
        BY <1>10, <3>2
      <4>. QED
        BY <1>10, <1>12, <2>1, <3>2, <4>1
    <3>. QED
      BY <3>1, <3>2
  <2>. QED
    BY <1>10, <2>1, <2>2, SeqEqual
<1>14. Content(w, u \o d, ScratchBytes(v))
  BY <1>8, <1>9, <1>13 DEF D
<1>. QED
  BY <1>10, <1>11, <1>14 DEF w

(* Writing over some bytes of the data.                                    *)
LEMMA BlockWrite ==
  ASSUME NEW v \in Blocks, NEW a \in Seq(Int), NEW c \in Seq(Int),
         NEW d \in Seq(Int), Data(v) = a \o c \o d,
         NEW bytes \in Seq(Int), Len(bytes) = Len(c),
         NEW at, at = v.cur + Len(a)
  PROVE  Content(WriteAt(v, at, bytes), a \o bytes \o d, ScratchBytes(v))
<1>1. /\ v \in Vectors /\ Content(v, Data(v), ScratchBytes(v))
      /\ Len(a) \in Nat /\ Len(c) \in Nat /\ Len(d) \in Nat
  BY BlockContent, LenProperties
<1>2. /\ Data(v) \in Seq(Int) /\ Len(Data(v)) = Len(a) + Len(c) + Len(d)
      /\ \A i \in 1..Len(a) : Data(v)[i] = a[i]
      /\ \A i \in 1..Len(d) : Data(v)[Len(a) + Len(c) + i] = d[i]
  BY Concat3
<1>3. /\ v.buf \in Seq(Int) /\ Len(v.buf) \in Nat /\ Reserved(v) = Len(v.buf)
      /\ v.cur \in Nat /\ v.size \in Nat /\ v.cur + v.size = Len(v.buf)
  BY <1>1, VectorParts
<1>4. v.size = Len(a) + Len(c) + Len(d)
  BY <1>1, <1>2 DEF Content
<1>5. at \in Nat /\ v.cur <= at /\ at + Len(bytes) <= Reserved(v)
  BY <1>1, <1>3, <1>4
<1>. DEFINE w == WriteAt(v, at, bytes)
            t == Overwrite(v.buf, at, bytes)
<1>6. /\ w \in Vectors /\ ScratchBytes(w) = ScratchBytes(v)
      /\ w.size = v.size /\ Rounded(v, w)
  BY <1>1, <1>5, WriteInPlace
<1>7. w.buf = t /\ w.cur = v.cur
  BY <1>1 DEF WriteAt, Vectors
<1>8. /\ t \in Seq(Int) /\ Len(t) = Len(v.buf)
      /\ \A i \in 1..Len(v.buf) :
           t[i] = IF at < i /\ i <= at + Len(bytes) THEN bytes[i - at]
                  ELSE v.buf[i]
  <2>. DEFINE s == v.buf
  <2>1. s \in Seq(Int) /\ at \in Nat /\ at + Len(bytes) <= Len(s)
    BY <1>3, <1>5
  <2>2. t = Overwrite(s, at, bytes)
    OBVIOUS
  <2>. HIDE DEF s, t
  <2>3. /\ Overwrite(s, at, bytes) \in Seq(Int)
        /\ Len(Overwrite(s, at, bytes)) = Len(s)
        /\ \A i \in 1..Len(s) :
             Overwrite(s, at, bytes)[i] =
               IF at < i /\ i <= at + Len(bytes) THEN bytes[i - at] ELSE s[i]
    BY ONLY <2>1, bytes \in Seq(Int), OverwriteBytes
  <2>. QED
    BY ONLY <2>2, <2>3, Zenon DEF s
<1>. HIDE DEF w, t
<1>9. Content(w, Data(w), ScratchBytes(w))
  BY <1>6, RoundedBlock
<1>10. IsTail(v.buf, Data(v), v.cur) /\ IsTail(t, Data(w), v.cur)
  BY <1>1, <1>6, <1>7, BlockParts
<1>. DEFINE D == Data(w)
            n == a \o bytes \o d
<1>11. /\ n \in Seq(Int) /\ Len(n) = Len(a) + Len(c) + Len(d)
       /\ \A i \in 1..Len(a) : n[i] = a[i]
       /\ \A i \in 1..Len(c) : n[Len(a) + i] = bytes[i]
       /\ \A i \in 1..Len(d) : n[Len(a) + Len(c) + i] = d[i]
  <2>1. /\ n \in Seq(Int) /\ Len(n) = Len(a) + Len(bytes) + Len(d)
        /\ \A i \in 1..Len(a) : n[i] = a[i]
        /\ \A i \in 1..Len(bytes) : n[Len(a) + i] = bytes[i]
        /\ \A i \in 1..Len(d) : n[Len(a) + Len(bytes) + i] = d[i]
    BY ONLY Concat3, a \in Seq(Int), bytes \in Seq(Int), d \in Seq(Int)
  <2>. HIDE DEF n
  <2>. QED
    BY ONLY <2>1, Len(bytes) = Len(c)
<1>. HIDE DEF D, n
<1>12. D \in Seq(Int) /\ Len(D) = Len(n) /\ Len(n) = v.size
  BY <1>4, <1>6, <1>9, <1>11 DEF Content, D
<1>. DEFINE la == Len(a)
            lc == Len(c)
            ld == Len(d)
            cur == v.cur
            size == v.size
            lb == Len(v.buf)
<1>12a. /\ la \in Nat /\ lc \in Nat /\ ld \in Nat /\ cur \in Nat
        /\ size = la + lc + ld /\ at = cur + la /\ Len(bytes) = lc
        /\ Len(D) = size /\ lb = cur + size
  BY <1>1, <1>3, <1>4, <1>12
<1>. HIDE DEF la, lc, ld, cur, size, lb
<1>13. ASSUME NEW i \in 1..Len(D) PROVE D[i] = n[i]
  <2>0. i \in Int /\ 1 <= i /\ i <= size
    BY <1>12a
  <2>1. /\ v.cur + i \in 1..Len(v.buf) /\ i \in 1..v.size
        /\ D[i] = t[v.cur + i] /\ v.buf[v.cur + i] = Data(v)[i]
    <3>1. cur + i \in 1..lb /\ i \in 1..size
      BY ONLY <1>12a, <2>0
    <3>2. i \in 1..Len(Data(v)) /\ i \in 1..Len(D)
      BY <1>2, <1>4, <3>1 DEF size
    <3>. QED
      BY <1>10, <3>1, <3>2 DEF IsTail, D, cur, size, lb
  <2>2. CASE i <= la
    <3>1. ~(at < cur + i) /\ i \in 1..la
      BY ONLY <1>12a, <2>0, <2>2
    <3>. QED
      BY <1>2, <1>8, <1>11, <2>1, <3>1 DEF cur, la
  <2>3. CASE la < i /\ i <= la + lc
    <3>1. /\ at < cur + i /\ cur + i <= at + lc
          /\ i - la \in 1..lc /\ la + (i - la) = i
          /\ (cur + i) - at = i - la
      BY ONLY <1>12a, <2>0, <2>3
    <3>2. n[la + (i - la)] = bytes[i - la]
      BY <1>11, <3>1 DEF la, lc
    <3>3. t[cur + i] = bytes[(cur + i) - at]
      BY <1>8, <1>12a, <2>1, <3>1 DEF cur
    <3>. QED
      BY <2>1, <3>1, <3>2, <3>3 DEF cur
  <2>4. CASE la + lc < i
    <3>. DEFINE j == i - (la + lc)
    <3>1. ~(cur + i <= at + lc) /\ j \in 1..ld /\ la + lc + j = i
      BY ONLY <1>12a, <2>0, <2>4
    <3>. HIDE DEF j
    <3>2. n[la + lc + j] = d[j] /\ Data(v)[la + lc + j] = d[j]
      BY <1>2, <1>11, <3>1 DEF la, lc, ld
    <3>3. t[cur + i] = v.buf[cur + i]
      BY <1>8, <1>12a, <2>1, <3>1 DEF cur
    <3>. QED
      BY <2>1, <3>1, <3>2, <3>3 DEF cur
  <2>5. i <= la \/ (la < i /\ i <= la + lc) \/ la + lc < i
    BY ONLY <1>12a, <2>0
  <2>. QED
    BY <2>2, <2>3, <2>4, <2>5
<1>14. D = n
  BY <1>11, <1>12, <1>13, SeqEqual
<1>. QED
  BY <1>6, <1>9, <1>14 DEF w, D, n

(* New, cleared and lost blocks.                                           *)
LEMMA BlockEmpty ==
  ASSUME NEW v \in Blocks
  PROVE  /\ Content(ClearVector(v), <<>>, <<>>)
         /\ Content(LoseBlock(v), <<>>, <<>>)
<1>1. v \in Vectors
  BY BlockContent
<1>2. ASSUME NEW w \in {ClearVector(v), LoseBlock(v)}
      PROVE  Content(w, <<>>, <<>>)
  <2>1. w \in Vectors /\ Rounded(v, w) /\ w.size = 0 /\ w.scratch = 0
    BY <1>1, EmptyVectors
  <2>2. Content(w, Data(w), ScratchBytes(w))
    BY <2>1, RoundedBlock
  <2>3. Data(w) = <<>> /\ ScratchBytes(w) = <<>>
    BY <2>1, <2>2, EmptySeq DEF Content
  <2>. QED
    BY <2>2, <2>3
<1>. QED
  BY <1>2

LEMMA BlockNew ==
  ASSUME NEW initial \in Nat
  PROVE  Content(NewVector(initial, BufferMinAlign), <<>>, <<>>)
<1>. DEFINE w == NewVector(initial, BufferMinAlign)
<1>0. BufferMinAlign \in Nat \ {0} /\ 0 % BufferMinAlign = 0
  BY BufferMinAlignAssumption
<1>1. w = [buf |-> <<>>, cur |-> 0, scratch |-> 0, size |-> 0,
           initial |-> initial, align |-> BufferMinAlign]
  BY DEF NewVector
<1>2. <<>> \in Seq(Int) /\ Len(<<>>) = 0
  BY EmptySeq
<1>3. Reserved(w) = 0
  BY <1>1, <1>2 DEF Reserved
<1>4. WellFormed(w)
  BY <1>1, <1>3 DEF WellFormed
<1>5. w \in [buf : Seq(Int), cur : Int, scratch : Int, size : Int,
             initial : Nat, align : Nat \ {0}]
  BY <1>0, <1>1, <1>2
<1>6. w \in Blocks /\ w.size = 0 /\ w.scratch = 0
  BY <1>0, <1>1, <1>3, <1>4, <1>5 DEF Blocks, Vectors
<1>. HIDE DEF w
<1>7. Content(w, Data(w), ScratchBytes(w))
  BY <1>6, BlockContent
<1>8. Data(w) = <<>> /\ ScratchBytes(w) = <<>>
  BY <1>6, <1>7, EmptySeq DEF Content
<1>. QED
  BY <1>7, <1>8 DEF w

(* What is read of a block at an offset is in the data, or nowhere.        *)
LEMMA BlockReads ==
  ASSUME NEW v \in Blocks, NEW o \in Int, o <= v.size
  PROVE  /\ \A w \in {1, 2, 4, 8} :
              /\ ReadU(v.buf, DataAt(v, o), w) = ReadU(Data(v), v.size - o, w)
              /\ ReadS(v.buf, DataAt(v, o), w) = ReadS(Data(v), v.size - o, w)
         /\ \A len \in Int :
              Bytes(v.buf, DataAt(v, o), len) = Bytes(Data(v), v.size - o, len)
         /\ DataAt(v, o) = v.cur + (v.size - o) /\ v.size - o \in Nat
<1>1. v \in Vectors
  BY BlockContent
<1>2. /\ Len(v.buf) \in Nat /\ Reserved(v) = Len(v.buf)
      /\ v.cur \in Nat /\ v.size \in Nat /\ v.cur + v.size = Len(v.buf)
  BY <1>1, VectorParts
<1>3. DataAt(v, o) = v.cur + (v.size - o) /\ v.size - o \in Nat
  BY <1>2 DEF DataAt
<1>4. IsTail(v.buf, Data(v), v.cur)
  BY <1>1, BlockParts
<1>. QED
  BY <1>3, <1>4, TailReads, TailBytes

LEMMA PadReads ==
  ASSUME NEW v \in Blocks, NEW at \in Nat, NEW w \in {1, 2, 4, 8},
         at + w <= v.scratch
  PROVE  ReadU(v.buf, at, w) = ReadU(ScratchBytes(v), at, w)
<1>1. /\ v \in Vectors /\ Content(v, Data(v), ScratchBytes(v))
  BY BlockContent
<1>2. IsHead(v.buf, ScratchBytes(v)) /\ at + w <= Len(ScratchBytes(v))
  BY <1>1, BlockParts DEF Content
<1>. QED
  BY <1>2, HeadReads

-----------------------------------------------------------------------------
(* Builders.                                                               *)
Builders ==
  [v : Blocks, fields : Nat, maxvo : Nat, nested : BOOLEAN,
   finished : BOOLEAN, minalign : Nat \ {0}, force : BOOLEAN,
   dedup : BOOLEAN, pool : SUBSET Int]

DataOf(x) == Data(x.v)
PadOf(x) == ScratchBytes(x.v)

SameRest(x, y) ==
  /\ x.fields = y.fields /\ x.maxvo = y.maxvo /\ x.nested = y.nested
  /\ x.finished = y.finished /\ x.minalign = y.minalign
  /\ x.force = y.force /\ x.dedup = y.dedup /\ x.pool = y.pool

(* Builders that differ in the block they have and in nothing else: what   *)
(* is in the block between the scratch pad and the data does not count.    *)
Twins(x, y) ==
  /\ x \in Builders /\ y \in Builders
  /\ DataOf(x) = DataOf(y) /\ PadOf(x) = PadOf(y) /\ SameRest(x, y)

(* y has the data of x behind what was added, and remembers the same.      *)
Adds(x, y) == \E pre \in Seq(Byte) : DataOf(y) = pre \o DataOf(x)

Remembers(x, y) ==
  /\ PadOf(y) = PadOf(x) /\ y.fields = x.fields /\ y.maxvo = x.maxvo
  /\ y.finished = x.finished /\ y.force = x.force /\ y.dedup = x.dedup
  /\ y.pool = x.pool

Grows(x, y) ==
  /\ x \in Builders /\ y \in Builders /\ Adds(x, y) /\ Remembers(x, y)

LEMMA BuilderParts ==
  ASSUME NEW x \in Builders
  PROVE  /\ x.v \in Blocks /\ x.fields \in Nat /\ x.maxvo \in Nat
         /\ x.nested \in BOOLEAN /\ x.finished \in BOOLEAN
         /\ x.minalign \in Nat \ {0} /\ x.force \in BOOLEAN
         /\ x.dedup \in BOOLEAN /\ x.pool \in SUBSET Int
         /\ DataOf(x) \in Seq(Int) /\ PadOf(x) \in Seq(Int)
         /\ Len(DataOf(x)) \in Nat /\ Len(PadOf(x)) \in Nat
         /\ Size(x) = Len(DataOf(x)) /\ Size(x) \in Nat
         /\ x.v.scratch = Len(PadOf(x)) /\ x.v.scratch \in Nat
<1>1. /\ x.v \in Blocks /\ x.fields \in Nat /\ x.maxvo \in Nat
      /\ x.nested \in BOOLEAN /\ x.finished \in BOOLEAN
      /\ x.minalign \in Nat \ {0} /\ x.force \in BOOLEAN
      /\ x.dedup \in BOOLEAN /\ x.pool \in SUBSET Int
  BY DEF Builders
<1>2. Content(x.v, DataOf(x), PadOf(x))
  BY <1>1, BlockContent DEF DataOf, PadOf
<1>. QED
  BY <1>1, <1>2, LenProperties DEF Content, Size

LEMMA TwinParts ==
  ASSUME NEW x, NEW y, Twins(x, y)
  PROVE  /\ x \in Builders /\ y \in Builders
         /\ DataOf(x) = DataOf(y) /\ PadOf(x) = PadOf(y)
         /\ Size(x) = Size(y) /\ x.v.scratch = y.v.scratch
         /\ SameRest(x, y)
BY BuilderParts DEF Twins

LEMMA OwnTwin ==
  ASSUME NEW x \in Builders
  PROVE  Twins(x, x)
BY DEF Twins, SameRest

LEMMA GrowsNot ==
  ASSUME NEW x \in Builders
  PROVE  Grows(x, x)
<1>1. <<>> \in Seq(Byte) /\ DataOf(x) = <<>> \o DataOf(x)
  BY BuilderParts, EmptySeq, ConcatEmptySeq
<1>. QED
  BY <1>1 DEF Grows, Adds, Remembers

LEMMA ByteSeq ==
  ASSUME NEW s \in Seq(Byte)
  PROVE  s \in Seq(Int)
<1>1. Byte \subseteq Int
  BY DEF Byte
<1>. QED
  BY <1>1, SeqMonotonic

LEMMA AddsMore ==
  ASSUME NEW x \in Builders, NEW y, NEW z, Adds(x, y), Adds(y, z)
  PROVE  Adds(x, z)
<1>1. PICK p \in Seq(Byte) : DataOf(y) = p \o DataOf(x)
  BY DEF Adds
<1>2. PICK q \in Seq(Byte) : DataOf(z) = q \o DataOf(y)
  BY DEF Adds
<1>3. DataOf(x) \in Seq(Int) /\ p \in Seq(Int) /\ q \in Seq(Int)
  BY BuilderParts, ByteSeq
<1>4. DataOf(z) = (q \o p) \o DataOf(x)
  BY <1>1, <1>2, <1>3, ConcatAssociative
<1>5. q \o p \in Seq(Byte)
  BY ConcatProperties
<1>. QED
  BY <1>4, <1>5 DEF Adds

LEMMA GrowsMore ==
  ASSUME NEW x, NEW y, NEW z, Grows(x, y), Grows(y, z)
  PROVE  Grows(x, z)
<1>1. Adds(x, z)
  BY AddsMore DEF Grows
<1>. QED
  BY <1>1 DEF Grows, Remembers

(* A builder with another block.                                           *)
LEMMA OtherBlock ==
  ASSUME NEW x \in Builders, NEW w, NEW data, NEW pad, Content(w, data, pad),
         NEW y, y = [x EXCEPT !.v = w]
  PROVE  /\ y \in Builders /\ y.v = w
         /\ DataOf(y) = data /\ PadOf(y) = pad /\ SameRest(x, y)
<1>1. w \in Blocks /\ Data(w) = data /\ ScratchBytes(w) = pad
  BY DEF Content
<1>2. y \in Builders /\ y.v = w /\ SameRest(x, y)
  BY <1>1 DEF Builders, SameRest
<1>. QED
  BY <1>1, <1>2 DEF DataOf, PadOf

LEMMA PushBytesAdds ==
  ASSUME NEW x \in Builders, NEW bytes \in Seq(Int)
  PROVE  /\ PushBytes(x, bytes) \in Builders
         /\ DataOf(PushBytes(x, bytes)) = bytes \o DataOf(x)
         /\ PadOf(PushBytes(x, bytes)) = PadOf(x)
         /\ SameRest(x, PushBytes(x, bytes))
         /\ Size(PushBytes(x, bytes)) = Len(bytes) + Size(x)
<1>1. x.v \in Blocks
  BY BuilderParts
<1>2. Content(Push(x.v, bytes), bytes \o DataOf(x), PadOf(x))
  BY <1>1, BlockPush DEF DataOf, PadOf
<1>. DEFINE y == PushBytes(x, bytes)
            w == Push(x.v, bytes)
            data == bytes \o DataOf(x)
            pad == PadOf(x)
<1>3. y = [x EXCEPT !.v = w]
  BY DEF PushBytes
<1>3a. Content(w, data, pad)
  BY <1>2
<1>. HIDE DEF y, w, data, pad
<1>3b. /\ y \in Builders /\ y.v = w
       /\ DataOf(y) = data /\ PadOf(y) = pad /\ SameRest(x, y)
  BY <1>3, <1>3a, OtherBlock
<1>4. /\ y \in Builders /\ DataOf(y) = bytes \o DataOf(x)
      /\ PadOf(y) = PadOf(x) /\ SameRest(x, y)
  BY <1>3b DEF data, pad
<1>5. Len(bytes \o DataOf(x)) = Len(bytes) + Len(DataOf(x))
  BY BuilderParts, ConcatProperties
<1>6. Size(y) = Len(bytes) + Size(x)
  BY <1>4, <1>5, BuilderParts
<1>. QED
  BY <1>4, <1>6 DEF y

LEMMA TwinPushBytes ==
  ASSUME NEW x, NEW y, Twins(x, y), NEW bytes \in Seq(Int)
  PROVE  /\ Twins(PushBytes(x, bytes), PushBytes(y, bytes))
         /\ bytes \in Seq(Byte) => Grows(x, PushBytes(x, bytes))
<1>. DEFINE p == PushBytes(x, bytes)
            q == PushBytes(y, bytes)
<1>1. /\ p \in Builders /\ DataOf(p) = bytes \o DataOf(x)
      /\ PadOf(p) = PadOf(x) /\ SameRest(x, p)
  BY TwinParts, PushBytesAdds
<1>2. /\ q \in Builders /\ DataOf(q) = bytes \o DataOf(y)
      /\ PadOf(q) = PadOf(y) /\ SameRest(y, q)
  BY TwinParts, PushBytesAdds
<1>. HIDE DEF p, q
<1>3. Twins(p, q)
  BY <1>1, <1>2, TwinParts DEF Twins, SameRest
<1>4. bytes \in Seq(Byte) => Grows(x, p)
  BY <1>1, TwinParts DEF Grows, Adds, Remembers, SameRest
<1>. QED
  BY <1>3, <1>4 DEF p, q

LEMMA Padding ==
  ASSUME NEW n \in Int, NEW align \in Nat \ {0}
  PROVE  PaddingBytes(n, align) \in Nat /\ PaddingBytes(n, align) < align
BY DEF PaddingBytes

Zeros(n) == [i \in 1..n |-> 0]

LEMMA ZeroBytes ==
  ASSUME NEW n \in Nat
  PROVE  Zeros(n) \in Seq(Byte) /\ Len(Zeros(n)) = n /\ Zeros(n) \in Seq(Int)
<1>1. 0 \in Byte
  BY DEF Byte
<1>2. Zeros(n) \in Seq(Byte) /\ Len(Zeros(n)) = n
  BY <1>1 DEF Zeros
<1>. QED
  BY <1>2, ByteSeq

(* TrackMinAlign() and Fill().                                             *)
LEMMA TwinTrackMinAlign ==
  ASSUME NEW x, NEW y, Twins(x, y), NEW n \in Nat
  PROVE  /\ Twins(TrackMinAlign(x, n), TrackMinAlign(y, n))
         /\ Grows(x, TrackMinAlign(x, n))
         /\ Size(TrackMinAlign(x, n)) = Size(x)
         /\ TrackMinAlign(x, n).nested = x.nested
<1>1. ASSUME NEW z \in Builders
      PROVE  /\ TrackMinAlign(z, n) \in Builders
             /\ TrackMinAlign(z, n).v = z.v
             /\ TrackMinAlign(z, n).minalign = Larger(z.minalign, n)
             /\ TrackMinAlign(z, n).fields = z.fields
             /\ TrackMinAlign(z, n).maxvo = z.maxvo
             /\ TrackMinAlign(z, n).nested = z.nested
             /\ TrackMinAlign(z, n).finished = z.finished
             /\ TrackMinAlign(z, n).force = z.force
             /\ TrackMinAlign(z, n).dedup = z.dedup
             /\ TrackMinAlign(z, n).pool = z.pool
  <2>. DEFINE m == Larger(z.minalign, n)
  <2>1. m \in Nat \ {0}
    BY BuilderParts DEF Larger
  <2>2. TrackMinAlign(z, n) = [z EXCEPT !.minalign = m]
    BY DEF TrackMinAlign
  <2>. HIDE DEF m
  <2>3. /\ TrackMinAlign(z, n) \in Builders /\ TrackMinAlign(z, n).v = z.v
        /\ TrackMinAlign(z, n).minalign = m
        /\ TrackMinAlign(z, n).fields = z.fields
        /\ TrackMinAlign(z, n).maxvo = z.maxvo
        /\ TrackMinAlign(z, n).nested = z.nested
        /\ TrackMinAlign(z, n).finished = z.finished
        /\ TrackMinAlign(z, n).force = z.force
        /\ TrackMinAlign(z, n).dedup = z.dedup
        /\ TrackMinAlign(z, n).pool = z.pool
    BY <2>1, <2>2 DEF Builders
  <2>. QED
    BY <2>3 DEF m
<1>. DEFINE p == TrackMinAlign(x, n)
            q == TrackMinAlign(y, n)
<1>2. x \in Builders /\ y \in Builders /\ SameRest(x, y)
  BY TwinParts
<1>3. /\ p \in Builders /\ p.v = x.v /\ p.minalign = Larger(x.minalign, n)
      /\ p.fields = x.fields /\ p.maxvo = x.maxvo /\ p.nested = x.nested
      /\ p.finished = x.finished /\ p.force = x.force /\ p.dedup = x.dedup
      /\ p.pool = x.pool
  BY <1>1, <1>2
<1>4. /\ q \in Builders /\ q.v = y.v /\ q.minalign = Larger(y.minalign, n)
      /\ q.fields = y.fields /\ q.maxvo = y.maxvo /\ q.nested = y.nested
      /\ q.finished = y.finished /\ q.force = y.force /\ q.dedup = y.dedup
      /\ q.pool = y.pool
  BY <1>1, <1>2
<1>. HIDE DEF p, q
<1>5. DataOf(p) = DataOf(x) /\ PadOf(p) = PadOf(x) /\ Size(p) = Size(x)
      /\ DataOf(q) = DataOf(y) /\ PadOf(q) = PadOf(y)
  BY <1>3, <1>4 DEF DataOf, PadOf, Size
<1>6. SameRest(p, q)
  BY <1>2, <1>3, <1>4 DEF SameRest
<1>7. Twins(p, q)
  BY <1>3, <1>4, <1>5, <1>6, TwinParts DEF Twins
<1>8. Adds(x, x)
  BY <1>2, GrowsNot DEF Grows
<1>9. Grows(x, p)
  BY <1>2, <1>3, <1>5, <1>8 DEF Grows, Adds, Remembers
<1>. QED
  BY <1>3, <1>5, <1>7, <1>9 DEF p, q

LEMMA TwinAlign ==
  ASSUME NEW x, NEW y, Twins(x, y), NEW n \in Nat \ {0}
  PROVE  /\ Twins(Align(x, n), Align(y, n)) /\ Grows(x, Align(x, n))
         /\ Align(x, n).nested = x.nested
         /\ Size(Align(x, n)) = PaddingBytes(Size(x), n) + Size(x)
         /\ DataOf(Align(x, n)) = Zeros(PaddingBytes(Size(x), n)) \o DataOf(x)
<1>. DEFINE k == PaddingBytes(Size(x), n)
            p == TrackMinAlign(x, n)
            q == TrackMinAlign(y, n)
<1>1. n \in Nat /\ x \in Builders /\ Size(x) = Size(y) /\ Size(x) \in Nat
  BY TwinParts, BuilderParts
<1>2. k \in Nat
  BY <1>1, Padding
<1>. HIDE DEF k
<1>3. /\ Align(x, n) = PushBytes(p, Zeros(k))
      /\ Align(y, n) = PushBytes(q, Zeros(k))
  BY <1>1 DEF Align, PushBytes, Fill, Zeros, k
<1>4. /\ Twins(p, q) /\ Grows(x, p) /\ Size(p) = Size(x)
      /\ p.nested = x.nested /\ DataOf(p) = DataOf(x)
  <2>1. TrackMinAlign(x, n).v = x.v
    BY <1>1 DEF TrackMinAlign, Builders
  <2>. QED
    BY <1>1, <2>1, TwinTrackMinAlign DEF DataOf
<1>. HIDE DEF p, q
<1>5. Zeros(k) \in Seq(Byte) /\ Zeros(k) \in Seq(Int) /\ Len(Zeros(k)) = k
  BY <1>2, ZeroBytes
<1>6. /\ Twins(PushBytes(p, Zeros(k)), PushBytes(q, Zeros(k)))
      /\ Grows(p, PushBytes(p, Zeros(k)))
  BY <1>4, <1>5, TwinPushBytes
<1>7. p \in Builders
  BY <1>4, TwinParts
<1>8. /\ SameRest(p, PushBytes(p, Zeros(k)))
      /\ Size(PushBytes(p, Zeros(k))) = k + Size(x)
      /\ DataOf(PushBytes(p, Zeros(k))) = Zeros(k) \o DataOf(x)
  BY <1>4, <1>5, <1>7, PushBytesAdds
<1>9. Grows(x, PushBytes(p, Zeros(k)))
  BY <1>4, <1>6, GrowsMore
<1>. QED
  BY <1>3, <1>4, <1>6, <1>8, <1>9 DEF k, SameRest

LEMMA TwinPreAlign ==
  ASSUME NEW x, NEW y, Twins(x, y), NEW len \in Nat, NEW n \in Nat \ {0}
  PROVE  /\ Twins(PreAlign(x, len, n), PreAlign(y, len, n))
         /\ Grows(x, PreAlign(x, len, n))
         /\ PreAlign(x, len, n).nested = x.nested
<1>1. CASE len = 0
  <2>1. PreAlign(x, len, n) = x /\ PreAlign(y, len, n) = y
    BY <1>1 DEF PreAlign
  <2>. QED
    BY <2>1, GrowsNot, TwinParts
<1>2. CASE len # 0
  <2>. DEFINE k == PaddingBytes(Size(x) + len, n)
              p == TrackMinAlign(x, n)
              q == TrackMinAlign(y, n)
  <2>1. n \in Nat /\ x \in Builders /\ Size(x) = Size(y) /\ Size(x) \in Nat
    BY TwinParts, BuilderParts
  <2>2. k \in Nat
    BY <2>1, Padding
  <2>3. /\ PreAlign(x, len, n) = PushBytes(p, Zeros(k))
        /\ PreAlign(y, len, n) = PushBytes(q, Zeros(k))
    <3>. HIDE DEF k
    <3>1. /\ PreAlign(x, len, n)
               = [TrackMinAlign(x, n) EXCEPT
                    !.v = Fill(@, PaddingBytes(Size(x) + len, n))]
          /\ PreAlign(y, len, n)
               = [TrackMinAlign(y, n) EXCEPT
                    !.v = Fill(@, PaddingBytes(Size(y) + len, n))]
      BY <1>2 DEF PreAlign
    <3>. QED
      BY <2>1, <3>1 DEF PushBytes, Fill, Zeros, k
  <2>. HIDE DEF k
  <2>4. Twins(p, q) /\ Grows(x, p) /\ p.nested = x.nested
    BY <2>1, TwinTrackMinAlign
  <2>. HIDE DEF p, q
  <2>5. Zeros(k) \in Seq(Byte) /\ Zeros(k) \in Seq(Int)
    BY <2>2, ZeroBytes
  <2>6. /\ Twins(PushBytes(p, Zeros(k)), PushBytes(q, Zeros(k)))
        /\ Grows(p, PushBytes(p, Zeros(k)))
    BY <2>4, <2>5, TwinPushBytes
  <2>7. SameRest(p, PushBytes(p, Zeros(k)))
    BY <2>4, <2>5, TwinParts, PushBytesAdds
  <2>8. Grows(x, PushBytes(p, Zeros(k)))
    BY <2>4, <2>6, GrowsMore
  <2>. QED
    BY <2>3, <2>4, <2>6, <2>7, <2>8 DEF SameRest
<1>. QED
  BY <1>1, <1>2

LEMMA TwinPushElement ==
  ASSUME NEW x, NEW y, Twins(x, y), NEW bytes \in Seq(Byte), Len(bytes) # 0
  PROVE  /\ Twins(PushElement(x, bytes), PushElement(y, bytes))
         /\ Grows(x, PushElement(x, bytes))
         /\ PushElement(x, bytes).nested = x.nested
         /\ Size(PushElement(x, bytes))
              = Len(bytes) + (PaddingBytes(Size(x), Len(bytes)) + Size(x))
         /\ DataOf(PushElement(x, bytes))
              = bytes \o (Zeros(PaddingBytes(Size(x), Len(bytes))) \o DataOf(x))
<1>. DEFINE n == Len(bytes)
            p == Align(x, n)
            q == Align(y, n)
<1>1. n \in Nat \ {0} /\ bytes \in Seq(Int)
  BY LenProperties, ByteSeq
<1>2. /\ Twins(p, q) /\ Grows(x, p) /\ p.nested = x.nested
      /\ Size(p) = PaddingBytes(Size(x), n) + Size(x)
      /\ DataOf(p) = Zeros(PaddingBytes(Size(x), n)) \o DataOf(x)
  BY <1>1, TwinAlign
<1>3. /\ PushElement(x, bytes) = PushBytes(p, bytes)
      /\ PushElement(y, bytes) = PushBytes(q, bytes)
  BY DEF PushElement
<1>. HIDE DEF p, q
<1>4. /\ Twins(PushBytes(p, bytes), PushBytes(q, bytes))
      /\ Grows(p, PushBytes(p, bytes))
  BY <1>1, <1>2, TwinPushBytes
<1>5. /\ SameRest(p, PushBytes(p, bytes))
      /\ Size(PushBytes(p, bytes)) = n + Size(p)
      /\ DataOf(PushBytes(p, bytes)) = bytes \o DataOf(p)
  BY <1>1, <1>2, TwinParts, PushBytesAdds
<1>6. Grows(x, PushBytes(p, bytes))
  BY <1>2, <1>4, GrowsMore
<1>. HIDE DEF n
<1>7. /\ PushBytes(p, bytes).nested = x.nested
      /\ Size(PushBytes(p, bytes)) = n + (PaddingBytes(Size(x), n) + Size(x))
      /\ DataOf(PushBytes(p, bytes))
           = bytes \o (Zeros(PaddingBytes(Size(x), n)) \o DataOf(x))
  BY <1>2, <1>5 DEF SameRest
<1>. QED
  BY ONLY <1>3, <1>4, <1>6, <1>7, Zenon DEF n

LEMMA TwinPushScalar ==
  ASSUME NEW x, NEW y, Twins(x, y), NEW i \in Int, NEW w \in Nat \ {0}
  PROVE  /\ Twins(PushElement(x, Scalar(i, w)), PushElement(y, Scalar(i, w)))
         /\ Grows(x, PushElement(x, Scalar(i, w)))
         /\ PushElement(x, Scalar(i, w)).nested = x.nested
         /\ Size(PushElement(x, Scalar(i, w)))
              = w + (PaddingBytes(Size(x), w) + Size(x))
<1>. DEFINE s == Scalar(i, w)
<1>1. s \in Seq(Byte) /\ Len(s) = w
  BY ScalarBytes
<1>. HIDE DEF s
<1>2. Len(s) # 0
  BY <1>1
<1>3. /\ Twins(PushElement(x, s), PushElement(y, s))
      /\ Grows(x, PushElement(x, s)) /\ PushElement(x, s).nested = x.nested
      /\ Size(PushElement(x, s))
           = Len(s) + (PaddingBytes(Size(x), Len(s)) + Size(x))
  BY <1>1, <1>2, TwinPushElement
<1>. QED
  BY <1>1, <1>3 DEF s

LEMMA TwinPushOffset ==
  ASSUME NEW x, NEW y, Twins(x, y), NEW o \in Int
  PROVE  /\ Twins(PushOffset(x, o), PushOffset(y, o))
         /\ Grows(x, PushOffset(x, o))
         /\ PushOffset(x, o).nested = x.nested
         /\ Size(PushOffset(x, o)) <= Size(x) + 10
         /\ Size(PushOffset(x, o)) >= Size(x) + 4
<1>. DEFINE p == Align(x, 4)
            q == Align(y, 4)
            i == Size(p) - o + 4
<1>1. /\ Twins(p, q) /\ Grows(x, p) /\ p.nested = x.nested
      /\ Size(p) = PaddingBytes(Size(x), 4) + Size(x)
  BY TwinAlign
<1>. HIDE DEF p, q
<1>2. /\ p \in Builders /\ Size(p) = Size(q)
      /\ Size(p) \in Nat /\ Size(x) \in Nat
  BY <1>1, TwinParts, BuilderParts
<1>3. i \in Int /\ 4 \in Nat \ {0}
  BY <1>2
<1>4. /\ PushOffset(x, o) = PushElement(p, Scalar(i, 4))
      /\ PushOffset(y, o) = PushElement(q, Scalar(i, 4))
  BY <1>2 DEF PushOffset, p, q
<1>. HIDE DEF i
<1>5. /\ Twins(PushElement(p, Scalar(i, 4)), PushElement(q, Scalar(i, 4)))
      /\ Grows(p, PushElement(p, Scalar(i, 4)))
      /\ PushElement(p, Scalar(i, 4)).nested = p.nested
      /\ Size(PushElement(p, Scalar(i, 4)))
           = 4 + (PaddingBytes(Size(p), 4) + Size(p))
  BY ONLY <1>1, <1>3, TwinPushScalar, Zenon
<1>6. Grows(x, PushElement(p, Scalar(i, 4)))
  BY <1>1, <1>5, GrowsMore
<1>7. /\ PaddingBytes(Size(x), 4) \in Nat /\ PaddingBytes(Size(x), 4) < 4
      /\ PaddingBytes(Size(p), 4) \in Nat /\ PaddingBytes(Size(p), 4) < 4
  BY <1>2, <1>3, Padding
<1>8. /\ Size(PushElement(p, Scalar(i, 4))) <= Size(x) + 10
      /\ Size(PushElement(p, Scalar(i, 4))) >= Size(x) + 4
  BY <1>1, <1>2, <1>5, <1>7
<1>. QED
  BY <1>1, <1>4, <1>5, <1>6, <1>8

LEMMA FlattenType ==
  ASSUME NEW S, NEW seqs \in Seq(Seq(S))
  PROVE  FlattenSeq(seqs) \in Seq(S)
<1>1. CASE Len(seqs) = 0
  <2>1. seqs = <<>> /\ FlattenSeq(seqs) = seqs
    BY <1>1, EmptySeq DEF FlattenSeq
  <2>. QED
    BY <2>1, EmptySeq
<1>2. CASE Len(seqs) # 0
  <2>1. PICK h \in [1..Len(seqs) -> Seq(S)] : FlattenSeq(seqs) = h[Len(seqs)]
    BY <1>2, FlattenParts
  <2>2. Len(seqs) \in 1..Len(seqs)
    BY <1>2, LenProperties
  <2>. QED
    BY <2>1, <2>2
<1>. QED
  BY <1>1, <1>2

(* What begins and ends a vector.                                          *)
LEMMA TwinNested ==
  ASSUME NEW x, NEW y, Twins(x, y), NEW t \in BOOLEAN
  PROVE  /\ Twins([x EXCEPT !.nested = t], [y EXCEPT !.nested = t])
         /\ Grows(x, [x EXCEPT !.nested = t])
         /\ [x EXCEPT !.nested = t].nested = t
         /\ Size([x EXCEPT !.nested = t]) = Size(x)
         /\ DataOf([x EXCEPT !.nested = t]) = DataOf(x)
         /\ PadOf([x EXCEPT !.nested = t]) = PadOf(x)
         /\ [x EXCEPT !.nested = t].v = x.v
<1>. DEFINE p == [x EXCEPT !.nested = t]
            q == [y EXCEPT !.nested = t]
<1>1. x \in Builders /\ y \in Builders /\ SameRest(x, y)
  BY TwinParts
<1>2. /\ p \in Builders /\ p.v = x.v /\ p.minalign = x.minalign
      /\ p.fields = x.fields /\ p.maxvo = x.maxvo /\ p.nested = t
      /\ p.finished = x.finished /\ p.force = x.force /\ p.dedup = x.dedup
      /\ p.pool = x.pool
  BY <1>1 DEF Builders
<1>3. /\ q \in Builders /\ q.v = y.v /\ q.minalign = y.minalign
      /\ q.fields = y.fields /\ q.maxvo = y.maxvo /\ q.nested = t
      /\ q.finished = y.finished /\ q.force = y.force /\ q.dedup = y.dedup
      /\ q.pool = y.pool
  BY <1>1 DEF Builders
<1>. HIDE DEF p, q
<1>4. DataOf(p) = DataOf(x) /\ PadOf(p) = PadOf(x) /\ Size(p) = Size(x)
      /\ DataOf(q) = DataOf(y) /\ PadOf(q) = PadOf(y)
  BY <1>2, <1>3 DEF DataOf, PadOf, Size
<1>5. SameRest(p, q)
  BY <1>1, <1>2, <1>3 DEF SameRest
<1>6. Twins(p, q)
  BY <1>2, <1>3, <1>4, <1>5, TwinParts DEF Twins
<1>7. Adds(x, x)
  BY <1>1, GrowsNot DEF Grows
<1>8. Grows(x, p)
  BY <1>1, <1>2, <1>4, <1>7 DEF Grows, Adds, Remembers
<1>. QED
  BY <1>2, <1>4, <1>6, <1>8 DEF p, q

LEMMA TwinStartVector ==
  ASSUME NEW x, NEW y, Twins(x, y), NEW len \in Nat, NEW elemsize \in Nat,
         NEW align \in Nat \ {0}
  PROVE  /\ Twins(StartVector(x, len, elemsize, align),
                  StartVector(y, len, elemsize, align))
         /\ Grows(x, StartVector(x, len, elemsize, align))
<1>. DEFINE n == len * elemsize
            p1 == PreAlign(x, n, 4)
            q1 == PreAlign(y, n, 4)
            p2 == PreAlign(p1, n, align)
            q2 == PreAlign(q1, n, align)
<1>1. n \in Nat /\ 4 \in Nat \ {0} /\ TRUE \in BOOLEAN
  BY SMT
<1>2. /\ StartVector(x, len, elemsize, align) = [p2 EXCEPT !.nested = TRUE]
      /\ StartVector(y, len, elemsize, align) = [q2 EXCEPT !.nested = TRUE]
  BY DEF StartVector
<1>. HIDE DEF n
<1>3. Twins(p1, q1) /\ Grows(x, p1)
  BY <1>1, TwinPreAlign
<1>. HIDE DEF p1, q1
<1>4. Twins(p2, q2) /\ Grows(p1, p2)
  BY <1>1, <1>3, TwinPreAlign
<1>. HIDE DEF p2, q2
<1>5. /\ Twins([p2 EXCEPT !.nested = TRUE], [q2 EXCEPT !.nested = TRUE])
      /\ Grows(p2, [p2 EXCEPT !.nested = TRUE])
  BY <1>1, <1>4, TwinNested
<1>6. Grows(x, [p2 EXCEPT !.nested = TRUE])
  BY <1>3, <1>4, <1>5, GrowsMore
<1>. QED
  BY <1>2, <1>5, <1>6

(* A call that makes an object: made by twins it gives twins and the same  *)
(* offset, it only adds bytes in front of the data, and nothing is nested. *)
Makes(x, y, m, n) ==
  /\ Twins(m.b, n.b) /\ m.off = n.off /\ m.off = Size(m.b)
  /\ Grows(x, m.b) /\ ~m.b.nested

LEMMA MakesMade ==
  ASSUME NEW x, NEW p, NEW q, Twins(p, q), Grows(x, p), ~p.nested
  PROVE  Makes(x, x, Made(p), Made(q))
<1>1. Size(p) = Size(q)
  BY TwinParts
<1>. QED
  BY <1>1 DEF Makes, Made

LEMMA TwinEndVector ==
  ASSUME NEW x, NEW y, Twins(x, y), NEW len \in Nat
  PROVE  Makes(x, y, EndVector(x, len), EndVector(y, len))
<1>. DEFINE p == PushElement(x, Scalar(len, 4))
            q == PushElement(y, Scalar(len, 4))
            r == [p EXCEPT !.nested = FALSE]
            s == [q EXCEPT !.nested = FALSE]
<1>1. len \in Int /\ 4 \in Nat \ {0} /\ FALSE \in BOOLEAN
  OBVIOUS
<1>2. Twins(p, q) /\ Grows(x, p)
  BY ONLY <1>1, Twins(x, y), TwinPushScalar, Zenon
<1>. HIDE DEF p, q
<1>3. Twins(r, s) /\ Grows(p, r) /\ r.nested = FALSE
  BY <1>1, <1>2, TwinNested
<1>4. EndVector(x, len) = Made(r) /\ EndVector(y, len) = Made(s)
  BY DEF EndVector, p, q
<1>. HIDE DEF r, s
<1>5. Grows(x, r) /\ ~r.nested
  BY <1>2, <1>3, GrowsMore
<1>6. Makes(x, x, Made(r), Made(s))
  BY <1>3, <1>5, MakesMade
<1>. QED
  BY <1>4, <1>6 DEF Makes

LEMMA MakesAfter ==
  ASSUME NEW x, NEW y, NEW p, NEW q, NEW m, NEW n,
         Grows(x, p), Makes(p, q, m, n)
  PROVE  Makes(x, y, m, n)
BY GrowsMore DEF Makes

LEMMA TwinCreateString ==
  ASSUME NEW x, NEW y, Twins(x, y), ~x.nested, NEW str \in Seq(Byte)
  PROVE  Makes(x, y, CreateString(x, str), CreateString(y, str))
<1>. DEFINE n == Len(str) + 1
            p1 == PreAlign(x, n, 4)
            q1 == PreAlign(y, n, 4)
            p2 == PushBytes(p1, Zeros(1))
            q2 == PushBytes(q1, Zeros(1))
            p3 == PushBytes(p2, str)
            q3 == PushBytes(q2, str)
            p4 == PushElement(p3, Scalar(Len(str), 4))
            q4 == PushElement(q3, Scalar(Len(str), 4))
<1>1. n \in Nat /\ 4 \in Nat \ {0} /\ Len(str) \in Int
  BY LenProperties
<1>2. Zeros(1) \in Seq(Byte) /\ Zeros(1) \in Seq(Int) /\ str \in Seq(Int)
  BY ZeroBytes, ByteSeq
<1>3. /\ CreateString(x, str) = Made(p4) /\ CreateString(y, str) = Made(q4)
  BY DEF CreateString, CreateStringImpl, PushBytes, Fill, Zeros
<1>. HIDE DEF n
<1>4. Twins(p1, q1) /\ Grows(x, p1) /\ p1.nested = x.nested
  BY <1>1, TwinPreAlign
<1>. HIDE DEF p1, q1
<1>5. Twins(p2, q2) /\ Grows(p1, p2) /\ p2.nested = p1.nested
  BY <1>2, <1>4, TwinPushBytes, TwinParts, PushBytesAdds DEF SameRest
<1>. HIDE DEF p2, q2
<1>6. Twins(p3, q3) /\ Grows(p2, p3) /\ p3.nested = p2.nested
  BY <1>2, <1>5, TwinPushBytes, TwinParts, PushBytesAdds DEF SameRest
<1>. HIDE DEF p3, q3
<1>7. Twins(p4, q4) /\ Grows(p3, p4) /\ p4.nested = p3.nested
  BY ONLY <1>1, <1>6, TwinPushScalar, Zenon
<1>. HIDE DEF p4, q4
<1>8. Grows(x, p4) /\ ~p4.nested
  BY <1>4, <1>5, <1>6, <1>7, GrowsMore
<1>9. Makes(x, x, Made(p4), Made(q4))
  BY <1>7, <1>8, MakesMade
<1>. QED
  BY <1>3, <1>9 DEF Makes

LEMMA TwinVector ==
  ASSUME NEW x, NEW y, Twins(x, y), NEW len \in Nat, NEW elemsize \in Nat,
         NEW align \in Nat \ {0}, NEW bytes \in Seq(Byte)
  PROVE  Makes(x, y,
           EndVector(PushBytes(StartVector(x, len, elemsize, align), bytes),
                     len),
           EndVector(PushBytes(StartVector(y, len, elemsize, align), bytes),
                     len))
<1>. DEFINE p1 == StartVector(x, len, elemsize, align)
            q1 == StartVector(y, len, elemsize, align)
            p2 == PushBytes(p1, bytes)
            q2 == PushBytes(q1, bytes)
<1>1. Twins(p1, q1) /\ Grows(x, p1)
  BY TwinStartVector
<1>. HIDE DEF p1, q1
<1>2. Twins(p2, q2) /\ Grows(p1, p2)
  BY <1>1, ByteSeq, TwinPushBytes
<1>. HIDE DEF p2, q2
<1>3. Makes(p2, q2, EndVector(p2, len), EndVector(q2, len))
  BY <1>2, TwinEndVector
<1>4. Grows(x, p2)
  BY <1>1, <1>2, GrowsMore
<1>5. Makes(x, y, EndVector(p2, len), EndVector(q2, len))
  BY <1>3, <1>4, MakesAfter
<1>. QED
  BY <1>5 DEF p1, q1, p2, q2

LEMMA TwinCreateVector ==
  ASSUME NEW x, NEW y, Twins(x, y), NEW elems \in Seq(Seq(Byte)),
         NEW elemsize \in Nat, NEW align \in Nat \ {0}
  PROVE  /\ Makes(x, y, CreateVector(x, elems, elemsize, align),
                        CreateVector(y, elems, elemsize, align))
         /\ Makes(x, y, CreateVectorOfStructs(x, elems, elemsize, align),
                        CreateVectorOfStructs(y, elems, elemsize, align))
<1>. DEFINE bytes == FlattenSeq(elems)
            len == Len(elems)
<1>1. bytes \in Seq(Byte)
  BY FlattenType, Zenon
<1>2. len \in Nat
  BY LenProperties
<1>3. Makes(x, y,
        EndVector(PushBytes(StartVector(x, len, elemsize, align), bytes), len),
        EndVector(PushBytes(StartVector(y, len, elemsize, align), bytes), len))
  <2>. HIDE DEF bytes, len
  <2>. QED
    BY <1>1, <1>2, TwinVector
<1>. QED
  BY <1>3 DEF CreateVector, CreateVectorOfStructs

LEMMA TwinToResultBytes ==
  ASSUME NEW x, NEW y, Twins(x, y), NEW bytes \in Seq(Byte)
  PROVE  Makes(x, y, ToResultBytes(x, bytes), ToResultBytes(y, bytes))
<1>. DEFINE elems == [i \in 1..Len(bytes) |-> <<bytes[i]>>]
<1>1. elems \in Seq(Seq(Byte))
  <2>1. Len(bytes) \in Nat /\ \A i \in 1..Len(bytes) : bytes[i] \in Byte
    BY LenProperties, ElementOfSeq
  <2>2. \A i \in 1..Len(bytes) : <<bytes[i]>> \in Seq(Byte)
    BY <2>1
  <2>. QED
    BY <2>1, <2>2
<1>2. 1 \in Nat /\ 1 \in Nat \ {0}
  OBVIOUS
<1>. HIDE DEF elems
<1>3. Makes(x, y, CreateVector(x, elems, 1, 1), CreateVector(y, elems, 1, 1))
  BY ONLY <1>1, <1>2, Twins(x, y), TwinCreateVector, Zenon
<1>. QED
  BY <1>3 DEF ToResultBytes, elems

LEMMA TwinCreateStruct ==
  ASSUME NEW x, NEW y, Twins(x, y), ~x.nested, NEW bytes \in Seq(Byte),
         NEW align \in Nat \ {0}
  PROVE  Makes(x, y, CreateStruct(x, bytes, align),
                     CreateStruct(y, bytes, align))
<1>. DEFINE p1 == Align(x, align)
            q1 == Align(y, align)
            p2 == PushBytes(p1, bytes)
            q2 == PushBytes(q1, bytes)
<1>1. Twins(p1, q1) /\ Grows(x, p1) /\ p1.nested = x.nested
  BY TwinAlign
<1>2. bytes \in Seq(Int)
  BY ByteSeq
<1>. HIDE DEF p1, q1
<1>3. Twins(p2, q2) /\ Grows(p1, p2) /\ p2.nested = p1.nested
  BY <1>1, <1>2, TwinPushBytes, TwinParts, PushBytesAdds DEF SameRest
<1>. HIDE DEF p2, q2
<1>4. Grows(x, p2) /\ ~p2.nested
  BY <1>1, <1>3, GrowsMore
<1>5. Makes(x, x, Made(p2), Made(q2))
  BY <1>3, <1>4, MakesMade
<1>. QED
  BY <1>5 DEF Makes, CreateStruct, p1, q1, p2, q2

(* Between two calls nothing is nested, the scratch pad holds offsets of   *)
(* vtables, and what the pool of shared strings holds are strings that     *)
(* were made.                                                              *)
Sound(x) ==
  /\ x \in Builders /\ ~x.nested /\ x.fields = 0 /\ x.maxvo = 0
  /\ \A o \in x.pool : o <= Size(x)
  /\ \E n \in Nat :
       /\ Len(PadOf(x)) = 4 * n
       /\ \A i \in 1..n : /\ ReadU(PadOf(x), 4 * (i - 1), 4) \in Nat
                          /\ ReadU(PadOf(x), 4 * (i - 1), 4) <= Size(x)

LEMMA AddsSize ==
  ASSUME NEW x \in Builders, NEW y \in Builders, Adds(x, y)
  PROVE  Size(x) <= Size(y)
<1>1. PICK p \in Seq(Byte) : DataOf(y) = p \o DataOf(x)
  BY DEF Adds
<1>2. Len(p \o DataOf(x)) = Len(p) + Len(DataOf(x)) /\ Len(p) \in Nat
  BY BuilderParts, ByteSeq, Concatenated, LenProperties
<1>. QED
  BY <1>1, <1>2, BuilderParts

LEMMA GrowsSound ==
  ASSUME NEW x, NEW y, Sound(x), Grows(x, y), ~y.nested
  PROVE  Sound(y)
<1>1. /\ x \in Builders /\ y \in Builders /\ PadOf(y) = PadOf(x)
      /\ y.fields = x.fields /\ y.maxvo = x.maxvo /\ y.pool = x.pool
  BY DEF Grows, Remembers
<1>2. Size(x) <= Size(y) /\ Size(x) \in Nat /\ Size(y) \in Nat
  BY <1>1, AddsSize, BuilderParts DEF Grows
<1>3. \A o \in y.pool : o <= Size(y)
  <2>1. x.pool \in SUBSET Int
    BY <1>1, BuilderParts
  <2>. QED
    BY <1>1, <1>2, <2>1 DEF Sound
<1>4. PICK n \in Nat :
       /\ Len(PadOf(x)) = 4 * n
       /\ \A i \in 1..n : /\ ReadU(PadOf(x), 4 * (i - 1), 4) \in Nat
                          /\ ReadU(PadOf(x), 4 * (i - 1), 4) <= Size(x)
  BY DEF Sound
<1>5. \A i \in 1..n : /\ ReadU(PadOf(y), 4 * (i - 1), 4) \in Nat
                      /\ ReadU(PadOf(y), 4 * (i - 1), 4) <= Size(y)
  BY <1>1, <1>2, <1>4
<1>. QED
  BY <1>1, <1>3, <1>4, <1>5 DEF Sound

(* What a call between two steps of the client leaves.                     *)
Done(x, y, m, n) ==
  /\ Twins(m.b, n.b) /\ m.off = n.off /\ m.off \in Int
  /\ Adds(x, m.b) /\ Sound(m.b) /\ m.b.finished = x.finished

LEMMA MakesDone ==
  ASSUME NEW x, NEW y, NEW m, NEW n, Sound(x), Makes(x, y, m, n)
  PROVE  Done(x, y, m, n)
<1>1. Sound(m.b)
  BY GrowsSound DEF Makes
<1>2. m.b \in Builders
  BY DEF Makes, Grows
<1>3. Size(m.b) \in Int
  BY <1>2, BuilderParts
<1>. QED
  BY <1>1, <1>3 DEF Done, Makes, Grows, Remembers

(* What is read through an offset lies in the data.                        *)
LEMMA BuilderReads ==
  ASSUME NEW x \in Builders, NEW o \in Int, o <= Size(x)
  PROVE  /\ \A w \in {1, 2, 4, 8} :
              /\ ReadU(x.v.buf, DataAt(x.v, o), w)
                   = ReadU(DataOf(x), Size(x) - o, w)
              /\ ReadS(x.v.buf, DataAt(x.v, o), w)
                   = ReadS(DataOf(x), Size(x) - o, w)
         /\ \A len \in Int :
              Bytes(x.v.buf, DataAt(x.v, o), len)
                = Bytes(DataOf(x), Size(x) - o, len)
         /\ DataAt(x.v, o) = x.v.cur + (Size(x) - o) /\ Size(x) - o \in Nat
BY BuilderParts, BlockReads DEF DataOf, Size

LEMMA ReadType ==
  ASSUME NEW s \in Seq(Int), NEW at \in Int, NEW w \in {2, 4}
  PROVE  ReadU(s, at, w) \in Int
<1>1. w = 2 \/ w = 4
  OBVIOUS
<1>2. Len(s) \in Nat
  BY LenProperties
<1>3. CASE ~Inside(s, at, w)
  BY <1>3 DEF ReadU, Junk
<1>4. CASE Inside(s, at, w)
  <2>1. at >= 0 /\ at + w <= Len(s)
    BY <1>4 DEF Inside
  <2>2. at \in Nat /\ \A i \in 1..w : at + i \in 1..Len(s)
    BY <1>2, <2>1
  <2>3. \A i \in 1..w : s[at + i] \in Int
    BY <2>2, ElementOfSeq
  <2>4. CASE w = 2
    <3>1. ReadU(s, at, 2) = s[at + 1] + 256 * s[at + 2]
      BY <2>1, <2>2, <2>4, ReadTwo
    <3>2. s[at + 1] \in Int /\ s[at + 2] \in Int
      BY <2>3, <2>4
    <3>. QED
      BY <2>4, <3>1, <3>2
  <2>5. CASE w = 4
    <3>1. ReadU(s, at, 4) = IF s[at + 3] >= 16 \/ s[at + 4] >= 1 THEN Huge
                            ELSE s[at + 1] + 256 * s[at + 2] + 65536 * s[at + 3]
      BY <2>1, <2>2, <2>5, ReadFour
    <3>2. s[at + 1] \in Int /\ s[at + 2] \in Int /\ s[at + 3] \in Int
      BY <2>3, <2>5
    <3>3. Huge \in Int
      BY SMT DEF Huge
    <3>. DEFINE i == s[at + 1]
                j == s[at + 2]
                k == s[at + 3]
                l == s[at + 4]
    <3>4. ReadU(s, at, 4) = Huge
            \/ ReadU(s, at, 4) = i + 256 * j + 65536 * k
      BY ONLY <3>1, SMT
    <3>4a. i \in Int /\ j \in Int /\ k \in Int
      BY ONLY <3>2, SMT
    <3>. HIDE DEF i, j, k, l
    <3>4b. i + 256 * j + 65536 * k \in Int
      BY ONLY <3>4a, SMT
    <3>5. ReadU(s, at, 4) \in Int
      BY ONLY <3>4, <3>4b, <3>3, SMT
    <3>. QED
      BY ONLY <2>5, <3>5, Zenon
  <2>. QED
    BY <1>1, <2>4, <2>5
<1>. QED
  BY <1>3, <1>4

(* What a vtable or a string is, in the data.                              *)
TextOf(d, at) == Bytes(d, at + 4, ReadU(d, at, 4))
EntriesOf(d, at) == Bytes(d, at, ReadU(d, at, 2))

LEMMA ObjectReads ==
  ASSUME NEW x \in Builders, NEW o \in Int, o <= Size(x)
  PROVE  /\ StringAt(x, o) = TextOf(DataOf(x), Size(x) - o)
         /\ VtableAt(x, o) = EntriesOf(DataOf(x), Size(x) - o)
<1>. DEFINE d == DataOf(x)
            at == Size(x) - o
<1>1. d \in Seq(Int) /\ Size(x) \in Nat /\ at \in Int
  BY BuilderParts
<1>2. 2 \in {1, 2, 4, 8} /\ 4 \in {1, 2, 4, 8}
  OBVIOUS
<1>3. /\ ReadU(x.v.buf, DataAt(x.v, o), 4) = ReadU(d, at, 4)
      /\ ReadU(x.v.buf, DataAt(x.v, o), 2) = ReadU(d, at, 2)
  BY ONLY <1>2, BuilderReads, x \in Builders, o \in Int, o <= Size(x), Zenon
<1>4. ReadU(d, at, 4) \in Int /\ ReadU(d, at, 2) \in Int
  BY <1>1, ReadType
<1>. HIDE DEF d, at
<1>5. \A len \in Int : Bytes(x.v.buf, DataAt(x.v, o), len) = Bytes(d, at, len)
  BY BuilderReads DEF d, at
<1>6. VtableAt(x, o) = EntriesOf(d, at)
  BY <1>3, <1>4, <1>5 DEF VtableAt, Bounds, EntriesOf
<1>. DEFINE p == o - 4
<1>7. p \in Int /\ p <= Size(x) /\ Size(x) - p = at + 4
  BY <1>1 DEF at
<1>8. \A len \in Int : Bytes(x.v.buf, DataAt(x.v, p), len)
                         = Bytes(d, Size(x) - p, len)
  <2>. HIDE DEF p
  <2>. QED
    BY <1>7, BuilderReads DEF d
<1>9. StringAt(x, o) = TextOf(d, at)
  BY <1>3, <1>4, <1>7, <1>8 DEF StringAt, Bounds, TextOf
<1>. QED
  BY <1>6, <1>9 DEF d, at

LEMMA TwinObjects ==
  ASSUME NEW x, NEW y, Twins(x, y), NEW o \in Int, o <= Size(x)
  PROVE  StringAt(x, o) = StringAt(y, o) /\ VtableAt(x, o) = VtableAt(y, o)
BY TwinParts, ObjectReads

(* The pool remembers one more string.                                     *)
LEMMA TwinPool ==
  ASSUME NEW x, NEW y, Twins(x, y), NEW pool \in SUBSET Int
  PROVE  /\ Twins([x EXCEPT !.pool = pool], [y EXCEPT !.pool = pool])
         /\ DataOf([x EXCEPT !.pool = pool]) = DataOf(x)
         /\ PadOf([x EXCEPT !.pool = pool]) = PadOf(x)
         /\ Size([x EXCEPT !.pool = pool]) = Size(x)
         /\ [x EXCEPT !.pool = pool].pool = pool
         /\ [x EXCEPT !.pool = pool].nested = x.nested
         /\ [x EXCEPT !.pool = pool].fields = x.fields
         /\ [x EXCEPT !.pool = pool].maxvo = x.maxvo
         /\ [x EXCEPT !.pool = pool].finished = x.finished
<1>. DEFINE p == [x EXCEPT !.pool = pool]
            q == [y EXCEPT !.pool = pool]
<1>1. x \in Builders /\ y \in Builders /\ SameRest(x, y)
  BY TwinParts
<1>2. /\ p \in Builders /\ p.v = x.v /\ p.minalign = x.minalign
      /\ p.fields = x.fields /\ p.maxvo = x.maxvo /\ p.nested = x.nested
      /\ p.finished = x.finished /\ p.force = x.force /\ p.dedup = x.dedup
      /\ p.pool = pool
  BY <1>1 DEF Builders
<1>3. /\ q \in Builders /\ q.v = y.v /\ q.minalign = y.minalign
      /\ q.fields = y.fields /\ q.maxvo = y.maxvo /\ q.nested = y.nested
      /\ q.finished = y.finished /\ q.force = y.force /\ q.dedup = y.dedup
      /\ q.pool = pool
  BY <1>1 DEF Builders
<1>. HIDE DEF p, q
<1>4. DataOf(p) = DataOf(x) /\ PadOf(p) = PadOf(x) /\ Size(p) = Size(x)
      /\ DataOf(q) = DataOf(y) /\ PadOf(q) = PadOf(y)
  BY <1>2, <1>3 DEF DataOf, PadOf, Size
<1>5. SameRest(p, q)
  BY <1>1, <1>2, <1>3 DEF SameRest
<1>6. Twins(p, q)
  BY <1>2, <1>3, <1>4, <1>5, TwinParts DEF Twins
<1>. QED
  BY <1>2, <1>4, <1>6 DEF p, q

(* What was added to the data is taken back.                               *)
LEMMA PopBack ==
  ASSUME NEW x \in Builders, NEW a \in Seq(Byte), NEW d \in Seq(Int),
         DataOf(x) = a \o d
  PROVE  /\ [x EXCEPT !.v = Pop(@, Len(a))] \in Builders
         /\ DataOf([x EXCEPT !.v = Pop(@, Len(a))]) = d
         /\ PadOf([x EXCEPT !.v = Pop(@, Len(a))]) = PadOf(x)
         /\ SameRest(x, [x EXCEPT !.v = Pop(@, Len(a))])
<1>. DEFINE w == Pop(x.v, Len(a))
            z == [x EXCEPT !.v = w]
            pad == PadOf(x)
<1>1. x.v \in Blocks /\ a \in Seq(Int) /\ Data(x.v) = a \o d
  BY BuilderParts, ByteSeq DEF DataOf
<1>2. Content(w, d, ScratchBytes(x.v))
  BY <1>1, BlockPop
<1>3. Content(w, d, pad) /\ z = [x EXCEPT !.v = w]
  BY <1>2 DEF PadOf
<1>. HIDE DEF w, z, pad
<1>4. /\ z \in Builders /\ z.v = w /\ DataOf(z) = d
      /\ PadOf(z) = pad /\ SameRest(x, z)
  BY <1>3, OtherBlock
<1>. QED
  BY <1>4 DEF z, w, pad

(* CreateSharedString() does the same to two builders with the same data,  *)
(* whichever blocks they are in: the same offset, the same bytes in front  *)
(* of what was there, and a builder fit for the next call.                 *)
THEOREM TwinCreateSharedString ==
  ASSUME NEW x, NEW y, Twins(x, y), Sound(x), NEW str \in Seq(Byte)
  PROVE  Done(x, y, CreateSharedString(x, str), CreateSharedString(y, str))
<1>. DEFINE m == CreateString(x, str)
            n == CreateString(y, str)
            same(z, u) ==
              {o \in z.pool : StringAt(u.b, o) = StringAt(u.b, u.off)}
            kept(u) == [u EXCEPT !.b.pool = @ \cup {u.off}]
            back(z, u) == [u.b EXCEPT !.v = Pop(@, Size(u.b) - Size(z))]
            first(z, u) == CHOOSE o \in same(z, u) : TRUE
<1>1. Makes(x, y, m, n)
  BY TwinCreateString DEF Sound
<1>2. /\ CreateSharedString(x, str)
           = IF same(x, m) = {} THEN kept(m)
             ELSE [b |-> back(x, m), off |-> first(x, m)]
      /\ CreateSharedString(y, str)
           = IF same(y, n) = {} THEN kept(n)
             ELSE [b |-> back(y, n), off |-> first(y, n)]
  BY DEF CreateSharedString
<1>3. /\ m = [b |-> m.b, off |-> m.off] /\ n = [b |-> n.b, off |-> n.off]
  BY DEF CreateString, Made
<1>. HIDE DEF m, n
<1>4. /\ Twins(m.b, n.b) /\ m.off = n.off /\ m.off = Size(m.b)
      /\ Grows(x, m.b) /\ ~m.b.nested
  BY <1>1 DEF Makes
<1>5. /\ x \in Builders /\ y \in Builders /\ m.b \in Builders
      /\ n.b \in Builders /\ Size(x) = Size(y) /\ Size(m.b) = Size(n.b)
      /\ x.pool = y.pool /\ x.pool \in SUBSET Int
      /\ Size(x) \in Nat /\ Size(m.b) \in Nat /\ Size(x) <= Size(m.b)
      /\ DataOf(x) = DataOf(y) /\ DataOf(m.b) = DataOf(n.b)
  BY <1>4, TwinParts, BuilderParts, AddsSize DEF Grows, SameRest
<1>6. Sound(m.b) /\ m.b.pool = x.pool /\ m.b.finished = x.finished
  BY <1>4, GrowsSound DEF Grows, Remembers
<1>7. same(x, m) = same(y, n)
  <2>1. \A o \in x.pool : o \in Int /\ o <= Size(m.b)
    BY <1>5 DEF Sound
  <2>2. \A o \in x.pool : StringAt(m.b, o) = StringAt(n.b, o)
    BY <1>4, <2>1, TwinObjects
  <2>3. StringAt(m.b, m.off) = StringAt(n.b, n.off)
    BY <1>4, <1>5, TwinObjects
  <2>. QED
    BY <1>5, <2>2, <2>3
<1>8. CASE same(x, m) = {}
  <2>. DEFINE pool == m.b.pool \cup {m.off}
  <2>1. pool \in SUBSET Int
    BY <1>4, <1>5, <1>6
  <2>2. /\ kept(m).b = [m.b EXCEPT !.pool = pool] /\ kept(m).off = m.off
        /\ kept(n).b = [n.b EXCEPT !.pool = pool] /\ kept(n).off = n.off
    <3>1. n.b.pool = m.b.pool
      BY <1>4, TwinParts DEF SameRest
    <3>. QED
      BY <1>3, <1>4, <3>1
  <2>3. \A o \in pool : o <= Size(m.b)
    BY <1>4, <1>5, <1>6 DEF Sound
  <2>. DEFINE p == [m.b EXCEPT !.pool = pool]
              q == [n.b EXCEPT !.pool = pool]
  <2>. HIDE DEF pool
  <2>4. /\ Twins(p, q) /\ DataOf(p) = DataOf(m.b) /\ PadOf(p) = PadOf(m.b)
        /\ Size(p) = Size(m.b) /\ p.pool = pool /\ p.nested = m.b.nested
        /\ p.fields = m.b.fields /\ p.maxvo = m.b.maxvo
        /\ p.finished = m.b.finished
    BY <1>4, <2>1, TwinPool
  <2>. HIDE DEF p, q
  <2>5. Sound(p)
    BY <1>6, <2>3, <2>4, TwinParts DEF Sound
  <2>6. Adds(x, p)
    BY <1>4, <2>4 DEF Grows, Adds
  <2>6a. kept(m).b = p /\ kept(n).b = q
    BY <2>2 DEF p, q
  <2>6b. m.off \in Int /\ p.finished = x.finished
    BY <1>4, <1>5, <1>6, <2>4
  <2>. HIDE DEF kept
  <2>7. Done(x, y, kept(m), kept(n))
    BY <1>4, <2>2, <2>4, <2>5, <2>6, <2>6a, <2>6b DEF Done
  <2>. QED
    BY <1>2, <1>7, <1>8, <2>7
<1>9. CASE same(x, m) # {}
  <2>1. PICK a \in Seq(Byte) : DataOf(m.b) = a \o DataOf(x)
    BY <1>4 DEF Grows, Adds
  <2>2. DataOf(x) \in Seq(Int) /\ a \in Seq(Int) /\ Len(a) \in Nat
    BY <1>5, BuilderParts, ByteSeq, LenProperties
  <2>3. Size(m.b) - Size(x) = Len(a)
    <3>1. Len(a \o DataOf(x)) = Len(a) + Len(DataOf(x))
      BY <2>2, Concatenated
    <3>2. Size(m.b) = Len(a) + Size(x)
      BY <1>5, <2>1, <3>1, BuilderParts
    <3>. QED
      BY <1>5, <2>2, <3>2
  <2>. DEFINE p == [m.b EXCEPT !.v = Pop(@, Len(a))]
              q == [n.b EXCEPT !.v = Pop(@, Len(a))]
              o == first(x, m)
  <2>4. back(x, m) = p /\ back(y, n) = q
    BY <1>5, <2>3
  <2>5. /\ p \in Builders /\ DataOf(p) = DataOf(x) /\ PadOf(p) = PadOf(m.b)
        /\ SameRest(m.b, p)
    BY <1>5, <2>1, <2>2, PopBack
  <2>6. /\ q \in Builders /\ DataOf(q) = DataOf(x) /\ PadOf(q) = PadOf(n.b)
        /\ SameRest(n.b, q)
    BY <1>5, <2>1, <2>2, PopBack
  <2>. HIDE DEF p, q
  <2>7. Twins(p, q)
    BY <1>4, <2>5, <2>6, TwinParts DEF Twins, SameRest
  <2>8. Size(p) = Size(x)
    BY <1>5, <2>5, BuilderParts
  <2>9. Grows(x, p) /\ ~p.nested
    <3>1. Adds(x, p)
      BY <1>5, <2>5, GrowsNot DEF Grows, Adds
    <3>2. Remembers(x, p)
      BY <1>4, <2>5 DEF Remembers, SameRest, Grows
    <3>. QED
      BY <1>4, <1>5, <2>5, <3>1, <3>2 DEF Grows, SameRest
  <2>10. Sound(p) /\ p.finished = x.finished
    BY <2>9, GrowsSound DEF Grows, Remembers
  <2>11. o \in x.pool
    BY <1>9
  <2>12. o \in Int /\ first(y, n) = o
    BY <1>5, <1>7, <2>11
  <2>. HIDE DEF o
  <2>13. Done(x, y, [b |-> p, off |-> o], [b |-> q, off |-> o])
    BY <2>7, <2>9, <2>10, <2>12 DEF Done, Grows
  <2>14. /\ CreateSharedString(x, str) = [b |-> p, off |-> o]
         /\ CreateSharedString(y, str) = [b |-> q, off |-> o]
    <3>1. first(x, m) = o
      BY DEF o
    <3>. QED
      BY <1>2, <1>7, <1>9, <2>4, <2>12, <3>1
  <2>. QED
    BY <2>13, <2>14
<1>. QED
  BY <1>8, <1>9

LEMMA ThreeParts ==
  ASSUME NEW a \in Seq(Int), NEW c \in Seq(Int), NEW d \in Seq(Int)
  PROVE  (a \o c) \o d = a \o (c \o d)
BY ConcatAssociative

LEMMA Singletons ==
  ASSUME NEW bytes \in Seq(Byte)
  PROVE  [i \in 1..Len(bytes) |-> <<bytes[i]>>] \in Seq(Seq(Byte))
<1>1. Len(bytes) \in Nat /\ \A i \in 1..Len(bytes) : bytes[i] \in Byte
  BY LenProperties, ElementOfSeq
<1>2. \A i \in 1..Len(bytes) : <<bytes[i]>> \in Seq(Byte)
  BY <1>1
<1>. QED
  BY <1>1, <1>2

LEMMA TwinNestedVector ==
  ASSUME NEW x, NEW y, Twins(x, y), NEW elems \in Seq(Seq(Byte)),
         NEW len \in Nat
  PROVE  Makes(x, y,
           CreateVector(ForceVectorAlignment(x, len, 1, 8), elems, 1, 1),
           CreateVector(ForceVectorAlignment(y, len, 1, 8), elems, 1, 1))
<1>. DEFINE p == ForceVectorAlignment(x, len, 1, 8)
            q == ForceVectorAlignment(y, len, 1, 8)
<1>1. len * 1 = len /\ 8 \in Nat \ {0} /\ 1 \in Nat /\ 1 \in Nat \ {0}
  OBVIOUS
<1>2. p = PreAlign(x, len, 8) /\ q = PreAlign(y, len, 8)
  BY <1>1 DEF ForceVectorAlignment
<1>3. Twins(p, q) /\ Grows(x, p)
  BY ONLY <1>1, <1>2, Twins(x, y), len \in Nat, TwinPreAlign, Zenon
<1>. HIDE DEF p, q
<1>4. Makes(p, q, CreateVector(p, elems, 1, 1), CreateVector(q, elems, 1, 1))
  BY ONLY <1>1, <1>3, elems \in Seq(Seq(Byte)), TwinCreateVector, Zenon
<1>5. Makes(x, y, CreateVector(p, elems, 1, 1), CreateVector(q, elems, 1, 1))
  BY <1>3, <1>4, MakesAfter
<1>. QED
  BY <1>5 DEF p, q

(* What EndVector() makes of a builder.                                    *)
LEMMA EndVectorParts ==
  ASSUME NEW x \in Builders, NEW len \in Nat
  PROVE  LET e == EndVector(x, len)
         IN  /\ e.b \in Builders /\ e.off = Size(e.b)
             /\ DataOf(e.b) = Scalar(len, 4)
                            \o (Zeros(PaddingBytes(Size(x), 4))
                                  \o DataOf(x))
             /\ PadOf(e.b) = PadOf(x)
             /\ SameRest([[x EXCEPT !.nested = FALSE]
                            EXCEPT !.minalign = Larger(@, 4)], e.b)
<1>. DEFINE s == Scalar(len, 4)
            a == Align(x, 4)
            p == PushElement(x, s)
            r == [p EXCEPT !.nested = FALSE]
            e == EndVector(x, len)
<1>1. s \in Seq(Byte) /\ s \in Seq(Int) /\ Len(s) = 4 /\ 4 \in Nat \ {0}
  BY ScalarOfFour
<1>2. e = Made(r)
  BY DEF EndVector
<1>3. p = PushBytes(a, s)
  BY <1>1 DEF PushElement
<1>4. Twins(x, x)
  BY OwnTwin
<1>5. Twins(a, a) /\ DataOf(a) = Zeros(PaddingBytes(Size(x), 4)) \o DataOf(x)
  BY ONLY <1>1, <1>4, TwinAlign, Zenon
<1>5a. Grows(x, a)
  BY ONLY <1>1, <1>4, TwinAlign, Zenon
<1>6. a.minalign = Larger(x.minalign, 4) /\ a.nested = x.nested
  BY DEF Align, TrackMinAlign, Builders
<1>. HIDE DEF s, a
<1>7. a \in Builders
  BY <1>5, TwinParts
<1>8. /\ PushBytes(a, s) \in Builders
      /\ DataOf(PushBytes(a, s)) = s \o DataOf(a)
      /\ PadOf(PushBytes(a, s)) = PadOf(a) /\ SameRest(a, PushBytes(a, s))
  BY <1>1, <1>7, PushBytesAdds
<1>. HIDE DEF p
<1>8a. Twins(p, p) /\ FALSE \in BOOLEAN
  BY <1>3, <1>8, OwnTwin
<1>9. /\ Twins(r, r) /\ DataOf(r) = DataOf(p) /\ PadOf(r) = PadOf(p)
      /\ r.nested = FALSE
  BY <1>8a, TwinNested
<1>9a. SameRest([p EXCEPT !.nested = FALSE], r)
  BY DEF SameRest
<1>10. r \in Builders
  BY <1>9, TwinParts
<1>11. /\ r.minalign = p.minalign /\ r.fields = p.fields /\ r.maxvo = p.maxvo
       /\ r.finished = p.finished /\ r.force = p.force /\ r.dedup = p.dedup
       /\ r.pool = p.pool
  BY <1>3, <1>8 DEF Builders
<1>. DEFINE z == [[x EXCEPT !.nested = FALSE] EXCEPT !.minalign = Larger(@, 4)]
<1>12. /\ z.nested = FALSE /\ z.minalign = Larger(x.minalign, 4)
       /\ z.fields = x.fields /\ z.maxvo = x.maxvo /\ z.finished = x.finished
       /\ z.force = x.force /\ z.dedup = x.dedup /\ z.pool = x.pool
  BY DEF Builders
<1>. HIDE DEF r, z
<1>13. SameRest(z, r)
  BY <1>3, <1>5a, <1>6, <1>8, <1>9, <1>11, <1>12
     DEF SameRest, Grows, Remembers
<1>14. DataOf(r) = s \o (Zeros(PaddingBytes(Size(x), 4)) \o DataOf(x))
  BY <1>3, <1>5, <1>8, <1>9
<1>15. PadOf(r) = PadOf(x)
  BY <1>3, <1>5a, <1>8, <1>9 DEF Grows, Remembers
<1>16. e.b = r /\ e.off = Size(e.b)
  BY <1>2 DEF Made
<1>. HIDE DEF e
<1>. QED
  BY <1>10, <1>13, <1>14, <1>15, <1>16 DEF s, e, z

LEMMA TwinsBack ==
  ASSUME NEW x, NEW y, Twins(x, y)
  PROVE  Twins(y, x)
BY DEF Twins, SameRest

LEMMA TwinsOn ==
  ASSUME NEW x, NEW y, NEW z, Twins(x, y), Twins(y, z)
  PROVE  Twins(x, z)
BY DEF Twins, SameRest

(* A vector that is filled after it was made is the vector that is made    *)
(* of the elements.                                                        *)
LEMMA FilledVector ==
  ASSUME NEW x \in Builders, NEW bytes \in Seq(Byte), NEW len, len = Len(bytes),
         NEW m, m = CreateUninitializedVector(x, len, 1, 1),
         NEW e, e = EndVector(PushBytes(StartVector(x, len, 1, 1), bytes), len)
  PROVE  Twins(FillVector(m.b, m.data, bytes), e.b) /\ m.off = e.off
<1>. DEFINE s == StartVector(x, len, 1, 1)
            room == [s EXCEPT !.v = MakeSpace(@, len)]
            k == EndVector(room, len)
            p == PushBytes(s, bytes)
<1>1. /\ len \in Nat /\ len * 1 = len /\ 1 \in Nat /\ 1 \in Nat \ {0}
      /\ bytes \in Seq(Int)
  BY LenProperties, ByteSeq
<1>2. m = [b |-> k.b, off |-> k.off, data |-> Size(room)]
  BY <1>1 DEF CreateUninitializedVector
<1>3. e = EndVector(p, len)
  OBVIOUS
<1>4. Twins(s, s)
  BY ONLY <1>1, x \in Builders, OwnTwin, TwinStartVector, Zenon
<1>. HIDE DEF s
<1>5. s \in Builders /\ s.v \in Blocks
  BY <1>4, TwinParts, BuilderParts
<1>6. PICK u \in Seq(Int) : /\ Len(u) = len
                            /\ Content(MakeSpace(s.v, len), u \o Data(s.v),
                                       ScratchBytes(s.v))
  BY <1>1, <1>5, BlockMakeSpace
<1>. DEFINE w == MakeSpace(s.v, len)
            data == u \o DataOf(s)
            pad == PadOf(s)
<1>7. Content(w, data, pad) /\ room = [s EXCEPT !.v = w]
  BY <1>6 DEF DataOf, PadOf
<1>. HIDE DEF w, data, pad, room
<1>8. /\ room \in Builders /\ DataOf(room) = data /\ PadOf(room) = pad
      /\ SameRest(s, room)
  BY <1>5, <1>7, OtherBlock
<1>9. /\ p \in Builders /\ DataOf(p) = bytes \o DataOf(s) /\ PadOf(p) = PadOf(s)
      /\ SameRest(s, p) /\ Size(p) = len + Size(s)
  BY <1>1, <1>5, PushBytesAdds
<1>. HIDE DEF p
<1>10. /\ DataOf(s) \in Seq(Int) /\ Size(s) \in Nat
       /\ Size(room) = len + Size(s) /\ Size(room) \in Nat
  <2>1. DataOf(s) \in Seq(Int) /\ Size(s) = Len(DataOf(s)) /\ Size(s) \in Nat
    BY <1>5, BuilderParts
  <2>2. Len(data) = len + Size(s)
    BY <1>6, <2>1, Concatenated DEF data
  <2>. QED
    BY <1>1, <1>8, <2>1, <2>2, BuilderParts
<1>. DEFINE n == PaddingBytes(Size(room), 4)
            sc == Scalar(len, 4)
            a == sc \o Zeros(n)
<1>11. n \in Nat /\ sc \in Seq(Int) /\ Zeros(n) \in Seq(Int)
       /\ Len(sc) = 4 /\ Len(Zeros(n)) = n
  <2>1. 4 \in Nat \ {0} /\ Size(room) \in Int /\ len \in Int
    BY <1>1, <1>10
  <2>2. n \in Nat
    BY <2>1, Padding
  <2>. HIDE DEF n
  <2>. QED
    BY <2>1, <2>2, ScalarOfFour, ZeroBytes
<1>. HIDE DEF n, sc
<1>12. a \in Seq(Int) /\ Len(a) = 4 + n
  BY <1>11, Concatenated
<1>13. /\ k.b \in Builders /\ k.off = Size(k.b)
       /\ DataOf(k.b) = sc \o (Zeros(n) \o DataOf(room))
       /\ PadOf(k.b) = PadOf(room)
       /\ SameRest([[room EXCEPT !.nested = FALSE]
                      EXCEPT !.minalign = Larger(@, 4)], k.b)
  BY <1>1, <1>8, EndVectorParts DEF n, sc
<1>14. /\ e.b \in Builders /\ e.off = Size(e.b)
       /\ DataOf(e.b) = sc \o (Zeros(n) \o DataOf(p))
       /\ PadOf(e.b) = PadOf(p)
       /\ SameRest([[p EXCEPT !.nested = FALSE]
                      EXCEPT !.minalign = Larger(@, 4)], e.b)
  <2>1. Size(p) = Size(room)
    BY <1>9, <1>10
  <2>. QED
    BY <1>1, <1>3, <1>9, <2>1, EndVectorParts DEF n, sc
<1>. HIDE DEF k
<1>15. /\ DataOf(k.b) = a \o (u \o DataOf(s))
       /\ DataOf(e.b) = a \o (bytes \o DataOf(s))
  <2>1. /\ u \o DataOf(s) \in Seq(Int) /\ bytes \o DataOf(s) \in Seq(Int)
    BY <1>1, <1>10, Concatenated
  <2>2. /\ a \o (u \o DataOf(s)) = sc \o (Zeros(n) \o (u \o DataOf(s)))
        /\ a \o (bytes \o DataOf(s)) = sc \o (Zeros(n) \o (bytes \o DataOf(s)))
    BY <1>11, <2>1, ThreeParts
  <2>. QED
    BY <1>8, <1>9, <1>13, <1>14, <2>2 DEF data
<1>. HIDE DEF a
<1>16. /\ DataOf(k.b) = a \o u \o DataOf(s)
       /\ a \o (bytes \o DataOf(s)) = a \o bytes \o DataOf(s)
  BY <1>1, <1>10, <1>12, <1>15, ThreeParts
<1>17. Size(k.b) = Len(a) + Size(room) /\ Size(e.b) = Size(k.b)
  <2>1. /\ Len(u \o DataOf(s)) = len + Size(s) /\ u \o DataOf(s) \in Seq(Int)
        /\ Len(bytes \o DataOf(s)) = len + Size(s)
        /\ bytes \o DataOf(s) \in Seq(Int)
    BY <1>1, <1>5, <1>6, <1>10, Concatenated, BuilderParts
  <2>2. /\ Len(DataOf(k.b)) = Len(a) + (len + Size(s))
        /\ Len(DataOf(e.b)) = Len(a) + (len + Size(s))
    BY <1>12, <1>15, <2>1, Concatenated
  <2>. QED
    BY <1>10, <1>13, <1>14, <2>2, BuilderParts
<1>. DEFINE v == k.b.v
            at == DataAt(v, Size(room))
            wv == WriteAt(v, at, bytes)
            f == FillVector(m.b, m.data, bytes)
            full == a \o bytes \o DataOf(s)
            kpad == PadOf(k.b)
<1>18. v \in Blocks /\ Data(v) = a \o u \o DataOf(s) /\ at = v.cur + Len(a)
  <2>1. Size(k.b) \in Nat /\ Size(room) \in Int /\ Size(room) <= Size(k.b)
    <3>1. Size(k.b) \in Nat
      BY <1>13, BuilderParts
    <3>. QED
      BY <1>10, <1>11, <1>12, <1>17, <3>1
  <2>2. at = v.cur + (Size(k.b) - Size(room))
    BY <1>13, <2>1, BuilderReads
  <2>3. Size(k.b) - Size(room) = Len(a)
    BY <1>10, <1>11, <1>12, <1>17
  <2>. QED
    BY <1>13, <1>16, <2>2, <2>3, BuilderParts DEF DataOf
<1>19. Content(wv, full, ScratchBytes(v))
  <2>. HIDE DEF at, v
  <2>1. Len(bytes) = Len(u)
    BY <1>6
  <2>. QED
    BY <1>1, <1>10, <1>12, <1>18, <2>1, BlockWrite
<1>20. f = [k.b EXCEPT !.v = wv] /\ Content(wv, full, kpad)
  BY <1>2, <1>19 DEF FillVector, PadOf
<1>. HIDE DEF wv, f, full, kpad
<1>21. /\ f \in Builders /\ DataOf(f) = full /\ PadOf(f) = kpad
       /\ SameRest(k.b, f)
  BY <1>13, <1>20, OtherBlock
<1>22. SameRest(k.b, e.b)
  <2>. DEFINE zk == [[room EXCEPT !.nested = FALSE]
                       EXCEPT !.minalign = Larger(@, 4)]
              ze == [[p EXCEPT !.nested = FALSE]
                       EXCEPT !.minalign = Larger(@, 4)]
  <2>1. SameRest(zk, ze)
    BY <1>8, <1>9 DEF SameRest, Builders
  <2>2. SameRest(zk, k.b) /\ SameRest(ze, e.b)
    BY <1>13, <1>14
  <2>. HIDE DEF zk, ze
  <2>. QED
    BY <2>1, <2>2 DEF SameRest
<1>23. DataOf(f) = DataOf(e.b) /\ PadOf(f) = PadOf(e.b)
  BY <1>8, <1>9, <1>13, <1>14, <1>15, <1>16, <1>21 DEF full, kpad, pad
<1>24. SameRest(f, e.b)
  BY <1>21, <1>22 DEF SameRest
<1>25. Twins(f, e.b)
  BY <1>14, <1>21, <1>23, <1>24 DEF Twins
<1>26. m.off = e.off
  BY <1>2, <1>13, <1>14, <1>17
<1>. QED
  BY <1>25, <1>26 DEF f

LEMMA TwinUninitialized ==
  ASSUME NEW x, NEW y, Twins(x, y), NEW bytes \in Seq(Byte),
         NEW len, len = Len(bytes),
         NEW m, m = CreateUninitializedVector(x, len, 1, 1),
         NEW n, n = CreateUninitializedVector(y, len, 1, 1)
  PROVE  Makes(x, y, [b |-> FillVector(m.b, m.data, bytes), off |-> m.off],
                     [b |-> FillVector(n.b, n.data, bytes), off |-> n.off])
<1>. DEFINE d == EndVector(PushBytes(StartVector(x, len, 1, 1), bytes), len)
            e == EndVector(PushBytes(StartVector(y, len, 1, 1), bytes), len)
            f == FillVector(m.b, m.data, bytes)
            g == FillVector(n.b, n.data, bytes)
<1>1. x \in Builders /\ y \in Builders /\ len \in Nat
  BY TwinParts, LenProperties
<1>1a. 1 \in Nat /\ 1 \in Nat \ {0}
  OBVIOUS
<1>2. Makes(x, y, d, e)
  BY ONLY <1>1, <1>1a, Twins(x, y), bytes \in Seq(Byte), TwinVector, Zenon
<1>3. Twins(f, d.b) /\ m.off = d.off
  BY <1>1, FilledVector
<1>4. Twins(g, e.b) /\ n.off = e.off
  BY <1>1, FilledVector
<1>. HIDE DEF d, e, f, g
<1>5. Twins(f, g)
  BY <1>2, <1>3, <1>4, TwinsBack, TwinsOn DEF Makes
<1>6. Grows(x, f) /\ ~f.nested /\ Size(f) = Size(d.b)
  <2>1. Grows(x, d.b) /\ ~d.b.nested
    BY <1>2 DEF Makes
  <2>2. /\ f \in Builders /\ DataOf(f) = DataOf(d.b) /\ PadOf(f) = PadOf(d.b)
        /\ Size(f) = Size(d.b) /\ SameRest(f, d.b)
    BY <1>3, TwinParts
  <2>3. Adds(x, f)
    BY <2>1, <2>2 DEF Grows, Adds
  <2>4. Remembers(x, f)
    BY <2>1, <2>2 DEF Grows, Remembers, SameRest
  <2>. QED
    BY <2>1, <2>2, <2>3, <2>4 DEF Grows, SameRest
<1>7. Makes(x, y, [b |-> f, off |-> m.off], [b |-> g, off |-> n.off])
  BY <1>2, <1>3, <1>4, <1>5, <1>6 DEF Makes
<1>. QED
  BY <1>7 DEF f, g

LEMMA StartedVector ==
  ASSUME NEW x \in Builders, NEW n \in Nat
  PROVE  StartVector(x, n, 4, 4) \in Builders
<1>1. 4 \in Nat /\ 4 \in Nat \ {0} /\ Twins(x, x)
  BY OwnTwin
<1>2. Twins(StartVector(x, n, 4, 4), StartVector(x, n, 4, 4))
  BY ONLY <1>1, n \in Nat, TwinStartVector, Zenon
<1>. QED
  BY <1>2, TwinParts

LEMMA PushedOffset ==
  ASSUME NEW x \in Builders, NEW o \in Int
  PROVE  PushOffset(x, o) \in Builders
<1>1. Twins(PushOffset(x, o), PushOffset(x, o))
  BY OwnTwin, TwinPushOffset
<1>. QED
  BY <1>1, TwinParts

LEMMA PushedOffsets ==
  ASSUME NEW x \in Builders, NEW offs \in Seq(Int), NEW n, n = Len(offs)
  PROVE  \E h \in [0..n -> Builders] :
           /\ h[0] = StartVector(x, n, 4, 4)
           /\ \A k \in 1..n : h[k] = PushOffset(h[k - 1], offs[n + 1 - k])
           /\ CreateOffsets(x, offs) = EndVector(h[n], n)
<1>. DEFINE base == StartVector(x, n, 4, 4)
            Next1(a, k) == PushOffset(a, offs[n + 1 - k])
            G == [p \in Builders \X (1..n) |-> Next1(p[1], p[2])]
            Is(h) == h = [k \in 0..n |-> IF k = 0 THEN base
                                         ELSE Next1(h[k - 1], k)]
            pushed == CHOOSE h : Is(h)
<1>1. n \in Nat /\ \A k \in 1..n : offs[n + 1 - k] \in Int
  BY LenProperties, ElementOfSeq
<1>2. base \in Builders
  BY <1>1, StartedVector
<1>3. \A a \in Builders, k \in 1..n : Next1(a, k) \in Builders
  BY <1>1, PushedOffset
<1>4. CreateOffsets(x, offs) = EndVector(pushed[n], n)
  BY DEF CreateOffsets
<1>. HIDE DEF base, Next1
<1>5. /\ G \in [Builders \X (1..n) -> Builders]
      /\ \A a \in Builders, k \in 1..n : G[<<a, k>>] = Next1(a, k)
  BY <1>3
<1>. HIDE DEF G
<1>6. PICK f \in [0..n -> Builders] : Follows(f, base, n, G)
  BY <1>1, <1>2, <1>5, Recursion
<1>7. Is(f)
  <2>1. ASSUME NEW k \in 0..n
        PROVE  f[k] = IF k = 0 THEN base ELSE Next1(f[k - 1], k)
    <3>1. CASE k = 0
      BY <1>6, <3>1 DEF Follows
    <3>2. CASE k # 0
      <4>1. k \in 1..n /\ k - 1 \in 0..n
        BY <1>1, <3>2
      <4>2. f[k] = G[<<f[k - 1], k>>] /\ f[k - 1] \in Builders
        BY <1>6, <4>1 DEF Follows
      <4>. QED
        BY <1>5, <3>2, <4>1, <4>2
    <3>. QED
      BY <3>1, <3>2
  <2>. QED
    BY <2>1
<1>8. Is(pushed)
  <2>. HIDE DEF Is
  <2>. QED
    BY <1>7
<1>. HIDE DEF pushed
<1>9. /\ pushed[0] = base
      /\ \A k \in 1..n : pushed[k] = Next1(pushed[k - 1], k)
  <2>1. pushed = [k \in 0..n |-> IF k = 0 THEN base
                                 ELSE Next1(pushed[k - 1], k)]
    BY <1>8
  <2>2. 0 \in 0..n /\ \A k \in 1..n : k \in 0..n /\ k # 0
    BY <1>1
  <2>. HIDE DEF Is
  <2>3. pushed[0] = base
    BY <2>1, <2>2
  <2>4. ASSUME NEW k \in 1..n
        PROVE  pushed[k] = Next1(pushed[k - 1], k)
    <3>1. k \in 0..n /\ k # 0
      BY <2>2
    <3>. QED
      BY <2>1, <3>1
  <2>. QED
    BY <2>3, <2>4
<1>10. \A k \in 0..n : pushed[k] \in Builders
  <2>. DEFINE S == {k \in 0..n : pushed[k] \in Builders}
  <2>1. 0 \in S
    BY <1>1, <1>2, <1>9
  <2>2. ASSUME NEW k \in 1..n, k - 1 \in S
        PROVE  k \in S
    BY <1>3, <1>9, <2>2
  <2>. HIDE DEF S
  <2>3. \A k \in 0..n : k \in S
    BY <1>1, <2>1, <2>2, UpTo
  <2>. QED
    BY <2>3 DEF S
<1>11. pushed \in [0..n -> Builders]
  BY <1>8, <1>10
<1>. QED
  BY <1>4, <1>9, <1>11 DEF base, Next1

LEMMA TwinCreateOffsets ==
  ASSUME NEW x, NEW y, Twins(x, y), NEW offs \in Seq(Int)
  PROVE  Makes(x, y, CreateOffsets(x, offs), CreateOffsets(y, offs))
<1>. DEFINE n == Len(offs)
<1>1. n \in Nat /\ \A k \in 1..n : offs[n + 1 - k] \in Int
  BY LenProperties, ElementOfSeq
<1>2. x \in Builders /\ y \in Builders
  BY TwinParts
<1>. HIDE DEF n
<1>3. PICK h \in [0..n -> Builders] :
         /\ h[0] = StartVector(x, n, 4, 4)
         /\ \A k \in 1..n : h[k] = PushOffset(h[k - 1], offs[n + 1 - k])
         /\ CreateOffsets(x, offs) = EndVector(h[n], n)
  BY <1>2, PushedOffsets DEF n
<1>4. PICK g \in [0..n -> Builders] :
         /\ g[0] = StartVector(y, n, 4, 4)
         /\ \A k \in 1..n : g[k] = PushOffset(g[k - 1], offs[n + 1 - k])
         /\ CreateOffsets(y, offs) = EndVector(g[n], n)
  BY <1>2, PushedOffsets DEF n
<1>. DEFINE S == {k \in 0..n : Twins(h[k], g[k]) /\ Grows(x, h[k])}
<1>5. 0 \in S
  <2>1. 4 \in Nat /\ 4 \in Nat \ {0}
    OBVIOUS
  <2>2. /\ Twins(StartVector(x, n, 4, 4), StartVector(y, n, 4, 4))
        /\ Grows(x, StartVector(x, n, 4, 4))
    BY ONLY <1>1, <2>1, Twins(x, y), TwinStartVector, Zenon
  <2>. QED
    BY <1>1, <1>3, <1>4, <2>2
<1>6. ASSUME NEW k \in 1..n, k - 1 \in S
      PROVE  k \in S
  <2>. DEFINE p == h[k - 1]
              q == g[k - 1]
              o == offs[n + 1 - k]
  <2>1. Twins(p, q) /\ Grows(x, p) /\ o \in Int
    BY <1>1, <1>6
  <2>. HIDE DEF p, q, o
  <2>2. Twins(PushOffset(p, o), PushOffset(q, o)) /\ Grows(p, PushOffset(p, o))
    BY <2>1, TwinPushOffset
  <2>3. Grows(x, PushOffset(p, o))
    BY <2>1, <2>2, GrowsMore
  <2>4. h[k] = PushOffset(p, o) /\ g[k] = PushOffset(q, o)
    BY <1>3, <1>4 DEF p, q, o
  <2>. QED
    BY <2>2, <2>3, <2>4
<1>. HIDE DEF S
<1>7. \A k \in 0..n : k \in S
  BY <1>1, <1>5, <1>6, UpTo
<1>8. Twins(h[n], g[n]) /\ Grows(x, h[n])
  <2>1. n \in 0..n
    BY <1>1
  <2>. QED
    BY <1>7, <2>1 DEF S
<1>9. Makes(h[n], g[n], EndVector(h[n], n), EndVector(g[n], n))
  BY <1>1, <1>8, TwinEndVector
<1>10. Makes(x, y, EndVector(h[n], n), EndVector(g[n], n))
  BY <1>8, <1>9, MakesAfter
<1>. QED
  BY <1>3, <1>4, <1>10

(* What happens to the scratch pad.                                        *)
LEMMA PadPushed ==
  ASSUME NEW x \in Builders, NEW bytes \in Seq(Int)
  PROVE  /\ [x EXCEPT !.v = ScratchPush(@, bytes)] \in Builders
         /\ DataOf([x EXCEPT !.v = ScratchPush(@, bytes)]) = DataOf(x)
         /\ PadOf([x EXCEPT !.v = ScratchPush(@, bytes)]) = PadOf(x) \o bytes
         /\ SameRest(x, [x EXCEPT !.v = ScratchPush(@, bytes)])
<1>. DEFINE w == ScratchPush(x.v, bytes)
            z == [x EXCEPT !.v = w]
            data == DataOf(x)
            pad == PadOf(x) \o bytes
<1>1. Content(w, data, pad) /\ z = [x EXCEPT !.v = w]
  BY BuilderParts, BlockScratchPush DEF DataOf, PadOf
<1>. HIDE DEF w, z, data, pad
<1>2. /\ z \in Builders /\ DataOf(z) = data /\ PadOf(z) = pad /\ SameRest(x, z)
  BY <1>1, OtherBlock
<1>. QED
  BY <1>2 DEF z, w, data, pad

LEMMA PadPopped ==
  ASSUME NEW x \in Builders, NEW a \in Seq(Int), NEW c \in Seq(Int),
         PadOf(x) = a \o c
  PROVE  /\ [x EXCEPT !.v = ScratchPop(@, Len(c))] \in Builders
         /\ DataOf([x EXCEPT !.v = ScratchPop(@, Len(c))]) = DataOf(x)
         /\ PadOf([x EXCEPT !.v = ScratchPop(@, Len(c))]) = a
         /\ SameRest(x, [x EXCEPT !.v = ScratchPop(@, Len(c))])
<1>. DEFINE w == ScratchPop(x.v, Len(c))
            z == [x EXCEPT !.v = w]
            data == DataOf(x)
<1>1. Content(w, data, a) /\ z = [x EXCEPT !.v = w]
  BY BuilderParts, BlockScratchPop DEF DataOf, PadOf
<1>. HIDE DEF w, z, data
<1>2. /\ z \in Builders /\ DataOf(z) = data /\ PadOf(z) = a /\ SameRest(x, z)
  BY <1>1, OtherBlock
<1>. QED
  BY <1>2 DEF w, z, data

LEMMA SpaceEnsured ==
  ASSUME NEW x \in Builders, NEW n \in Nat
  PROVE  /\ [x EXCEPT !.v = EnsureSpace(@, n)] \in Builders
         /\ DataOf([x EXCEPT !.v = EnsureSpace(@, n)]) = DataOf(x)
         /\ PadOf([x EXCEPT !.v = EnsureSpace(@, n)]) = PadOf(x)
         /\ SameRest(x, [x EXCEPT !.v = EnsureSpace(@, n)])
<1>. DEFINE w == EnsureSpace(x.v, n)
            z == [x EXCEPT !.v = w]
            data == DataOf(x)
            pad == PadOf(x)
<1>1. Content(w, data, pad) /\ z = [x EXCEPT !.v = w]
  BY BuilderParts, BlockEnsureSpace DEF DataOf, PadOf
<1>. HIDE DEF w, z, data, pad
<1>2. /\ z \in Builders /\ DataOf(z) = data /\ PadOf(z) = pad /\ SameRest(x, z)
  BY <1>1, OtherBlock
<1>. QED
  BY <1>2 DEF z, w, data, pad

LEMMA BuilderPadReads ==
  ASSUME NEW x \in Builders, NEW at \in Nat, NEW w \in {1, 2, 4, 8},
         at + w <= Len(PadOf(x))
  PROVE  ReadU(x.v.buf, at, w) = ReadU(PadOf(x), at, w)
<1>1. x.v \in Blocks /\ x.v.scratch = Len(PadOf(x))
  BY BuilderParts
<1>. QED
  BY <1>1, PadReads DEF PadOf

(* y did the same as x but for l bytes more on the scratch pad.            *)
Keeps(x, y, l) ==
  /\ x \in Builders /\ y \in Builders /\ Adds(x, y)
  /\ \E c \in Seq(Int) : Len(c) = l /\ PadOf(y) = PadOf(x) \o c
  /\ y.fields = x.fields /\ y.maxvo = x.maxvo /\ y.finished = x.finished
  /\ y.force = x.force /\ y.dedup = x.dedup /\ y.pool = x.pool

LEMMA KeepsOn ==
  ASSUME NEW x, NEW y, NEW z, NEW l, Keeps(x, y, l), Grows(y, z)
  PROVE  Keeps(x, z, l)
<1>1. Adds(x, z)
  BY AddsMore DEF Keeps, Grows
<1>. QED
  BY <1>1 DEF Keeps, Grows, Remembers

LEMMA KeepsMore ==
  ASSUME NEW x, NEW y, NEW l \in Nat, Keeps(x, y, l), NEW bytes \in Seq(Int),
         NEW z, z = [y EXCEPT !.v = ScratchPush(@, bytes)],
         NEW r, r = l + Len(bytes)
  PROVE  Keeps(x, z, r)
<1>1. /\ z \in Builders /\ DataOf(z) = DataOf(y) /\ PadOf(z) = PadOf(y) \o bytes
      /\ SameRest(y, z)
  BY PadPushed DEF Keeps
<1>2. PICK c \in Seq(Int) : Len(c) = l /\ PadOf(y) = PadOf(x) \o c
  BY DEF Keeps
<1>3. PadOf(x) \in Seq(Int)
  BY BuilderParts DEF Keeps
<1>4. PadOf(z) = PadOf(x) \o (c \o bytes)
  <2>1. (PadOf(x) \o c) \o bytes = PadOf(x) \o (c \o bytes)
    BY ONLY <1>3, c \in Seq(Int), bytes \in Seq(Int), ThreeParts, Zenon
  <2>. QED
    BY <1>1, <1>2, <2>1
<1>5. c \o bytes \in Seq(Int) /\ Len(c \o bytes) = r
  BY <1>2, Concatenated
<1>6. Adds(x, z)
  BY <1>1 DEF Keeps, Adds
<1>. QED
  BY <1>1, <1>4, <1>5, <1>6 DEF Keeps, SameRest

(* The strings of a vector, one by one.                                    *)
Idle == {z \in Builders : ~z.nested}

KeepString(a, str) ==
  [CreateString(a, str).b
     EXCEPT !.v = ScratchPush(@, Scalar(CreateString(a, str).off, 4))]

TakeString(a, i) == PushOffset(a, ReadU(a.v.buf, a.v.scratch - 4 * i, 4))

LEMMA TwinKeepString ==
  ASSUME NEW x, NEW y, Twins(x, y), ~x.nested, NEW str \in Seq(Byte)
  PROVE  /\ Twins(KeepString(x, str), KeepString(y, str))
         /\ Keeps(x, KeepString(x, str), 4) /\ ~KeepString(x, str).nested
<1>. DEFINE m == CreateString(x, str)
            n == CreateString(y, str)
            s == Scalar(m.off, 4)
            p == [m.b EXCEPT !.v = ScratchPush(@, s)]
            q == [n.b EXCEPT !.v = ScratchPush(@, s)]
<1>1. Makes(x, y, m, n)
  BY TwinCreateString
<1>. HIDE DEF m, n
<1>2. /\ Twins(m.b, n.b) /\ m.off = n.off /\ m.off = Size(m.b)
      /\ Grows(x, m.b) /\ ~m.b.nested
  BY <1>1 DEF Makes
<1>3. m.b \in Builders /\ n.b \in Builders /\ x \in Builders
  BY <1>2, TwinParts DEF Grows
<1>4. s \in Seq(Int) /\ Len(s) = 4
  BY <1>2, <1>3, BuilderParts, ScalarOfFour
<1>5. KeepString(x, str) = p /\ KeepString(y, str) = q
  BY <1>2 DEF KeepString, m, n
<1>. HIDE DEF s
<1>6. /\ p \in Builders /\ DataOf(p) = DataOf(m.b) /\ PadOf(p) = PadOf(m.b) \o s
      /\ SameRest(m.b, p)
  BY <1>3, <1>4, PadPushed
<1>7. /\ q \in Builders /\ DataOf(q) = DataOf(n.b) /\ PadOf(q) = PadOf(n.b) \o s
      /\ SameRest(n.b, q)
  BY <1>3, <1>4, PadPushed
<1>8. Keeps(m.b, p, 4)
  <2>1. Adds(m.b, m.b)
    BY <1>3, GrowsNot DEF Grows
  <2>2. Adds(m.b, p)
    BY <1>6, <2>1 DEF Adds
  <2>. QED
    BY <1>3, <1>4, <1>6, <2>2 DEF Keeps, SameRest
<1>. HIDE DEF p, q
<1>9. Twins(p, q)
  BY <1>2, <1>6, <1>7, TwinParts DEF Twins, SameRest
<1>10. Keeps(x, p, 4)
  <2>1. Adds(x, p)
    BY <1>2, <1>6 DEF Grows, Adds
  <2>. QED
    BY <1>2, <1>3, <1>8, <2>1 DEF Keeps, Grows, Remembers
<1>11. ~p.nested
  BY <1>2, <1>6 DEF SameRest
<1>. QED
  BY <1>5, <1>9, <1>10, <1>11

LEMMA TwinTakeString ==
  ASSUME NEW x, NEW y, Twins(x, y), NEW i \in Nat \ {0}, 4 * i <= Len(PadOf(x))
  PROVE  /\ Twins(TakeString(x, i), TakeString(y, i))
         /\ Grows(x, TakeString(x, i))
<1>. DEFINE at == Len(PadOf(x)) - 4 * i
            o == ReadU(PadOf(x), at, 4)
<1>1. /\ x \in Builders /\ y \in Builders /\ PadOf(x) = PadOf(y)
      /\ x.v.scratch = Len(PadOf(x)) /\ y.v.scratch = Len(PadOf(x))
      /\ PadOf(x) \in Seq(Int) /\ Len(PadOf(x)) \in Nat
  BY TwinParts, BuilderParts
<1>2. /\ at \in Nat /\ at + 4 <= Len(PadOf(x))
      /\ 4 \in {1, 2, 4, 8} /\ 4 \in {2, 4}
  BY <1>1
<1>3. TakeString(x, i) = PushOffset(x, ReadU(x.v.buf, at, 4))
      /\ TakeString(y, i) = PushOffset(y, ReadU(y.v.buf, at, 4))
  BY <1>1 DEF TakeString
<1>. HIDE DEF at
<1>4. ReadU(x.v.buf, at, 4) = o /\ ReadU(y.v.buf, at, 4) = o
  BY <1>1, <1>2, BuilderPadReads
<1>5. o \in Int
  BY <1>1, <1>2, ReadType
<1>. HIDE DEF o
<1>6. Twins(PushOffset(x, o), PushOffset(y, o)) /\ Grows(x, PushOffset(x, o))
  BY <1>5, TwinPushOffset
<1>. QED
  BY <1>3, <1>4, <1>6

(* The two loops of CreateVectorOfStrings.                                 *)
KeptOf(base, strs, n) ==
  CHOOSE h : h = [k \in 0..n |->
                    IF k = 0 THEN base ELSE KeepString(h[k - 1], strs[k])]

LEMMA KeptStrings ==
  ASSUME NEW base \in Idle, NEW strs \in Seq(Seq(Byte)), NEW n, n = Len(strs),
         NEW kept, kept = KeptOf(base, strs, n)
  PROVE  /\ kept \in [0..n -> Idle] /\ kept[0] = base
         /\ \A k \in 1..n : kept[k] = KeepString(kept[k - 1], strs[k])
<1>. DEFINE Step(a, k) == KeepString(a, strs[k])
            G == [p \in Idle \X (1..n) |-> Step(p[1], p[2])]
            Is(h) == h = [k \in 0..n |-> IF k = 0 THEN base
                                         ELSE Step(h[k - 1], k)]
<1>1. n \in Nat /\ \A k \in 1..n : strs[k] \in Seq(Byte)
  BY LenProperties, ElementOfSeq
<1>2. \A a \in Idle, k \in 1..n : Step(a, k) \in Idle
  <2>1. ASSUME NEW a \in Idle, NEW str \in Seq(Byte)
        PROVE  KeepString(a, str) \in Idle
    <3>1. a \in Builders /\ ~a.nested /\ Twins(a, a)
      BY OwnTwin DEF Idle
    <3>. QED
      BY <3>1, TwinKeepString, TwinParts DEF Idle
  <2>. QED
    BY <1>1, <2>1
<1>3. kept = CHOOSE h : Is(h)
  BY DEF KeptOf
<1>. HIDE DEF Step
<1>4. /\ G \in [Idle \X (1..n) -> Idle]
      /\ \A a \in Idle, k \in 1..n : G[<<a, k>>] = Step(a, k)
  BY <1>2
<1>. HIDE DEF G
<1>5. PICK f \in [0..n -> Idle] : Follows(f, base, n, G)
  BY <1>1, <1>4, Recursion
<1>6. Is(f)
  <2>1. ASSUME NEW k \in 0..n
        PROVE  f[k] = IF k = 0 THEN base ELSE Step(f[k - 1], k)
    <3>1. CASE k = 0
      BY <1>5, <3>1 DEF Follows
    <3>2. CASE k # 0
      <4>1. k \in 1..n /\ k - 1 \in 0..n
        BY <1>1, <3>2
      <4>2. f[k] = G[<<f[k - 1], k>>] /\ f[k - 1] \in Idle
        BY <1>5, <4>1 DEF Follows
      <4>. QED
        BY <1>4, <3>2, <4>1, <4>2
    <3>. QED
      BY <3>1, <3>2
  <2>. QED
    BY <2>1
<1>7. Is(kept)
  <2>. HIDE DEF Is
  <2>. QED
    BY <1>3, <1>6
<1>8. kept = [k \in 0..n |-> IF k = 0 THEN base ELSE Step(kept[k - 1], k)]
  BY <1>7
<1>. HIDE DEF Is
<1>9. 0 \in 0..n /\ \A k \in 1..n : k \in 0..n /\ k # 0
  BY <1>1
<1>10. kept[0] = base
  BY <1>8, <1>9
<1>11. ASSUME NEW k \in 1..n
       PROVE  kept[k] = Step(kept[k - 1], k)
  <2>1. k \in 0..n /\ k # 0
    BY <1>9
  <2>. QED
    BY <1>8, <2>1
<1>12. \A k \in 0..n : kept[k] \in Idle
  <2>. DEFINE S == {k \in 0..n : kept[k] \in Idle}
  <2>1. 0 \in S
    BY <1>9, <1>10
  <2>2. ASSUME NEW k \in 1..n, k - 1 \in S
        PROVE  k \in S
    BY <1>2, <1>9, <1>11, <2>2
  <2>. HIDE DEF S
  <2>3. \A k \in 0..n : k \in S
    BY <1>1, <2>1, <2>2, UpTo
  <2>. QED
    BY <2>3 DEF S
<1>13. kept \in [0..n -> Idle]
  BY <1>8, <1>12
<1>. QED
  BY <1>10, <1>11, <1>13 DEF Step

LEMMA TakenStrings ==
  ASSUME NEW base \in Builders, NEW n \in Nat, NEW taken,
         taken = CHOOSE h : h = [k \in 0..n |->
                  IF k = 0 THEN base ELSE TakeString(h[k - 1], k)]
  PROVE  /\ taken \in [0..n -> Builders] /\ taken[0] = base
         /\ \A k \in 1..n : taken[k] = TakeString(taken[k - 1], k)
<1>. DEFINE Step(a, k) == TakeString(a, k)
            G == [p \in Builders \X (1..n) |-> Step(p[1], p[2])]
            Is(h) == h = [k \in 0..n |-> IF k = 0 THEN base
                                         ELSE Step(h[k - 1], k)]
<1>2. \A a \in Builders, k \in 1..n : Step(a, k) \in Builders
  <2>1. ASSUME NEW a \in Builders, NEW k \in 1..n
        PROVE  TakeString(a, k) \in Builders
    <3>. DEFINE at == a.v.scratch - 4 * k
                o == ReadU(a.v.buf, at, 4)
    <3>1. a.v \in Vectors /\ a.v.scratch \in Nat
      BY BuilderParts, BlockContent
    <3>2. a.v.buf \in Seq(Int)
      BY <3>1, VectorParts
    <3>3. at \in Int /\ 4 \in {2, 4}
      BY <3>1
    <3>4. TakeString(a, k) = PushOffset(a, o)
      BY DEF TakeString
    <3>. HIDE DEF at
    <3>5. o \in Int
      BY <3>2, <3>3, ReadType
    <3>. HIDE DEF o
    <3>. QED
      BY <3>4, <3>5, PushedOffset
  <2>. QED
    BY <2>1
<1>3. taken = CHOOSE h : Is(h)
  OBVIOUS
<1>. HIDE DEF Step
<1>4. /\ G \in [Builders \X (1..n) -> Builders]
      /\ \A a \in Builders, k \in 1..n : G[<<a, k>>] = Step(a, k)
  BY <1>2
<1>. HIDE DEF G
<1>5. PICK f \in [0..n -> Builders] : Follows(f, base, n, G)
  BY <1>4, Recursion
<1>6. Is(f)
  <2>1. ASSUME NEW k \in 0..n
        PROVE  f[k] = IF k = 0 THEN base ELSE Step(f[k - 1], k)
    <3>1. CASE k = 0
      BY <1>5, <3>1 DEF Follows
    <3>2. CASE k # 0
      <4>1. k \in 1..n /\ k - 1 \in 0..n
        BY <3>2
      <4>2. f[k] = G[<<f[k - 1], k>>] /\ f[k - 1] \in Builders
        BY <1>5, <4>1 DEF Follows
      <4>. QED
        BY <1>4, <3>2, <4>1, <4>2
    <3>. QED
      BY <3>1, <3>2
  <2>. QED
    BY <2>1
<1>7. Is(taken)
  <2>. HIDE DEF Is
  <2>. QED
    BY <1>3, <1>6
<1>8. taken = [k \in 0..n |-> IF k = 0 THEN base ELSE Step(taken[k - 1], k)]
  BY <1>7
<1>. HIDE DEF Is
<1>9. 0 \in 0..n /\ \A k \in 1..n : k \in 0..n /\ k # 0
  OBVIOUS
<1>10. taken[0] = base
  BY <1>8, <1>9
<1>11. ASSUME NEW k \in 1..n
       PROVE  taken[k] = Step(taken[k - 1], k)
  <2>1. k \in 0..n /\ k # 0
    BY <1>9
  <2>. QED
    BY <1>8, <2>1
<1>12. \A k \in 0..n : taken[k] \in Builders
  <2>. DEFINE S == {k \in 0..n : taken[k] \in Builders}
  <2>1. 0 \in S
    BY <1>9, <1>10
  <2>2. ASSUME NEW k \in 1..n, k - 1 \in S
        PROVE  k \in S
    BY <1>2, <1>9, <1>11, <2>2
  <2>. HIDE DEF S
  <2>3. \A k \in 0..n : k \in S
    BY <2>1, <2>2, UpTo
  <2>. QED
    BY <2>3 DEF S
<1>13. taken \in [0..n -> Builders]
  BY <1>8, <1>12
<1>. QED
  BY <1>10, <1>11, <1>13 DEF Step

StringsMade(x, strs, n, h, t) ==
  /\ h[0] = [x EXCEPT !.v = EnsureSpace(@, 4 * n)]
  /\ \A k \in 1..n : h[k] = KeepString(h[k - 1], strs[k])
  /\ t[0] = StartVector(h[n], n, 4, 4)
  /\ \A k \in 1..n : t[k] = TakeString(t[k - 1], k)
  /\ CreateVectorOfStrings(x, strs)
       = EndVector([t[n] EXCEPT !.v = ScratchPop(@, 4 * n)], n)

LEMMA StringVector ==
  ASSUME NEW x \in Idle, NEW strs \in Seq(Seq(Byte)), NEW n, n = Len(strs)
  PROVE  \E h \in [0..n -> Idle], t \in [0..n -> Builders] :
           StringsMade(x, strs, n, h, t)
<1>. DEFINE base == [x EXCEPT !.v = EnsureSpace(@, 4 * n)]
            kept == CHOOSE h : h = [k \in 0..n |->
                      IF k = 0 THEN base ELSE KeepString(h[k - 1], strs[k])]
            start == StartVector(kept[n], n, 4, 4)
            taken == CHOOSE h : h = [k \in 0..n |->
                      IF k = 0 THEN start ELSE TakeString(h[k - 1], k)]
<1>1. n \in Nat /\ 4 * n \in Nat /\ x \in Builders /\ ~x.nested
  BY LenProperties DEF Idle
<1>2. CreateVectorOfStrings(x, strs)
        = EndVector([taken[n] EXCEPT !.v = ScratchPop(@, 4 * n)], n)
  BY DEF CreateVectorOfStrings, KeepString, TakeString
<1>3. base \in Idle
  <2>1. base \in Builders /\ SameRest(x, base)
    BY <1>1, SpaceEnsured
  <2>. QED
    BY <1>1, <2>1 DEF SameRest, Idle
<1>. HIDE DEF base
<1>3a. kept = KeptOf(base, strs, n)
  BY DEF KeptOf
<1>. HIDE DEF kept
<1>4. /\ kept \in [0..n -> Idle] /\ kept[0] = base
      /\ \A k \in 1..n : kept[k] = KeepString(kept[k - 1], strs[k])
  BY <1>3, <1>3a, KeptStrings
<1>5. start \in Builders
  <2>1. kept[n] \in Builders
    BY <1>1, <1>4 DEF Idle
  <2>. QED
    BY <1>1, <2>1, StartedVector
<1>6. start = StartVector(kept[n], n, 4, 4)
  OBVIOUS
<1>. HIDE DEF start
<1>7. /\ taken \in [0..n -> Builders] /\ taken[0] = start
      /\ \A k \in 1..n : taken[k] = TakeString(taken[k - 1], k)
  BY <1>1, <1>5, TakenStrings
<1>. HIDE DEF taken
<1>8. kept[0] = [x EXCEPT !.v = EnsureSpace(@, 4 * n)]
  BY <1>4 DEF base
<1>9. taken[0] = StartVector(kept[n], n, 4, 4)
  BY <1>6, <1>7
<1>10. StringsMade(x, strs, n, kept, taken)
  BY <1>2, <1>4, <1>7, <1>8, <1>9 DEF StringsMade
<1>. QED
  BY <1>4, <1>7, <1>10

(* CreateVectorOfStrings() keeps the offsets of its strings in the scratch *)
(* pad while the block may move under both, and still makes the same of    *)
(* two builders with the same data.                                        *)
THEOREM TwinCreateVectorOfStrings ==
  ASSUME NEW x, NEW y, Twins(x, y), ~x.nested, NEW strs \in Seq(Seq(Byte))
  PROVE  Makes(x, y, CreateVectorOfStrings(x, strs),
                     CreateVectorOfStrings(y, strs))
<1>. DEFINE n == Len(strs)
            x0 == [x EXCEPT !.v = EnsureSpace(@, 4 * n)]
            y0 == [y EXCEPT !.v = EnsureSpace(@, 4 * n)]
<1>1. n \in Nat /\ 4 * n \in Nat /\ \A k \in 1..n : strs[k] \in Seq(Byte)
  BY LenProperties, ElementOfSeq
<1>2. /\ x \in Idle /\ y \in Idle /\ x \in Builders /\ y \in Builders
      /\ Twins(x, y)
  BY TwinParts DEF Idle, SameRest
<1>3. Twins(x0, y0) /\ Keeps(x, x0, 0) /\ ~x0.nested
  <2>1. /\ x0 \in Builders /\ DataOf(x0) = DataOf(x) /\ PadOf(x0) = PadOf(x)
        /\ SameRest(x, x0)
    BY <1>1, <1>2, SpaceEnsured
  <2>2. /\ y0 \in Builders /\ DataOf(y0) = DataOf(y) /\ PadOf(y0) = PadOf(y)
        /\ SameRest(y, y0)
    BY <1>1, <1>2, SpaceEnsured
  <2>. HIDE DEF x0, y0
  <2>3. Twins(x0, y0)
    BY <1>2, <2>1, <2>2 DEF Twins, SameRest
  <2>4. Adds(x, x0)
    BY <1>2, <2>1, GrowsNot DEF Grows, Adds
  <2>5. <<>> \in Seq(Int) /\ Len(<<>>) = 0 /\ PadOf(x0) = PadOf(x) \o <<>>
    BY <1>2, <2>1, BuilderParts, EmptySeq, ConcatEmptySeq
  <2>. QED
    BY <1>2, <2>1, <2>3, <2>4, <2>5 DEF Keeps, SameRest
<1>3a. n = Len(strs)
  OBVIOUS
<1>. HIDE DEF n
<1>3b. PICK h \in [0..n -> Idle], t \in [0..n -> Builders] :
               StringsMade(x, strs, n, h, t)
  BY <1>2, <1>3a, StringVector
<1>3c. PICK g \in [0..n -> Idle], s \in [0..n -> Builders] :
               StringsMade(y, strs, n, g, s)
  BY <1>2, <1>3a, StringVector
<1>4. /\ h[0] = [x EXCEPT !.v = EnsureSpace(@, 4 * n)]
      /\ \A k \in 1..n : h[k] = KeepString(h[k - 1], strs[k])
      /\ t[0] = StartVector(h[n], n, 4, 4)
      /\ \A k \in 1..n : t[k] = TakeString(t[k - 1], k)
      /\ CreateVectorOfStrings(x, strs)
           = EndVector([t[n] EXCEPT !.v = ScratchPop(@, 4 * n)], n)
  BY <1>3b DEF StringsMade
<1>5. /\ g[0] = [y EXCEPT !.v = EnsureSpace(@, 4 * n)]
      /\ \A k \in 1..n : g[k] = KeepString(g[k - 1], strs[k])
      /\ s[0] = StartVector(g[n], n, 4, 4)
      /\ \A k \in 1..n : s[k] = TakeString(s[k - 1], k)
      /\ CreateVectorOfStrings(y, strs)
           = EndVector([s[n] EXCEPT !.v = ScratchPop(@, 4 * n)], n)
  BY <1>3c DEF StringsMade
<1>6. h[0] = x0 /\ g[0] = y0
  BY <1>4, <1>5
<1>. HIDE DEF x0, y0
<1>. DEFINE S == {k \in 0..n : /\ Twins(h[k], g[k]) /\ ~h[k].nested
                               /\ Keeps(x, h[k], 4 * k)}
<1>7. 0 \in S
  BY <1>1, <1>3, <1>6
<1>8. ASSUME NEW k \in 1..n, k - 1 \in S
      PROVE  k \in S
  <2>. DEFINE p == h[k - 1]
              q == g[k - 1]
              str == strs[k]
              l == 4 * (k - 1)
              pk == KeepString(p, str)
              qk == KeepString(q, str)
  <2>1. Twins(p, q) /\ Keeps(x, p, l) /\ ~p.nested /\ str \in Seq(Byte)
    BY <1>1, <1>8
  <2>2. l \in Nat /\ 4 * k = l + 4
    BY <1>1
  <2>. HIDE DEF p, q, str, l
  <2>3. Twins(pk, qk) /\ Keeps(p, pk, 4) /\ ~pk.nested
    BY <2>1, TwinKeepString
  <2>4. h[k] = pk /\ g[k] = qk
    BY <1>4, <1>5 DEF p, q, str
  <2>. HIDE DEF pk, qk
  <2>5. Keeps(x, pk, l + 4)
    <3>1. PICK c \in Seq(Int) : Len(c) = l /\ PadOf(p) = PadOf(x) \o c
      BY <2>1 DEF Keeps
    <3>2. PICK e \in Seq(Int) : Len(e) = 4 /\ PadOf(pk) = PadOf(p) \o e
      BY <2>3 DEF Keeps
    <3>3. PadOf(x) \in Seq(Int)
      BY <1>2, BuilderParts
    <3>4. (PadOf(x) \o c) \o e = PadOf(x) \o (c \o e)
      BY ONLY <3>3, c \in Seq(Int), e \in Seq(Int), ThreeParts, Zenon
    <3>5. c \o e \in Seq(Int) /\ Len(c \o e) = l + 4
      BY <3>1, <3>2, Concatenated
    <3>6. PadOf(pk) = PadOf(x) \o (c \o e)
      BY <3>1, <3>2, <3>4
    <3>7. Adds(x, pk)
      BY <1>2, <2>1, <2>3, AddsMore DEF Keeps
    <3>. QED
      BY <1>2, <2>1, <2>3, <3>5, <3>6, <3>7 DEF Keeps
  <2>6. k \in 0..n
    OBVIOUS
  <2>. QED
    BY <2>2, <2>3, <2>4, <2>5, <2>6
<1>. HIDE DEF S
<1>9. \A k \in 0..n : k \in S
  BY <1>1, <1>7, <1>8, UpTo
<1>10. /\ Twins(h[n], g[n]) /\ Keeps(x, h[n], 4 * n)
  <2>1. n \in 0..n
    BY <1>1
  <2>. QED
    BY <1>9, <2>1 DEF S
<1>. DEFINE R == {k \in 0..n : /\ Twins(t[k], s[k]) /\ Keeps(x, t[k], 4 * n)}
<1>11. 0 \in R
  <2>. DEFINE p == h[n]
              q == g[n]
  <2>1. 4 \in Nat /\ 4 \in Nat \ {0} /\ Twins(p, q) /\ Keeps(x, p, 4 * n)
    BY <1>10
  <2>2. t[0] = StartVector(p, n, 4, 4) /\ s[0] = StartVector(q, n, 4, 4)
    BY <1>4, <1>5
  <2>. HIDE DEF p, q
  <2>3. /\ Twins(StartVector(p, n, 4, 4), StartVector(q, n, 4, 4))
        /\ Grows(p, StartVector(p, n, 4, 4))
    BY ONLY <1>1, <2>1, TwinStartVector, Zenon
  <2>4. Keeps(x, StartVector(p, n, 4, 4), 4 * n)
    BY <2>1, <2>3, KeepsOn
  <2>5. 0 \in 0..n
    BY <1>1
  <2>. QED
    BY <2>2, <2>3, <2>4, <2>5
<1>12. ASSUME NEW k \in 1..n, k - 1 \in R
       PROVE  k \in R
  <2>. DEFINE p == t[k - 1]
              q == s[k - 1]
              pk == TakeString(p, k)
              qk == TakeString(q, k)
              l == 4 * n
  <2>1. Twins(p, q) /\ Keeps(x, p, l)
    BY <1>12
  <2>2. k \in Nat \ {0} /\ 4 * k <= l /\ l \in Nat
    BY <1>1
  <2>. HIDE DEF p, q, l
  <2>3. 4 * k <= Len(PadOf(p))
    <3>1. PICK c \in Seq(Int) : Len(c) = l /\ PadOf(p) = PadOf(x) \o c
      BY <2>1 DEF Keeps
    <3>2. PadOf(x) \in Seq(Int) /\ Len(PadOf(x)) \in Nat
      BY <1>2, BuilderParts
    <3>3. Len(PadOf(p)) = Len(PadOf(x)) + l
      BY <3>1, <3>2, Concatenated
    <3>. QED
      BY <2>2, <3>2, <3>3
  <2>4. Twins(pk, qk) /\ Grows(p, pk)
    BY <2>1, <2>2, <2>3, TwinTakeString
  <2>5. t[k] = pk /\ s[k] = qk
    BY <1>4, <1>5 DEF p, q
  <2>. HIDE DEF pk, qk
  <2>6. Keeps(x, pk, l) /\ k \in 0..n
    BY <2>1, <2>4, KeepsOn
  <2>. QED
    BY <2>4, <2>5, <2>6 DEF l
<1>. HIDE DEF R
<1>13. \A k \in 0..n : k \in R
  BY <1>1, <1>11, <1>12, UpTo
<1>. DEFINE p == t[n]
            q == s[n]
            l == 4 * n
            u == [p EXCEPT !.v = ScratchPop(@, l)]
            w == [q EXCEPT !.v = ScratchPop(@, l)]
<1>14. /\ Twins(p, q) /\ Keeps(x, p, l)
  <2>1. n \in 0..n
    BY <1>1
  <2>. QED
    BY <1>13, <2>1 DEF R
<1>15. /\ CreateVectorOfStrings(x, strs) = EndVector(u, n)
       /\ CreateVectorOfStrings(y, strs) = EndVector(w, n)
  BY <1>4, <1>5
<1>. HIDE DEF p, q, l
<1>16. PICK c \in Seq(Int) : Len(c) = l /\ PadOf(p) = PadOf(x) \o c
  BY <1>14 DEF Keeps
<1>17. PadOf(x) \in Seq(Int) /\ p \in Builders /\ q \in Builders
       /\ PadOf(q) = PadOf(x) \o c
  BY <1>2, <1>14, <1>16, TwinParts, BuilderParts
<1>. DEFINE a == PadOf(x)
<1>17a. l = Len(c) /\ a \in Seq(Int) /\ PadOf(p) = a \o c /\ PadOf(q) = a \o c
  BY <1>16, <1>17
<1>17b. /\ u = [p EXCEPT !.v = ScratchPop(@, Len(c))]
        /\ w = [q EXCEPT !.v = ScratchPop(@, Len(c))]
  BY <1>16
<1>. HIDE DEF a
<1>17c. ASSUME NEW r \in Builders, PadOf(r) = a \o c
        PROVE  LET z == [r EXCEPT !.v = ScratchPop(@, Len(c))]
               IN  /\ z \in Builders /\ DataOf(z) = DataOf(r) /\ PadOf(z) = a
                   /\ SameRest(r, z)
  BY <1>17a, <1>17c, PadPopped
<1>18. /\ u \in Builders /\ DataOf(u) = DataOf(p) /\ PadOf(u) = a
       /\ SameRest(p, u)
  BY <1>17, <1>17a, <1>17b, <1>17c
<1>19. /\ w \in Builders /\ DataOf(w) = DataOf(q) /\ PadOf(w) = a
       /\ SameRest(q, w)
  BY <1>17, <1>17a, <1>17b, <1>17c
<1>. HIDE DEF u, w
<1>20. Twins(u, w)
  BY <1>14, <1>18, <1>19, TwinParts DEF Twins, SameRest
<1>21. Grows(x, u)
  <2>1. Adds(x, u)
    BY <1>14, <1>18 DEF Keeps, Adds
  <2>2. Remembers(x, u)
    BY <1>14, <1>18 DEF Keeps, Remembers, SameRest, a
  <2>. QED
    BY <1>2, <1>18, <2>1, <2>2 DEF Grows
<1>22. Makes(u, w, EndVector(u, n), EndVector(w, n))
  BY <1>1, <1>20, TwinEndVector
<1>23. Makes(x, y, EndVector(u, n), EndVector(w, n))
  BY <1>21, <1>22, MakesAfter
<1>. QED
  BY <1>15, <1>23

LEMMA FrontRead ==
  ASSUME NEW a \in Seq(Int), NEW d \in Seq(Int), NEW at \in Nat,
         NEW w \in {1, 2, 4, 8}, at + w <= Len(a)
  PROVE  /\ ReadU(a \o d, at, w) = ReadU(a, at, w)
         /\ ReadS(a \o d, at, w) = ReadS(a, at, w)
<1>. DEFINE s == a \o d
<1>1. IsHead(s, a)
  BY Concatenated
<1>. HIDE DEF s
<1>2. ReadU(s, at, w) = ReadU(a, at, w) /\ ReadS(s, at, w) = ReadS(a, at, w)
  BY <1>1, HeadReads
<1>. QED
  BY <1>2 DEF s

LEMMA BackRead ==
  ASSUME NEW a \in Seq(Int), NEW d \in Seq(Int), NEW k \in Nat, Len(a) <= k,
         NEW w \in {1, 2, 4, 8}
  PROVE  /\ ReadU(a \o d, k, w) = ReadU(d, k - Len(a), w)
         /\ ReadS(a \o d, k, w) = ReadS(d, k - Len(a), w)
<1>. DEFINE s == a \o d
            l == Len(a)
            at == k - l
<1>1. IsTail(s, d, l) /\ at \in Nat /\ k = l + at
  BY Concatenated, LenProperties
<1>. HIDE DEF s, l, at
<1>2. /\ ReadU(s, l + at, w) = ReadU(d, at, w)
      /\ ReadS(s, l + at, w) = ReadS(d, at, w)
  BY <1>1, TailReads
<1>. QED
  BY <1>1, <1>2 DEF s, l, at

(* The place of a field, as it is kept on the scratch pad.                 *)
LocBytes(off, vo) == Scalar(off, 4) \o Scalar(vo, 2) \o Fresh(2)

LEMMA LocRead ==
  ASSUME NEW off \in Nat, NEW vo \in Nat, vo <= 30
  PROVE  /\ LocBytes(off, vo) \in Seq(Int) /\ Len(LocBytes(off, vo)) = 8
         /\ ReadU(LocBytes(off, vo), 0, 4) \in Nat
         /\ ReadU(LocBytes(off, vo), 0, 4) <= off
         /\ off < Huge => ReadU(LocBytes(off, vo), 0, 4) = off
         /\ ReadU(LocBytes(off, vo), 4, 2) = vo
<1>. DEFINE a == Scalar(off, 4)
            c == Scalar(vo, 2)
            e == Fresh(2)
            ac == a \o c
            s == LocBytes(off, vo)
<1>1. /\ a \in Seq(Int) /\ Len(a) = 4 /\ c \in Seq(Int) /\ Len(c) = 2
  BY ScalarOfFour, ScalarOfTwo
<1>2. e \in Seq(Int) /\ Len(e) = 2
  BY DEF Fresh, Junk
<1>3. s = ac \o e
  BY DEF LocBytes
<1>4. /\ ReadU(a, 0, 4) \in Nat /\ ReadU(a, 0, 4) <= off
      /\ off < Huge => ReadU(a, 0, 4) = off
  BY ReadBackFour
<1>5. ReadU(c, 0, 2) = vo
  <2>1. vo \in Int /\ 0 <= vo
    OBVIOUS
  <2>2. vo < 65536
    BY SMT
  <2>. QED
    BY ONLY <2>1, <2>2, ReadBackTwo, SMT
<1>. HIDE DEF a, c, e, s
<1>6. ac \in Seq(Int) /\ Len(ac) = 6
  <2>1. a \o c \in Seq(Int) /\ Len(a \o c) = Len(a) + Len(c)
    BY <1>1, Concatenated
  <2>. QED
    BY <1>1, <2>1
<1>6a. ac = a \o c
  OBVIOUS
<1>. HIDE DEF ac
<1>7. s \in Seq(Int) /\ Len(s) = 8
  <2>1. ac \o e \in Seq(Int) /\ Len(ac \o e) = Len(ac) + Len(e)
    BY <1>2, <1>6, Concatenated
  <2>. QED
    BY <1>2, <1>3, <1>6, <2>1
<1>8. 0 \in Nat /\ 4 \in Nat /\ 4 \in {1, 2, 4, 8} /\ 2 \in {1, 2, 4, 8}
      /\ 0 + 4 <= Len(a) /\ 0 + 4 <= Len(ac) /\ 4 + 2 <= Len(ac)
      /\ 4 = Len(a) + 0
  BY <1>1, <1>6
<1>9. ReadU(s, 0, 4) = ReadU(ac, 0, 4)
  BY ONLY <1>2, <1>3, <1>6, <1>8, FrontRead, Zenon
<1>10. ReadU(ac, 0, 4) = ReadU(a, 0, 4)
  BY ONLY <1>1, <1>6a, <1>8, FrontRead, Zenon
<1>11. ReadU(s, 4, 2) = ReadU(ac, 4, 2)
  BY ONLY <1>2, <1>3, <1>6, <1>8, FrontRead, Zenon
<1>12. ReadU(ac, 4, 2) = ReadU(c, 0, 2)
  <2>1. Len(a) <= 4 /\ 4 - Len(a) = 0
    BY <1>1
  <2>2. ReadU(a \o c, 4, 2) = ReadU(c, 4 - Len(a), 2)
    BY ONLY <1>1, <1>8, <2>1, BackRead, Zenon
  <2>. QED
    BY ONLY <1>6a, <2>1, <2>2, Zenon
<1>13. ReadU(s, 0, 4) = ReadU(a, 0, 4) /\ ReadU(s, 4, 2) = vo
  BY <1>5, <1>8, <1>9, <1>10, <1>11, <1>12
<1>. QED
  BY <1>4, <1>7, <1>13 DEF s

(* TrackField().                                                           *)
LEMMA FieldTracked ==
  ASSUME NEW x \in Builders, NEW vo \in Nat, vo <= 30, NEW off \in Nat
  PROVE  LET z == TrackField(x, vo, off)
         IN  /\ z \in Builders /\ DataOf(z) = DataOf(x)
             /\ PadOf(z) = PadOf(x) \o LocBytes(off, vo)
             /\ z.fields = x.fields + 1 /\ z.maxvo = Larger(x.maxvo, vo)
             /\ z.nested = x.nested /\ z.finished = x.finished
             /\ z.minalign = x.minalign /\ z.force = x.force
             /\ z.dedup = x.dedup /\ z.pool = x.pool
<1>. DEFINE bytes == LocBytes(off, vo)
            p == [x EXCEPT !.v = ScratchPush(@, bytes)]
            n == x.fields + 1
            m == Larger(x.maxvo, vo)
            z == TrackField(x, vo, off)
<1>1. bytes \in Seq(Int)
  BY LocRead
<1>2. /\ z.v = p.v /\ z = [[p EXCEPT !.fields = n] EXCEPT !.maxvo = m]
  BY DEF TrackField, LocBytes, Builders
<1>3. n \in Nat /\ m \in Nat
  BY BuilderParts DEF Larger
<1>. HIDE DEF bytes, n, m, z
<1>4. /\ p \in Builders /\ DataOf(p) = DataOf(x) /\ PadOf(p) = PadOf(x) \o bytes
      /\ SameRest(x, p)
  BY <1>1, PadPushed
<1>. HIDE DEF p
<1>5. /\ z \in Builders /\ z.v = p.v /\ z.fields = n /\ z.maxvo = m
      /\ z.nested = p.nested /\ z.finished = p.finished
      /\ z.minalign = p.minalign /\ z.force = p.force
      /\ z.dedup = p.dedup /\ z.pool = p.pool
  BY <1>2, <1>3, <1>4 DEF Builders
<1>6. DataOf(z) = DataOf(x) /\ PadOf(z) = PadOf(x) \o bytes
  BY <1>4, <1>5 DEF DataOf, PadOf
<1>. QED
  BY <1>4, <1>5, <1>6 DEF SameRest, n, m, z, bytes

LEMMA TwinTrackField ==
  ASSUME NEW x, NEW y, Twins(x, y), NEW vo \in Nat, vo <= 30, NEW off \in Nat
  PROVE  Twins(TrackField(x, vo, off), TrackField(y, vo, off))
<1>1. x \in Builders /\ y \in Builders /\ SameRest(x, y)
      /\ DataOf(x) = DataOf(y) /\ PadOf(x) = PadOf(y)
  BY TwinParts
<1>. DEFINE p == TrackField(x, vo, off)
            q == TrackField(y, vo, off)
<1>2. /\ p \in Builders /\ DataOf(p) = DataOf(x)
      /\ PadOf(p) = PadOf(x) \o LocBytes(off, vo)
      /\ p.fields = x.fields + 1 /\ p.maxvo = Larger(x.maxvo, vo)
      /\ p.nested = x.nested /\ p.finished = x.finished
      /\ p.minalign = x.minalign /\ p.force = x.force
      /\ p.dedup = x.dedup /\ p.pool = x.pool
  BY <1>1, FieldTracked
<1>3. /\ q \in Builders /\ DataOf(q) = DataOf(y)
      /\ PadOf(q) = PadOf(y) \o LocBytes(off, vo)
      /\ q.fields = y.fields + 1 /\ q.maxvo = Larger(y.maxvo, vo)
      /\ q.nested = y.nested /\ q.finished = y.finished
      /\ q.minalign = y.minalign /\ q.force = y.force
      /\ q.dedup = y.dedup /\ q.pool = y.pool
  BY <1>1, FieldTracked
<1>. HIDE DEF p, q
<1>4. Twins(p, q)
  BY <1>1, <1>2, <1>3 DEF Twins, SameRest
<1>. QED
  BY <1>4 DEF p, q

(* The fields of the tables.                                               *)
Places == {4, 6, 8, 10, 12, 14, 16, 18, 20, 22, 24, 26, 28, 30}
Kinds == {"num", "string", "bytes", "strings", "table", "tables"}
Targets == {"Type", "KeyValue", "EnumVal", "Enum", "Field", "Object",
            "RPCCall", "Service", "SchemaFile"}

AnyField == [vo : Places, kind : Kinds, w : {1, 2, 4, 8}, default : Int,
             of : Targets \cup {""}, required : BOOLEAN]

Fields ==
  {f \in AnyField :
     /\ f.kind = "num" \/ f.w = 4
     /\ f.kind \in {"table", "tables"} => f.of \in Targets
     /\ f.required => f.kind \in {"string", "table", "tables"}}

LEMMA FieldParts ==
  ASSUME NEW f \in Fields
  PROVE  /\ f.vo \in Places /\ f.kind \in Kinds /\ f.w \in {1, 2, 4, 8}
         /\ f.default \in Int /\ f.required \in BOOLEAN
         /\ f.kind = "num" \/ f.w = 4
BY DEF Fields, AnyField

LEMMA FieldTypes ==
  \A f \in Fields : f.vo \in Nat /\ f.vo <= 30 /\ f.w \in Nat
BY FieldParts DEF Places

(* The i-th of the locations, counted from the last one, is the place of a *)
(* field f of the table that was begun at start.                           *)
LocVo(pad, i) == ReadU(pad, (Len(pad) - 8 * i) + 4, 2)
LocOff(pad, i) == ReadU(pad, Len(pad) - 8 * i, 4)

Located(x, start, fs, i) ==
  \E f \in fs : /\ LocVo(PadOf(x), i) = f.vo /\ f.vo <= x.maxvo
                /\ LocOff(PadOf(x), i) \in Nat
                /\ start + f.w <= LocOff(PadOf(x), i)
                /\ LocOff(PadOf(x), i) <= Size(x)

(* x is in a table that was begun by z; a size that is too large is not    *)
(* kept exactly.                                                           *)
Within(z, x, fs, room) ==
  /\ z \in Builders /\ x \in Builders /\ Adds(z, x) /\ x.nested
  /\ x.finished = z.finished /\ x.force = z.force /\ x.dedup = z.dedup
  /\ x.pool = z.pool
  /\ \E c \in Seq(Int) : Len(c) = 8 * x.fields /\ PadOf(x) = PadOf(z) \o c
  /\ x.maxvo \in {0} \cup {f.vo : f \in fs}
  /\ Size(x) <= Size(z) + room
  /\ Size(x) < Huge => \A i \in 1..x.fields : Located(x, Size(z), fs, i)

LEMMA LocPushed ==
  ASSUME NEW pad \in Seq(Int), NEW n \in Nat, 8 * n <= Len(pad),
         NEW off \in Nat, NEW vo \in Nat, vo <= 30
  PROVE  /\ LocVo(pad \o LocBytes(off, vo), 1) = vo
         /\ LocOff(pad \o LocBytes(off, vo), 1) = ReadU(LocBytes(off, vo), 0, 4)
         /\ \A i \in 2..(n + 1) :
              /\ LocVo(pad \o LocBytes(off, vo), i) = LocVo(pad, i - 1)
              /\ LocOff(pad \o LocBytes(off, vo), i) = LocOff(pad, i - 1)
<1>. DEFINE e == LocBytes(off, vo)
            q == pad \o e
            l == Len(pad)
            l4 == l + 4
<1>1. e \in Seq(Int) /\ Len(e) = 8 /\ ReadU(e, 4, 2) = vo
  BY LocRead
<1>2. l \in Nat /\ l4 \in Nat
  BY LenProperties
<1>. HIDE DEF e
<1>3. q = pad \o e
  OBVIOUS
<1>4. Len(q) = l + 8
  BY <1>1, <1>3, Concatenated
<1>. HIDE DEF q
<1>5. /\ 2 \in {1, 2, 4, 8} /\ 4 \in {1, 2, 4, 8} /\ Len(pad) <= l4
      /\ Len(pad) <= l /\ l4 - Len(pad) = 4 /\ l - Len(pad) = 0
      /\ (Len(q) - 8 * 1) + 4 = l4 /\ Len(q) - 8 * 1 = l
  BY <1>2, <1>4
<1>. HIDE DEF l, l4
<1>6. ReadU(pad \o e, l4, 2) = ReadU(e, l4 - Len(pad), 2)
  BY ONLY pad \in Seq(Int), <1>1, <1>2, <1>5, BackRead
<1>7. ReadU(pad \o e, l, 4) = ReadU(e, l - Len(pad), 4)
  BY ONLY pad \in Seq(Int), <1>1, <1>2, <1>5, BackRead
<1>8. LocVo(q, 1) = vo /\ LocOff(q, 1) = ReadU(e, 0, 4)
  <2>1. ReadU(e, l4 - Len(pad), 2) = vo
    BY ONLY <1>1, <1>5, Zenon
  <2>2. ReadU(e, l - Len(pad), 4) = ReadU(e, 0, 4)
    BY ONLY <1>5, Zenon
  <2>3. LocVo(q, 1) = ReadU(q, l4, 2) /\ LocOff(q, 1) = ReadU(q, l, 4)
    BY ONLY <1>5, Zenon DEF LocVo, LocOff
  <2>. QED
    BY ONLY <1>3, <1>6, <1>7, <2>1, <2>2, <2>3, Zenon
<1>9. ASSUME NEW i \in 2..(n + 1)
      PROVE  /\ LocVo(q, i) = LocVo(pad, i - 1)
             /\ LocOff(q, i) = LocOff(pad, i - 1)
  <2>. DEFINE at == Len(q) - 8 * i
              at4 == at + 4
  <2>1. /\ at = Len(pad) - 8 * (i - 1) /\ at \in Nat /\ at4 \in Nat
        /\ at4 + 2 <= Len(pad) /\ at + 4 <= Len(pad)
    BY <1>2, <1>4 DEF l
  <2>2. LocVo(q, i) = ReadU(q, at4, 2) /\ LocOff(q, i) = ReadU(q, at, 4)
    BY DEF LocVo, LocOff
  <2>3. LocVo(pad, i - 1) = ReadU(pad, at4, 2)
        /\ LocOff(pad, i - 1) = ReadU(pad, at, 4)
    BY <2>1 DEF LocVo, LocOff
  <2>. HIDE DEF at, at4
  <2>4. ReadU(pad \o e, at4, 2) = ReadU(pad, at4, 2)
    BY ONLY pad \in Seq(Int), <1>1, <1>5, <2>1, FrontRead
  <2>5. ReadU(pad \o e, at, 4) = ReadU(pad, at, 4)
    BY ONLY pad \in Seq(Int), <1>1, <1>5, <2>1, FrontRead
  <2>. QED
    BY <1>3, <2>2, <2>3, <2>4, <2>5
<1>. QED
  BY <1>8, <1>9 DEF e, q

(* A field is added to a table.                                            *)
LEMMA Entered ==
  ASSUME NEW z, NEW x, NEW fs \in SUBSET Fields, NEW room \in Nat,
         Within(z, x, fs, room), NEW p, Grows(x, p), p.nested,
         NEW f \in fs, Size(x) + f.w <= Size(p), Size(p) <= Size(x) + 15
  PROVE  Within(z, TrackField(p, f.vo, Size(p)), fs, room + 15)
<1>. DEFINE vo == f.vo
            off == Size(p)
            q == TrackField(p, vo, off)
            e == LocBytes(off, vo)
<1>1. /\ z \in Builders /\ x \in Builders /\ p \in Builders
      /\ Adds(z, x) /\ Adds(x, p) /\ Remembers(x, p)
  BY DEF Within, Grows
<1>2. /\ vo \in Nat /\ vo <= 30 /\ f.w \in Nat
  BY FieldParts DEF Places
<1>3. /\ off \in Nat /\ Size(x) \in Nat /\ Size(z) \in Nat /\ Size(z) <= Size(x)
      /\ p.fields \in Nat /\ p.maxvo \in Nat /\ PadOf(p) \in Seq(Int)
      /\ PadOf(z) \in Seq(Int) /\ Len(PadOf(p)) \in Nat /\ Len(PadOf(z)) \in Nat
  BY <1>1, BuilderParts, AddsSize
<1>4. /\ q \in Builders /\ DataOf(q) = DataOf(p) /\ PadOf(q) = PadOf(p) \o e
      /\ q.fields = p.fields + 1 /\ q.maxvo = Larger(p.maxvo, vo)
      /\ q.nested = p.nested /\ q.finished = p.finished
      /\ q.minalign = p.minalign /\ q.force = p.force
      /\ q.dedup = p.dedup /\ q.pool = p.pool
  <2>. HIDE DEF vo, off
  <2>. QED
    BY ONLY <1>1, <1>2, <1>3, FieldTracked DEF q, e
<1>5. e \in Seq(Int) /\ Len(e) = 8 /\ (off < Huge => ReadU(e, 0, 4) = off)
  BY <1>2, <1>3, LocRead
<1>. HIDE DEF q, e, off, vo
<1>6. Size(q) = off
  BY <1>1, <1>4, BuilderParts DEF off
<1>7. Adds(z, q)
  <2>1. Adds(z, p)
    BY <1>1, AddsMore
  <2>. QED
    BY <1>4, <2>1 DEF Adds
<1>8. PICK c \in Seq(Int) : Len(c) = 8 * x.fields /\ PadOf(x) = PadOf(z) \o c
  BY DEF Within
<1>9. PadOf(p) = PadOf(z) \o c /\ p.fields = x.fields
  BY <1>1, <1>8 DEF Remembers
<1>10. \E d \in Seq(Int) : Len(d) = 8 * q.fields /\ PadOf(q) = PadOf(z) \o d
  <2>1. (PadOf(z) \o c) \o e = PadOf(z) \o (c \o e)
    BY ONLY <1>3, <1>5, c \in Seq(Int), ThreeParts, Zenon
  <2>2. c \o e \in Seq(Int) /\ Len(c \o e) = 8 * p.fields + 8
    <3>1. c \o e \in Seq(Int) /\ Len(c \o e) = Len(c) + Len(e)
      BY ONLY c \in Seq(Int), <1>5, Concatenated, Zenon
    <3>. QED
      BY <1>5, <1>8, <1>9, <3>1
  <2>3. Len(c \o e) = 8 * q.fields
    BY <1>3, <1>4, <2>2
  <2>. QED
    BY <1>4, <1>9, <2>1, <2>2, <2>3
<1>11. 8 * p.fields <= Len(PadOf(p))
  <2>1. Len(PadOf(z) \o c) = Len(PadOf(z)) + Len(c)
    BY <1>3, Concatenated
  <2>. QED
    BY <1>3, <1>8, <1>9, <2>1
<1>12. q.maxvo \in {0} \cup {g.vo : g \in fs}
  <2>1. p.maxvo \in {0} \cup {g.vo : g \in fs}
    BY <1>1 DEF Within, Remembers
  <2>. QED
    BY <1>4, <2>1 DEF Larger, vo
<1>13. Size(q) <= Size(z) + (room + 15)
  BY <1>3, <1>6 DEF Within, off
<1>14. ASSUME Size(q) < Huge, NEW i \in 1..q.fields
       PROVE  Located(q, Size(z), fs, i)
  <2>0. Huge \in Int
    BY DEF Huge
  <2>1. Size(x) < Huge
    BY <1>3, <1>6, <1>14, <1>2, <2>0 DEF off
  <2>2. /\ LocVo(PadOf(q), 1) = vo /\ LocOff(PadOf(q), 1) = ReadU(e, 0, 4)
        /\ \A j \in 2..(p.fields + 1) :
             /\ LocVo(PadOf(q), j) = LocVo(PadOf(p), j - 1)
             /\ LocOff(PadOf(q), j) = LocOff(PadOf(p), j - 1)
    <3>1. /\ LocVo(PadOf(p) \o e, 1) = vo
          /\ LocOff(PadOf(p) \o e, 1) = ReadU(e, 0, 4)
          /\ \A j \in 2..(p.fields + 1) :
             /\ LocVo(PadOf(p) \o e, j) = LocVo(PadOf(p), j - 1)
             /\ LocOff(PadOf(p) \o e, j) = LocOff(PadOf(p), j - 1)
      <4>. DEFINE P == PadOf(p)
                  n == p.fields
      <4>1. P \in Seq(Int) /\ n \in Nat /\ 8 * n <= Len(P) /\ off \in Nat
            /\ vo \in Nat /\ vo <= 30
        BY <1>2, <1>3, <1>11
      <4>. HIDE DEF P, n
      <4>2. /\ LocVo(P \o LocBytes(off, vo), 1) = vo
            /\ LocOff(P \o LocBytes(off, vo), 1)
                 = ReadU(LocBytes(off, vo), 0, 4)
            /\ \A j \in 2..(n + 1) :
               /\ LocVo(P \o LocBytes(off, vo), j) = LocVo(P, j - 1)
               /\ LocOff(P \o LocBytes(off, vo), j) = LocOff(P, j - 1)
        BY ONLY <4>1, LocPushed
      <4>. QED
        BY ONLY <4>2 DEF P, n, e
    <3>. QED
      BY <1>4, <3>1
  <2>3. p.maxvo <= q.maxvo /\ vo <= q.maxvo /\ q.maxvo \in Nat
    BY <1>2, <1>3, <1>4 DEF Larger
  <2>4. CASE i = 1
    <3>1. LocOff(PadOf(q), 1) = off
      BY <1>5, <1>6, <1>14, <2>2
    <3>2. Size(z) + f.w <= off
      BY <1>2, <1>3 DEF off
    <3>3. /\ LocVo(PadOf(q), i) = f.vo /\ f.vo <= q.maxvo
          /\ LocOff(PadOf(q), i) \in Nat
          /\ Size(z) + f.w <= LocOff(PadOf(q), i)
          /\ LocOff(PadOf(q), i) <= Size(q)
      BY <1>3, <1>6, <2>2, <2>3, <2>4, <3>1, <3>2 DEF vo
    <3>. QED
      BY <3>3, Zenon DEF Located
  <2>5. CASE i # 1
    <3>1. i \in 2..(p.fields + 1) /\ i - 1 \in 1..x.fields
      BY <1>3, <1>4, <1>9, <2>5
    <3>2. Located(x, Size(z), fs, i - 1)
      BY <2>1, <3>1 DEF Within
    <3>3. PadOf(x) = PadOf(p) /\ p.maxvo = x.maxvo
      BY <1>1 DEF Remembers
    <3>4. PICK g \in fs :
            /\ LocVo(PadOf(x), i - 1) = g.vo /\ g.vo <= x.maxvo
            /\ LocOff(PadOf(x), i - 1) \in Nat
            /\ Size(z) + g.w <= LocOff(PadOf(x), i - 1)
            /\ LocOff(PadOf(x), i - 1) <= Size(x)
      BY <3>2 DEF Located
    <3>5. g.vo \in Nat /\ g.w \in Nat
      <4>1. g \in Fields
        OBVIOUS
      <4>. QED
        BY <4>1, FieldTypes
    <3>6. /\ LocVo(PadOf(q), i) = LocVo(PadOf(x), i - 1)
          /\ LocOff(PadOf(q), i) = LocOff(PadOf(x), i - 1)
      BY <2>2, <3>1, <3>3
    <3>7. g.vo <= q.maxvo
      BY <1>3, <2>3, <3>3, <3>4, <3>5
    <3>8. LocOff(PadOf(x), i - 1) <= Size(q)
      BY <1>2, <1>3, <1>6, <3>4 DEF off
    <3>. QED
      BY ONLY <3>4, <3>6, <3>7, <3>8, Zenon DEF Located
  <2>. QED
    BY <2>4, <2>5
<1>15. /\ q.nested /\ q.finished = z.finished /\ q.force = z.force
       /\ q.dedup = z.dedup /\ q.pool = z.pool
  BY <1>1, <1>4 DEF Within, Remembers
<1>16. Within(z, q, fs, room + 15)
  BY <1>1, <1>4, <1>7, <1>10, <1>12, <1>13, <1>14, <1>15 DEF Within
<1>. QED
  BY <1>16 DEF q, vo, off

LEMMA NotEntered ==
  ASSUME NEW z, NEW x, NEW fs, NEW room \in Nat, Within(z, x, fs, room)
  PROVE  Within(z, x, fs, room + 15)
<1>1. Size(x) \in Nat /\ Size(z) \in Nat
  BY BuilderParts DEF Within
<1>2. Size(x) <= Size(z) + (room + 15)
  BY <1>1 DEF Within
<1>. QED
  BY <1>2 DEF Within

(* What the generated Create functions do with a field.                    *)
AddField(x, f, arg) ==
  IF f.kind = "num" THEN AddElement(x, f.vo, arg, f.w, f.default)
                    ELSE AddOffset(x, f.vo, arg)

(* The field is left out, or stored and its place kept.                    *)
LEMMA FieldStored ==
  ASSUME NEW f \in Fields, NEW arg \in Int, NEW x, NEW y, Twins(x, y),
         ~(AddField(x, f, arg) = x /\ AddField(y, f, arg) = y)
  PROVE  \E p \in Builders, q \in Builders :
           /\ AddField(x, f, arg) = TrackField(p, f.vo, Size(p))
           /\ AddField(y, f, arg) = TrackField(q, f.vo, Size(q))
           /\ Twins(p, q) /\ Grows(x, p) /\ p.nested = x.nested
           /\ Size(x) + f.w <= Size(p) /\ Size(p) <= Size(x) + 15
<1>. DEFINE w == f.w
            sx == Size(x)
<1>1. /\ x \in Builders /\ y \in Builders /\ x.force = y.force /\ sx \in Nat
  BY TwinParts, BuilderParts DEF SameRest
<1>2. /\ w \in Nat \ {0} /\ w <= 8
      /\ f.kind # "num" => w = 4
  BY FieldParts DEF Places
<1>3. CASE f.kind = "num"
  <2>. DEFINE p == PushElement(x, Scalar(arg, w))
              q == PushElement(y, Scalar(arg, w))
              pad == PaddingBytes(sx, w)
              sp == Size(p)
  <2>1. /\ AddField(x, f, arg) = TrackField(p, f.vo, Size(p))
        /\ AddField(y, f, arg) = TrackField(q, f.vo, Size(q))
    BY <1>1, <1>3 DEF AddField, AddElement
  <2>. HIDE DEF w
  <2>2. /\ Twins(p, q) /\ Grows(x, p) /\ p.nested = x.nested
        /\ sp = w + (PaddingBytes(Size(x), w) + Size(x))
    BY ONLY <1>2, Twins(x, y), arg \in Int, TwinPushScalar
  <2>. HIDE DEF p, q, sx, sp
  <2>3. pad \in Nat /\ pad < w
    BY ONLY <1>1, <1>2, sx \in Int, Padding
  <2>4. sp = w + (pad + sx)
    BY <2>2 DEF sx
  <2>. HIDE DEF pad
  <2>5. sx + w <= sp /\ sp <= sx + 15
    BY ONLY <1>1, <1>2, <2>3, <2>4
  <2>6. p \in Builders /\ q \in Builders
    BY <2>2 DEF Twins
  <2>. QED
    BY <2>1, <2>2, <2>5, <2>6 DEF sx, sp, w
<1>4. CASE f.kind # "num"
  <2>. DEFINE p == PushOffset(x, arg)
              q == PushOffset(y, arg)
              sp == Size(p)
  <2>1. /\ AddField(x, f, arg) = TrackField(p, f.vo, Size(p))
        /\ AddField(y, f, arg) = TrackField(q, f.vo, Size(q))
    BY <1>4 DEF AddField, AddOffset
  <2>2. /\ Twins(p, q) /\ Grows(x, p) /\ p.nested = x.nested
        /\ sp <= sx + 10 /\ sp >= sx + 4
    BY TwinPushOffset
  <2>3. p \in Builders /\ q \in Builders
    BY <2>2 DEF Twins
  <2>4. sp \in Nat
    BY <2>3, BuilderParts
  <2>. HIDE DEF p, q, sx, sp, w
  <2>5. sx + w <= sp /\ sp <= sx + 15
    BY <1>1, <1>2, <1>4, <2>2, <2>4
  <2>. QED
    BY <2>1, <2>2, <2>3, <2>5 DEF sx, sp, w
<1>. QED
  BY <1>3, <1>4

LEMMA TwinAddField ==
  ASSUME NEW f \in Fields, NEW arg \in Int, NEW x, NEW y, Twins(x, y)
  PROVE  Twins(AddField(x, f, arg), AddField(y, f, arg))
<1>1. CASE AddField(x, f, arg) = x /\ AddField(y, f, arg) = y
  BY <1>1
<1>2. CASE ~(AddField(x, f, arg) = x /\ AddField(y, f, arg) = y)
  <2>1. PICK p \in Builders, q \in Builders :
           /\ AddField(x, f, arg) = TrackField(p, f.vo, Size(p))
           /\ AddField(y, f, arg) = TrackField(q, f.vo, Size(q))
           /\ Twins(p, q)
    BY <1>2, FieldStored
  <2>2. Size(p) = Size(q) /\ Size(p) \in Nat
    BY <2>1, TwinParts, BuilderParts
  <2>3. f.vo \in Nat /\ f.vo <= 30
    BY FieldParts DEF Places
  <2>. DEFINE vo == f.vo
              off == Size(p)
  <2>4. vo \in Nat /\ vo <= 30 /\ off \in Nat /\ Twins(p, q)
    BY <2>1, <2>2, <2>3
  <2>. HIDE DEF vo, off
  <2>5. Twins(TrackField(p, vo, off), TrackField(q, vo, off))
    BY ONLY <2>4, TwinTrackField
  <2>. QED
    BY <2>1, <2>2, <2>5, Zenon DEF vo, off
<1>. QED
  BY <1>1, <1>2

LEMMA WithinAddField ==
  ASSUME NEW z, NEW x, NEW fs \in SUBSET Fields, NEW room \in Nat,
         Within(z, x, fs, room), NEW f \in fs, NEW arg \in Int
  PROVE  Within(z, AddField(x, f, arg), fs, room + 15)
<1>1. f \in Fields
  OBVIOUS
<1>2. Twins(x, x) /\ x.nested
  BY OwnTwin DEF Within
<1>3. CASE AddField(x, f, arg) = x
  BY <1>3, NotEntered
<1>4. CASE AddField(x, f, arg) # x
  <2>1. PICK p \in Builders, q \in Builders :
           /\ AddField(x, f, arg) = TrackField(p, f.vo, Size(p))
           /\ Grows(x, p) /\ p.nested = x.nested
           /\ Size(x) + f.w <= Size(p) /\ Size(p) <= Size(x) + 15
    BY <1>1, <1>2, <1>4, FieldStored, Zenon
  <2>2. p.nested
    BY <1>2, <2>1
  <2>3. Within(z, TrackField(p, f.vo, Size(p)), fs, room + 15)
    BY <2>1, <2>2, Entered
  <2>. QED
    BY <2>1, <2>3
<1>. QED
  BY <1>3, <1>4

(* The order in which the fields are added.                                *)
LEMMA FlattenLength ==
  ASSUME NEW S, NEW seqs \in Seq(Seq(S)),
         \A i \in 1..Len(seqs) : Len(seqs[i]) <= 1
  PROVE  Len(FlattenSeq(seqs)) <= Len(seqs)
<1>. DEFINE n == Len(seqs)
<1>0. n \in Nat /\ \A i \in 1..n : seqs[i] \in Seq(S)
  BY LenProperties, ElementOfSeq
<1>1. CASE n = 0
  <2>1. seqs = <<>> /\ FlattenSeq(seqs) = seqs
    BY <1>1, EmptySeq DEF FlattenSeq
  <2>. QED
    BY <2>1, EmptySeq
<1>2. CASE n # 0
  <2>1. PICK h \in [1..n -> Seq(S)] :
           /\ h[1] = seqs[1]
           /\ \A i \in 2..n : h[i] = h[i - 1] \o seqs[i]
           /\ FlattenSeq(seqs) = h[n]
    BY <1>2, FlattenParts
  <2>. DEFINE U == {k \in 0..n : k = 0 \/ Len(h[k]) <= k}
  <2>2. 0 \in U
    BY <1>0
  <2>3. ASSUME NEW k \in 1..n, k - 1 \in U
        PROVE  k \in U
    <3>1. CASE k = 1
      BY <1>0, <2>1, <3>1
    <3>2. CASE k # 1
      <4>1. /\ k \in 2..n /\ k - 1 \in 1..n /\ k - 1 # 0
        BY <1>0, <3>2
      <4>2. /\ h[k] = h[k - 1] \o seqs[k] /\ h[k - 1] \in Seq(S)
            /\ seqs[k] \in Seq(S) /\ Len(seqs[k]) <= 1
            /\ Len(h[k - 1]) <= k - 1
        BY <1>0, <2>1, <2>3, <4>1
      <4>3. Len(h[k]) = Len(h[k - 1]) + Len(seqs[k])
        BY <4>2, ConcatProperties
      <4>4. Len(h[k - 1]) \in Nat /\ Len(seqs[k]) \in Nat
        BY <4>2, LenProperties
      <4>. DEFINE l == Len(h[k - 1])
                  e == Len(seqs[k])
                  r == Len(h[k])
      <4>5. /\ r = l + e /\ l \in Nat /\ e \in Nat /\ e <= 1 /\ l <= k - 1
            /\ k \in Nat
        BY <1>0, <4>2, <4>3, <4>4
      <4>. HIDE DEF l, e, r
      <4>6. r <= k
        BY <4>5
      <4>. QED
        BY <1>0, <4>6 DEF r
    <3>. QED
      BY <3>1, <3>2
  <2>. HIDE DEF U
  <2>4. \A k \in 0..n : k \in U
    BY <1>0, <2>2, <2>3, UpTo
  <2>5. n \in U
    BY <1>0, <2>4
  <2>. QED
    BY <1>2, <2>1, <2>5 DEF U
<1>. QED
  BY <1>1, <1>2

LEMMA OrderParts ==
  ASSUME NEW S, NEW f \in Seq(S), NEW n, n = Len(f)
  PROVE  AddOrder(f) \in Seq(1..n) /\ Len(AddOrder(f)) <= 4 * n
<1>0. n \in Nat
  BY LenProperties
<1>. DEFINE seqs(w) == [k \in 1..n |->
                IF f[n + 1 - k].w = w THEN <<n + 1 - k>> ELSE <<>>]
            Pass(w) == FlattenSeq(seqs(w))
<1>1. \A w : Pass(w) \in Seq(1..n) /\ Len(Pass(w)) \in Nat /\ Len(Pass(w)) <= n
  <2>. TAKE w
  <2>1. ASSUME NEW k \in 1..n
        PROVE  /\ seqs(w)[k] \in Seq(1..n) /\ Len(seqs(w)[k]) <= 1
    <3>. DEFINE i == n + 1 - k
    <3>1. i \in 1..n
      BY <1>0
    <3>2. seqs(w)[k] = IF f[i].w = w THEN <<i>> ELSE <<>>
      OBVIOUS
    <3>. HIDE DEF i, seqs
    <3>3. /\ <<i>> \in Seq(1..n) /\ Len(<<i>>) = 1
          /\ <<>> \in Seq(1..n) /\ Len(<<>>) = 0
      BY <3>1
    <3>4. seqs(w)[k] = <<i>> \/ seqs(w)[k] = <<>>
      BY <3>2
    <3>. DEFINE u == seqs(w)[k]
                e == <<i>>
    <3>5. e \in Seq(1..n) /\ Len(e) = 1 /\ (u = e \/ u = <<>>)
      BY <3>3, <3>4
    <3>. HIDE DEF u, e
    <3>6. CASE u = e
      <4>1. u \in Seq(1..n) /\ Len(u) = 1
        BY ONLY <3>5, <3>6
      <4>. QED
        BY <4>1 DEF u
    <3>7. CASE u = <<>>
      <4>1. u \in Seq(1..n) /\ Len(u) = 0
        BY <3>7, EmptySeq
      <4>. QED
        BY <4>1 DEF u
    <3>8. u \in Seq(1..n) /\ Len(u) <= 1
      BY <3>5, <3>6, <3>7 DEF u
    <3>. QED
      BY <3>8 DEF u
  <2>2. seqs(w) \in Seq(Seq(1..n)) /\ Len(seqs(w)) = n
    BY <1>0, <2>1
  <2>. DEFINE s == seqs(w)
  <2>3. s \in Seq(Seq(1..n)) /\ Len(s) = n
        /\ \A k \in 1..Len(s) : Len(s[k]) <= 1
    BY <2>1, <2>2
  <2>. HIDE DEF s
  <2>4. FlattenSeq(s) \in Seq(1..n) /\ Len(FlattenSeq(s)) <= n
    BY <2>3, FlattenType, FlattenLength
  <2>. QED
    BY <2>4, LenProperties DEF s
<1>2. AddOrder(f) = Pass(8) \o Pass(4) \o Pass(2) \o Pass(1)
  BY DEF AddOrder
<1>. DEFINE a == Pass(8)
            b == Pass(4)
            c == Pass(2)
            d == Pass(1)
<1>3. /\ a \in Seq(1..n) /\ Len(a) \in Nat /\ Len(a) <= n
      /\ b \in Seq(1..n) /\ Len(b) \in Nat /\ Len(b) <= n
      /\ c \in Seq(1..n) /\ Len(c) \in Nat /\ Len(c) <= n
      /\ d \in Seq(1..n) /\ Len(d) \in Nat /\ Len(d) <= n
  BY <1>1
<1>. HIDE DEF a, b, c, d, Pass
<1>4. AddOrder(f) = a \o b \o c \o d
  BY <1>2 DEF a, b, c, d
<1>5. a \o b \in Seq(1..n) /\ Len(a \o b) = Len(a) + Len(b)
  BY <1>3, ConcatProperties
<1>6. (a \o b) \o c \in Seq(1..n) /\ Len((a \o b) \o c) = Len(a \o b) + Len(c)
  BY <1>3, <1>5, ConcatProperties
<1>7. /\ ((a \o b) \o c) \o d \in Seq(1..n)
      /\ Len(((a \o b) \o c) \o d) = Len((a \o b) \o c) + Len(d)
  BY <1>3, <1>6, ConcatProperties
<1>. QED
  BY <1>0, <1>3, <1>4, <1>5, <1>6, <1>7

(* The loop of CreateTable.                                                *)
AddedOf(base, f, order, args) ==
  CHOOSE h : h = [k \in 0..Len(order) |->
                    IF k = 0 THEN base
                    ELSE AddField(h[k - 1], f[order[k]], args[order[k]])]

LEMMA AddedFields ==
  ASSUME NEW base \in Builders, NEW f \in Seq(Fields),
         NEW order \in Seq(1..Len(f)), NEW args \in [1..Len(f) -> Int],
         NEW n, n = Len(order), NEW added, added = AddedOf(base, f, order, args)
  PROVE  /\ added \in [0..n -> Builders] /\ added[0] = base
         /\ \A k \in 1..n : added[k]
              = AddField(added[k - 1], f[order[k]], args[order[k]])
<1>. DEFINE Step(a, k) == AddField(a, f[order[k]], args[order[k]])
            G == [p \in Builders \X (1..n) |-> Step(p[1], p[2])]
            Is(h) == h = [k \in 0..n |-> IF k = 0 THEN base
                                         ELSE Step(h[k - 1], k)]
<1>1. /\ n \in Nat
      /\ \A k \in 1..n : f[order[k]] \in Fields /\ args[order[k]] \in Int
  BY LenProperties, ElementOfSeq
<1>2. \A a \in Builders, k \in 1..n : Step(a, k) \in Builders
  <2>1. ASSUME NEW a \in Builders, NEW g \in Fields, NEW arg \in Int
        PROVE  AddField(a, g, arg) \in Builders
    BY OwnTwin, TwinAddField, TwinParts
  <2>. QED
    BY <1>1, <2>1
<1>3. added = CHOOSE h : Is(h)
  BY DEF AddedOf
<1>. HIDE DEF Step
<1>4. /\ G \in [Builders \X (1..n) -> Builders]
      /\ \A a \in Builders, k \in 1..n : G[<<a, k>>] = Step(a, k)
  BY <1>2
<1>. HIDE DEF G
<1>5. PICK g \in [0..n -> Builders] : Follows(g, base, n, G)
  BY <1>1, <1>4, Recursion
<1>6. Is(g)
  <2>1. ASSUME NEW k \in 0..n
        PROVE  g[k] = IF k = 0 THEN base ELSE Step(g[k - 1], k)
    <3>1. CASE k = 0
      BY <1>5, <3>1 DEF Follows
    <3>2. CASE k # 0
      <4>1. k \in 1..n /\ k - 1 \in 0..n
        BY <1>1, <3>2
      <4>2. g[k] = G[<<g[k - 1], k>>] /\ g[k - 1] \in Builders
        BY <1>5, <4>1 DEF Follows
      <4>. QED
        BY <1>4, <3>2, <4>1, <4>2
    <3>. QED
      BY <3>1, <3>2
  <2>. QED
    BY <2>1
<1>7. Is(added)
  <2>. HIDE DEF Is
  <2>. QED
    BY <1>3, <1>6
<1>8. added = [k \in 0..n |-> IF k = 0 THEN base ELSE Step(added[k - 1], k)]
  BY <1>7
<1>. HIDE DEF Is
<1>9. 0 \in 0..n /\ \A k \in 1..n : k \in 0..n /\ k # 0
  BY <1>1
<1>10. added[0] = base
  BY <1>8, <1>9
<1>11. ASSUME NEW k \in 1..n
       PROVE  added[k] = Step(added[k - 1], k)
  <2>1. k \in 0..n /\ k # 0
    BY <1>9
  <2>. QED
    BY <1>8, <2>1
<1>12. \A k \in 0..n : added[k] \in Builders
  <2>. DEFINE S == {k \in 0..n : added[k] \in Builders}
  <2>1. 0 \in S
    BY <1>9, <1>10
  <2>2. ASSUME NEW k \in 1..n, k - 1 \in S
        PROVE  k \in S
    BY <1>2, <1>9, <1>11, <2>2
  <2>. HIDE DEF S
  <2>3. \A k \in 0..n : k \in S
    BY <1>1, <2>1, <2>2, UpTo
  <2>. QED
    BY <2>3 DEF S
<1>13. added \in [0..n -> Builders]
  BY <1>8, <1>12
<1>. QED
  BY <1>10, <1>11, <1>13 DEF Step

(* A table is begun.                                                       *)
LEMMA TableBegun ==
  ASSUME NEW x, NEW y, Twins(x, y), Sound(x), NEW fs \in SUBSET Fields
  PROVE  /\ Twins(StartTable(x), StartTable(y))
         /\ Within(x, StartTable(x), fs, 0)
<1>. DEFINE p == StartTable(x)
            q == StartTable(y)
<1>1. /\ Twins(p, q) /\ Grows(x, p) /\ p.nested = TRUE /\ Size(p) = Size(x)
      /\ PadOf(p) = PadOf(x)
  BY TwinNested DEF StartTable
<1>. HIDE DEF p, q
<1>2. /\ x \in Builders /\ p \in Builders /\ Adds(x, p) /\ Remembers(x, p)
      /\ x.fields = 0 /\ x.maxvo = 0
  BY <1>1 DEF Grows, Sound
<1>3. p.fields = 0 /\ p.maxvo = 0
  BY <1>2 DEF Remembers
<1>4. \E c \in Seq(Int) : Len(c) = 8 * p.fields /\ PadOf(p) = PadOf(x) \o c
  <2>1. <<>> \in Seq(Int) /\ Len(<<>>) = 8 * p.fields
    BY <1>3, EmptySeq
  <2>2. PadOf(p) = PadOf(x) \o <<>>
    BY <1>1, <1>2, BuilderParts, ConcatEmptySeq
  <2>. QED
    BY <2>1, <2>2
<1>5. Size(p) <= Size(x) + 0
  BY <1>1, <1>2, BuilderParts
<1>6. 1..p.fields = {}
  BY <1>3
<1>. QED
  BY <1>1, <1>2, <1>3, <1>4, <1>5, <1>6 DEF Within, Remembers, p, q

FieldsOf(f) == {f[i] : i \in 1..Len(f)}

LEMMA TwinAdded ==
  ASSUME NEW x, NEW y, Twins(x, y), Sound(x), NEW f \in Seq(Fields),
         NEW order \in Seq(1..Len(f)), NEW args \in [1..Len(f) -> Int],
         NEW n, n = Len(order),
         NEW h, h = AddedOf(StartTable(x), f, order, args),
         NEW g, g = AddedOf(StartTable(y), f, order, args)
  PROVE  Twins(h[n], g[n]) /\ Within(x, h[n], FieldsOf(f), 15 * n)
<1>. DEFINE fs == FieldsOf(f)
<1>1. n \in Nat /\ \A k \in 1..n : order[k] \in 1..Len(f)
  BY LenProperties, ElementOfSeq
<1>2. /\ fs \in SUBSET Fields
      /\ \A k \in 1..n : f[order[k]] \in fs /\ args[order[k]] \in Int
  BY <1>1, ElementOfSeq DEF FieldsOf
<1>. HIDE DEF fs
<1>3. /\ Twins(StartTable(x), StartTable(y))
      /\ Within(x, StartTable(x), fs, 0)
  BY <1>2, TableBegun
<1>4. StartTable(x) \in Builders /\ StartTable(y) \in Builders
  BY <1>3, TwinParts
<1>5. /\ h[0] = StartTable(x)
      /\ \A k \in 1..n : h[k]
           = AddField(h[k - 1], f[order[k]], args[order[k]])
  BY <1>4, AddedFields
<1>6. /\ g[0] = StartTable(y)
      /\ \A k \in 1..n : g[k]
           = AddField(g[k - 1], f[order[k]], args[order[k]])
  BY <1>4, AddedFields
<1>. DEFINE U == {k \in 0..n : Twins(h[k], g[k]) /\ Within(x, h[k], fs, 15 * k)}
<1>7. 0 \in U
  BY <1>1, <1>3, <1>5, <1>6
<1>8. ASSUME NEW k \in 1..n, k - 1 \in U
      PROVE  k \in U
  <2>. DEFINE e == f[order[k]]
              arg == args[order[k]]
              a == h[k - 1]
              c == g[k - 1]
              room == 15 * (k - 1)
  <2>1. /\ Twins(a, c) /\ Within(x, a, fs, room) /\ room \in Nat
        /\ e \in fs /\ e \in Fields /\ arg \in Int
        /\ room + 15 = 15 * k /\ k \in 0..n
    BY <1>1, <1>2, <1>8
  <2>2. h[k] = AddField(a, e, arg) /\ g[k] = AddField(c, e, arg)
    BY <1>5, <1>6
  <2>. HIDE DEF e, arg, a, c, room
  <2>3. Twins(AddField(a, e, arg), AddField(c, e, arg))
    BY <2>1, TwinAddField
  <2>4. Within(x, AddField(a, e, arg), fs, room + 15)
    BY <1>2, <2>1, WithinAddField
  <2>. QED
    BY <2>1, <2>2, <2>3, <2>4
<1>. HIDE DEF U
<1>9. \A k \in 0..n : k \in U
  BY <1>1, <1>7, <1>8, UpTo
<1>10. n \in U
  BY <1>1, <1>9
<1>. QED
  BY <1>10 DEF U, fs

(* Words behind each other, as in a vtable.                                *)
LEMMA WordsWritten ==
  ASSUME NEW m \in Nat \ {0}, NEW ws \in [1..m -> Int]
  PROVE  LET s == FlattenSeq([i \in 1..m |-> Scalar(ws[i], 2)])
         IN  /\ s \in Seq(Byte) /\ Len(s) = 2 * m
             /\ \A j \in 1..m : ReadU(s, 2 * (j - 1), 2)
                                  = ReadU(Scalar(ws[j], 2), 0, 2)
<1>. DEFINE seqs == [i \in 1..m |-> Scalar(ws[i], 2)]
<1>1. \A i \in 1..m : /\ Scalar(ws[i], 2) \in Seq(Byte)
                      /\ Scalar(ws[i], 2) \in Seq(Int)
                      /\ Len(Scalar(ws[i], 2)) = 2
  BY ScalarOfTwo
<1>2. /\ seqs \in Seq(Seq(Byte)) /\ Len(seqs) = m
      /\ \A i \in 1..m : seqs[i] = Scalar(ws[i], 2)
  BY <1>1
<1>. HIDE DEF seqs
<1>3. PICK h \in [1..m -> Seq(Byte)] :
        /\ h[1] = seqs[1]
        /\ \A i \in 2..m : h[i] = h[i - 1] \o seqs[i]
        /\ FlattenSeq(seqs) = h[m]
  BY <1>2, FlattenParts
<1>. DEFINE Read(k, j) == ReadU(h[k], 2 * (j - 1), 2)
            Word(j) == ReadU(Scalar(ws[j], 2), 0, 2)
            Good(k) == /\ Len(h[k]) = 2 * k
                       /\ \A j \in 1..k : Read(k, j) = Word(j)
            U == {k \in 0..m : k = 0 \/ Good(k)}
<1>4. 0 \in U
  OBVIOUS
<1>5. ASSUME NEW k \in 1..m, k - 1 \in U
      PROVE  k \in U
  <2>1. CASE k = 1
    <3>1. h[1] = Scalar(ws[1], 2) /\ Len(h[1]) = 2
      BY <1>1, <1>2, <1>3
    <3>2. ASSUME NEW j \in 1..1
          PROVE  Read(1, j) = Word(j)
      <4>1. j = 1 /\ 2 * (j - 1) = 0
        OBVIOUS
      <4>. QED
        BY <3>1, <4>1
    <3>. QED
      BY <2>1, <3>1, <3>2
  <2>2. CASE k # 1
    <3>1. k \in 2..m /\ k - 1 \in 1..m /\ k - 1 # 0 /\ k - 1 \in Nat
      BY <2>2
    <3>. DEFINE a == h[k - 1]
                e == Scalar(ws[k], 2)
    <3>2. h[k] = a \o e /\ a \in Seq(Byte) /\ e \in Seq(Int) /\ Len(e) = 2
      BY <1>1, <1>2, <1>3, <3>1
    <3>3. a \in Seq(Int)
      BY <3>2, ByteSeq
    <3>4. Good(k - 1)
      <4>. HIDE DEF Good
      <4>. QED
        BY <1>5, <3>1
    <3>5. Len(a) = 2 * (k - 1)
      BY <3>4
    <3>6. \A j \in 1..(k - 1) : ReadU(a, 2 * (j - 1), 2) = Word(j)
      BY <3>4
    <3>. HIDE DEF a
    <3>7. Len(a \o e) = 2 * k
      <4>1. Len(a \o e) = Len(a) + Len(e)
        BY <3>2, <3>3, Concatenated
      <4>. HIDE DEF e
      <4>. QED
        BY ONLY <3>1, <3>2, <3>5, <4>1, k \in 1..m
    <3>8. ASSUME NEW j \in 1..k
          PROVE  ReadU(a \o e, 2 * (j - 1), 2) = Word(j)
      <4>. DEFINE at == 2 * (j - 1)
      <4>1. CASE j = k
        <5>1. /\ at \in Nat /\ Len(a) <= at
              /\ at - Len(a) = 0 /\ 2 \in {1, 2, 4, 8}
          BY <3>1, <3>5, <4>1
        <5>. HIDE DEF at
        <5>2. ReadU(a \o e, at, 2) = ReadU(e, at - Len(a), 2)
          BY ONLY <3>2, <3>3, <5>1, BackRead
        <5>3. ReadU(e, at - Len(a), 2) = ReadU(e, 0, 2)
          BY ONLY <5>1
        <5>. QED
          BY <4>1, <5>2, <5>3 DEF at
      <4>2. CASE j # k
        <5>1. j \in 1..(k - 1) /\ at \in Nat /\ at + 2 <= Len(a)
              /\ 2 \in {1, 2, 4, 8}
          BY <3>1, <3>5, <4>2
        <5>. HIDE DEF at
        <5>2. ReadU(a \o e, at, 2) = ReadU(a, at, 2)
          BY ONLY <3>2, <3>3, <5>1, FrontRead
        <5>. QED
          BY <3>6, <5>1, <5>2 DEF at
      <4>. QED
        BY <4>1, <4>2
    <3>9. Good(k)
      BY <3>2, <3>7, <3>8
    <3>. QED
      BY <3>9
  <2>. QED
    BY <2>1, <2>2
<1>. HIDE DEF U
<1>6. \A k \in 0..m : k \in U
  BY <1>4, <1>5, UpTo
<1>7. m \in U
  BY <1>6
<1>8. h[m] \in Seq(Byte) /\ Good(m)
  <2>. HIDE DEF Good
  <2>. QED
    BY <1>7 DEF U
<1>. QED
  BY <1>3, <1>8 DEF seqs

(* The vtable, from the scratch pad alone.                                 *)
VtableSize(x) == Larger(x.maxvo + 2, 4)

PlacesOf(pad, n, loc, vo) ==
  {loc - LocOff(pad, i) : i \in {j \in 1..n : LocVo(pad, j) = vo}}

OneOf(S) == IF S = {} THEN 0 ELSE CHOOSE pos \in S : TRUE

PlaceOf(pad, n, loc, vo) == OneOf(PlacesOf(pad, n, loc, vo))

WordOf(x, start, loc, i) ==
  IF i = 0 THEN VtableSize(x)
  ELSE IF i = 1 THEN loc - start
       ELSE PlaceOf(PadOf(x), x.fields, loc, 2 * i)

LEMMA VtableWords ==
  ASSUME NEW x \in Builders, 8 * x.fields <= Len(PadOf(x)),
         NEW start \in Int, NEW loc \in Int
  PROVE  NewVtable(x, start, loc)
           = FlattenSeq([i \in 1..(VtableSize(x) \div 2) |->
                           Scalar(WordOf(x, start, loc, i - 1), 2)])
<1>. DEFINE pad == PadOf(x)
            n == x.fields
            At(vo) == {loc - ReadU(x.v.buf, x.v.scratch - i * FieldLocSize, 4) :
                         i \in {j \in 1..n :
                           ReadU(x.v.buf, x.v.scratch - j * FieldLocSize + 4, 2)
                             = vo}}
            Entry(vo) == IF At(vo) = {} THEN 0
                         ELSE CHOOSE pos \in At(vo) : TRUE
            Word(i) == IF i = 0 THEN VtableSize(x)
                       ELSE IF i = 1 THEN loc - start ELSE Entry(2 * i)
<1>1. x.v.scratch = Len(pad) /\ Len(pad) \in Nat /\ n \in Nat
      /\ 8 * n <= Len(pad)
  BY BuilderParts
<1>2. ASSUME NEW j \in 1..n
      PROVE  /\ ReadU(x.v.buf, x.v.scratch - j * FieldLocSize, 4)
                  = LocOff(pad, j)
             /\ ReadU(x.v.buf, x.v.scratch - j * FieldLocSize + 4, 2)
                  = LocVo(pad, j)
  <2>. DEFINE at == Len(pad) - 8 * j
              at4 == at + 4
  <2>1. /\ at \in Nat /\ at4 \in Nat /\ at + 4 <= Len(pad)
        /\ at4 + 2 <= Len(pad) /\ 4 \in {1, 2, 4, 8} /\ 2 \in {1, 2, 4, 8}
    BY <1>1
  <2>2. /\ x.v.scratch - j * FieldLocSize = at
        /\ x.v.scratch - j * FieldLocSize + 4 = at4
    BY <1>1 DEF FieldLocSize
  <2>3. LocOff(pad, j) = ReadU(pad, at, 4) /\ LocVo(pad, j) = ReadU(pad, at4, 2)
    BY DEF LocOff, LocVo
  <2>. HIDE DEF at, at4
  <2>4. /\ ReadU(x.v.buf, at, 4) = ReadU(PadOf(x), at, 4)
        /\ ReadU(x.v.buf, at4, 2) = ReadU(PadOf(x), at4, 2)
    BY <2>1, BuilderPadReads
  <2>. QED
    BY <2>2, <2>3, <2>4
<1>3. NewVtable(x, start, loc)
        = FlattenSeq([i \in 1..(VtableSize(x) \div 2) |->
                        Scalar(Word(i - 1), 2)])
  BY DEF NewVtable, VtableSize
<1>3a. \A vo : Entry(vo) = OneOf(At(vo))
  BY DEF OneOf
<1>. HIDE DEF Entry
<1>4. \A vo : At(vo) = PlacesOf(pad, n, loc, vo)
  BY <1>2 DEF PlacesOf
<1>. HIDE DEF At
<1>5. \A vo : Entry(vo) = PlaceOf(pad, n, loc, vo)
  BY <1>3a, <1>4 DEF PlaceOf
<1>6. \A i : Word(i) = WordOf(x, start, loc, i)
  BY <1>5 DEF WordOf
<1>. HIDE DEF Word
<1>. QED
  BY <1>3, <1>6

(* What the vtable of a table of the fields fs is: len is the size of the  *)
(* table, and a field lies in it behind the offset of the vtable.          *)
Evens == {0, 4, 6, 8, 10, 12, 14, 16, 18, 20, 22, 24, 26, 28, 30}

PlaceIn(s, vo) == IF vo < ReadU(s, 0, 2) THEN ReadU(s, vo, 2) ELSE 0

VtableFor(s, fs, len) ==
  /\ s \in Seq(Byte) /\ Len(s) \in Nat /\ 4 <= Len(s)
  /\ ReadU(s, 0, 2) = Len(s)
  /\ \A f \in fs : f.vo < Len(s) => f.vo + 2 <= Len(s)
  /\ \A f \in fs : \/ PlaceIn(s, f.vo) = 0
                   \/ /\ PlaceIn(s, f.vo) \in Nat /\ 4 <= PlaceIn(s, f.vo)
                      /\ PlaceIn(s, f.vo) + f.w <= len

LEMMA VtableSizes ==
  ASSUME NEW x, x.maxvo \in Evens
  PROVE  /\ VtableSize(x) \in Nat /\ 4 <= VtableSize(x) /\ VtableSize(x) <= 32
         /\ x.maxvo + 2 <= VtableSize(x)
         /\ VtableSize(x) \div 2 \in Nat \ {0}
         /\ 2 * (VtableSize(x) \div 2) = VtableSize(x)
         /\ \A vo \in Evens : vo < VtableSize(x) => vo + 2 <= VtableSize(x)
<1>. DEFINE m == x.maxvo
            r == VtableSize(x)
<1>1. r = Larger(m + 2, 4) /\ m \in Evens
  BY DEF VtableSize
<1>. HIDE DEF m, r
<1>2. \E h \in 2..16 : r = 2 * h
  <2>1. CASE m = 0
    <3>1. r = 2 * 2
      BY <1>1, <2>1 DEF Larger
    <3>. QED
      BY <3>1
  <2>2. CASE m # 0
    <3>1. PICK k \in 2..15 : m = 2 * k
      BY <1>1, <2>2 DEF Evens
    <3>2. r = 2 * (k + 1) /\ k + 1 \in 2..16
      BY <1>1, <3>1 DEF Larger
    <3>. QED
      BY <3>2
  <2>. QED
    BY <2>1, <2>2
<1>3. PICK h \in 2..16 : r = 2 * h
  BY <1>2
<1>4. r \div 2 = h
  BY <1>3
<1>5. m + 2 <= r
  BY <1>1 DEF Larger, Evens
<1>6. ASSUME NEW vo \in Evens, vo < r
      PROVE  vo + 2 <= r
  <2>1. \E k \in 0..15 : vo = 2 * k
    BY DEF Evens
  <2>. QED
    BY <1>3, <1>6, <2>1
<1>7. /\ r \in Nat /\ 4 <= r /\ r <= 32 /\ r \div 2 \in Nat \ {0}
      /\ 2 * (r \div 2) = r
  BY <1>3, <1>4
<1>. QED
  BY <1>5, <1>6, <1>7 DEF m, r

LEMMA WordTypes ==
  ASSUME NEW x \in Builders, x.maxvo \in Evens, NEW start \in Int,
         NEW loc \in Int, NEW i
  PROVE  WordOf(x, start, loc, i) \in Int
<1>. DEFINE pad == PadOf(x)
            n == x.fields
            S == PlacesOf(pad, n, loc, 2 * i)
<1>1. pad \in Seq(Int) /\ n \in Nat /\ Len(pad) \in Nat
  BY BuilderParts
<1>2. VtableSize(x) \in Int
  BY VtableSizes
<1>. HIDE DEF pad, n
<1>3. ASSUME NEW j \in 1..n
      PROVE  loc - LocOff(pad, j) \in Int
  <2>. DEFINE at == Len(pad) - 8 * j
  <2>1. at \in Int /\ 4 \in {2, 4} /\ LocOff(pad, j) = ReadU(pad, at, 4)
    BY <1>1 DEF LocOff
  <2>. HIDE DEF at
  <2>2. ReadU(pad, at, 4) \in Int
    BY <1>1, <2>1, ReadType
  <2>. QED
    BY <2>1, <2>2
<1>4. S \in SUBSET Int
  BY <1>3 DEF PlacesOf
<1>. HIDE DEF S
<1>5. OneOf(S) \in Int
  <2>1. CASE S = {}
    BY <2>1 DEF OneOf
  <2>2. CASE S # {}
    <3>1. OneOf(S) \in S
      BY <2>2 DEF OneOf
    <3>. QED
      BY <1>4, <3>1
  <2>. QED
    BY <2>1, <2>2
<1>6. PlaceOf(pad, n, loc, 2 * i) \in Int
  BY <1>5 DEF PlaceOf, S
<1>. QED
  BY <1>2, <1>6 DEF WordOf, pad, n

(* The words of the vtable.                                                *)
LEMMA VtableRead ==
  ASSUME NEW x \in Builders, 8 * x.fields <= Len(PadOf(x)),
         x.maxvo \in Evens, NEW start \in Int, NEW loc \in Int
  PROVE  LET s == NewVtable(x, start, loc)
         IN  /\ s \in Seq(Byte) /\ Len(s) = VtableSize(x)
             /\ \A i \in 0..(VtableSize(x) \div 2 - 1) :
                  ReadU(s, 2 * i, 2)
                    = ReadU(Scalar(WordOf(x, start, loc, i), 2), 0, 2)
<1>. DEFINE s == NewVtable(x, start, loc)
            m == VtableSize(x) \div 2
            ws == [i \in 1..m |-> WordOf(x, start, loc, i - 1)]
<1>1. m \in Nat \ {0} /\ 2 * m = VtableSize(x)
  BY VtableSizes
<1>2. s = FlattenSeq([i \in 1..m |-> Scalar(WordOf(x, start, loc, i - 1), 2)])
  BY VtableWords
<1>. HIDE DEF m, s
<1>3. /\ ws \in [1..m -> Int]
      /\ \A i \in 1..m : ws[i] = WordOf(x, start, loc, i - 1)
  BY WordTypes
<1>. HIDE DEF ws
<1>4. [i \in 1..m |-> Scalar(WordOf(x, start, loc, i - 1), 2)]
        = [i \in 1..m |-> Scalar(ws[i], 2)]
  BY <1>3
<1>5. s = FlattenSeq([i \in 1..m |-> Scalar(ws[i], 2)])
  BY <1>2, <1>4
<1>6. /\ s \in Seq(Byte) /\ Len(s) = 2 * m
      /\ \A j \in 1..m : ReadU(s, 2 * (j - 1), 2)
                           = ReadU(Scalar(ws[j], 2), 0, 2)
  BY <1>1, <1>3, <1>5, WordsWritten
<1>7. ASSUME NEW i \in 0..(m - 1)
      PROVE  ReadU(s, 2 * i, 2)
             = ReadU(Scalar(WordOf(x, start, loc, i), 2), 0, 2)
  <2>. DEFINE j == i + 1
  <2>1. j \in 1..m /\ j - 1 = i
    BY <1>1
  <2>. HIDE DEF j
  <2>. QED
    BY <1>3, <1>6, <2>1
<1>. QED
  BY <1>1, <1>6, <1>7 DEF s, m

Distinct(fs) == \A f, g \in fs : f.vo = g.vo => f = g

LEMMA WithinParts ==
  ASSUME NEW z, NEW x, NEW fs \in SUBSET Fields, NEW room \in Nat,
         Within(z, x, fs, room), NEW p, Grows(x, p)
  PROVE  /\ z \in Builders /\ x \in Builders /\ p \in Builders
         /\ Size(z) \in Nat /\ Size(x) \in Nat /\ Size(p) \in Nat
         /\ PadOf(p) = PadOf(x) /\ p.fields = x.fields /\ p.fields \in Nat
         /\ p.maxvo = x.maxvo /\ p.maxvo \in Evens
         /\ 8 * p.fields <= Len(PadOf(p))
         /\ Size(z) <= Size(x)
<1>1. /\ z \in Builders /\ x \in Builders /\ p \in Builders /\ Adds(z, x)
      /\ PadOf(p) = PadOf(x) /\ p.fields = x.fields /\ p.maxvo = x.maxvo
  BY DEF Within, Grows, Remembers
<1>2. /\ Size(z) \in Nat /\ Size(x) \in Nat /\ Size(p) \in Nat
      /\ p.fields \in Nat /\ Size(z) <= Size(x)
      /\ PadOf(z) \in Seq(Int) /\ Len(PadOf(z)) \in Nat
  BY <1>1, BuilderParts, AddsSize
<1>3. PICK c \in Seq(Int) : Len(c) = 8 * x.fields /\ PadOf(x) = PadOf(z) \o c
  BY DEF Within
<1>4. 8 * p.fields <= Len(PadOf(p))
  <2>1. Len(PadOf(z) \o c) = Len(PadOf(z)) + Len(c)
    BY <1>2, Concatenated
  <2>. QED
    BY <1>1, <1>2, <1>3, <2>1
<1>5. p.maxvo \in Evens
  <2>1. x.maxvo \in {0} \cup {f.vo : f \in fs}
    BY DEF Within
  <2>2. \A f \in Fields : f.vo \in Evens
    BY FieldParts DEF Places, Evens
  <2>3. 0 \in Evens
    BY DEF Evens
  <2>. QED
    BY <1>1, <2>1, <2>2, <2>3
<1>. QED
  BY <1>1, <1>2, <1>4, <1>5

(* The place of a field that is in the vtable.                             *)
LEMMA PlaceFound ==
  ASSUME NEW z, NEW x, NEW fs \in SUBSET Fields, NEW room \in Nat,
         Within(z, x, fs, room), Distinct(fs), Size(x) < Huge,
         NEW p, Grows(x, p), Size(x) + 4 <= Size(p), NEW f \in fs,
         NEW o, o = PlaceOf(PadOf(p), p.fields, Size(p), f.vo)
  PROVE  \/ o = 0
         \/ o \in Nat /\ 4 <= o /\ o + f.w <= Size(p) - Size(z)
<1>. DEFINE start == Size(z)
            loc == Size(p)
            sx == Size(x)
            pad == PadOf(x)
            n == x.fields
            S == PlacesOf(pad, n, loc, f.vo)
<1>1. /\ start \in Nat /\ loc \in Nat /\ sx \in Nat /\ start <= sx
      /\ sx + 4 <= loc /\ o = OneOf(S)
  BY WithinParts DEF PlaceOf
<1>2. f.w \in Nat
  BY FieldParts DEF Places
<1>3. CASE S = {}
  BY <1>1, <1>3 DEF OneOf
<1>4. CASE S # {}
  <2>1. OneOf(S) \in S
    BY <1>4 DEF OneOf
  <2>2. PICK j \in {i \in 1..n : LocVo(pad, i) = f.vo} :
               o = loc - LocOff(pad, j)
    BY <1>1, <2>1 DEF PlacesOf
  <2>3. j \in 1..n /\ LocVo(pad, j) = f.vo
    OBVIOUS
  <2>4. Located(x, start, fs, j)
    BY <2>3 DEF Within
  <2>5. PICK g \in fs : /\ LocVo(pad, j) = g.vo /\ LocOff(pad, j) \in Nat
                        /\ start + g.w <= LocOff(pad, j)
                        /\ LocOff(pad, j) <= sx
    BY <2>4 DEF Located
  <2>6. g = f
    BY <2>3, <2>5 DEF Distinct
  <2>. DEFINE l == LocOff(pad, j)
              w == f.w
  <2>7. /\ o = loc - l /\ l \in Nat /\ start + w <= l /\ l <= sx /\ w \in Nat
    BY <1>2, <2>2, <2>5, <2>6
  <2>. HIDE DEF l, w, start, loc, sx
  <2>8. o \in Nat /\ 4 <= o /\ o + w <= loc - start
    BY <1>1, <2>7
  <2>. QED
    BY <2>8 DEF w, loc, start
<1>. QED
  BY <1>3, <1>4

LEMMA VtableMade ==
  ASSUME NEW z, NEW x, NEW fs \in SUBSET Fields, NEW room \in Nat, room <= 900,
         Within(z, x, fs, room), Distinct(fs), Size(x) < Huge,
         NEW p, Grows(x, p), Size(x) + 4 <= Size(p), Size(p) <= Size(x) + 7
  PROVE  VtableFor(NewVtable(p, Size(z), Size(p)), fs, Size(p) - Size(z))
<1>. DEFINE start == Size(z)
            loc == Size(p)
            sx == Size(x)
            s == NewVtable(p, start, loc)
            size == VtableSize(p)
            Word(i) == WordOf(p, start, loc, i)
<1>1. /\ p \in Builders /\ start \in Nat /\ loc \in Nat /\ sx \in Nat
      /\ start <= sx /\ sx + 4 <= loc /\ p.maxvo \in Evens
      /\ 8 * p.fields <= Len(PadOf(p))
  BY WithinParts
<1>2. loc - start <= 907
  <2>1. sx <= start + room /\ loc <= sx + 7
    BY DEF Within
  <2>. HIDE DEF start, loc, sx
  <2>. QED
    BY <1>1, <2>1
<1>3. /\ size \in Nat /\ 4 <= size /\ size <= 32
      /\ 2 * (size \div 2) = size
      /\ \A vo \in Evens : vo < size => vo + 2 <= size
  BY <1>1, VtableSizes
<1>4. /\ s \in Seq(Byte) /\ Len(s) = size
      /\ \A i \in 0..(size \div 2 - 1) :
           ReadU(s, 2 * i, 2) = ReadU(Scalar(Word(i), 2), 0, 2)
  BY <1>1, VtableRead
<1>. HIDE DEF s, size
<1>5. ReadU(s, 0, 2) = size
  <2>1. 0 \in 0..(size \div 2 - 1) /\ 2 * 0 = 0
    BY <1>3
  <2>2. ReadU(s, 2 * 0, 2) = ReadU(Scalar(Word(0), 2), 0, 2)
    BY <1>4, <2>1
  <2>3. Word(0) = size
    BY DEF WordOf, size
  <2>4. size \in Int /\ 0 <= size /\ size < 65536
    BY <1>3, SMT
  <2>5. ReadU(Scalar(size, 2), 0, 2) = size
    BY ONLY <2>4, ReadBackTwo, SMT
  <2>. QED
    BY ONLY <2>1, <2>2, <2>3, <2>5
<1>6. \A f \in fs : f.vo \in Evens /\ f.vo # 0
  <2>1. \A f \in Fields : f.vo \in Evens /\ f.vo # 0
    BY FieldParts DEF Places, Evens
  <2>. QED
    BY <2>1
<1>7. ASSUME NEW f \in fs
      PROVE  \/ PlaceIn(s, f.vo) = 0
             \/ /\ PlaceIn(s, f.vo) \in Nat /\ 4 <= PlaceIn(s, f.vo)
                /\ PlaceIn(s, f.vo) + f.w <= loc - start
  <2>. DEFINE vo == f.vo
              o == PlaceOf(PadOf(p), p.fields, loc, vo)
              w == f.w
  <2>1. \/ o = 0
        \/ o \in Nat /\ 4 <= o /\ o + w <= loc - start
    BY PlaceFound
  <2>2. w \in Nat /\ vo \in Evens /\ vo # 0
    BY <1>6, FieldParts DEF Places
  <2>3. CASE vo < size
    <3>1. PICK i \in 2..15 : vo = 2 * i
      BY <2>2 DEF Evens
    <3>2. i \in 0..(size \div 2 - 1) /\ i # 0 /\ i # 1
      BY <1>3, <2>3, <3>1
    <3>3. ReadU(s, 2 * i, 2) = ReadU(Scalar(Word(i), 2), 0, 2)
      BY <1>4, <3>2
    <3>4. Word(i) = o
      BY <3>1, <3>2 DEF WordOf
    <3>. HIDE DEF o, w, start, loc, vo, Word
    <3>5. o \in Int /\ 0 <= o /\ o < 65536
      BY <1>1, <1>2, <2>1, <2>2, SMT
    <3>6. ReadU(Scalar(o, 2), 0, 2) = o
      BY ONLY <3>5, ReadBackTwo, SMT
    <3>7. ReadU(s, vo, 2) = o
      BY ONLY <3>1, <3>3, <3>4, <3>6
    <3>8. PlaceIn(s, vo) = o
      BY <1>5, <2>3, <3>7 DEF PlaceIn
    <3>. QED
      BY <2>1, <3>8 DEF vo, w
  <2>4. CASE ~(vo < size)
    BY <1>5, <2>4 DEF PlaceIn
  <2>. QED
    BY <2>3, <2>4
<1>8. \A f \in fs : f.vo < Len(s) => f.vo + 2 <= Len(s)
  BY <1>3, <1>4, <1>6
<1>9. VtableFor(s, fs, loc - start)
  <2>1. Len(s) \in Nat /\ 4 <= Len(s) /\ ReadU(s, 0, 2) = Len(s)
    BY <1>3, <1>4, <1>5
  <2>. QED
    BY ONLY <1>4, <1>7, <1>8, <2>1 DEF VtableFor
<1>. QED
  BY <1>9 DEF s

(* What ends a table: its fields are forgotten, the vtable is referred to. *)
LEMMA OffsetsCleared ==
  ASSUME NEW x \in Builders, NEW a \in Seq(Int), NEW c \in Seq(Int),
         PadOf(x) = a \o c, Len(c) = 8 * x.fields
  PROVE  LET z == ClearOffsets(x)
         IN  /\ z \in Builders /\ DataOf(z) = DataOf(x) /\ PadOf(z) = a
             /\ z.fields = 0 /\ z.maxvo = 0 /\ z.nested = x.nested
             /\ z.finished = x.finished /\ z.minalign = x.minalign
             /\ z.force = x.force /\ z.dedup = x.dedup /\ z.pool = x.pool
<1>. DEFINE p == [x EXCEPT !.v = ScratchPop(@, Len(c))]
            z == ClearOffsets(x)
<1>1. /\ p \in Builders /\ DataOf(p) = DataOf(x) /\ PadOf(p) = a
      /\ SameRest(x, p)
  BY PadPopped
<1>2. x.fields * FieldLocSize = Len(c)
  BY BuilderParts DEF FieldLocSize
<1>3. z.v = p.v /\ z = [[p EXCEPT !.fields = 0] EXCEPT !.maxvo = 0]
  BY <1>2 DEF ClearOffsets, Builders
<1>. HIDE DEF p, z
<1>4. /\ z \in Builders /\ z.v = p.v /\ z.fields = 0 /\ z.maxvo = 0
      /\ z.nested = p.nested /\ z.finished = p.finished
      /\ z.minalign = p.minalign /\ z.force = p.force
      /\ z.dedup = p.dedup /\ z.pool = p.pool
  BY <1>1, <1>3 DEF Builders
<1>5. DataOf(z) = DataOf(x) /\ PadOf(z) = a
  BY <1>1, <1>4 DEF DataOf, PadOf
<1>. QED
  BY <1>1, <1>4, <1>5 DEF SameRest, z

LEMMA VtablesRead ==
  ASSUME NEW x \in Builders, x.fields = 0, NEW n \in Nat, Len(PadOf(x)) = 4 * n
  PROVE  Vtables(x) = [i \in 1..n |-> ReadU(PadOf(x), 4 * (i - 1), 4)]
<1>1. x.v.scratch = Len(PadOf(x))
  BY BuilderParts
<1>2. (x.v.scratch - x.fields * FieldLocSize) \div 4 = n
  BY <1>1 DEF FieldLocSize
<1>3. ASSUME NEW i \in 1..n
      PROVE  ReadU(x.v.buf, 4 * (i - 1), 4) = ReadU(PadOf(x), 4 * (i - 1), 4)
  <2>. DEFINE at == 4 * (i - 1)
  <2>1. at \in Nat /\ at + 4 <= Len(PadOf(x)) /\ 4 \in {1, 2, 4, 8}
    OBVIOUS
  <2>. HIDE DEF at
  <2>2. ReadU(x.v.buf, at, 4) = ReadU(PadOf(x), at, 4)
    BY <2>1, BuilderPadReads
  <2>. QED
    BY <2>2 DEF at
<1>. QED
  BY <1>2, <1>3 DEF Vtables

ReferAt(x, loc, use) ==
  [x EXCEPT !.v = WriteAt(@, DataAt(@, loc), Scalar(use - loc, 4)),
            !.nested = FALSE]

RefersTo(x, z, data) ==
  /\ z \in Builders /\ DataOf(z) = data /\ PadOf(z) = PadOf(x) /\ ~z.nested
  /\ z.fields = x.fields /\ z.maxvo = x.maxvo /\ z.finished = x.finished
  /\ z.minalign = x.minalign /\ z.force = x.force /\ z.dedup = x.dedup
  /\ z.pool = x.pool

LEMMA Referred ==
  ASSUME NEW x \in Builders, NEW a \in Seq(Int), NEW c \in Seq(Int),
         NEW d \in Seq(Int), DataOf(x) = a \o c \o d, Len(c) = 4,
         NEW loc \in Int, Size(x) - loc = Len(a), NEW use \in Int
  PROVE  RefersTo(x, ReferAt(x, loc, use), a \o Scalar(use - loc, 4) \o d)
<1>. DEFINE bytes == Scalar(use - loc, 4)
            at == DataAt(x.v, loc)
            w == WriteAt(x.v, at, bytes)
            p == [x EXCEPT !.v = w]
            z == ReferAt(x, loc, use)
            data == a \o bytes \o d
            pad == PadOf(x)
<1>1. x.v \in Blocks /\ Data(x.v) = a \o c \o d
  BY BuilderParts DEF DataOf
<1>2. bytes \in Seq(Int) /\ Len(bytes) = Len(c)
  BY ScalarOfFour
<1>3. at = x.v.cur + Len(a)
  <2>1. Len(a) \in Nat /\ Size(x) \in Nat
    BY BuilderParts, LenProperties
  <2>2. loc <= Size(x)
    BY <2>1
  <2>. QED
    BY <2>2, BuilderReads
<1>. HIDE DEF at, bytes
<1>4. Content(w, data, ScratchBytes(x.v))
  BY <1>1, <1>2, <1>3, BlockWrite
<1>5. Content(w, data, pad)
  BY <1>4 DEF PadOf
<1>6. z.v = w /\ z = [p EXCEPT !.nested = FALSE]
  BY DEF ReferAt, Builders, at, bytes
<1>. HIDE DEF w, z, data, pad
<1>7. /\ p \in Builders /\ p.v = w /\ DataOf(p) = data /\ PadOf(p) = pad
      /\ SameRest(x, p)
  BY <1>5, OtherBlock
<1>. HIDE DEF p
<1>8. /\ z \in Builders /\ z.v = p.v /\ z.nested = FALSE
      /\ z.fields = p.fields /\ z.maxvo = p.maxvo /\ z.finished = p.finished
      /\ z.minalign = p.minalign /\ z.force = p.force
      /\ z.dedup = p.dedup /\ z.pool = p.pool
  BY <1>6, <1>7 DEF Builders
<1>9. DataOf(z) = data /\ PadOf(z) = pad
  BY <1>7, <1>8 DEF DataOf, PadOf
<1>. QED
  BY <1>7, <1>8, <1>9 DEF SameRest, RefersTo, z, data, pad, bytes

(* The vtables that are the same as a new one.                             *)
SameAs(x, s) ==
  {o \in ToSet(Vtables(x)) : x.dedup /\ VtableAt(x, o) = s}

FirstIn(S) == CHOOSE o \in S : \A q \in S : o <= q

LEMMA FirstFound ==
  ASSUME NEW S \in SUBSET Nat, S # {}
  PROVE  FirstIn(S) \in S
<1>1. \E x \in S : \A y \in S : x <= y
  BY LeastNumber
<1>. QED
  BY <1>1 DEF FirstIn

LEMMA SameVtables ==
  ASSUME NEW z, Sound(z), NEW x, NEW y, Twins(x, y), PadOf(x) = PadOf(z),
         x.fields = 0, Size(z) <= Size(x), NEW s
  PROVE  /\ SameAs(x, s) = SameAs(y, s) /\ SameAs(x, s) \in SUBSET Nat
         /\ \A o \in SameAs(x, s) : o <= Size(z) /\ VtableAt(x, o) = s
<1>1. PICK n \in Nat :
       /\ Len(PadOf(z)) = 4 * n
       /\ \A i \in 1..n : /\ ReadU(PadOf(z), 4 * (i - 1), 4) \in Nat
                          /\ ReadU(PadOf(z), 4 * (i - 1), 4) <= Size(z)
  BY DEF Sound
<1>2. /\ x \in Builders /\ y \in Builders /\ PadOf(x) = PadOf(y)
      /\ y.fields = 0 /\ x.dedup = y.dedup
  BY TwinParts DEF SameRest
<1>3. Size(z) \in Nat /\ Size(x) \in Nat
  BY <1>2, BuilderParts DEF Sound
<1>. DEFINE V == [i \in 1..n |-> ReadU(PadOf(z), 4 * (i - 1), 4)]
<1>4. Vtables(x) = V /\ Vtables(y) = V
  BY <1>1, <1>2, VtablesRead
<1>5. DOMAIN V = 1..n /\ \A i \in 1..n : V[i] \in Nat /\ V[i] <= Size(z)
  BY <1>1
<1>. HIDE DEF V
<1>6. \A o \in ToSet(V) : o \in Nat /\ o <= Size(z)
  BY <1>5 DEF ToSet
<1>7. ASSUME NEW o \in ToSet(V)
      PROVE  VtableAt(x, o) = VtableAt(y, o)
  <2>1. o \in Int /\ o <= Size(x)
    BY <1>3, <1>6
  <2>. QED
    BY <2>1, TwinObjects
<1>. QED
  BY <1>2, <1>4, <1>6, <1>7 DEF SameAs

LEMMA StoreCases ==
  ASSUME NEW x, NEW loc, NEW s
  PROVE  StoreVtable(x, loc, s) =
           IF SameAs(x, s) = {}
           THEN ReferAt([x EXCEPT !.v = ScratchPush(@, Scalar(Size(x), 4))],
                        loc, Size(x))
           ELSE ReferAt([x EXCEPT !.v = Pop(@, Size(x) - loc)],
                        loc, FirstIn(SameAs(x, s)))
BY DEF StoreVtable, SameAs, ReferAt, FirstIn

StoredAs(x, z, data, pad) ==
  /\ z \in Builders /\ DataOf(z) = data /\ PadOf(z) = pad /\ ~z.nested
  /\ z.fields = x.fields /\ z.maxvo = x.maxvo /\ z.finished = x.finished
  /\ z.minalign = x.minalign /\ z.force = x.force /\ z.dedup = x.dedup
  /\ z.pool = x.pool

(* The vtable stays, and the scratch pad remembers where.                  *)
LEMMA StoredNew ==
  ASSUME NEW x \in Builders, NEW s \in Seq(Byte), NEW c \in Seq(Int),
         Len(c) = 4, NEW d \in Seq(Int), DataOf(x) = s \o c \o d,
         NEW loc \in Nat, Size(x) - loc = Len(s)
  PROVE  StoredAs(x,
           ReferAt([x EXCEPT !.v = ScratchPush(@, Scalar(Size(x), 4))],
                             loc, Size(x)),
                  s \o Scalar(Size(x) - loc, 4) \o d,
                  PadOf(x) \o Scalar(Size(x), 4))
<1>. DEFINE n == Size(x)
            bytes == Scalar(n, 4)
            p == [x EXCEPT !.v = ScratchPush(@, bytes)]
            z == ReferAt(p, loc, n)
<1>1. n \in Nat /\ n \in Int /\ s \in Seq(Int)
  BY BuilderParts, ByteSeq
<1>. HIDE DEF n
<1>2. bytes \in Seq(Int)
  BY <1>1, ScalarOfFour
<1>. HIDE DEF bytes
<1>3. /\ p \in Builders /\ DataOf(p) = DataOf(x)
      /\ PadOf(p) = PadOf(x) \o bytes /\ SameRest(x, p)
  BY <1>2, PadPushed
<1>. HIDE DEF p
<1>4. Size(p) - loc = Len(s) /\ DataOf(p) = s \o c \o d
  BY <1>3, BuilderParts
<1>5. /\ z \in Builders /\ DataOf(z) = s \o Scalar(n - loc, 4) \o d
      /\ PadOf(z) = PadOf(p) /\ ~z.nested /\ z.fields = p.fields
      /\ z.maxvo = p.maxvo /\ z.finished = p.finished
      /\ z.minalign = p.minalign /\ z.force = p.force
      /\ z.dedup = p.dedup /\ z.pool = p.pool
  <2>1. /\ p \in Builders /\ s \in Seq(Int) /\ c \in Seq(Int) /\ d \in Seq(Int)
        /\ DataOf(p) = s \o c \o d /\ Len(c) = 4 /\ loc \in Int
        /\ Size(p) - loc = Len(s) /\ n \in Int
    BY <1>1, <1>3, <1>4
  <2>. QED
    <3>1. RefersTo(p, ReferAt(p, loc, n), s \o Scalar(n - loc, 4) \o d)
      BY ONLY <2>1, Referred
    <3>. QED
      BY <3>1 DEF RefersTo
<1>. HIDE DEF z
<1>6. /\ z \in Builders /\ DataOf(z) = s \o Scalar(n - loc, 4) \o d
      /\ PadOf(z) = PadOf(x) \o bytes /\ ~z.nested /\ z.fields = x.fields
      /\ z.maxvo = x.maxvo /\ z.finished = x.finished
      /\ z.minalign = x.minalign /\ z.force = x.force
      /\ z.dedup = x.dedup /\ z.pool = x.pool
  BY <1>3, <1>5 DEF SameRest
<1>. QED
  BY <1>6 DEF StoredAs, z, p, bytes, n

(* The vtable is taken back.                                               *)
LEMMA StoredAgain ==
  ASSUME NEW x \in Builders, NEW s \in Seq(Byte), NEW c \in Seq(Int),
         Len(c) = 4, NEW d \in Seq(Int), DataOf(x) = s \o c \o d,
         NEW loc \in Nat, Size(x) - loc = Len(s), NEW use \in Nat
  PROVE  StoredAs(x, ReferAt([x EXCEPT !.v = Pop(@, Size(x) - loc)], loc, use),
                  Scalar(use - loc, 4) \o d, PadOf(x))
<1>. DEFINE p == [x EXCEPT !.v = Pop(@, Len(s))]
            z == ReferAt(p, loc, use)
            cd == c \o d
            e == Scalar(use - loc, 4)
            empty == <<>>
<1>1. /\ s \in Seq(Int) /\ cd \in Seq(Int) /\ Len(cd) = 4 + Len(d)
      /\ Len(s) \in Nat /\ Len(d) \in Nat /\ Size(x) \in Nat
      /\ e \in Seq(Int) /\ empty \in Seq(Int) /\ Len(empty) = 0
  <2>1. s \in Seq(Int) /\ Len(s) \in Nat /\ Len(d) \in Nat /\ Size(x) \in Nat
    BY BuilderParts, ByteSeq, LenProperties
  <2>2. cd \in Seq(Int) /\ Len(cd) = 4 + Len(d)
    BY Concatenated
  <2>3. e \in Seq(Int)
    BY ScalarOfFour
  <2>4. empty \in Seq(Int) /\ Len(empty) = 0
    BY EmptySeq
  <2>. QED
    BY <2>1, <2>2, <2>3, <2>4
<1>2. DataOf(x) = s \o cd
  <2>1. (s \o c) \o d = s \o (c \o d)
    <3>1. s \in Seq(Int) /\ c \in Seq(Int) /\ d \in Seq(Int)
      BY <1>1
    <3>. QED
      BY ONLY <3>1, ThreeParts, Zenon
  <2>. QED
    BY <2>1
<1>3. p = [x EXCEPT !.v = Pop(@, Size(x) - loc)]
  OBVIOUS
<1>4. Size(x) = Len(s) + Len(cd)
  <2>1. Len(s \o cd) = Len(s) + Len(cd)
    BY <1>1, Concatenated
  <2>. QED
    BY <1>2, <2>1, BuilderParts
<1>5. empty \o c = c
  BY ConcatEmptySeq
<1>. HIDE DEF p, cd, empty
<1>6. /\ p \in Builders /\ DataOf(p) = cd /\ PadOf(p) = PadOf(x)
      /\ SameRest(x, p)
  BY <1>1, <1>2, PopBack DEF p
<1>7. DataOf(p) = empty \o c \o d
  BY <1>5, <1>6 DEF cd
<1>8. Size(p) - loc = Len(empty)
  <2>1. Size(p) = Len(cd)
    BY <1>6, BuilderParts
  <2>. QED
    BY <1>1, <1>4, <2>1
<1>9. /\ z \in Builders /\ DataOf(z) = empty \o e \o d
      /\ PadOf(z) = PadOf(p) /\ ~z.nested /\ z.fields = p.fields
      /\ z.maxvo = p.maxvo /\ z.finished = p.finished
      /\ z.minalign = p.minalign /\ z.force = p.force
      /\ z.dedup = p.dedup /\ z.pool = p.pool
  <2>1. /\ p \in Builders /\ empty \in Seq(Int) /\ c \in Seq(Int)
        /\ d \in Seq(Int) /\ DataOf(p) = empty \o c \o d /\ Len(c) = 4
        /\ loc \in Int /\ Size(p) - loc = Len(empty) /\ use \in Int
    BY <1>1, <1>6, <1>7, <1>8
  <2>. QED
    <3>1. RefersTo(p, ReferAt(p, loc, use),
                   empty \o Scalar(use - loc, 4) \o d)
      BY ONLY <2>1, Referred
    <3>. QED
      BY <3>1 DEF RefersTo
<1>10. empty \o e = e
  BY <1>1, ConcatEmptySeq DEF empty
<1>. HIDE DEF z, e
<1>11. /\ z \in Builders /\ DataOf(z) = e \o d
       /\ PadOf(z) = PadOf(x) /\ ~z.nested /\ z.fields = x.fields
       /\ z.maxvo = x.maxvo /\ z.finished = x.finished
       /\ z.minalign = x.minalign /\ z.force = x.force
       /\ z.dedup = x.dedup /\ z.pool = x.pool
  BY <1>6, <1>9, <1>10 DEF SameRest
<1>. QED
  BY <1>3, <1>11 DEF StoredAs, z, e

(* The offsets of vtables on the scratch pad.                              *)
OffsetsOn(pad, limit) ==
  \E n \in Nat :
    /\ Len(pad) = 4 * n
    /\ \A i \in 1..n : /\ ReadU(pad, 4 * (i - 1), 4) \in Nat
                       /\ ReadU(pad, 4 * (i - 1), 4) <= limit

LEMMA OneOffsetMore ==
  ASSUME NEW pad \in Seq(Int), NEW limit \in Nat, NEW m \in Nat, limit <= m,
         OffsetsOn(pad, limit)
  PROVE  OffsetsOn(pad \o Scalar(m, 4), m)
<1>1. PICK n \in Nat :
        /\ Len(pad) = 4 * n
        /\ \A i \in 1..n : /\ ReadU(pad, 4 * (i - 1), 4) \in Nat
                           /\ ReadU(pad, 4 * (i - 1), 4) <= limit
  BY DEF OffsetsOn
<1>. DEFINE e == Scalar(m, 4)
            q == pad \o e
            r == n + 1
<1>a. m \in Int
  OBVIOUS
<1>b. e \in Seq(Int) /\ Len(e) = 4
  BY ONLY <1>a, ScalarOfFour
<1>c. ReadU(e, 0, 4) \in Nat /\ ReadU(e, 0, 4) <= m
  BY ONLY m \in Nat, ReadBackFour
<1>2. /\ e \in Seq(Int) /\ Len(e) = 4 /\ ReadU(e, 0, 4) \in Nat
      /\ ReadU(e, 0, 4) <= m
  BY ONLY <1>b, <1>c
<1>. HIDE DEF e
<1>d. Len(pad \o e) = Len(pad) + Len(e)
  BY ONLY pad \in Seq(Int), <1>b, Concatenated
<1>3. Len(q) = 4 * r /\ r \in Nat
  BY ONLY <1>1, <1>b, <1>d DEF q, r
<1>4. ASSUME NEW i \in 1..r
      PROVE  ReadU(q, 4 * (i - 1), 4) \in Nat /\ ReadU(q, 4 * (i - 1), 4) <= m
  <2>. DEFINE at == 4 * (i - 1)
  <2>1. CASE i = r
    <3>1. /\ at \in Nat /\ Len(pad) <= at
          /\ at - Len(pad) = 0 /\ 4 \in {1, 2, 4, 8}
      BY <1>1, <2>1
    <3>. HIDE DEF at
    <3>2. ReadU(pad \o e, at, 4) = ReadU(e, at - Len(pad), 4)
      BY ONLY pad \in Seq(Int), <1>2, <3>1, BackRead
    <3>3. ReadU(q, at, 4) = ReadU(e, 0, 4)
      BY ONLY <3>1, <3>2 DEF q
    <3>. QED
      BY <1>2, <3>3 DEF at
  <2>2. CASE i # r
    <3>1. /\ i \in 1..n /\ at \in Nat
          /\ at + 4 <= Len(pad) /\ 4 \in {1, 2, 4, 8}
      BY <1>1, <2>2
    <3>2. ReadU(pad, at, 4) \in Nat /\ ReadU(pad, at, 4) <= limit
      BY <1>1, <3>1
    <3>. HIDE DEF at
    <3>3. ReadU(pad \o e, at, 4) = ReadU(pad, at, 4)
      BY ONLY pad \in Seq(Int), <1>2, <3>1, FrontRead
    <3>. HIDE DEF q
    <3>4. ReadU(q, at, 4) = ReadU(pad, at, 4)
      BY <3>3 DEF q
    <3>. QED
      BY <3>2, <3>4 DEF at
  <2>. QED
    BY <2>1, <2>2
<1>. HIDE DEF q, r
<1>5. OffsetsOn(q, m)
  BY <1>3, <1>4 DEF OffsetsOn
<1>. QED
  BY <1>5 DEF q, e

LEMMA SoundParts ==
  ASSUME NEW x \in Builders, ~x.nested, x.fields = 0, x.maxvo = 0,
         \A o \in x.pool : o <= Size(x), OffsetsOn(PadOf(x), Size(x))
  PROVE  Sound(x)
BY DEF Sound, OffsetsOn

(* o is one of them.                                                       *)
OnPad(pad, o) ==
  \E n \in Nat : /\ Len(pad) = 4 * n
                 /\ \E i \in 1..n : ReadU(pad, 4 * (i - 1), 4) = o

(* A table of which everything is written but where its vtable is.         *)
Ended(z, x, s, c, pre, loc) ==
  /\ Sound(z) /\ x \in Builders /\ PadOf(x) = PadOf(z)
  /\ x.fields = 0 /\ x.maxvo = 0 /\ x.pool = z.pool
  /\ x.finished = z.finished /\ x.dedup = z.dedup
  /\ s \in Seq(Byte) /\ c \in Seq(Int) /\ Len(c) = 4 /\ pre \in Seq(Byte)
  /\ DataOf(x) = s \o c \o (pre \o DataOf(z))
  /\ loc = 4 + (Len(pre) + Size(z))

(* The vtable is none of those written before, or one of them is used.     *)
NewlyStored(z, r, s, pre) ==
  /\ DataOf(r) = s \o Scalar(Len(s), 4) \o (pre \o DataOf(z))
  /\ PadOf(r) = PadOf(z) \o Scalar(Size(r), 4)
  /\ z.dedup => \A o \in Nat : OnPad(PadOf(z), o) =>
                   EntriesOf(DataOf(z), Size(z) - o) # s

StoredBefore(z, r, s, pre, loc, use) ==
  /\ use \in Nat /\ use <= Size(z)
  /\ EntriesOf(DataOf(z), Size(z) - use) = s
  /\ DataOf(r) = Scalar(use - loc, 4) \o (pre \o DataOf(z))
  /\ PadOf(r) = PadOf(z) /\ OnPad(PadOf(z), use)

Stored(z, r, s, pre, loc) ==
  /\ Sound(r) /\ Adds(z, r) /\ r.finished = z.finished
  /\ r.pool = z.pool /\ r.dedup = z.dedup
  /\ \/ NewlyStored(z, r, s, pre)
     \/ \E use \in Nat : StoredBefore(z, r, s, pre, loc, use)

LEMMA EndedSizes ==
  ASSUME NEW z, NEW x, NEW s, NEW c, NEW pre, NEW loc,
         Ended(z, x, s, c, pre, loc)
  PROVE  /\ z \in Builders /\ x \in Builders /\ DataOf(z) \in Seq(Int)
         /\ s \in Seq(Int) /\ pre \in Seq(Int) /\ c \in Seq(Int)
         /\ pre \o DataOf(z) \in Seq(Int)
         /\ loc \in Nat /\ Size(x) - loc = Len(s) /\ Len(s) \in Nat
         /\ Size(z) \in Nat /\ Size(x) \in Nat /\ Size(z) <= loc
         /\ Len(pre) \in Nat /\ Size(z) = Len(DataOf(z))
<1>. DEFINE d == pre \o DataOf(z)
            sc == s \o c
<1>1. z \in Builders /\ x \in Builders /\ DataOf(x) = sc \o d
      /\ loc = 4 + (Len(pre) + Size(z)) /\ Len(c) = 4
  BY DEF Ended, Sound
<1>2. /\ DataOf(z) \in Seq(Int) /\ Size(z) \in Nat /\ Size(x) \in Nat
      /\ Size(z) = Len(DataOf(z)) /\ Size(x) = Len(DataOf(x))
  BY <1>1, BuilderParts
<1>3. s \in Seq(Int) /\ pre \in Seq(Int) /\ c \in Seq(Int)
  BY ByteSeq DEF Ended
<1>4. Len(s) \in Nat /\ Len(pre) \in Nat
  BY <1>3, LenProperties
<1>5. d \in Seq(Int) /\ Len(d) = Len(pre) + Size(z)
  BY <1>2, <1>3, Concatenated
<1>6. sc \in Seq(Int) /\ Len(sc) = Len(s) + Len(c)
  BY <1>3, Concatenated
<1>. HIDE DEF d, sc
<1>7. Len(sc \o d) = Len(sc) + Len(d)
  BY <1>5, <1>6, Concatenated
<1>8. /\ loc \in Nat /\ Size(x) - loc = Len(s) /\ Size(z) <= loc
  BY <1>1, <1>2, <1>4, <1>5, <1>6, <1>7
<1>. QED
  BY <1>1, <1>2, <1>3, <1>4, <1>5, <1>8 DEF d

LEMMA OffsetsBelow ==
  ASSUME NEW pad, NEW limit \in Nat, NEW m \in Nat, limit <= m,
         OffsetsOn(pad, limit)
  PROVE  OffsetsOn(pad, m)
<1>1. PICK n \in Nat :
        /\ Len(pad) = 4 * n
        /\ \A i \in 1..n : /\ ReadU(pad, 4 * (i - 1), 4) \in Nat
                           /\ ReadU(pad, 4 * (i - 1), 4) <= limit
  BY DEF OffsetsOn
<1>2. \A i \in 1..n : /\ ReadU(pad, 4 * (i - 1), 4) \in Nat
                      /\ ReadU(pad, 4 * (i - 1), 4) <= m
  BY <1>1
<1>. QED
  BY <1>1, <1>2 DEF OffsetsOn

LEMMA SoundOffsets ==
  ASSUME NEW x, Sound(x)
  PROVE  OffsetsOn(PadOf(x), Size(x))
BY DEF Sound, OffsetsOn

(* A vtable that is in the data is still there behind what was added.      *)
LEMMA EntriesStay ==
  ASSUME NEW a \in Seq(Int), NEW d \in Seq(Int), NEW at \in Nat
  PROVE  EntriesOf(a \o d, Len(a) + at) = EntriesOf(d, at)
<1>. DEFINE s == a \o d
            n == ReadU(d, at, 2)
<1>1. IsTail(s, d, Len(a)) /\ 2 \in {1, 2, 4, 8} /\ 2 \in {2, 4} /\ at \in Int
  BY Concatenated
<1>2. ReadU(s, Len(a) + at, 2) = n
  BY <1>1, TailReads
<1>3. n \in Int
  BY <1>1, ReadType
<1>. HIDE DEF s, n
<1>4. Bytes(s, Len(a) + at, n) = Bytes(d, at, n)
  BY <1>1, <1>3, TailBytes
<1>. QED
  BY <1>2, <1>4 DEF EntriesOf, s, n

LEMMA VtablesOnPad ==
  ASSUME NEW x \in Builders, x.fields = 0, NEW limit,
         OffsetsOn(PadOf(x), limit), NEW o
  PROVE  o \in ToSet(Vtables(x)) <=> OnPad(PadOf(x), o)
<1>1. PICK n \in Nat : Len(PadOf(x)) = 4 * n
  BY DEF OffsetsOn
<1>2. \A m \in Nat : Len(PadOf(x)) = 4 * m => m = n
  BY <1>1
<1>. DEFINE V == [i \in 1..n |-> ReadU(PadOf(x), 4 * (i - 1), 4)]
<1>3. Vtables(x) = V
  BY <1>1, VtablesRead
<1>4. o \in ToSet(V) <=> \E i \in 1..n : ReadU(PadOf(x), 4 * (i - 1), 4) = o
  BY DEF ToSet
<1>5. OnPad(PadOf(x), o)
        <=> \E i \in 1..n : ReadU(PadOf(x), 4 * (i - 1), 4) = o
  BY <1>1, <1>2 DEF OnPad
<1>. QED
  BY <1>3, <1>4, <1>5

(* The vtables written before are where they were.                         *)
LEMMA EndedEntries ==
  ASSUME NEW z, NEW x, NEW s, NEW c, NEW pre, NEW loc,
         Ended(z, x, s, c, pre, loc), NEW use \in Nat, use <= Size(z)
  PROVE  VtableAt(x, use) = EntriesOf(DataOf(z), Size(z) - use)
<1>. DEFINE d == pre \o DataOf(z)
            sc == s \o c
            a == sc \o pre
            at == Size(z) - use
<1>1. /\ x \in Builders /\ DataOf(z) \in Seq(Int)
      /\ s \in Seq(Int) /\ pre \in Seq(Int) /\ c \in Seq(Int)
      /\ d \in Seq(Int) /\ Size(z) \in Nat /\ Size(z) = Len(DataOf(z))
  BY EndedSizes
<1>2. DataOf(x) = sc \o d
  BY DEF Ended
<1>3. sc \in Seq(Int)
  BY <1>1, Concatenated
<1>. HIDE DEF sc
<1>4. a \in Seq(Int)
  BY <1>1, <1>3, Concatenated
<1>5. (sc \o pre) \o DataOf(z) = sc \o (pre \o DataOf(z))
  <2>1. sc \in Seq(Int) /\ pre \in Seq(Int) /\ DataOf(z) \in Seq(Int)
    BY <1>1, <1>3
  <2>. QED
    BY ONLY <2>1, ThreeParts, Zenon
<1>6. DataOf(x) = a \o DataOf(z)
  BY <1>2, <1>5
<1>. HIDE DEF a, d
<1>7. Size(x) = Len(a) + Size(z) /\ Len(a) \in Nat
  <2>1. Len(a \o DataOf(z)) = Len(a) + Len(DataOf(z))
    BY <1>1, <1>4, Concatenated
  <2>2. Size(x) = Len(DataOf(x))
    BY <1>1, BuilderParts
  <2>3. Len(a) \in Nat
    BY <1>4, LenProperties
  <2>. QED
    BY <1>1, <1>6, <2>1, <2>2, <2>3
<1>8. at \in Nat /\ Size(x) - use = Len(a) + at
  BY <1>1, <1>7
<1>. HIDE DEF at
<1>9. EntriesOf(a \o DataOf(z), Len(a) + at) = EntriesOf(DataOf(z), at)
  <2>1. a \in Seq(Int) /\ DataOf(z) \in Seq(Int) /\ at \in Nat
    BY <1>1, <1>4, <1>8
  <2>. QED
    BY ONLY <2>1, EntriesStay
<1>10. VtableAt(x, use) = EntriesOf(DataOf(x), Size(x) - use)
  <2>1. x \in Builders /\ use \in Int /\ use <= Size(x)
    BY <1>1, <1>7
  <2>. QED
    BY ONLY <2>1, ObjectReads
<1>. QED
  BY <1>6, <1>8, <1>9, <1>10 DEF at

LEMMA EndedTwins ==
  ASSUME NEW z, NEW x, NEW s, NEW c, NEW pre, NEW loc,
         Ended(z, x, s, c, pre, loc), NEW y, Twins(x, y)
  PROVE  /\ y \in Builders /\ Ended(z, y, s, c, pre, loc)
         /\ Size(x) = Size(y) /\ SameAs(x, s) = SameAs(y, s)
         /\ SameAs(x, s) \in SUBSET Nat
         /\ \A o \in SameAs(x, s) : o <= Size(z) /\ VtableAt(x, o) = s
<1>1. /\ y \in Builders /\ DataOf(y) = DataOf(x) /\ PadOf(y) = PadOf(x)
      /\ SameRest(x, y) /\ Size(x) = Size(y)
  BY TwinParts
<1>2. Ended(z, y, s, c, pre, loc)
  BY <1>1 DEF Ended, SameRest
<1>3. Sound(z) /\ PadOf(x) = PadOf(z) /\ x.fields = 0 /\ Size(z) <= Size(x)
  <2>1. Size(z) <= Size(x)
    BY EndedSizes
  <2>. QED
    BY <2>1 DEF Ended
<1>. QED
  BY <1>1, <1>2, <1>3, SameVtables

LEMMA TwoStored ==
  ASSUME NEW z, NEW x, NEW s, NEW c, NEW pre, NEW loc,
         Ended(z, x, s, c, pre, loc), NEW y, Twins(x, y),
         NEW r, NEW q, NEW data, NEW pad,
         StoredAs(x, r, data, pad), StoredAs(y, q, data, pad),
         OffsetsOn(pad, Size(r)), Adds(z, r)
  PROVE  /\ Twins(r, q) /\ Sound(r) /\ Adds(z, r) /\ r.finished = z.finished
         /\ r.pool = z.pool /\ r.dedup = z.dedup
<1>0. /\ r \in Builders /\ DataOf(r) = data /\ PadOf(r) = pad /\ ~r.nested
      /\ r.fields = x.fields /\ r.maxvo = x.maxvo /\ r.finished = x.finished
      /\ r.minalign = x.minalign /\ r.force = x.force /\ r.dedup = x.dedup
      /\ r.pool = x.pool
  BY DEF StoredAs
<1>a. /\ q \in Builders /\ DataOf(q) = data /\ PadOf(q) = pad /\ ~q.nested
      /\ q.fields = y.fields /\ q.maxvo = y.maxvo /\ q.finished = y.finished
      /\ q.minalign = y.minalign /\ q.force = y.force /\ q.dedup = y.dedup
      /\ q.pool = y.pool
  BY DEF StoredAs
<1>1. SameRest(x, y)
  BY TwinParts
<1>2. r.nested = q.nested
  BY <1>0, <1>a, BuilderParts
<1>3. SameRest(r, q)
  BY <1>0, <1>a, <1>1, <1>2 DEF SameRest
<1>4. Twins(r, q)
  BY <1>0, <1>a, <1>3 DEF Twins
<1>5. /\ x.fields = 0 /\ x.maxvo = 0 /\ x.pool = z.pool
      /\ x.finished = z.finished /\ x.dedup = z.dedup /\ Sound(z)
  BY DEF Ended
<1>6. \A o \in r.pool : o <= Size(r)
  <2>1. z \in Builders /\ \A o \in z.pool : o <= Size(z)
    BY <1>5 DEF Sound
  <2>2. Size(z) <= Size(r) /\ Size(z) \in Nat /\ Size(r) \in Nat
    BY <1>0, <2>1, AddsSize, BuilderParts
  <2>3. z.pool \in SUBSET Int /\ r.pool = z.pool
    BY <1>0, <1>5, <2>1, BuilderParts
  <2>. QED
    BY <2>1, <2>2, <2>3
<1>7. Sound(r)
  <2>1. r.fields = 0 /\ r.maxvo = 0
    BY <1>0, <1>5
  <2>. QED
    BY <1>0, <1>6, <2>1, SoundParts
<1>. QED
  BY <1>0, <1>4, <1>5, <1>7

LEMMA EndedOnPad ==
  ASSUME NEW z, NEW x, NEW s, NEW c, NEW pre, NEW loc,
         Ended(z, x, s, c, pre, loc), NEW o
  PROVE  /\ o \in ToSet(Vtables(x)) <=> OnPad(PadOf(z), o)
         /\ OnPad(PadOf(z), o) => o <= Size(z)
<1>1. /\ x \in Builders /\ x.fields = 0 /\ PadOf(x) = PadOf(z)
      /\ OffsetsOn(PadOf(z), Size(z))
  BY SoundOffsets DEF Ended
<1>2. o \in ToSet(Vtables(x)) <=> OnPad(PadOf(x), o)
  BY <1>1, VtablesOnPad
<1>3. ASSUME OnPad(PadOf(z), o)
      PROVE  o <= Size(z)
  <2>1. PICK n \in Nat :
         /\ Len(PadOf(z)) = 4 * n
         /\ \A i \in 1..n : /\ ReadU(PadOf(z), 4 * (i - 1), 4) \in Nat
                            /\ ReadU(PadOf(z), 4 * (i - 1), 4) <= Size(z)
    BY <1>1 DEF OffsetsOn
  <2>2. PICK m \in Nat :
         /\ Len(PadOf(z)) = 4 * m
         /\ \E i \in 1..m : ReadU(PadOf(z), 4 * (i - 1), 4) = o
    BY <1>3 DEF OnPad
  <2>3. m = n
    BY <2>1, <2>2
  <2>. QED
    BY <2>1, <2>2, <2>3
<1>. QED
  BY <1>1, <1>2, <1>3

LEMMA StoredThere ==
  ASSUME NEW z, NEW x, NEW s, NEW c, NEW pre, NEW loc,
         Ended(z, x, s, c, pre, loc), NEW y, Twins(x, y), SameAs(x, s) = {}
  PROVE  /\ Twins(StoreVtable(x, loc, s), StoreVtable(y, loc, s))
         /\ Stored(z, StoreVtable(x, loc, s), s, pre, loc)
<1>. DEFINE d == pre \o DataOf(z)
            n == Size(x)
            e == Scalar(Len(s), 4)
            u == Scalar(n, 4)
            r == ReferAt([x EXCEPT !.v = ScratchPush(@, Scalar(Size(x), 4))],
                         loc, Size(x))
            q == ReferAt([y EXCEPT !.v = ScratchPush(@, Scalar(Size(y), 4))],
                         loc, Size(y))
            data == s \o e \o d
            pad == PadOf(z) \o u
<1>1. /\ z \in Builders /\ x \in Builders /\ DataOf(z) \in Seq(Int)
      /\ s \in Seq(Int) /\ pre \in Seq(Int) /\ c \in Seq(Int)
      /\ d \in Seq(Int)
      /\ loc \in Nat /\ Size(x) - loc = Len(s) /\ Len(s) \in Nat
      /\ Size(z) \in Nat /\ Size(x) \in Nat /\ Size(z) <= loc
  BY EndedSizes
<1>2. /\ y \in Builders /\ Ended(z, y, s, c, pre, loc)
      /\ Size(x) = Size(y) /\ SameAs(y, s) = {}
  BY EndedTwins
<1>3. /\ s \in Seq(Byte) /\ c \in Seq(Int) /\ Len(c) = 4 /\ pre \in Seq(Byte)
      /\ DataOf(x) = s \o c \o d /\ DataOf(y) = s \o c \o d
      /\ PadOf(x) = PadOf(z) /\ PadOf(y) = PadOf(z) /\ Sound(z)
  BY <1>2 DEF Ended
<1>4. StoreVtable(x, loc, s) = r /\ StoreVtable(y, loc, s) = q
  BY <1>2, StoreCases
<1>5. StoredAs(x, r, data, pad)
  <2>1. /\ x \in Builders /\ s \in Seq(Byte) /\ c \in Seq(Int) /\ Len(c) = 4
        /\ d \in Seq(Int) /\ DataOf(x) = s \o c \o d /\ loc \in Nat
        /\ Size(x) - loc = Len(s)
    BY <1>1, <1>3
  <2>. HIDE DEF d
  <2>2. StoredAs(x, r, s \o Scalar(Size(x) - loc, 4) \o d,
                 PadOf(x) \o Scalar(Size(x), 4))
    BY ONLY <2>1, StoredNew
  <2>. HIDE DEF r
  <2>. QED
    BY <1>1, <1>2, <1>3, <2>2
<1>6. StoredAs(y, q, data, pad)
  <2>1. /\ y \in Builders /\ s \in Seq(Byte) /\ c \in Seq(Int) /\ Len(c) = 4
        /\ d \in Seq(Int) /\ DataOf(y) = s \o c \o d /\ loc \in Nat
        /\ Size(y) - loc = Len(s)
    BY <1>1, <1>2, <1>3
  <2>. HIDE DEF d
  <2>2. StoredAs(y, q, s \o Scalar(Size(y) - loc, 4) \o d,
                 PadOf(y) \o Scalar(Size(y), 4))
    BY ONLY <2>1, StoredNew
  <2>. HIDE DEF q
  <2>. QED
    BY <1>1, <1>2, <1>3, <2>2
<1>. HIDE DEF r, q
<1>c. r \in Builders /\ DataOf(r) = data
  BY <1>5 DEF StoredAs
<1>7. e \in Seq(Byte) /\ e \in Seq(Int) /\ Len(e) = 4
  <2>1. Len(s) \in Int
    BY <1>1
  <2>. QED
    BY ONLY <2>1, ScalarOfFour
<1>. HIDE DEF e
<1>8. Adds(z, r)
  <2>. DEFINE se == s \o e
              new == se \o pre
  <2>1. se \in Seq(Byte) /\ se \in Seq(Int)
    BY <1>3, <1>7, ByteSeq
  <2>. HIDE DEF se
  <2>2. new \in Seq(Byte)
    BY <1>3, <2>1
  <2>3. se \in Seq(Int) /\ pre \in Seq(Int) /\ DataOf(z) \in Seq(Int)
    BY <1>1, <2>1
  <2>4. (se \o pre) \o DataOf(z) = se \o (pre \o DataOf(z))
    BY ONLY <2>3, ThreeParts, Zenon
  <2>5. DataOf(r) = new \o DataOf(z)
    BY <1>c, <2>4 DEF se
  <2>. QED
    BY <2>2, <2>5 DEF Adds
<1>9. Size(r) = Size(x)
  <2>. DEFINE se == s \o e
              sc == s \o c
  <2>1. se \in Seq(Int) /\ Len(se) = Len(s) + 4
    <3>1. s \in Seq(Int) /\ e \in Seq(Int)
      BY <1>1, <1>7
    <3>2. s \o e \in Seq(Int) /\ Len(s \o e) = Len(s) + Len(e)
      BY ONLY <3>1, Concatenated
    <3>. QED
      BY <1>7, <3>2
  <2>2. sc \in Seq(Int) /\ Len(sc) = Len(s) + 4
    <3>1. s \in Seq(Int) /\ c \in Seq(Int)
      BY <1>1, <1>3
    <3>2. s \o c \in Seq(Int) /\ Len(s \o c) = Len(s) + Len(c)
      BY ONLY <3>1, Concatenated
    <3>. QED
      BY <1>3, <3>2
  <2>. HIDE DEF d, se, sc
  <2>3. Len(se \o d) = Len(se) + Len(d) /\ Len(sc \o d) = Len(sc) + Len(d)
    BY <1>1, <2>1, <2>2, Concatenated
  <2>4. Size(r) = Len(se \o d) /\ Size(x) = Len(sc \o d)
    BY <1>1, <1>3, <1>c, BuilderParts DEF se, sc
  <2>. QED
    BY <2>1, <2>2, <2>3, <2>4
<1>10. OffsetsOn(pad, Size(r))
  <2>1. /\ PadOf(z) \in Seq(Int) /\ Size(z) \in Nat /\ n \in Nat
        /\ Size(z) <= n /\ OffsetsOn(PadOf(z), Size(z))
    <3>1. Size(z) <= n
      BY <1>1
    <3>. QED
      BY <1>1, <1>3, <3>1, BuilderParts, SoundOffsets
  <2>. HIDE DEF n
  <2>2. OffsetsOn(PadOf(z) \o Scalar(n, 4), n)
    BY ONLY <2>1, OneOffsetMore
  <2>. QED
    BY <1>9, <2>2 DEF n
<1>. HIDE DEF data, pad
<1>11. /\ Twins(r, q) /\ Sound(r) /\ Adds(z, r) /\ r.finished = z.finished
       /\ r.pool = z.pool /\ r.dedup = z.dedup
  BY <1>5, <1>6, <1>8, <1>10, TwoStored
<1>12. ASSUME z.dedup, NEW o \in Nat, OnPad(PadOf(z), o)
       PROVE  EntriesOf(DataOf(z), Size(z) - o) # s
  <2>1. o \in ToSet(Vtables(x)) /\ o <= Size(z)
    BY <1>1, <1>3, <1>12, EndedOnPad
  <2>2. VtableAt(x, o) = EntriesOf(DataOf(z), Size(z) - o)
    BY <2>1, EndedEntries
  <2>3. x.dedup
    BY <1>12 DEF Ended
  <2>. QED
    BY <2>1, <2>2, <2>3 DEF SameAs
<1>13. PadOf(r) = PadOf(z) \o Scalar(Size(r), 4)
  BY <1>5, <1>9 DEF StoredAs, pad, u, n
<1>14. NewlyStored(z, r, s, pre)
  BY <1>c, <1>12, <1>13 DEF NewlyStored, data, d, e
<1>. QED
  BY <1>4, <1>11, <1>14 DEF Stored

LEMMA StoredAlready ==
  ASSUME NEW z, NEW x, NEW s, NEW c, NEW pre, NEW loc,
         Ended(z, x, s, c, pre, loc), NEW y, Twins(x, y), SameAs(x, s) # {}
  PROVE  /\ Twins(StoreVtable(x, loc, s), StoreVtable(y, loc, s))
         /\ Stored(z, StoreVtable(x, loc, s), s, pre, loc)
<1>. DEFINE d == pre \o DataOf(z)
            use == FirstIn(SameAs(x, s))
            e == Scalar(use - loc, 4)
            r == ReferAt([x EXCEPT !.v = Pop(@, Size(x) - loc)], loc, use)
            q == ReferAt([y EXCEPT !.v = Pop(@, Size(y) - loc)], loc, use)
            data == e \o d
            pad == PadOf(z)
<1>1. /\ z \in Builders /\ x \in Builders /\ DataOf(z) \in Seq(Int)
      /\ s \in Seq(Int) /\ pre \in Seq(Int) /\ c \in Seq(Int)
      /\ d \in Seq(Int)
      /\ loc \in Nat /\ Size(x) - loc = Len(s) /\ Len(s) \in Nat
      /\ Size(z) \in Nat /\ Size(x) \in Nat /\ Size(z) <= loc
      /\ Size(z) = Len(DataOf(z))
  BY EndedSizes
<1>2. /\ y \in Builders /\ Ended(z, y, s, c, pre, loc)
      /\ Size(x) = Size(y) /\ SameAs(y, s) = SameAs(x, s)
      /\ SameAs(x, s) \in SUBSET Nat
      /\ \A o \in SameAs(x, s) : o <= Size(z) /\ VtableAt(x, o) = s
  BY EndedTwins
<1>3. /\ s \in Seq(Byte) /\ c \in Seq(Int) /\ Len(c) = 4 /\ pre \in Seq(Byte)
      /\ DataOf(x) = s \o c \o d /\ DataOf(y) = s \o c \o d
      /\ PadOf(x) = PadOf(z) /\ PadOf(y) = PadOf(z) /\ Sound(z)
  BY <1>2 DEF Ended
<1>4. StoreVtable(x, loc, s) = r /\ StoreVtable(y, loc, s) = q
  BY <1>2, StoreCases
<1>a. use \in SameAs(x, s)
  BY <1>2, FirstFound
<1>b. use \in Nat /\ use <= Size(z) /\ VtableAt(x, use) = s
  BY <1>2, <1>a
<1>. HIDE DEF use
<1>5. StoredAs(x, r, data, pad)
  <2>1. /\ x \in Builders /\ s \in Seq(Byte) /\ c \in Seq(Int) /\ Len(c) = 4
        /\ d \in Seq(Int) /\ DataOf(x) = s \o c \o d /\ loc \in Nat
        /\ Size(x) - loc = Len(s) /\ use \in Nat
    BY <1>1, <1>3, <1>b
  <2>. HIDE DEF d
  <2>2. StoredAs(x, r, Scalar(use - loc, 4) \o d, PadOf(x))
    BY ONLY <2>1, StoredAgain
  <2>. HIDE DEF r
  <2>. QED
    BY <1>1, <1>2, <1>3, <2>2
<1>6. StoredAs(y, q, data, pad)
  <2>1. /\ y \in Builders /\ s \in Seq(Byte) /\ c \in Seq(Int) /\ Len(c) = 4
        /\ d \in Seq(Int) /\ DataOf(y) = s \o c \o d /\ loc \in Nat
        /\ Size(y) - loc = Len(s) /\ use \in Nat
    BY <1>1, <1>2, <1>3, <1>b
  <2>. HIDE DEF d
  <2>2. StoredAs(y, q, Scalar(use - loc, 4) \o d, PadOf(y))
    BY ONLY <2>1, StoredAgain
  <2>. HIDE DEF q
  <2>. QED
    BY <1>1, <1>2, <1>3, <2>2
<1>. HIDE DEF r, q
<1>c. r \in Builders /\ DataOf(r) = data
  BY <1>5 DEF StoredAs
<1>7. e \in Seq(Byte) /\ e \in Seq(Int) /\ Len(e) = 4
  <2>1. use - loc \in Int
    BY <1>1, <1>b
  <2>. QED
    BY ONLY <2>1, ScalarOfFour
<1>. HIDE DEF e
<1>8. Adds(z, r)
  <2>. DEFINE new == e \o pre
  <2>2. new \in Seq(Byte)
    BY <1>3, <1>7
  <2>3. e \in Seq(Int) /\ pre \in Seq(Int) /\ DataOf(z) \in Seq(Int)
    BY <1>1, <1>7
  <2>4. (e \o pre) \o DataOf(z) = e \o (pre \o DataOf(z))
    BY ONLY <2>3, ThreeParts, Zenon
  <2>5. DataOf(r) = new \o DataOf(z)
    BY <1>c, <2>4
  <2>. QED
    BY <2>2, <2>5 DEF Adds
<1>10. OffsetsOn(pad, Size(r))
  <2>1. Size(z) <= Size(r) /\ Size(r) \in Nat
    BY <1>1, <1>c, <1>8, AddsSize, BuilderParts
  <2>2. OffsetsOn(PadOf(z), Size(z))
    BY <1>3, SoundOffsets
  <2>. QED
    BY <1>1, <2>1, <2>2, OffsetsBelow
<1>11. /\ Twins(r, q) /\ Sound(r) /\ Adds(z, r) /\ r.finished = z.finished
       /\ r.pool = z.pool /\ r.dedup = z.dedup
  <2>. HIDE DEF data, pad
  <2>. QED
    BY <1>5, <1>6, <1>8, <1>10, TwoStored
<1>12. EntriesOf(DataOf(z), Size(z) - use) = s
  BY <1>b, EndedEntries
<1>d. OnPad(PadOf(z), use) /\ PadOf(r) = PadOf(z)
  <2>1. use \in ToSet(Vtables(x))
    BY <1>a DEF SameAs
  <2>. QED
    BY <1>5, <2>1, EndedOnPad DEF StoredAs
<1>13. StoredBefore(z, r, s, pre, loc, use)
  BY <1>c, <1>b, <1>d, <1>12 DEF StoredBefore, data, d, e
<1>. QED
  BY <1>4, <1>11, <1>13, <1>b DEF Stored

LEMMA TableStored ==
  ASSUME NEW z, NEW x, NEW s, NEW c, NEW pre, NEW loc,
         Ended(z, x, s, c, pre, loc), NEW y, Twins(x, y)
  PROVE  /\ Twins(StoreVtable(x, loc, s), StoreVtable(y, loc, s))
         /\ Stored(z, StoreVtable(x, loc, s), s, pre, loc)
BY StoredThere, StoredAlready

(* The offset of the vtable is pushed, zero for the time being.            *)
Zero == Scalar(0, 4)

LEMMA ZeroPushed ==
  ASSUME NEW z, NEW x, NEW fs, NEW room, Within(z, x, fs, room),
         NEW y, Twins(x, y), NEW p, p = PushElement(x, Zero),
         NEW q, q = PushElement(y, Zero)
  PROVE  /\ Twins(p, q) /\ Grows(x, p) /\ p.nested = x.nested
         /\ p \in Builders /\ q \in Builders
         /\ Size(x) + 4 <= Size(p) /\ Size(p) <= Size(x) + 7
         /\ \E pre \in Seq(Byte) :
              /\ DataOf(p) = Zero \o (pre \o DataOf(z))
              /\ Size(p) = 4 + (Len(pre) + Size(z))
<1>. DEFINE n == PaddingBytes(Size(x), 4)
            zs == Zeros(n)
<1>1. /\ x \in Builders /\ z \in Builders /\ Adds(z, x)
      /\ DataOf(z) \in Seq(Int) /\ DataOf(x) \in Seq(Int)
      /\ Size(x) \in Nat /\ Size(z) \in Nat /\ Size(z) = Len(DataOf(z))
      /\ Size(x) = Len(DataOf(x))
  BY BuilderParts DEF Within
<1>2. Zero \in Seq(Byte) /\ Zero \in Seq(Int) /\ Len(Zero) = 4
  <2>1. 0 \in Int
    OBVIOUS
  <2>. QED
    BY <2>1, ScalarOfFour DEF Zero
<1>3. n \in Nat /\ n < 4
  BY <1>1, Padding
<1>4. /\ Twins(p, q) /\ Grows(x, p) /\ p.nested = x.nested
      /\ Size(p) = 4 + (n + Size(x))
      /\ DataOf(p) = Zero \o (zs \o DataOf(x))
  <2>1. Len(Zero) # 0
    BY <1>2
  <2>2. /\ Twins(p, q) /\ Grows(x, p) /\ p.nested = x.nested
        /\ Size(p) = Len(Zero) + (PaddingBytes(Size(x), Len(Zero)) + Size(x))
        /\ DataOf(p) = Zero
             \o (Zeros(PaddingBytes(Size(x), Len(Zero))) \o DataOf(x))
    BY <1>2, <2>1, TwinPushElement
  <2>. QED
    BY <1>2, <2>2
<1>5. PICK new \in Seq(Byte) : DataOf(x) = new \o DataOf(z)
  BY <1>1 DEF Adds
<1>6. zs \in Seq(Byte) /\ Len(zs) = n /\ zs \in Seq(Int)
  BY <1>3, ZeroBytes
<1>. HIDE DEF n, zs
<1>7. new \in Seq(Int)
  BY <1>5, ByteSeq
<1>. DEFINE pre == zs \o new
<1>8. pre \in Seq(Byte) /\ pre \in Seq(Int)
  BY <1>5, <1>6, ByteSeq
<1>9. Len(pre) = n + Len(new)
  <2>1. zs \in Seq(Int) /\ new \in Seq(Int)
    BY <1>6, <1>7
  <2>2. Len(zs \o new) = Len(zs) + Len(new)
    BY ONLY <2>1, Concatenated
  <2>. QED
    BY <1>6, <2>2
<1>10. Size(x) = Len(new) + Size(z) /\ Len(new) \in Nat
  <2>1. new \in Seq(Int) /\ DataOf(z) \in Seq(Int)
    BY <1>1, <1>7
  <2>2. Len(new \o DataOf(z)) = Len(new) + Len(DataOf(z))
    BY ONLY <2>1, Concatenated
  <2>3. Len(new) \in Nat
    BY <1>7, LenProperties
  <2>. QED
    BY <1>1, <1>5, <2>2, <2>3
<1>11. (zs \o new) \o DataOf(z) = zs \o (new \o DataOf(z))
  <2>1. zs \in Seq(Int) /\ new \in Seq(Int) /\ DataOf(z) \in Seq(Int)
    BY <1>1, <1>6, <1>7
  <2>. QED
    BY ONLY <2>1, ThreeParts, Zenon
<1>12. DataOf(p) = Zero \o (pre \o DataOf(z))
  BY <1>4, <1>5, <1>11
<1>. HIDE DEF pre
<1>13. Size(p) = 4 + (Len(pre) + Size(z))
  BY <1>1, <1>3, <1>4, <1>9, <1>10
<1>14. p \in Builders /\ q \in Builders
  BY <1>4 DEF Twins
<1>15. Size(x) + 4 <= Size(p) /\ Size(p) <= Size(x) + 7
  BY <1>1, <1>3, <1>4
<1>. QED
  BY <1>4, <1>8, <1>12, <1>13, <1>14, <1>15

(* The vtable is pushed and the places of the fields are forgotten.        *)
VtableOn(z, p, s, pre) ==
  LET e == ClearOffsets(PushBytes(p, s))
  IN  /\ Ended(z, e, s, Zero, pre, Size(p)) /\ e \in Builders
      /\ e.minalign = p.minalign /\ e.nested = p.nested
      /\ e.force = p.force /\ e.dedup = p.dedup

LEMMA VtablePushed ==
  ASSUME NEW z, Sound(z), NEW x, NEW fs \in SUBSET Fields, NEW room \in Nat,
         Within(z, x, fs, room), NEW p, Grows(x, p),
         NEW pre \in Seq(Byte), DataOf(p) = Zero \o (pre \o DataOf(z)),
         Size(p) = 4 + (Len(pre) + Size(z)),
         NEW s \in Seq(Byte)
  PROVE  VtableOn(z, p, s, pre)
<1>1. /\ x \in Builders /\ z \in Builders /\ p \in Builders
      /\ PadOf(z) \in Seq(Int) /\ DataOf(z) \in Seq(Int)
      /\ x.finished = z.finished /\ x.pool = z.pool /\ x.dedup = z.dedup
  BY BuilderParts DEF Within, Grows
<1>2. PICK c \in Seq(Int) : Len(c) = 8 * x.fields /\ PadOf(x) = PadOf(z) \o c
  BY DEF Within
<1>3. /\ PadOf(p) = PadOf(z) \o c /\ Len(c) = 8 * p.fields
      /\ p.finished = z.finished /\ p.pool = z.pool /\ p.dedup = z.dedup
  BY <1>1, <1>2 DEF Grows, Remembers
<1>. DEFINE v == PushBytes(p, s)
            e == ClearOffsets(v)
<1>4. s \in Seq(Int) /\ pre \in Seq(Int)
  BY ByteSeq
<1>5. /\ v \in Builders /\ DataOf(v) = s \o DataOf(p) /\ PadOf(v) = PadOf(p)
      /\ SameRest(p, v)
  BY <1>1, <1>4, PushBytesAdds
<1>. HIDE DEF v
<1>6. v \in Builders /\ PadOf(v) = PadOf(z) \o c /\ Len(c) = 8 * v.fields
  BY <1>3, <1>5 DEF SameRest
<1>7. /\ e \in Builders /\ DataOf(e) = DataOf(v) /\ PadOf(e) = PadOf(z)
      /\ e.fields = 0 /\ e.maxvo = 0 /\ e.nested = v.nested
      /\ e.finished = v.finished /\ e.minalign = v.minalign
      /\ e.force = v.force /\ e.dedup = v.dedup /\ e.pool = v.pool
  BY <1>1, <1>2, <1>6, OffsetsCleared
<1>. HIDE DEF e
<1>8. Zero \in Seq(Int) /\ Len(Zero) = 4
  <2>1. 0 \in Int
    OBVIOUS
  <2>. QED
    BY <2>1, ScalarOfFour DEF Zero
<1>9. DataOf(e) = s \o Zero \o (pre \o DataOf(z))
  <2>. DEFINE d == pre \o DataOf(z)
  <2>1. s \in Seq(Int) /\ Zero \in Seq(Int) /\ d \in Seq(Int)
    BY <1>1, <1>4, <1>8, Concatenated
  <2>2. DataOf(e) = s \o (Zero \o d)
    BY <1>5, <1>7
  <2>. HIDE DEF d
  <2>3. (s \o Zero) \o d = s \o (Zero \o d)
    BY ONLY <2>1, ThreeParts, Zenon
  <2>. QED
    BY <2>2, <2>3 DEF d
<1>10. Ended(z, e, s, Zero, pre, Size(p))
  BY <1>3, <1>5, <1>7, <1>8, <1>9 DEF Ended, SameRest
<1>. QED
  BY <1>5, <1>7, <1>10 DEF SameRest, VtableOn, e, v

(* The vtable depends on the places of the fields only.                    *)
LEMMA SameVtable ==
  ASSUME NEW p, NEW q, Twins(p, q), 8 * p.fields <= Len(PadOf(p)),
         NEW start \in Int, NEW loc \in Int
  PROVE  NewVtable(p, start, loc) = NewVtable(q, start, loc)
<1>1. /\ p \in Builders /\ q \in Builders /\ PadOf(p) = PadOf(q)
      /\ p.fields = q.fields /\ p.maxvo = q.maxvo
  BY TwinParts DEF SameRest
<1>2. /\ NewVtable(p, start, loc)
           = FlattenSeq([i \in 1..(VtableSize(p) \div 2) |->
                           Scalar(WordOf(p, start, loc, i - 1), 2)])
      /\ NewVtable(q, start, loc)
           = FlattenSeq([i \in 1..(VtableSize(q) \div 2) |->
                           Scalar(WordOf(q, start, loc, i - 1), 2)])
  BY <1>1, VtableWords
<1>3. VtableSize(p) = VtableSize(q)
  BY <1>1 DEF VtableSize
<1>4. \A i : WordOf(p, start, loc, i) = WordOf(q, start, loc, i)
  BY <1>1, <1>3 DEF WordOf
<1>. QED
  BY <1>2, <1>3, <1>4

(* A table of the fields fs was made.                                      *)
TableOf(z, r, loc, fs, s, pre) ==
  /\ s \in Seq(Byte) /\ pre \in Seq(Byte) /\ Stored(z, r, s, pre, loc)
  /\ loc = 4 + (Len(pre) + Size(z))
  /\ loc < Huge => VtableFor(s, fs, loc - Size(z))

TableMade(z, m, fs) ==
  \E s \in Seq(Byte), pre \in Seq(Byte) : TableOf(z, m.b, m.off, fs, s, pre)

LEMMA WithinTwin ==
  ASSUME NEW z, NEW x, NEW fs, NEW room, Within(z, x, fs, room),
         NEW y, Twins(x, y)
  PROVE  Within(z, y, fs, room) /\ Twins(y, x)
<1>1. /\ y \in Builders /\ DataOf(x) = DataOf(y) /\ PadOf(x) = PadOf(y)
      /\ Size(x) = Size(y) /\ SameRest(x, y) /\ x \in Builders
  BY TwinParts
<1>2. Twins(y, x)
  BY <1>1 DEF Twins, SameRest
<1>3. \A i : Located(x, Size(z), fs, i) => Located(y, Size(z), fs, i)
  BY <1>1 DEF Located, SameRest
<1>4. Adds(z, y)
  BY <1>1 DEF Within, Adds
<1>5. /\ z \in Builders /\ x.nested
      /\ x.finished = z.finished /\ x.force = z.force /\ x.dedup = z.dedup
      /\ x.pool = z.pool
      /\ \E c \in Seq(Int) : Len(c) = 8 * x.fields /\ PadOf(x) = PadOf(z) \o c
      /\ x.maxvo \in {0} \cup {f.vo : f \in fs}
      /\ Size(x) <= Size(z) + room
      /\ (Size(x) < Huge => \A i \in 1..x.fields : Located(x, Size(z), fs, i))
  BY DEF Within
<1>6. /\ y.nested = x.nested /\ y.finished = x.finished /\ y.force = x.force
      /\ y.dedup = x.dedup /\ y.pool = x.pool /\ y.fields = x.fields
      /\ y.maxvo = x.maxvo
  BY <1>1 DEF SameRest
<1>7. \E c \in Seq(Int) : Len(c) = 8 * y.fields /\ PadOf(y) = PadOf(z) \o c
  BY <1>1, <1>5, <1>6
<1>8. Size(y) < Huge => \A i \in 1..y.fields : Located(y, Size(z), fs, i)
  BY <1>1, <1>3, <1>5, <1>6
<1>9. y.maxvo \in {0} \cup {f.vo : f \in fs} /\ Size(y) <= Size(z) + room
  BY <1>1, <1>5, <1>6
<1>. QED
  BY <1>1, <1>2, <1>4, <1>5, <1>6, <1>7, <1>8, <1>9 DEF Within

LEMMA TableEnded ==
  ASSUME NEW z, Sound(z), NEW x, NEW fs \in SUBSET Fields, Distinct(fs),
         NEW room \in Nat, room <= 900, Within(z, x, fs, room),
         NEW y, Twins(x, y)
  PROVE  /\ Done(z, z, EndTable(x, Size(z)), EndTable(y, Size(z)))
         /\ TableMade(z, EndTable(x, Size(z)), fs)
<1>. DEFINE p == PushElement(x, Zero)
            q == PushElement(y, Zero)
            start == Size(z)
            loc == Size(p)
            s == NewVtable(p, start, loc)
            e == ClearOffsets(PushBytes(p, s))
            g == ClearOffsets(PushBytes(q, s))
            r == StoreVtable(e, loc, s)
            k == StoreVtable(g, loc, s)
<1>1. /\ Twins(p, q) /\ Grows(x, p) /\ p.nested = x.nested
      /\ p \in Builders /\ q \in Builders
      /\ Size(x) + 4 <= Size(p) /\ Size(p) <= Size(x) + 7
      /\ \E pre \in Seq(Byte) :
           /\ DataOf(p) = Zero \o (pre \o DataOf(z))
           /\ Size(p) = 4 + (Len(pre) + Size(z))
  BY ZeroPushed
<1>2. PICK pre \in Seq(Byte) : /\ DataOf(p) = Zero \o (pre \o DataOf(z))
                               /\ Size(p) = 4 + (Len(pre) + Size(z))
  BY <1>1
<1>3. /\ Size(z) \in Nat /\ Size(x) \in Nat /\ Size(p) \in Nat
      /\ PadOf(p) = PadOf(x) /\ p.fields = x.fields /\ p.fields \in Nat
      /\ p.maxvo \in Evens /\ 8 * p.fields <= Len(PadOf(p))
  <2>. HIDE DEF p, q
  <2>. QED
    BY <1>1, WithinParts
<1>4. Size(q) = Size(p)
  <2>. HIDE DEF p, q
  <2>. QED
    BY <1>1, TwinParts
<1>5. NewVtable(q, start, loc) = s
  <2>1. start \in Int /\ loc \in Int
    BY <1>3
  <2>. HIDE DEF p, q, start, loc
  <2>. QED
    BY <1>1, <1>3, <2>1, SameVtable
<1>6. s \in Seq(Byte)
  <2>1. start \in Int /\ loc \in Int
    BY <1>3
  <2>. HIDE DEF p, q, start, loc
  <2>. QED
    BY <1>1, <1>3, <2>1, VtableRead
<1>7. loc < Huge => VtableFor(s, fs, loc - Size(z))
  <2>1. HAVE loc < Huge
  <2>2. Size(x) < Huge
    BY <1>1, <1>3, <2>1, SMT DEF Huge
  <2>. HIDE DEF p, q
  <2>. QED
    BY <1>1, <1>3, <2>2, VtableMade
<1>8. /\ EndTable(x, Size(z)) = [b |-> r, off |-> loc]
      /\ EndTable(y, Size(z)) = [b |-> k, off |-> loc]
  BY <1>4, <1>5 DEF EndTable, EndTableAt, Zero
<1>. HIDE DEF p, q
<1>9. Grows(x, p) /\ Within(z, x, fs, room)
  BY <1>1
<1>10. Within(z, y, fs, room) /\ Grows(y, q)
  <2>1. Within(z, y, fs, room) /\ Twins(y, x)
    BY WithinTwin
  <2>. QED
    BY <2>1, ZeroPushed DEF q
<1>. HIDE DEF s
<1>11. /\ Ended(z, e, s, Zero, pre, loc) /\ e \in Builders
       /\ e.minalign = p.minalign /\ e.nested = p.nested
       /\ e.force = p.force /\ e.dedup = p.dedup
  <2>1. VtableOn(z, p, s, pre)
    BY <1>2, <1>6, <1>9, VtablePushed
  <2>. QED
    BY <2>1 DEF VtableOn
<1>12. /\ Ended(z, g, s, Zero, pre, loc) /\ g \in Builders
       /\ g.minalign = q.minalign /\ g.nested = q.nested
       /\ g.force = q.force /\ g.dedup = q.dedup
  <2>1. DataOf(q) = Zero \o (pre \o DataOf(z))
    BY <1>1, <1>2, TwinParts
  <2>2. /\ s \in Seq(Byte) /\ Size(q) = 4 + (Len(pre) + Size(z))
        /\ pre \in Seq(Byte) /\ Size(q) = loc
    BY <1>2, <1>4, <1>6
  <2>3. /\ Ended(z, g, s, Zero, pre, Size(q)) /\ g \in Builders
        /\ g.minalign = q.minalign /\ g.nested = q.nested
        /\ g.force = q.force /\ g.dedup = q.dedup
    <3>. HIDE DEF loc
    <3>1. VtableOn(z, q, s, pre)
      BY <1>10, <2>1, <2>2, VtablePushed
    <3>. QED
      BY <3>1 DEF VtableOn
  <2>. QED
    BY <2>2, <2>3
<1>. HIDE DEF e, g
<1>13. Twins(e, g)
  <2>1. /\ DataOf(e) = DataOf(g) /\ PadOf(e) = PadOf(g)
        /\ e.fields = g.fields /\ e.maxvo = g.maxvo /\ e.pool = g.pool
        /\ e.finished = g.finished
    BY <1>11, <1>12 DEF Ended
  <2>2. SameRest(p, q)
    BY <1>1, TwinParts
  <2>3. SameRest(e, g)
    BY <1>11, <1>12, <2>1, <2>2 DEF SameRest
  <2>. QED
    BY <1>11, <1>12, <2>1, <2>3 DEF Twins
<1>14. Twins(r, k) /\ Stored(z, r, s, pre, loc)
  <2>. HIDE DEF loc
  <2>. QED
    BY <1>11, <1>13, TableStored
<1>. HIDE DEF r, k
<1>15. Done(z, z, [b |-> r, off |-> loc], [b |-> k, off |-> loc])
  <2>1. loc \in Int
    BY <1>3
  <2>. HIDE DEF loc
  <2>. QED
    BY <1>14, <2>1 DEF Done, Stored
<1>16. TableOf(z, r, loc, fs, s, pre)
  BY <1>2, <1>6, <1>7, <1>14 DEF TableOf
<1>17. TableMade(z, [b |-> r, off |-> loc], fs)
  <2>. HIDE DEF loc
  <2>. QED
    BY <1>6, <1>16 DEF TableMade
<1>. QED
  BY <1>8, <1>15, <1>17

(* What the tables of the headers are: no two fields share a place.        *)
GoodTable(f) == f \in Seq(Fields) /\ Len(f) <= 14 /\ Distinct(FieldsOf(f))

Regular(f) ==
  /\ f \in Seq(Fields) /\ Len(f) <= 14
  /\ \A i, j \in 1..Len(f) : f[i].vo = f[j].vo => i = j

LEMMA RegularGood ==
  ASSUME NEW f, Regular(f)
  PROVE  GoodTable(f)
BY DEF Regular, GoodTable, Distinct, FieldsOf

LEMMA NumKind ==
  ASSUME NEW vo \in Places, NEW w \in {1, 2, 4, 8}, NEW d \in Int
  PROVE  Num(vo, w, d) \in Fields /\ Num(vo, w, d).vo = vo
<1>. DEFINE r == Num(vo, w, d)
<1>1. /\ r \in AnyField /\ r.vo = vo /\ r.kind = "num" /\ r.required = FALSE
  BY DEF AnyField, Num, Kinds
<1>. HIDE DEF r
<1>2. r \in Fields
  BY <1>1 DEF Fields
<1>. QED
  BY <1>1, <1>2 DEF r

LEMMA FourBytes == 4 \in {1, 2, 4, 8} /\ 0 \in Int
OBVIOUS

LEMMA RefKind ==
  ASSUME NEW vo \in Places, NEW kind \in Kinds, NEW of \in Targets \cup {""},
         kind \in {"table", "tables"} => of \in Targets
  PROVE  /\ Ref(vo, kind, of) \in Fields /\ Ref(vo, kind, of).vo = vo
         /\ kind \in {"string", "table", "tables"} =>
              /\ Needed(Ref(vo, kind, of)) \in Fields
              /\ Needed(Ref(vo, kind, of)).vo = vo
<1>. DEFINE r == Ref(vo, kind, of)
            n == Needed(r)
<1>1. /\ r \in AnyField /\ r.vo = vo /\ r.w = 4 /\ r.kind = kind /\ r.of = of
      /\ r.required = FALSE
  <2>1. r.vo = vo /\ r.w = 4 /\ r.kind = kind /\ r.of = of /\ r.required = FALSE
    BY DEF Ref
  <2>2. 4 \in {1, 2, 4, 8} /\ 0 \in Int
    BY FourBytes
  <2>3. r \in AnyField
    BY <2>2, Zenon DEF Ref, AnyField
  <2>. QED
    BY <2>1, <2>3
<1>. HIDE DEF r
<1>2. /\ n \in AnyField /\ n.vo = vo /\ n.w = 4 /\ n.kind = kind /\ n.of = of
  BY <1>1 DEF Needed, AnyField
<1>. HIDE DEF n
<1>3. r \in Fields
  BY <1>1 DEF Fields
<1>4. kind \in {"string", "table", "tables"} => n \in Fields
  BY <1>2 DEF Fields
<1>. QED
  BY <1>1, <1>2, <1>3, <1>4 DEF r, n

IsAt(f, vo) == f \in Fields /\ f.vo = vo

LEMMA RefKinds ==
  ASSUME NEW vo \in Places
  PROVE  /\ IsAt(Str(vo), vo) /\ IsAt(Needed(Str(vo)), vo)
         /\ IsAt(ByteVec(vo), vo) /\ IsAt(Strs(vo), vo)
         /\ \A of \in Targets :
              /\ IsAt(Sub(vo, of), vo) /\ IsAt(Needed(Sub(vo, of)), vo)
              /\ IsAt(Subs(vo, of), vo) /\ IsAt(Needed(Subs(vo, of)), vo)
<1>1. "string" \in Kinds /\ "bytes" \in Kinds /\ "strings" \in Kinds
      /\ "table" \in Kinds /\ "tables" \in Kinds
  BY DEF Kinds
<1>2. IsAt(Str(vo), vo) /\ IsAt(Needed(Str(vo)), vo)
  BY <1>1, RefKind DEF Str, IsAt
<1>3. IsAt(ByteVec(vo), vo) /\ IsAt(Strs(vo), vo)
  BY <1>1, RefKind DEF ByteVec, Strs, IsAt
<1>4. ASSUME NEW of \in Targets
      PROVE  IsAt(Sub(vo, of), vo) /\ IsAt(Needed(Sub(vo, of)), vo)
  BY <1>1, RefKind DEF Sub, IsAt
<1>5. ASSUME NEW of \in Targets
      PROVE  IsAt(Subs(vo, of), vo) /\ IsAt(Needed(Subs(vo, of)), vo)
  BY <1>1, RefKind DEF Subs, IsAt
<1>. QED
  BY <1>2, <1>3, <1>4, <1>5

LEMMA NumFields ==
  /\ IsAt(Num(4, 1, 0), 4) /\ IsAt(Num(6, 4, 0), 6) /\ IsAt(Num(4, 4, 0), 4)
  /\ IsAt(Num(4, 8, 0), 4) /\ IsAt(Num(6, 1, 0), 6) /\ IsAt(Num(8, 4, -1), 8)
  /\ IsAt(Num(10, 2, 0), 10) /\ IsAt(Num(12, 4, 4), 12)
  /\ IsAt(Num(14, 4, 0), 14) /\ IsAt(Num(6, 8, 0), 6) /\ IsAt(Num(8, 1, 0), 8)
  /\ IsAt(Num(8, 2, 0), 8) /\ IsAt(Num(12, 8, 0), 12)
  /\ IsAt(Num(14, 8, 0), 14) /\ IsAt(Num(16, 1, 0), 16)
  /\ IsAt(Num(18, 1, 0), 18) /\ IsAt(Num(20, 1, 0), 20)
  /\ IsAt(Num(26, 1, 0), 26) /\ IsAt(Num(28, 2, 0), 28)
  /\ IsAt(Num(30, 1, 0), 30) /\ IsAt(Num(10, 4, 0), 10)
  /\ IsAt(Num(12, 4, 0), 12) /\ IsAt(Num(16, 8, 0), 16)
BY NumKind DEF Places, IsAt

LEMMA RefFields ==
  /\ IsAt(Str(8), 8) /\ IsAt(ByteVec(10), 10) /\ IsAt(Str(4), 4)
  /\ IsAt(ByteVec(4), 4) /\ IsAt(Needed(Str(4)), 4) /\ IsAt(Str(6), 6)
  /\ IsAt(Sub(10, "Type"), 10) /\ IsAt(Strs(12), 12)
  /\ IsAt(Subs(14, "KeyValue"), 14) /\ IsAt(Needed(Subs(6, "EnumVal")), 6)
  /\ IsAt(Needed(Sub(10, "Type")), 10) /\ IsAt(Subs(12, "KeyValue"), 12)
  /\ IsAt(Strs(14), 14) /\ IsAt(Str(16), 16)
  /\ IsAt(Needed(Sub(6, "Type")), 6) /\ IsAt(Subs(22, "KeyValue"), 22)
  /\ IsAt(Strs(24), 24) /\ IsAt(Needed(Subs(6, "Field")), 6)
  /\ IsAt(Strs(16), 16) /\ IsAt(Str(18), 18)
  /\ IsAt(Needed(Sub(6, "Object")), 6) /\ IsAt(Needed(Sub(8, "Object")), 8)
  /\ IsAt(Subs(10, "KeyValue"), 10) /\ IsAt(Subs(6, "RPCCall"), 6)
  /\ IsAt(Subs(8, "KeyValue"), 8) /\ IsAt(Strs(10), 10) /\ IsAt(Str(12), 12)
  /\ IsAt(Strs(6), 6) /\ IsAt(Needed(Subs(4, "Object")), 4)
  /\ IsAt(Needed(Subs(6, "Enum")), 6) /\ IsAt(Str(10), 10)
  /\ IsAt(Sub(12, "Object"), 12) /\ IsAt(Subs(14, "Service"), 14)
  /\ IsAt(Subs(18, "SchemaFile"), 18)
BY RefKinds DEF Places, IsAt, Targets

LEMMA RpcMessageTableFields ==
  Regular(RpcMessageTable) /\ Len(RpcMessageTable) = 4
<1>1. /\ IsAt(Num(4, 1, 0), 4) /\ IsAt(Num(6, 4, 0), 6) /\ IsAt(Str(8), 8)
      /\ IsAt(ByteVec(10), 10)
  BY NumFields, RefFields
<1>2. RpcMessageTable \in Seq(Fields) /\ Len(RpcMessageTable) = 4
  BY <1>1 DEF IsAt, RpcMessageTable
<1>3. /\ RpcMessageTable[1].vo = 4 /\ RpcMessageTable[2].vo = 6
      /\ RpcMessageTable[3].vo = 8 /\ RpcMessageTable[4].vo = 10
  BY <1>1 DEF IsAt, RpcMessageTable
<1>4. \A i, j \in 1..4 : RpcMessageTable[i].vo = RpcMessageTable[j].vo => i = j
  BY <1>3
<1>. QED
  BY <1>2, <1>4 DEF Regular

LEMMA BoolRequestFields == Regular(BoolRequest) /\ Len(BoolRequest) = 1
<1>1. /\ IsAt(Num(4, 1, 0), 4)
  BY NumFields, RefFields
<1>2. BoolRequest \in Seq(Fields) /\ Len(BoolRequest) = 1
  BY <1>1 DEF IsAt, BoolRequest
<1>3. /\ BoolRequest[1].vo = 4
  BY <1>1 DEF IsAt, BoolRequest
<1>4. \A i, j \in 1..1 : BoolRequest[i].vo = BoolRequest[j].vo => i = j
  BY <1>3
<1>. QED
  BY <1>2, <1>4 DEF Regular

LEMMA IntRequestFields == Regular(IntRequest) /\ Len(IntRequest) = 1
<1>1. /\ IsAt(Num(4, 4, 0), 4)
  BY NumFields, RefFields
<1>2. IntRequest \in Seq(Fields) /\ Len(IntRequest) = 1
  BY <1>1 DEF IsAt, IntRequest
<1>3. /\ IntRequest[1].vo = 4
  BY <1>1 DEF IsAt, IntRequest
<1>4. \A i, j \in 1..1 : IntRequest[i].vo = IntRequest[j].vo => i = j
  BY <1>3
<1>. QED
  BY <1>2, <1>4 DEF Regular

LEMMA Int64RequestFields == Regular(Int64Request) /\ Len(Int64Request) = 1
<1>1. /\ IsAt(Num(4, 8, 0), 4)
  BY NumFields, RefFields
<1>2. Int64Request \in Seq(Fields) /\ Len(Int64Request) = 1
  BY <1>1 DEF IsAt, Int64Request
<1>3. /\ Int64Request[1].vo = 4
  BY <1>1 DEF IsAt, Int64Request
<1>4. \A i, j \in 1..1 : Int64Request[i].vo = Int64Request[j].vo => i = j
  BY <1>3
<1>. QED
  BY <1>2, <1>4 DEF Regular

LEMMA FloatRequestFields == Regular(FloatRequest) /\ Len(FloatRequest) = 1
<1>1. /\ IsAt(Num(4, 4, 0), 4)
  BY NumFields, RefFields
<1>2. FloatRequest \in Seq(Fields) /\ Len(FloatRequest) = 1
  BY <1>1 DEF IsAt, FloatRequest
<1>3. /\ FloatRequest[1].vo = 4
  BY <1>1 DEF IsAt, FloatRequest
<1>4. \A i, j \in 1..1 : FloatRequest[i].vo = FloatRequest[j].vo => i = j
  BY <1>3
<1>. QED
  BY <1>2, <1>4 DEF Regular

LEMMA DoubleRequestFields == Regular(DoubleRequest) /\ Len(DoubleRequest) = 1
<1>1. /\ IsAt(Num(4, 8, 0), 4)
  BY NumFields, RefFields
<1>2. DoubleRequest \in Seq(Fields) /\ Len(DoubleRequest) = 1
  BY <1>1 DEF IsAt, DoubleRequest
<1>3. /\ DoubleRequest[1].vo = 4
  BY <1>1 DEF IsAt, DoubleRequest
<1>4. \A i, j \in 1..1 : DoubleRequest[i].vo = DoubleRequest[j].vo => i = j
  BY <1>3
<1>. QED
  BY <1>2, <1>4 DEF Regular

LEMMA StringRequestFields == Regular(StringRequest) /\ Len(StringRequest) = 1
<1>1. /\ IsAt(Str(4), 4)
  BY NumFields, RefFields
<1>2. StringRequest \in Seq(Fields) /\ Len(StringRequest) = 1
  BY <1>1 DEF IsAt, StringRequest
<1>3. /\ StringRequest[1].vo = 4
  BY <1>1 DEF IsAt, StringRequest
<1>4. \A i, j \in 1..1 : StringRequest[i].vo = StringRequest[j].vo => i = j
  BY <1>3
<1>. QED
  BY <1>2, <1>4 DEF Regular

LEMMA BytesRequestFields == Regular(BytesRequest) /\ Len(BytesRequest) = 1
<1>1. /\ IsAt(ByteVec(4), 4)
  BY NumFields, RefFields
<1>2. BytesRequest \in Seq(Fields) /\ Len(BytesRequest) = 1
  BY <1>1 DEF IsAt, BytesRequest
<1>3. /\ BytesRequest[1].vo = 4
  BY <1>1 DEF IsAt, BytesRequest
<1>4. \A i, j \in 1..1 : BytesRequest[i].vo = BytesRequest[j].vo => i = j
  BY <1>3
<1>. QED
  BY <1>2, <1>4 DEF Regular

LEMMA BoolResponseFields == Regular(BoolResponse) /\ Len(BoolResponse) = 1
<1>1. /\ IsAt(Num(4, 1, 0), 4)
  BY NumFields, RefFields
<1>2. BoolResponse \in Seq(Fields) /\ Len(BoolResponse) = 1
  BY <1>1 DEF IsAt, BoolResponse
<1>3. /\ BoolResponse[1].vo = 4
  BY <1>1 DEF IsAt, BoolResponse
<1>4. \A i, j \in 1..1 : BoolResponse[i].vo = BoolResponse[j].vo => i = j
  BY <1>3
<1>. QED
  BY <1>2, <1>4 DEF Regular

LEMMA IntResponseFields == Regular(IntResponse) /\ Len(IntResponse) = 1
<1>1. /\ IsAt(Num(4, 4, 0), 4)
  BY NumFields, RefFields
<1>2. IntResponse \in Seq(Fields) /\ Len(IntResponse) = 1
  BY <1>1 DEF IsAt, IntResponse
<1>3. /\ IntResponse[1].vo = 4
  BY <1>1 DEF IsAt, IntResponse
<1>4. \A i, j \in 1..1 : IntResponse[i].vo = IntResponse[j].vo => i = j
  BY <1>3
<1>. QED
  BY <1>2, <1>4 DEF Regular

LEMMA Int64ResponseFields == Regular(Int64Response) /\ Len(Int64Response) = 1
<1>1. /\ IsAt(Num(4, 8, 0), 4)
  BY NumFields, RefFields
<1>2. Int64Response \in Seq(Fields) /\ Len(Int64Response) = 1
  BY <1>1 DEF IsAt, Int64Response
<1>3. /\ Int64Response[1].vo = 4
  BY <1>1 DEF IsAt, Int64Response
<1>4. \A i, j \in 1..1 : Int64Response[i].vo = Int64Response[j].vo => i = j
  BY <1>3
<1>. QED
  BY <1>2, <1>4 DEF Regular

LEMMA FloatResponseFields == Regular(FloatResponse) /\ Len(FloatResponse) = 1
<1>1. /\ IsAt(Num(4, 4, 0), 4)
  BY NumFields, RefFields
<1>2. FloatResponse \in Seq(Fields) /\ Len(FloatResponse) = 1
  BY <1>1 DEF IsAt, FloatResponse
<1>3. /\ FloatResponse[1].vo = 4
  BY <1>1 DEF IsAt, FloatResponse
<1>4. \A i, j \in 1..1 : FloatResponse[i].vo = FloatResponse[j].vo => i = j
  BY <1>3
<1>. QED
  BY <1>2, <1>4 DEF Regular

LEMMA DoubleResponseFields == Regular(DoubleResponse) /\ Len(DoubleResponse) = 1
<1>1. /\ IsAt(Num(4, 8, 0), 4)
  BY NumFields, RefFields
<1>2. DoubleResponse \in Seq(Fields) /\ Len(DoubleResponse) = 1
  BY <1>1 DEF IsAt, DoubleResponse
<1>3. /\ DoubleResponse[1].vo = 4
  BY <1>1 DEF IsAt, DoubleResponse
<1>4. \A i, j \in 1..1 : DoubleResponse[i].vo = DoubleResponse[j].vo => i = j
  BY <1>3
<1>. QED
  BY <1>2, <1>4 DEF Regular

LEMMA StringResponseFields == Regular(StringResponse) /\ Len(StringResponse) = 1
<1>1. /\ IsAt(Str(4), 4)
  BY NumFields, RefFields
<1>2. StringResponse \in Seq(Fields) /\ Len(StringResponse) = 1
  BY <1>1 DEF IsAt, StringResponse
<1>3. /\ StringResponse[1].vo = 4
  BY <1>1 DEF IsAt, StringResponse
<1>4. \A i, j \in 1..1 : StringResponse[i].vo = StringResponse[j].vo => i = j
  BY <1>3
<1>. QED
  BY <1>2, <1>4 DEF Regular

LEMMA BytesResponseFields == Regular(BytesResponse) /\ Len(BytesResponse) = 1
<1>1. /\ IsAt(ByteVec(4), 4)
  BY NumFields, RefFields
<1>2. BytesResponse \in Seq(Fields) /\ Len(BytesResponse) = 1
  BY <1>1 DEF IsAt, BytesResponse
<1>3. /\ BytesResponse[1].vo = 4
  BY <1>1 DEF IsAt, BytesResponse
<1>4. \A i, j \in 1..1 : BytesResponse[i].vo = BytesResponse[j].vo => i = j
  BY <1>3
<1>. QED
  BY <1>2, <1>4 DEF Regular

LEMMA TypeFields == Regular(Type) /\ Len(Type) = 6
<1>1. /\ IsAt(Num(4, 1, 0), 4) /\ IsAt(Num(6, 1, 0), 6)
      /\ IsAt(Num(8, 4, -1), 8)
      /\ IsAt(Num(10, 2, 0), 10) /\ IsAt(Num(12, 4, 4), 12)
      /\ IsAt(Num(14, 4, 0), 14)
  BY NumFields, RefFields
<1>2. Type \in Seq(Fields) /\ Len(Type) = 6
  BY <1>1 DEF IsAt, Type
<1>3. /\ Type[1].vo = 4 /\ Type[2].vo = 6 /\ Type[3].vo = 8 /\ Type[4].vo = 10
      /\ Type[5].vo = 12 /\ Type[6].vo = 14
  BY <1>1 DEF IsAt, Type
<1>4. \A i, j \in 1..6 : Type[i].vo = Type[j].vo => i = j
  BY <1>3
<1>. QED
  BY <1>2, <1>4 DEF Regular

LEMMA KeyValueFields == Regular(KeyValue) /\ Len(KeyValue) = 2
<1>1. /\ IsAt(Needed(Str(4)), 4) /\ IsAt(Str(6), 6)
  BY NumFields, RefFields
<1>2. KeyValue \in Seq(Fields) /\ Len(KeyValue) = 2
  BY <1>1 DEF IsAt, KeyValue
<1>3. /\ KeyValue[1].vo = 4 /\ KeyValue[2].vo = 6
  BY <1>1 DEF IsAt, KeyValue
<1>4. \A i, j \in 1..2 : KeyValue[i].vo = KeyValue[j].vo => i = j
  BY <1>3
<1>. QED
  BY <1>2, <1>4 DEF Regular

LEMMA EnumValFields == Regular(EnumVal) /\ Len(EnumVal) = 5
<1>1. /\ IsAt(Needed(Str(4)), 4) /\ IsAt(Num(6, 8, 0), 6)
      /\ IsAt(Sub(10, "Type"), 10) /\ IsAt(Strs(12), 12)
      /\ IsAt(Subs(14, "KeyValue"), 14)
  BY NumFields, RefFields
<1>2. EnumVal \in Seq(Fields) /\ Len(EnumVal) = 5
  BY <1>1 DEF IsAt, EnumVal
<1>3. /\ EnumVal[1].vo = 4 /\ EnumVal[2].vo = 6 /\ EnumVal[3].vo = 10
      /\ EnumVal[4].vo = 12 /\ EnumVal[5].vo = 14
  BY <1>1 DEF IsAt, EnumVal
<1>4. \A i, j \in 1..5 : EnumVal[i].vo = EnumVal[j].vo => i = j
  BY <1>3
<1>. QED
  BY <1>2, <1>4 DEF Regular

LEMMA EnumFields == Regular(Enum) /\ Len(Enum) = 7
<1>1. /\ IsAt(Needed(Str(4)), 4) /\ IsAt(Needed(Subs(6, "EnumVal")), 6)
      /\ IsAt(Num(8, 1, 0), 8) /\ IsAt(Needed(Sub(10, "Type")), 10)
      /\ IsAt(Subs(12, "KeyValue"), 12) /\ IsAt(Strs(14), 14)
      /\ IsAt(Str(16), 16)
  BY NumFields, RefFields
<1>2. Enum \in Seq(Fields) /\ Len(Enum) = 7
  BY <1>1 DEF IsAt, Enum
<1>3. /\ Enum[1].vo = 4 /\ Enum[2].vo = 6 /\ Enum[3].vo = 8 /\ Enum[4].vo = 10
      /\ Enum[5].vo = 12 /\ Enum[6].vo = 14 /\ Enum[7].vo = 16
  BY <1>1 DEF IsAt, Enum
<1>4. \A i, j \in 1..7 : Enum[i].vo = Enum[j].vo => i = j
  BY <1>3
<1>. QED
  BY <1>2, <1>4 DEF Regular

LEMMA FieldFields == Regular(Field) /\ Len(Field) = 14
<1>1. /\ IsAt(Needed(Str(4)), 4) /\ IsAt(Needed(Sub(6, "Type")), 6)
      /\ IsAt(Num(8, 2, 0), 8) /\ IsAt(Num(10, 2, 0), 10)
      /\ IsAt(Num(12, 8, 0), 12) /\ IsAt(Num(14, 8, 0), 14)
      /\ IsAt(Num(16, 1, 0), 16) /\ IsAt(Num(18, 1, 0), 18)
      /\ IsAt(Num(20, 1, 0), 20) /\ IsAt(Subs(22, "KeyValue"), 22)
      /\ IsAt(Strs(24), 24) /\ IsAt(Num(26, 1, 0), 26)
      /\ IsAt(Num(28, 2, 0), 28) /\ IsAt(Num(30, 1, 0), 30)
  BY NumFields, RefFields
<1>2. Field \in Seq(Fields) /\ Len(Field) = 14
  BY <1>1 DEF IsAt, Field
<1>3. /\ Field[1].vo = 4 /\ Field[2].vo = 6 /\ Field[3].vo = 8
      /\ Field[4].vo = 10 /\ Field[5].vo = 12 /\ Field[6].vo = 14
      /\ Field[7].vo = 16 /\ Field[8].vo = 18 /\ Field[9].vo = 20
      /\ Field[10].vo = 22 /\ Field[11].vo = 24 /\ Field[12].vo = 26
      /\ Field[13].vo = 28 /\ Field[14].vo = 30
  BY <1>1 DEF IsAt, Field
<1>4. \A i, j \in 1..14 : Field[i].vo = Field[j].vo => i = j
  BY <1>3
<1>. QED
  BY <1>2, <1>4 DEF Regular

LEMMA ObjectFields == Regular(Object) /\ Len(Object) = 8
<1>1. /\ IsAt(Needed(Str(4)), 4) /\ IsAt(Needed(Subs(6, "Field")), 6)
      /\ IsAt(Num(8, 1, 0), 8) /\ IsAt(Num(10, 4, 0), 10)
      /\ IsAt(Num(12, 4, 0), 12) /\ IsAt(Subs(14, "KeyValue"), 14)
      /\ IsAt(Strs(16), 16) /\ IsAt(Str(18), 18)
  BY NumFields, RefFields
<1>2. Object \in Seq(Fields) /\ Len(Object) = 8
  BY <1>1 DEF IsAt, Object
<1>3. /\ Object[1].vo = 4 /\ Object[2].vo = 6 /\ Object[3].vo = 8
      /\ Object[4].vo = 10 /\ Object[5].vo = 12 /\ Object[6].vo = 14
      /\ Object[7].vo = 16 /\ Object[8].vo = 18
  BY <1>1 DEF IsAt, Object
<1>4. \A i, j \in 1..8 : Object[i].vo = Object[j].vo => i = j
  BY <1>3
<1>. QED
  BY <1>2, <1>4 DEF Regular

LEMMA RPCCallFields == Regular(RPCCall) /\ Len(RPCCall) = 5
<1>1. /\ IsAt(Needed(Str(4)), 4) /\ IsAt(Needed(Sub(6, "Object")), 6)
      /\ IsAt(Needed(Sub(8, "Object")), 8) /\ IsAt(Subs(10, "KeyValue"), 10)
      /\ IsAt(Strs(12), 12)
  BY NumFields, RefFields
<1>2. RPCCall \in Seq(Fields) /\ Len(RPCCall) = 5
  BY <1>1 DEF IsAt, RPCCall
<1>3. /\ RPCCall[1].vo = 4 /\ RPCCall[2].vo = 6 /\ RPCCall[3].vo = 8
      /\ RPCCall[4].vo = 10 /\ RPCCall[5].vo = 12
  BY <1>1 DEF IsAt, RPCCall
<1>4. \A i, j \in 1..5 : RPCCall[i].vo = RPCCall[j].vo => i = j
  BY <1>3
<1>. QED
  BY <1>2, <1>4 DEF Regular

LEMMA ServiceFields == Regular(Service) /\ Len(Service) = 5
<1>1. /\ IsAt(Needed(Str(4)), 4) /\ IsAt(Subs(6, "RPCCall"), 6)
      /\ IsAt(Subs(8, "KeyValue"), 8) /\ IsAt(Strs(10), 10)
      /\ IsAt(Str(12), 12)
  BY NumFields, RefFields
<1>2. Service \in Seq(Fields) /\ Len(Service) = 5
  BY <1>1 DEF IsAt, Service
<1>3. /\ Service[1].vo = 4 /\ Service[2].vo = 6 /\ Service[3].vo = 8
      /\ Service[4].vo = 10 /\ Service[5].vo = 12
  BY <1>1 DEF IsAt, Service
<1>4. \A i, j \in 1..5 : Service[i].vo = Service[j].vo => i = j
  BY <1>3
<1>. QED
  BY <1>2, <1>4 DEF Regular

LEMMA SchemaFileFields == Regular(SchemaFile) /\ Len(SchemaFile) = 2
<1>1. /\ IsAt(Needed(Str(4)), 4) /\ IsAt(Strs(6), 6)
  BY NumFields, RefFields
<1>2. SchemaFile \in Seq(Fields) /\ Len(SchemaFile) = 2
  BY <1>1 DEF IsAt, SchemaFile
<1>3. /\ SchemaFile[1].vo = 4 /\ SchemaFile[2].vo = 6
  BY <1>1 DEF IsAt, SchemaFile
<1>4. \A i, j \in 1..2 : SchemaFile[i].vo = SchemaFile[j].vo => i = j
  BY <1>3
<1>. QED
  BY <1>2, <1>4 DEF Regular

LEMMA SchemaFields == Regular(Schema) /\ Len(Schema) = 8
<1>1. /\ IsAt(Needed(Subs(4, "Object")), 4) /\ IsAt(Needed(Subs(6, "Enum")), 6)
      /\ IsAt(Str(8), 8) /\ IsAt(Str(10), 10) /\ IsAt(Sub(12, "Object"), 12)
      /\ IsAt(Subs(14, "Service"), 14) /\ IsAt(Num(16, 8, 0), 16)
      /\ IsAt(Subs(18, "SchemaFile"), 18)
  BY NumFields, RefFields
<1>2. Schema \in Seq(Fields) /\ Len(Schema) = 8
  BY <1>1 DEF IsAt, Schema
<1>3. /\ Schema[1].vo = 4 /\ Schema[2].vo = 6 /\ Schema[3].vo = 8
      /\ Schema[4].vo = 10 /\ Schema[5].vo = 12 /\ Schema[6].vo = 14
      /\ Schema[7].vo = 16 /\ Schema[8].vo = 18
  BY <1>1 DEF IsAt, Schema
<1>4. \A i, j \in 1..8 : Schema[i].vo = Schema[j].vo => i = j
  BY <1>3
<1>. QED
  BY <1>2, <1>4 DEF Regular

LEMMA NoFields == Regular(<<>>)
BY DEF Regular

LEMMA AllTables ==
  /\ \A T \in DOMAIN Tables : Regular(Tables[T])
  /\ Targets \in SUBSET DOMAIN Tables
  /\ \A T \in Targets : KeyOf(T) \in 1..Len(Tables[T])
<1>1. Regular(VoidRequest) /\ Regular(VoidResponse)
  BY NoFields DEF VoidRequest, VoidResponse
<1>2. \A T \in DOMAIN Tables : Regular(Tables[T])
  BY <1>1, RpcMessageTableFields, BoolRequestFields, IntRequestFields,
     Int64RequestFields, FloatRequestFields, DoubleRequestFields,
     StringRequestFields, BytesRequestFields, BoolResponseFields,
     IntResponseFields, Int64ResponseFields, FloatResponseFields,
     DoubleResponseFields, StringResponseFields, BytesResponseFields,
     TypeFields, KeyValueFields, EnumValFields, EnumFields, FieldFields,
     ObjectFields, RPCCallFields, ServiceFields, SchemaFileFields,
     SchemaFields DEF Tables
<1>3. Targets \in SUBSET DOMAIN Tables
  BY DEF Tables, Targets
<1>4. \A T \in Targets : KeyOf(T) \in 1..Len(Tables[T])
  <2>1. KeyOf("Type") \in 1..Len(Tables["Type"])
    BY TypeFields DEF Tables, KeyOf
  <2>2. KeyOf("KeyValue") \in 1..Len(Tables["KeyValue"])
    BY KeyValueFields DEF Tables, KeyOf
  <2>3. KeyOf("EnumVal") \in 1..Len(Tables["EnumVal"])
    BY EnumValFields DEF Tables, KeyOf
  <2>4. KeyOf("Enum") \in 1..Len(Tables["Enum"])
    BY EnumFields DEF Tables, KeyOf
  <2>5. KeyOf("Field") \in 1..Len(Tables["Field"])
    BY FieldFields DEF Tables, KeyOf
  <2>6. KeyOf("Object") \in 1..Len(Tables["Object"])
    BY ObjectFields DEF Tables, KeyOf
  <2>7. KeyOf("RPCCall") \in 1..Len(Tables["RPCCall"])
    BY RPCCallFields DEF Tables, KeyOf
  <2>8. KeyOf("Service") \in 1..Len(Tables["Service"])
    BY ServiceFields DEF Tables, KeyOf
  <2>9. KeyOf("SchemaFile") \in 1..Len(Tables["SchemaFile"])
    BY SchemaFileFields DEF Tables, KeyOf
  <2>. QED
    BY <2>1, <2>2, <2>3, <2>4, <2>5, <2>6, <2>7, <2>8, <2>9 DEF Targets
<1>. QED
  BY <1>2, <1>3, <1>4

LEMMA CreateUnfolded ==
  ASSUME NEW x, NEW T, NEW args
  PROVE  CreateTable(x, T, args)
           = EndTable(AddedOf(StartTable(x), Tables[T], AddOrder(Tables[T]),
                              args)[Len(AddOrder(Tables[T]))], Size(x))
BY DEF CreateTable, AddedOf, AddField

(* Create<table>() does the same to two builders with the same data, with  *)
(* its vtable shared or stored, and what it stores of the fields it was    *)
(* given is a table of exactly those.                                      *)
THEOREM TwinCreateTable ==
  ASSUME NEW x, NEW y, Twins(x, y), Sound(x), NEW T, GoodTable(Tables[T]),
         NEW args \in [1..Len(Tables[T]) -> Int]
  PROVE  /\ Done(x, y, CreateTable(x, T, args), CreateTable(y, T, args))
         /\ TableMade(x, CreateTable(x, T, args), FieldsOf(Tables[T]))
<1>. DEFINE f == Tables[T]
            order == AddOrder(f)
            n == Len(order)
            h == AddedOf(StartTable(x), f, order, args)
            g == AddedOf(StartTable(y), f, order, args)
            room == 15 * n
            fs == FieldsOf(f)
<1>1. f \in Seq(Fields) /\ Len(f) <= 14 /\ Distinct(fs) /\ Len(f) \in Nat
  BY LenProperties DEF GoodTable
<1>2. order \in Seq(1..Len(f)) /\ n <= 4 * Len(f)
  <2>. HIDE DEF f
  <2>. QED
    BY <1>1, OrderParts
<1>3. n \in Nat /\ room \in Nat /\ room <= 900
  <2>1. n \in Nat
    BY <1>2, LenProperties
  <2>. HIDE DEF n
  <2>. QED
    BY <1>1, <1>2, <2>1
<1>4. fs \in SUBSET Fields
  <2>. HIDE DEF f
  <2>. QED
    BY <1>1, ElementOfSeq DEF FieldsOf
<1>5. Size(y) = Size(x)
  BY TwinParts
<1>6. /\ CreateTable(x, T, args) = EndTable(h[n], Size(x))
      /\ CreateTable(y, T, args) = EndTable(g[n], Size(x))
  BY <1>5, CreateUnfolded
<1>7. args \in [1..Len(f) -> Int]
  OBVIOUS
<1>. HIDE DEF f, order
<1>8. Twins(h[n], g[n]) /\ Within(x, h[n], fs, room)
  BY <1>1, <1>2, <1>7, TwinAdded
<1>. HIDE DEF h, g, n, room, fs
<1>9. /\ Done(x, x, EndTable(h[n], Size(x)), EndTable(g[n], Size(x)))
      /\ TableMade(x, EndTable(h[n], Size(x)), fs)
  BY <1>1, <1>3, <1>4, <1>8, TableEnded
<1>. QED
  BY <1>6, <1>9 DEF Done, fs, f

(* A table of the fields fs can be read at t: its vtable and its fields    *)
(* lie in the data, and no field lies in its vtable or in the offset of it.*)
FieldLies(d, t, f, vt, size) ==
  /\ f.vo < size => f.vo + 2 <= size
  /\ FieldOffset(d, t, f.vo) \in Nat
  /\ \/ FieldOffset(d, t, f.vo) = 0
     \/ /\ 4 <= FieldOffset(d, t, f.vo)
        /\ t + FieldOffset(d, t, f.vo) + f.w <= Len(d)
        /\ \/ t + FieldOffset(d, t, f.vo) + f.w <= vt
           \/ vt + size <= t + FieldOffset(d, t, f.vo)

ValidWith(d, fs, t, vt, size) ==
  /\ d \in Seq(Int) /\ t \in Nat /\ t + 4 <= Len(d)
  /\ vt \in Nat /\ size \in Nat /\ 4 <= size /\ vt + size <= Len(d)
  /\ \/ t + 4 <= vt
     \/ vt + size <= t
  /\ \A f \in fs : FieldLies(d, t, f, vt, size)

ValidAt(d, fs, t) ==
  ValidWith(d, fs, t, VtableOf(d, t), ReadU(d, VtableOf(d, t), 2))

(* The bytes s lie at vt.                                                  *)
LiesAt(d, vt, s) ==
  /\ d \in Seq(Int) /\ s \in Seq(Int) /\ vt \in Nat
  /\ vt + Len(s) <= Len(d) /\ \A i \in 1..Len(s) : d[vt + i] = s[i]

LEMMA LyingRead ==
  ASSUME NEW d, NEW vt, NEW s, LiesAt(d, vt, s),
         NEW vo \in Nat, vo + 2 <= Len(s)
  PROVE  ReadU(d, vt + vo, 2) = ReadU(s, vo, 2)
<1>. DEFINE at == vt + vo
<1>1. /\ d \in Seq(Int) /\ s \in Seq(Int) /\ vt \in Nat /\ Len(s) \in Nat
      /\ Len(d) \in Nat /\ vt + Len(s) <= Len(d)
      /\ \A i \in 1..Len(s) : d[vt + i] = s[i]
  BY LenProperties DEF LiesAt
<1>2. at \in Nat /\ 2 \in {1, 2, 4, 8} /\ at + 2 <= Len(d)
  <2>. DEFINE n == Len(s)
              m == Len(d)
  <2>1. /\ vt \in Nat /\ vo \in Nat /\ n \in Nat /\ m \in Nat
        /\ vo + 2 <= n /\ vt + n <= m /\ at = vt + vo
    BY <1>1
  <2>. HIDE DEF n, m, at
  <2>2. at \in Nat /\ at + 2 <= m
    BY ONLY <2>1
  <2>. QED
    BY <2>2 DEF m
<1>3. \A i \in 1..2 : d[at + i] = s[vo + i]
  <2>1. ASSUME NEW i \in 1..2
        PROVE  d[at + i] = s[vo + i]
    <3>1. vo + i \in 1..Len(s) /\ at + i = vt + (vo + i)
      <4>. DEFINE n == Len(s)
      <4>1. /\ i \in 1..2 /\ vt \in Nat /\ vo \in Nat /\ n \in Nat
            /\ vo + 2 <= n /\ at = vt + vo
        BY <1>1
      <4>. HIDE DEF n, at
      <4>2. vo + i \in 1..n /\ at + i = vt + (vo + i)
        BY ONLY <4>1
      <4>. QED
        BY <4>2 DEF n
    <3>. HIDE DEF at
    <3>. QED
      BY <1>1, <3>1
  <2>. QED
    BY <2>1
<1>. HIDE DEF at
<1>4. Agree(d, at, s, vo, 2)
  BY <1>1, <1>2, <1>3 DEF Agree
<1>5. ReadU(d, at, 2) = ReadU(s, vo, 2)
  BY <1>4, SameReads
<1>. QED
  BY <1>5 DEF at

LEMMA TableLies ==
  ASSUME NEW d, NEW fs \in SUBSET Fields, NEW t \in Nat, NEW vt, NEW s,
         LiesAt(d, vt, s), VtableOf(d, t) = vt,
         NEW len \in Int, VtableFor(s, fs, len), 4 <= len, t + len <= Len(d),
         t + len <= vt \/ vt + Len(s) <= t
  PROVE  ValidAt(d, fs, t)
<1>1. /\ d \in Seq(Int) /\ s \in Seq(Int) /\ vt \in Nat /\ Len(s) \in Nat
      /\ Len(d) \in Nat /\ vt + Len(s) <= Len(d)
  BY LenProperties DEF LiesAt
<1>2. /\ 4 <= Len(s) /\ ReadU(s, 0, 2) = Len(s)
      /\ \A f \in fs : f.vo < Len(s) => f.vo + 2 <= Len(s)
      /\ \A f \in fs : \/ PlaceIn(s, f.vo) = 0
                       \/ /\ PlaceIn(s, f.vo) \in Nat /\ 4 <= PlaceIn(s, f.vo)
                          /\ PlaceIn(s, f.vo) + f.w <= len
  BY DEF VtableFor
<1>3. ReadU(d, vt, 2) = Len(s)
  <2>1. 0 \in Nat /\ 0 + 2 <= Len(s) /\ vt + 0 = vt
    BY <1>1, <1>2
  <2>2. ReadU(d, vt + 0, 2) = ReadU(s, 0, 2)
    BY ONLY LiesAt(d, vt, s), <2>1, LyingRead
  <2>. QED
    BY <1>2, <2>1, <2>2
<1>4. ASSUME NEW f \in fs
      PROVE  FieldOffset(d, t, f.vo) = PlaceIn(s, f.vo)
  <2>1. f.vo \in Nat
    BY FieldTypes
  <2>2. CASE f.vo < Len(s)
    <3>1. f.vo + 2 <= Len(s)
      BY <1>2, <2>2
    <3>2. ReadU(d, vt + f.vo, 2) = ReadU(s, f.vo, 2)
      BY <2>1, <3>1, LyingRead
    <3>. QED
      BY <1>2, <1>3, <2>2, <3>2 DEF FieldOffset, PlaceIn
  <2>3. CASE ~(f.vo < Len(s))
    BY <1>2, <1>3, <2>3 DEF FieldOffset, PlaceIn
  <2>. QED
    BY <2>2, <2>3
<1>5. ASSUME NEW f \in fs
      PROVE  FieldLies(d, t, f, vt, Len(s))
  <2>. DEFINE o == FieldOffset(d, t, f.vo)
  <2>1. f.w \in Nat /\ (f.vo < Len(s) => f.vo + 2 <= Len(s))
    BY <1>2, FieldTypes
  <2>2. o = 0 \/ (o \in Nat /\ 4 <= o /\ o + f.w <= len)
    BY <1>2, <1>4
  <2>. HIDE DEF o
  <2>3. \/ o = 0
        \/ /\ 4 <= o /\ t + o + f.w <= Len(d)
           /\ t + o + f.w <= vt \/ vt + Len(s) <= t + o
    <3>1. CASE o = 0
      BY <3>1
    <3>2. CASE o \in Nat /\ 4 <= o /\ o + f.w <= len
      <4>. DEFINE w == f.w
      <4>1. w \in Nat /\ o \in Nat /\ 4 <= o /\ o + w <= len /\ len \in Int
            /\ t \in Nat /\ vt \in Nat /\ Len(s) \in Nat /\ Len(d) \in Nat
            /\ t + len <= Len(d) /\ (t + len <= vt \/ vt + Len(s) <= t)
        BY <1>1, <2>1, <3>2
      <4>. HIDE DEF w
      <4>2. /\ t + o + w <= Len(d)
            /\ t + o + w <= vt \/ vt + Len(s) <= t + o
        BY ONLY <4>1
      <4>. QED
        BY <3>2, <4>2 DEF w
    <3>. QED
      BY <2>2, <3>1, <3>2
  <2>4. o \in Nat
    BY <2>2
  <2>. QED
    BY <2>1, <2>3, <2>4 DEF FieldLies, o
<1>6. t + 4 <= Len(d) /\ (t + 4 <= vt \/ vt + Len(s) <= t)
  BY <1>1
<1>7. ValidWith(d, fs, t, vt, Len(s))
  BY <1>1, <1>2, <1>5, <1>6 DEF ValidWith
<1>. QED
  BY <1>3, <1>7 DEF ValidAt

(* off is the offset of such a table from the end.                         *)
ValidTable(d, fs, off) == off \in Int /\ ValidAt(d, fs, Len(d) - off)

LEMMA SumsOfThree ==
  ASSUME NEW a \in Seq(Int), NEW c \in Seq(Int), NEW d \in Seq(Int)
  PROVE  /\ a \o (c \o d) \in Seq(Int) /\ c \o d \in Seq(Int)
         /\ Len(a \o (c \o d)) = Len(a) + (Len(c) + Len(d))
         /\ Len(c \o d) = Len(c) + Len(d)
         /\ Len(a) \in Nat /\ Len(c) \in Nat /\ Len(d) \in Nat
<1>1. c \o d \in Seq(Int) /\ Len(c \o d) = Len(c) + Len(d)
  BY Concatenated
<1>. DEFINE e == c \o d
<1>. HIDE DEF e
<1>2. e \in Seq(Int) /\ a \in Seq(Int)
  BY <1>1 DEF e
<1>3. a \o e \in Seq(Int) /\ Len(a \o e) = Len(a) + Len(e)
  BY ONLY <1>2, Concatenated
<1>. QED
  BY <1>1, <1>3, LenProperties DEF e

LEMMA FrontLies ==
  ASSUME NEW s \in Seq(Int), NEW d \in Seq(Int)
  PROVE  LiesAt(s \o d, 0, s)
<1>. DEFINE q == s \o d
<1>1. IsHead(q, s) /\ q \in Seq(Int) /\ Len(s) \in Nat /\ Len(q) \in Nat
  BY Concatenated, LenProperties
<1>. HIDE DEF q
<1>2. \A i \in 1..Len(s) : q[0 + i] = s[i]
  BY <1>1 DEF IsHead
<1>3. LiesAt(q, 0, s)
  BY <1>1, <1>2 DEF LiesAt, IsHead
<1>. QED
  BY <1>3 DEF q

LEMMA LiesBehind ==
  ASSUME NEW a \in Seq(Int), NEW d, NEW at, NEW s, LiesAt(d, at, s)
  PROVE  LiesAt(a \o d, Len(a) + at, s)
<1>. DEFINE q == a \o d
            n == Len(a)
<1>1. /\ d \in Seq(Int) /\ s \in Seq(Int) /\ at \in Nat /\ Len(s) \in Nat
      /\ Len(d) \in Nat /\ at + Len(s) <= Len(d)
      /\ \A i \in 1..Len(s) : d[at + i] = s[i]
  BY LenProperties DEF LiesAt
<1>2. IsTail(q, d, n) /\ q \in Seq(Int) /\ n \in Nat
  BY <1>1, Concatenated, LenProperties
<1>. HIDE DEF q, n
<1>3. Len(q) = n + Len(d) /\ \A i \in 1..Len(d) : q[n + i] = d[i]
  BY <1>2 DEF IsTail
<1>4. ASSUME NEW i \in 1..Len(s)
      PROVE  q[(n + at) + i] = s[i]
  <2>1. at + i \in 1..Len(d) /\ n + (at + i) = (n + at) + i
    BY <1>1, <1>2
  <2>2. q[n + (at + i)] = d[at + i]
    BY <1>3, <2>1
  <2>. QED
    BY <1>1, <2>1, <2>2
<1>5. LiesAt(q, n + at, s)
  BY <1>1, <1>2, <1>3, <1>4 DEF LiesAt
<1>. QED
  BY <1>5 DEF q, n

(* The vtable is where EntriesOf() finds it.                               *)
LEMMA EntriesLie ==
  ASSUME NEW d \in Seq(Int), NEW at \in Nat, NEW s, EntriesOf(d, at) = s,
         Len(s) # 0
  PROVE  LiesAt(d, at, s)
<1>. DEFINE n == ReadU(d, at, 2)
<1>1. n \in Int
  <2>1. at \in Int /\ 2 \in {2, 4}
    OBVIOUS
  <2>. QED
    BY <2>1, ReadType
<1>2. s = Bytes(d, at, n)
  BY DEF EntriesOf
<1>. HIDE DEF n
<1>3. Inside(d, at, n)
  BY <1>2, EmptySeq DEF Bytes
<1>4. at + n <= Len(d) /\ s = SubSeq(d, at + 1, at + n) /\ Len(d) \in Nat
  BY <1>2, <1>3, LenProperties DEF Bytes, Inside
<1>5. CASE n <= 0
  <2>1. s = <<>>
    BY <1>1, <1>4, <1>5, SubSeqProperties
  <2>. QED
    BY <2>1, EmptySeq
<1>6. CASE 0 < n
  <2>1. at + 1 \in 1..(Len(d) + 1) /\ at + n \in 0..Len(d)
    BY <1>1, <1>4, <1>6
  <2>2. /\ s \in Seq(Int) /\ Len(s) = n
        /\ \A i \in 1..n : s[i] = d[at + i]
    BY <1>1, <1>4, <1>6, SubSeqProperties
  <2>. QED
    BY <1>1, <1>4, <2>2 DEF LiesAt
<1>. QED
  BY <1>1, <1>5, <1>6

(* Where the table and the distance to its vtable are in the data.         *)
WithNewVtable(z, r, s, pre, loc) ==
  /\ DataOf(r) = s \o (Scalar(Len(s), 4) \o (pre \o DataOf(z)))
  /\ Scalar(Len(s), 4) \o (pre \o DataOf(z)) \in Seq(Int)
  /\ DataOf(r) \in Seq(Int) /\ Len(DataOf(r)) - loc = Len(s)
  /\ Len(s) + (loc - Size(z)) <= Len(DataOf(r)) /\ 4 <= loc - Size(z)
  /\ loc - Size(z) \in Int /\ Len(s) \in Nat /\ s \in Seq(Int)
  /\ ReadS(DataOf(r), Len(s), 4) = Len(s)

WithOldVtable(z, r, s, loc, use) ==
  /\ DataOf(r) \in Seq(Int) /\ Len(DataOf(r)) - loc = 0
  /\ LiesAt(DataOf(r), loc - use, s)
  /\ ReadS(DataOf(r), 0, 4) = use - loc /\ use - loc \in Int
  /\ 0 - (use - loc) = loc - use /\ loc - use \in Nat
  /\ loc - Size(z) \in Int /\ 0 + (loc - Size(z)) <= loc - use
  /\ 0 + (loc - Size(z)) <= Len(DataOf(r)) /\ 4 <= loc - Size(z)

LEMMA NewTableReads ==
  ASSUME NEW z \in Builders, NEW r \in Builders,
         NEW s \in Seq(Byte), NEW pre \in Seq(Byte), NewlyStored(z, r, s, pre),
         NEW loc \in Int, loc = 4 + (Len(pre) + Size(z)), Size(r) < Huge
  PROVE  WithNewVtable(z, r, s, pre, loc)
<1>. DEFINE c == Scalar(Len(s), 4)
            d == DataOf(r)
            D == DataOf(z)
            e == pre \o D
            t == Len(s)
            len == loc - Size(z)
<1>1. /\ s \in Seq(Int) /\ pre \in Seq(Int) /\ D \in Seq(Int) /\ t \in Nat
      /\ t \in Int /\ Size(z) = Len(D) /\ Size(z) \in Nat /\ Size(r) = Len(d)
      /\ Size(r) \in Nat
  BY ByteSeq, BuilderParts, LenProperties
<1>2. c \in Seq(Int) /\ Len(c) = 4
  BY <1>1, ScalarOfFour
<1>4. e \in Seq(Int) /\ Len(e) = Len(pre) + Len(D) /\ Len(pre) \in Nat
  BY <1>1, Concatenated, LenProperties
<1>5. d = s \o (c \o e)
  <2>1. d = (s \o c) \o e
    BY DEF NewlyStored
  <2>2. (s \o c) \o e = s \o (c \o e)
    <3>. HIDE DEF c, e
    <3>1. s \in Seq(Int) /\ c \in Seq(Int) /\ e \in Seq(Int)
      BY <1>1, <1>2, <1>4
    <3>. QED
      BY ONLY <3>1, ThreeParts, Zenon
  <2>. QED
    BY <2>1, <2>2
<1>. HIDE DEF c, d, e, D
<1>. DEFINE ce == c \o e
<1>6. /\ ce \in Seq(Int) /\ Len(ce) = 4 + Len(e) /\ d \in Seq(Int)
      /\ Len(d) = t + (4 + Len(e)) /\ Len(e) \in Nat
  <2>1. s \in Seq(Int) /\ c \in Seq(Int) /\ e \in Seq(Int)
    BY <1>1, <1>2, <1>4
  <2>2. /\ s \o (c \o e) \in Seq(Int) /\ c \o e \in Seq(Int)
        /\ Len(s \o (c \o e)) = Len(s) + (Len(c) + Len(e))
        /\ Len(c \o e) = Len(c) + Len(e) /\ Len(e) \in Nat
    BY ONLY <2>1, SumsOfThree
  <2>. QED
    BY <1>2, <1>5, <2>2
<1>7. t < Huge /\ Len(d) - loc = t /\ t + len <= Len(d) /\ 4 <= len
      /\ len \in Int
  <2>1. /\ loc = 4 + (Len(pre) + Size(z)) /\ Size(z) = Len(D)
        /\ Len(d) = Len(s) + (4 + Len(e)) /\ Len(e) = Len(pre) + Len(D)
        /\ Len(pre) \in Nat /\ Len(D) \in Nat /\ Size(z) \in Nat
        /\ Len(s) \in Nat /\ Size(r) = Len(d) /\ Size(r) < Huge /\ loc \in Int
    BY <1>1, <1>4, <1>6
  <2>2. Len(d) - loc = t /\ t + len <= Len(d) /\ 4 <= len /\ len \in Int
    BY ONLY <2>1
  <2>3. t < Huge
    BY ONLY <2>1, SMT DEF Huge
  <2>. QED
    BY <2>2, <2>3
<1>8. ReadS(d, t, 4) = t
  <2>1. -Huge < t /\ t < Huge
    BY <1>1, <1>7, SMT DEF Huge
  <2>2. ReadS(c, 0, 4) = t
    BY <1>1, <2>1, ReadBackSigned DEF c
  <2>3. ReadS(ce, 0, 4) = ReadS(c, 0, 4)
    <3>1. /\ c \in Seq(Int) /\ e \in Seq(Int) /\ 0 \in Nat /\ 4 \in {1, 2, 4, 8}
          /\ 0 + 4 <= Len(c)
      BY <1>2, <1>4
    <3>. QED
      BY ONLY <3>1, FrontRead
  <2>4. ReadS(s \o ce, t, 4) = ReadS(ce, t - Len(s), 4)
    <3>1. /\ s \in Seq(Int) /\ ce \in Seq(Int)
          /\ t \in Nat /\ 4 \in {1, 2, 4, 8}
          /\ Len(s) <= t
      BY <1>1, <1>6
    <3>. HIDE DEF ce, t
    <3>. QED
      BY ONLY <3>1, BackRead
  <2>5. t - Len(s) = 0
    BY <1>1
  <2>. HIDE DEF ce, t
  <2>. QED
    BY <1>5, <2>2, <2>3, <2>4, <2>5 DEF ce
<1>9. len = loc - Size(z) /\ d = DataOf(r) /\ t = Len(s)
  BY DEF d
<1>10. /\ d = s \o (Scalar(Len(s), 4) \o (pre \o DataOf(z)))
       /\ Scalar(Len(s), 4) \o (pre \o DataOf(z)) \in Seq(Int)
  BY <1>5, <1>6 DEF c, e, D
<1>. HIDE DEF ce, t, len
<1>. QED
  BY <1>1, <1>6, <1>7, <1>8, <1>9, <1>10 DEF WithNewVtable

LEMMA NewTableValid ==
  ASSUME NEW z \in Builders, NEW r \in Builders, NEW fs \in SUBSET Fields,
         NEW s \in Seq(Byte), NEW pre \in Seq(Byte), NewlyStored(z, r, s, pre),
         NEW loc \in Int, loc = 4 + (Len(pre) + Size(z)),
         VtableFor(s, fs, loc - Size(z)), Size(r) < Huge
  PROVE  ValidTable(DataOf(r), fs, loc)
<1>. DEFINE d == DataOf(r)
            t == Len(s)
            len == loc - Size(z)
            e == Scalar(Len(s), 4) \o (pre \o DataOf(z))
<1>1. /\ d = s \o e /\ e \in Seq(Int) /\ d \in Seq(Int) /\ Len(d) - loc = t
      /\ t + len <= Len(d) /\ 4 <= len /\ len \in Int /\ t \in Nat
      /\ s \in Seq(Int) /\ ReadS(d, t, 4) = t
  <2>1. WithNewVtable(z, r, s, pre, loc)
    BY NewTableReads
  <2>. QED
    BY ONLY <2>1 DEF WithNewVtable
<1>. HIDE DEF d, e
<1>2. VtableOf(d, t) = 0
  BY <1>1 DEF VtableOf
<1>3. LiesAt(d, 0, s)
  BY <1>1, FrontLies
<1>4. t + len <= 0 \/ 0 + Len(s) <= t
  BY <1>1
<1>5. VtableFor(s, fs, len)
  OBVIOUS
<1>. HIDE DEF len, t
<1>6. ValidAt(d, fs, t)
  BY <1>1, <1>2, <1>3, <1>4, <1>5, TableLies
<1>. QED
  BY <1>1, <1>6 DEF ValidTable, d

LEMMA SharedTableReads ==
  ASSUME NEW z \in Builders, NEW r \in Builders,
         NEW s \in Seq(Byte), NEW pre \in Seq(Byte), NEW use \in Nat,
         NEW loc \in Int, StoredBefore(z, r, s, pre, loc, use),
         loc = 4 + (Len(pre) + Size(z)), 4 <= Len(s), Size(r) < Huge
  PROVE  WithOldVtable(z, r, s, loc, use)
<1>. DEFINE back == use - loc
            c == Scalar(back, 4)
            d == DataOf(r)
            D == DataOf(z)
            e == pre \o D
            at == Size(z) - use
            cp == c \o pre
            vt == loc - use
            len == loc - Size(z)
<1>1. /\ s \in Seq(Int) /\ pre \in Seq(Int) /\ D \in Seq(Int) /\ Len(s) \in Nat
      /\ Size(z) = Len(D) /\ Size(z) \in Nat /\ Size(r) = Len(d)
      /\ Size(r) \in Nat /\ Len(pre) \in Nat
  BY ByteSeq, BuilderParts, LenProperties
<1>2. back \in Int
  OBVIOUS
<1>3. c \in Seq(Int) /\ Len(c) = 4
  BY <1>2, ScalarOfFour
<1>4. /\ use <= Size(z) /\ EntriesOf(D, at) = s /\ d = c \o (pre \o D)
  BY DEF StoredBefore
<1>6. at \in Nat
  BY <1>1, <1>4
<1>7. LiesAt(D, at, s)
  <2>1. Len(s) # 0
    OBVIOUS
  <2>. HIDE DEF at, D
  <2>. QED
    BY <1>1, <1>4, <1>6, <2>1, EntriesLie
<1>8. cp \in Seq(Int) /\ Len(cp) = 4 + Len(pre)
  <2>. HIDE DEF c
  <2>1. c \in Seq(Int) /\ pre \in Seq(Int)
    BY <1>1, <1>3
  <2>2. c \o pre \in Seq(Int) /\ Len(c \o pre) = Len(c) + Len(pre)
    BY ONLY <2>1, Concatenated
  <2>. QED
    BY <1>3, <2>2
<1>9. d = cp \o D
  <2>. HIDE DEF c, D, d
  <2>1. c \in Seq(Int) /\ pre \in Seq(Int) /\ D \in Seq(Int)
    BY <1>1, <1>3
  <2>2. (c \o pre) \o D = c \o (pre \o D)
    BY ONLY <2>1, ThreeParts, Zenon
  <2>. QED
    BY <1>4, <2>2
<1>. HIDE DEF d, D
<1>10. d \in Seq(Int) /\ Len(d) = 4 + (Len(pre) + Len(D)) /\ Len(D) \in Nat
  <2>. HIDE DEF c
  <2>1. c \in Seq(Int) /\ pre \in Seq(Int) /\ D \in Seq(Int)
    BY <1>1, <1>3
  <2>2. /\ c \o (pre \o D) \in Seq(Int)
        /\ Len(c \o (pre \o D)) = Len(c) + (Len(pre) + Len(D))
        /\ Len(D) \in Nat
    BY ONLY <2>1, SumsOfThree
  <2>. QED
    BY <1>3, <1>4, <2>2
<1>11. /\ Len(d) - loc = 0 /\ Len(cp) + at = vt /\ 0 - back = vt
       /\ -Huge < back /\ back < Huge /\ vt \in Nat
       /\ len = 4 + Len(pre) /\ len \in Int /\ 0 + len <= vt
       /\ 0 + len <= Len(d) /\ 4 <= len
  <2>1. /\ use <= Size(z) /\ loc = 4 + (Len(pre) + Size(z)) /\ Size(z) = Len(D)
        /\ Len(cp) = 4 + Len(pre) /\ Len(d) = 4 + (Len(pre) + Len(D))
        /\ Len(pre) \in Nat /\ Len(D) \in Nat /\ Size(z) \in Nat
        /\ Size(r) = Len(d) /\ Size(r) < Huge /\ use \in Nat /\ loc \in Int
    BY <1>1, <1>4, <1>8, <1>10
  <2>. HIDE DEF cp
  <2>2. /\ Len(d) - loc = 0 /\ Len(cp) + at = vt /\ 0 - back = vt /\ vt \in Nat
        /\ len = 4 + Len(pre) /\ len \in Int /\ 0 + len <= vt
        /\ 0 + len <= Len(d) /\ 4 <= len
    BY ONLY <2>1
  <2>3. -Huge < back /\ back < Huge
    BY ONLY <2>1, SMT DEF Huge
  <2>. QED
    BY <2>2, <2>3
<1>12. ReadS(d, 0, 4) = back
  <2>1. ReadS(c, 0, 4) = back
    <3>. HIDE DEF back
    <3>. QED
      BY <1>2, <1>11, ReadBackSigned
  <2>. HIDE DEF c
  <2>2. pre \o D \in Seq(Int)
    BY <1>1, Concatenated
  <2>. DEFINE f == pre \o D
  <2>. HIDE DEF f
  <2>3. /\ c \in Seq(Int) /\ f \in Seq(Int) /\ 0 \in Nat /\ 4 \in {1, 2, 4, 8}
        /\ 0 + 4 <= Len(c)
    BY <1>3, <2>2 DEF f
  <2>4. ReadS(c \o f, 0, 4) = ReadS(c, 0, 4)
    BY ONLY <2>3, FrontRead
  <2>. QED
    BY <1>4, <2>1, <2>4 DEF f
<1>13. LiesAt(d, vt, s)
  <2>. HIDE DEF cp, at
  <2>1. LiesAt(cp \o D, Len(cp) + at, s)
    BY <1>7, <1>8, LiesBehind
  <2>. QED
    BY <1>9, <1>11, <2>1
<1>14. /\ d = DataOf(r) /\ vt = loc - use /\ back = use - loc
       /\ len = loc - Size(z)
  BY DEF d
<1>. HIDE DEF vt, len, back
<1>. QED
  BY <1>2, <1>10, <1>11, <1>12, <1>13, <1>14 DEF WithOldVtable

LEMMA SharedTableValid ==
  ASSUME NEW z \in Builders, NEW r \in Builders, NEW fs \in SUBSET Fields,
         NEW s \in Seq(Byte), NEW pre \in Seq(Byte), NEW use \in Nat,
         NEW loc \in Int, StoredBefore(z, r, s, pre, loc, use),
         loc = 4 + (Len(pre) + Size(z)),
         VtableFor(s, fs, loc - Size(z)), Size(r) < Huge
  PROVE  ValidTable(DataOf(r), fs, loc)
<1>. DEFINE d == DataOf(r)
            vt == loc - use
            len == loc - Size(z)
            back == use - loc
<1>1. 4 <= Len(s)
  BY DEF VtableFor
<1>2. /\ d \in Seq(Int) /\ Len(d) - loc = 0 /\ LiesAt(d, vt, s)
      /\ ReadS(d, 0, 4) = back /\ back \in Int /\ 0 - back = vt /\ vt \in Nat
      /\ len \in Int /\ 0 + len <= vt /\ 0 + len <= Len(d) /\ 4 <= len
  <2>1. WithOldVtable(z, r, s, loc, use)
    BY <1>1, SharedTableReads
  <2>. QED
    BY ONLY <2>1 DEF WithOldVtable
<1>. HIDE DEF d, back
<1>3. VtableOf(d, 0) = vt
  <2>. HIDE DEF vt
  <2>. QED
    BY <1>2 DEF VtableOf
<1>4. VtableFor(s, fs, len)
  OBVIOUS
<1>. HIDE DEF vt, len
<1>5. ValidAt(d, fs, 0)
  <2>1. 0 \in Nat
    OBVIOUS
  <2>. QED
    BY <1>2, <1>3, <1>4, <2>1, TableLies
<1>. QED
  BY <1>2, <1>5 DEF ValidTable, d

(* The table that was made has a vtable that fits its fields.              *)
MadeWith(z, m, fs, s, pre) ==
  /\ Stored(z, m.b, s, pre, m.off) /\ m.off = 4 + (Len(pre) + Size(z))
  /\ VtableFor(s, fs, m.off - Size(z)) /\ m.off \in Int /\ m.off <= Size(m.b)

LEMMA VtableWritten ==
  ASSUME NEW z \in Builders, NEW m, NEW fs \in SUBSET Fields,
         TableMade(z, m, fs), Size(m.b) < Huge
  PROVE  \E s \in Seq(Byte), pre \in Seq(Byte) : MadeWith(z, m, fs, s, pre)
<1>. DEFINE r == m.b
            loc == m.off
<1>1. PICK s \in Seq(Byte), pre \in Seq(Byte) : TableOf(z, r, loc, fs, s, pre)
  BY DEF TableMade
<1>. HIDE DEF r, loc
<1>2. /\ Stored(z, r, s, pre, loc) /\ loc = 4 + (Len(pre) + Size(z))
      /\ (loc < Huge => VtableFor(s, fs, loc - Size(z)))
  BY <1>1 DEF TableOf
<1>3. r \in Builders /\ Adds(z, r)
  BY <1>2 DEF Stored, Sound
<1>4. /\ Size(z) \in Nat /\ Size(r) \in Nat /\ Len(pre) \in Nat /\ loc \in Int
      /\ Size(r) < Huge
  BY <1>2, <1>3, BuilderParts, LenProperties DEF r
<1>a. /\ DataOf(z) \in Seq(Int) /\ Size(z) = Len(DataOf(z))
      /\ pre \in Seq(Int) /\ s \in Seq(Int) /\ Size(r) = Len(DataOf(r))
  BY <1>3, BuilderParts, ByteSeq
<1>5. loc <= Size(r)
  <2>1. CASE NewlyStored(z, r, s, pre)
    <3>. DEFINE c == Scalar(Len(s), 4)
                sc == s \o c
                e == pre \o DataOf(z)
    <3>1. Len(s) \in Int /\ Len(s) \in Nat
      BY <1>a, LenProperties
    <3>2. c \in Seq(Int) /\ Len(c) = 4
      BY <3>1, ScalarOfFour
    <3>3. DataOf(r) = sc \o e
      BY <2>1 DEF NewlyStored
    <3>. HIDE DEF c
    <3>4. sc \in Seq(Int) /\ Len(sc) = Len(s) + 4
      <4>1. s \in Seq(Int) /\ c \in Seq(Int)
        BY <1>a, <3>2
      <4>2. s \o c \in Seq(Int) /\ Len(s \o c) = Len(s) + Len(c)
        BY ONLY <4>1, Concatenated
      <4>. QED
        BY <3>2, <4>2
    <3>. HIDE DEF sc
    <3>5. sc \in Seq(Int) /\ pre \in Seq(Int) /\ DataOf(z) \in Seq(Int)
      BY <1>a, <3>4
    <3>6. Len(sc \o (pre \o DataOf(z))) = Len(sc) + (Len(pre) + Len(DataOf(z)))
      BY ONLY <3>5, SumsOfThree
    <3>. QED
      BY <1>2, <1>4, <1>a, <3>1, <3>3, <3>4, <3>6
  <2>2. CASE \E use \in Nat : StoredBefore(z, r, s, pre, loc, use)
    <3>1. PICK use \in Nat : StoredBefore(z, r, s, pre, loc, use)
      BY <2>2
    <3>. DEFINE c == Scalar(use - loc, 4)
    <3>2. use - loc \in Int
      BY <1>4
    <3>3. c \in Seq(Int) /\ Len(c) = 4
      BY <3>2, ScalarOfFour
    <3>4. DataOf(r) = c \o (pre \o DataOf(z))
      BY <3>1 DEF StoredBefore
    <3>. HIDE DEF c
    <3>5. c \in Seq(Int) /\ pre \in Seq(Int) /\ DataOf(z) \in Seq(Int)
      BY <1>a, <3>3
    <3>6. Len(c \o (pre \o DataOf(z))) = Len(c) + (Len(pre) + Len(DataOf(z)))
      BY ONLY <3>5, SumsOfThree
    <3>. QED
      BY <1>2, <1>4, <1>a, <3>3, <3>4, <3>6
  <2>. QED
    BY <1>2, <2>1, <2>2 DEF Stored
<1>6. VtableFor(s, fs, loc - Size(z))
  <2>1. loc < Huge
    BY <1>4, <1>5, SMT DEF Huge
  <2>. QED
    BY <1>2, <2>1
<1>. QED
  BY <1>2, <1>4, <1>5, <1>6 DEF MadeWith, r, loc

(* What Create<table>() makes can be read: its vtable and the fields it    *)
(* holds lie inside the buffer, none of them in the vtable.                *)
THEOREM MadeTableValid ==
  ASSUME NEW z \in Builders, NEW m, NEW fs \in SUBSET Fields,
         TableMade(z, m, fs), Size(m.b) < Huge
  PROVE  ValidTable(DataOf(m.b), fs, m.off)
<1>. DEFINE r == m.b
            loc == m.off
<1>1. PICK s \in Seq(Byte), pre \in Seq(Byte) : MadeWith(z, m, fs, s, pre)
  BY VtableWritten
<1>. HIDE DEF r, loc
<1>2. /\ Stored(z, r, s, pre, loc) /\ loc = 4 + (Len(pre) + Size(z))
      /\ VtableFor(s, fs, loc - Size(z)) /\ loc \in Int /\ Size(r) < Huge
  BY <1>1 DEF MadeWith, r, loc
<1>3. r \in Builders
  BY <1>2 DEF Stored, Sound
<1>4. ValidTable(DataOf(r), fs, loc)
  <2>1. CASE NewlyStored(z, r, s, pre)
    BY <1>2, <1>3, <2>1, NewTableValid
  <2>2. CASE \E use \in Nat : StoredBefore(z, r, s, pre, loc, use)
    BY <1>2, <1>3, <2>2, SharedTableValid
  <2>. QED
    BY <1>2, <2>1, <2>2 DEF Stored
<1>. QED
  BY <1>4 DEF r, loc

LEMMA FunctionSeq ==
  ASSUME NEW n \in Nat, NEW S, NEW c \in [1..n -> S]
  PROVE  c \in Seq(S)
OBVIOUS

LEMMA ReadSType ==
  ASSUME NEW s \in Seq(Int), NEW at \in Int
  PROVE  ReadS(s, at, 4) \in Int
<1>. DEFINE c == [i \in 1..4 |-> 255 - s[at + i]]
<1>1. CASE ~Inside(s, at, 4)
  BY <1>1 DEF ReadS, Junk
<1>2. CASE Inside(s, at, 4)
  <2>1. ReadU(s, at, 4) \in Int
    <3>1. 4 \in {2, 4}
      OBVIOUS
    <3>. QED
      BY <3>1, ReadType
  <2>2. c \in Seq(Int)
    <3>1. \A i \in 1..4 : s[at + i] \in Int
      BY <1>2, ElementOfSeq DEF Inside
    <3>2. \A i \in 1..4 : 255 - s[at + i] \in Int
      BY <3>1
    <3>3. 4 \in Nat
      OBVIOUS
    <3>4. c \in [1..4 -> Int]
      BY <3>2
    <3>. HIDE DEF c
    <3>. QED
      BY <3>3, <3>4, FunctionSeq
  <2>3. ReadU(c, 0, 4) \in Int
    <3>1. 4 \in {2, 4} /\ 0 \in Int
      OBVIOUS
    <3>. HIDE DEF c
    <3>. QED
      BY <2>2, <3>1, ReadType
  <2>4. ReadS(s, at, 4) = IF s[at + 4] < 128 THEN ReadU(s, at, 4)
                          ELSE -1 - ReadU(c, 0, 4)
    BY <1>2 DEF ReadS
  <2>. HIDE DEF c
  <2>. QED
    BY <2>1, <2>3, <2>4
<1>. QED
  BY <1>1, <1>2

(* A table that is read in a larger memory.                                *)
LEMMA ShiftedTable ==
  ASSUME NEW s, NEW d, NEW p, IsTail(s, d, p), NEW t \in Nat,
         VtableOf(d, t) \in Nat
  PROVE  /\ VtableOf(s, p + t) = p + VtableOf(d, t)
         /\ ReadU(s, VtableOf(s, p + t), 2) = ReadU(d, VtableOf(d, t), 2)
         /\ \A vo \in Nat : FieldOffset(s, p + t, vo) = FieldOffset(d, t, vo)
<1>. DEFINE vt == VtableOf(d, t)
            back == ReadS(d, t, 4)
<1>1. p \in Nat /\ d \in Seq(Int)
  BY DEF IsTail
<1>2. back \in Int
  <2>1. t \in Int
    OBVIOUS
  <2>. QED
    BY <1>1, <2>1, ReadSType
<1>3. ReadS(s, p + t, 4) = back
  <2>1. 4 \in {1, 2, 4, 8}
    OBVIOUS
  <2>. QED
    BY <2>1, TailReads
<1>4. VtableOf(s, p + t) = p + vt
  <2>. HIDE DEF back
  <2>1. vt = t - back
    BY DEF VtableOf, back
  <2>2. VtableOf(s, p + t) = (p + t) - back
    BY <1>3 DEF VtableOf
  <2>. QED
    BY <1>1, <1>2, <2>1, <2>2
<1>5. vt \in Nat
  OBVIOUS
<1>6. \A at \in Nat : ReadU(s, p + at, 2) = ReadU(d, at, 2)
  <2>1. 2 \in {1, 2, 4, 8}
    OBVIOUS
  <2>. QED
    BY <2>1, TailReads
<1>. HIDE DEF vt, back
<1>7. ReadU(s, p + vt, 2) = ReadU(d, vt, 2)
  BY <1>5, <1>6
<1>8. ASSUME NEW vo \in Nat
      PROVE  FieldOffset(s, p + t, vo) = FieldOffset(d, t, vo)
  <2>1. vt + vo \in Nat /\ (p + vt) + vo = p + (vt + vo)
    BY <1>1, <1>5
  <2>2. ReadU(s, (p + vt) + vo, 2) = ReadU(d, vt + vo, 2)
    BY <1>6, <2>1
  <2>. QED
    BY <1>4, <1>7, <2>2 DEF FieldOffset, vt
<1>. QED
  BY <1>4, <1>7, <1>8 DEF vt

LEMMA ValidParts ==
  ASSUME NEW d, NEW fs, NEW t, ValidAt(d, fs, t)
  PROVE  /\ d \in Seq(Int) /\ t \in Nat /\ t + 4 <= Len(d)
         /\ VtableOf(d, t) \in Nat /\ ReadU(d, VtableOf(d, t), 2) \in Nat
         /\ 4 <= ReadU(d, VtableOf(d, t), 2)
         /\ VtableOf(d, t) + ReadU(d, VtableOf(d, t), 2) <= Len(d)
         /\ \/ t + 4 <= VtableOf(d, t)
            \/ VtableOf(d, t) + ReadU(d, VtableOf(d, t), 2) <= t
         /\ \A f \in fs : FieldLies(d, t, f, VtableOf(d, t),
                                    ReadU(d, VtableOf(d, t), 2))
BY DEF ValidAt, ValidWith

(* What was made can be read when more was added.                          *)
LEMMA ValidBehind ==
  ASSUME NEW a \in Seq(Int), NEW d, NEW fs \in SUBSET Fields, NEW off,
         ValidTable(d, fs, off)
  PROVE  ValidTable(a \o d, fs, off)
<1>. DEFINE t == Len(d) - off
            s == a \o d
            p == Len(a)
            vt == VtableOf(d, t)
            size == ReadU(d, vt, 2)
<1>1. off \in Int /\ ValidAt(d, fs, t)
  BY DEF ValidTable
<1>2. /\ d \in Seq(Int) /\ t \in Nat /\ t + 4 <= Len(d) /\ vt \in Nat
      /\ size \in Nat /\ 4 <= size /\ vt + size <= Len(d)
      /\ t + 4 <= vt \/ vt + size <= t
      /\ \A f \in fs : FieldLies(d, t, f, vt, size)
  <2>. HIDE DEF t
  <2>. QED
    BY <1>1, ValidParts
<1>3. IsTail(s, d, p) /\ s \in Seq(Int) /\ Len(s) = p + Len(d)
  BY <1>2, Concatenated
<1>4. p \in Nat /\ Len(d) \in Nat
  BY <1>2, LenProperties
<1>5. Len(s) - off = p + t
  BY <1>1, <1>3, <1>4
<1>. HIDE DEF t, s, p
<1>6. /\ VtableOf(s, p + t) = p + vt
      /\ ReadU(s, VtableOf(s, p + t), 2) = size
      /\ \A vo \in Nat : FieldOffset(s, p + t, vo) = FieldOffset(d, t, vo)
  BY <1>2, <1>3, ShiftedTable
<1>. HIDE DEF vt, size
<1>7. ASSUME NEW f \in fs
      PROVE  FieldLies(s, p + t, f, p + vt, size)
  <2>. DEFINE o == FieldOffset(d, t, f.vo)
              w == f.w
              vo == f.vo
  <2>1. vo \in Nat /\ w \in Nat
    BY FieldTypes
  <2>2. FieldOffset(s, p + t, vo) = o
    BY <1>6, <2>1
  <2>3. /\ vo < size => vo + 2 <= size
        /\ o \in Nat
        /\ \/ o = 0
           \/ /\ 4 <= o /\ t + o + w <= Len(d)
              /\ t + o + w <= vt \/ vt + size <= t + o
    BY <1>2 DEF FieldLies
  <2>. HIDE DEF o, w, vo
  <2>4. \/ o = 0
        \/ /\ 4 <= o /\ (p + t) + o + w <= Len(s)
           /\ (p + t) + o + w <= p + vt \/ (p + vt) + size <= (p + t) + o
    <3>1. CASE o = 0
      BY <3>1
    <3>2. CASE /\ 4 <= o /\ t + o + w <= Len(d)
               /\ t + o + w <= vt \/ vt + size <= t + o
      BY <1>2, <1>3, <1>4, <2>1, <2>3, <3>2
    <3>. QED
      BY <2>3, <3>1, <3>2
  <2>. QED
    BY <2>2, <2>3, <2>4 DEF FieldLies, o, w, vo
<1>8. /\ p + t \in Nat /\ (p + t) + 4 <= Len(s) /\ p + vt \in Nat
      /\ (p + vt) + size <= Len(s)
      /\ (p + t) + 4 <= p + vt \/ (p + vt) + size <= p + t
  BY <1>2, <1>3, <1>4
<1>9. ValidWith(s, fs, p + t, p + vt, size)
  BY <1>2, <1>3, <1>7, <1>8 DEF ValidWith
<1>10. ValidAt(s, fs, p + t)
  BY <1>6, <1>9 DEF ValidAt
<1>. QED
  BY <1>1, <1>5, <1>10 DEF ValidTable, s

(* A table that can be read still can, at the same offset from the end,    *)
(* whatever is built in front of it.                                       *)
THEOREM ValidAdds ==
  ASSUME NEW x, NEW y, Adds(x, y), NEW fs \in SUBSET Fields, NEW off,
         ValidTable(DataOf(x), fs, off)
  PROVE  ValidTable(DataOf(y), fs, off)
BY ByteSeq, ValidBehind DEF Adds

LEMMA ShiftedNumber ==
  ASSUME NEW s, NEW d, NEW p, IsTail(s, d, p), NEW fs \in SUBSET Fields,
         NEW t, ValidAt(d, fs, t), NEW f \in fs
  PROVE  GetField(s, p + t, f) = GetField(d, t, f)
<1>. DEFINE o == FieldOffset(d, t, f.vo)
            w == f.w
<1>1. t \in Nat /\ VtableOf(d, t) \in Nat
  BY ValidParts
<1>2. f.vo \in Nat /\ w \in {1, 2, 4, 8} /\ p \in Nat
  BY FieldParts, FieldTypes DEF IsTail
<1>3. FieldOffset(s, p + t, f.vo) = o
  BY <1>1, <1>2, ShiftedTable
<1>4. o \in Nat
  BY ValidParts DEF FieldLies
<1>. HIDE DEF o
<1>5. t + o \in Nat /\ (p + t) + o = p + (t + o)
  BY <1>1, <1>2, <1>4
<1>6. ReadS(s, p + (t + o), w) = ReadS(d, t + o, w)
  BY <1>2, <1>5, TailReads
<1>. QED
  BY <1>3, <1>5, <1>6 DEF GetField, o

LEMMA ShiftedString ==
  ASSUME NEW s, NEW d \in Seq(Byte), NEW p, IsTail(s, d, p),
         NEW at \in Nat, at + 4 <= Len(d)
  PROVE  CString(s, Follow(s, p + at)) = CString(d, Follow(d, at))
<1>. DEFINE r == ReadU(d, at, 4)
            q == Follow(d, at)
            len == ReadU(d, q, 4)
<1>1. p \in Nat /\ d \in Seq(Int) /\ 4 \in {1, 2, 4, 8} /\ at \in Int
      /\ Len(d) \in Nat /\ 4 \in {2, 4}
  BY ByteSeq, LenProperties DEF IsTail
<1>2. r \in Nat
  <2>1. Inside(d, at, 4)
    BY <1>1 DEF Inside
  <2>. QED
    BY <1>1, <2>1, ReadRange
<1>3. ReadU(s, p + at, 4) = r
  BY <1>1, TailReads
<1>4. q = at + r
  BY DEF Follow
<1>. HIDE DEF r, q
<1>5. q \in Nat /\ Follow(s, p + at) = p + q
  BY <1>1, <1>2, <1>3, <1>4 DEF Follow
<1>6. ReadU(s, p + q, 4) = len
  BY <1>1, <1>5, TailReads
<1>7. len \in Int
  <2>1. q \in Int
    BY <1>5
  <2>. QED
    BY <1>1, <2>1, ReadType
<1>8. VectorSize(s, p + q) = len /\ VectorSize(d, q) = len
  BY <1>6 DEF VectorSize
<1>. HIDE DEF len
<1>9. q + 4 \in Nat /\ (p + q) + 4 = p + (q + 4) /\ len + 1 \in Int
  BY <1>1, <1>5, <1>7
<1>10. Bytes(s, p + (q + 4), len + 1) = Bytes(d, q + 4, len + 1)
  BY <1>9, TailBytes
<1>. QED
  BY <1>5, <1>8, <1>9, <1>10 DEF CString, q

LEMMA ShiftedKey ==
  ASSUME NEW s, NEW d \in Seq(Byte), NEW p, IsTail(s, d, p),
         NEW T, GoodTable(Tables[T]), KeyOf(T) \in 1..Len(Tables[T]),
         NEW t, ValidAt(d, FieldsOf(Tables[T]), t)
  PROVE  KeyAt(s, T, p + t) = KeyAt(d, T, t)
<1>. DEFINE f == Tables[T][KeyOf(T)]
            fs == FieldsOf(Tables[T])
<1>1. f \in fs
  BY DEF FieldsOf
<1>2. fs \in SUBSET Fields
  BY ElementOfSeq DEF GoodTable, FieldsOf
<1>. HIDE DEF f, fs
<1>3. GetField(s, p + t, f) = GetField(d, t, f)
  BY <1>1, <1>2, ShiftedNumber DEF fs
<1>. DEFINE o == FieldOffset(d, t, f.vo)
            at == t + o
<1>4. /\ t \in Nat /\ VtableOf(d, t) \in Nat /\ t + 4 <= Len(d)
      /\ FieldLies(d, t, f, VtableOf(d, t), ReadU(d, VtableOf(d, t), 2))
  BY <1>1, ValidParts DEF fs
<1>5. f.vo \in Nat /\ f \in Fields
  BY <1>1, <1>2, FieldTypes
<1>6. FieldOffset(s, p + t, f.vo) = o
  BY <1>4, <1>5, ShiftedTable
<1>7. f.kind # "num"
        => CString(s, Follow(s, (p + t) + o)) = CString(d, Follow(d, t + o))
  <2>1. SUFFICES ASSUME f.kind # "num"
                 PROVE  CString(s, Follow(s, (p + t) + o))
                          = CString(d, Follow(d, t + o))
    OBVIOUS
  <2>2. f.w = 4
    BY <1>5, <2>1, FieldParts
  <2>3. o \in Nat /\ (o = 0 \/ t + o + 4 <= Len(d)) /\ p \in Nat
    BY <1>4, <2>2 DEF FieldLies, IsTail
  <2>. HIDE DEF o
  <2>4. at \in Nat /\ at + 4 <= Len(d) /\ (p + t) + o = p + at
    BY <1>4, <2>3
  <2>. HIDE DEF at
  <2>5. CString(s, Follow(s, p + at)) = CString(d, Follow(d, at))
    BY <2>4, ShiftedString
  <2>. QED
    BY <2>4, <2>5 DEF at
<1>. HIDE DEF o
<1>. QED
  BY <1>3, <1>6, <1>7 DEF KeyAt, f, o

(* The key of a table of the builder, from its data.                       *)
LEMMA BuilderKey ==
  ASSUME NEW x \in Builders, DataOf(x) \in Seq(Byte),
         NEW T, GoodTable(Tables[T]), KeyOf(T) \in 1..Len(Tables[T]),
         NEW o, ValidTable(DataOf(x), FieldsOf(Tables[T]), o)
  PROVE  KeyAt(x.v.buf, T, DataAt(x.v, o)) = KeyAt(DataOf(x), T, Size(x) - o)
<1>. DEFINE t == Size(x) - o
            d == DataOf(x)
<1>1. o \in Int /\ ValidAt(d, FieldsOf(Tables[T]), Len(d) - o)
  BY DEF ValidTable
<1>2. Size(x) = Len(d) /\ Size(x) \in Nat /\ x.v \in Blocks
  BY BuilderParts
<1>3. ValidAt(d, FieldsOf(Tables[T]), t)
  BY <1>1, <1>2
<1>4. t \in Nat
  <2>. HIDE DEF t
  <2>. QED
    BY <1>3, ValidParts
<1>5. o <= Size(x)
  BY <1>1, <1>2, <1>4
<1>6. DataAt(x.v, o) = x.v.cur + t
  BY <1>1, <1>5, BuilderReads
<1>7. IsTail(x.v.buf, d, x.v.cur)
  BY <1>2, BlockParts DEF Blocks, DataOf
<1>. HIDE DEF t, d
<1>8. KeyAt(x.v.buf, T, x.v.cur + t) = KeyAt(d, T, t)
  BY <1>3, <1>7, ShiftedKey DEF d
<1>. QED
  BY <1>6, <1>8 DEF t, d

(* What the vtable, the string and the distance at an offset from the end  *)
(* are.                                                                    *)
EntriesIn(x, o) == EntriesOf(DataOf(x), Size(x) - o)
TextIn(x, o) == TextOf(DataOf(x), Size(x) - o)
DistanceIn(x, o) == ReadS(DataOf(x), Size(x) - o, 4)
PadOffset(x, i) == ReadU(PadOf(x), 4 * (i - 1), 4)

(* Of the vtables on the scratch pad no two are equal, and neither are two *)
(* strings of the pool.                                                    *)
VtablesDiffer(x) ==
  x.dedup => \A n \in Nat : Len(PadOf(x)) = 4 * n =>
    \A i, j \in 1..n :
      EntriesIn(x, PadOffset(x, i)) = EntriesIn(x, PadOffset(x, j)) => i = j

TextsDiffer(x) == \A o, q \in x.pool : TextIn(x, o) = TextIn(x, q) => o = q

(* The table at off refers to a vtable on the scratch pad.                 *)
VtableKnown(x, off) ==
  off \in Int /\ off <= Size(x) /\ OnPad(PadOf(x), off + DistanceIn(x, off))

(* The string of the pool at off reads as str was written.                 *)
TextRead(str) == TextOf(Scalar(Len(str), 4) \o str, 0)
TextKnown(x, off, str) == off \in x.pool /\ TextIn(x, off) = TextRead(str)

LEMMA TextStays ==
  ASSUME NEW a \in Seq(Int), NEW d \in Seq(Int), NEW at \in Nat
  PROVE  TextOf(a \o d, Len(a) + at) = TextOf(d, at)
<1>. DEFINE s == a \o d
            n == ReadU(d, at, 4)
            chars == at + 4
<1>1. /\ IsTail(s, d, Len(a)) /\ 4 \in {1, 2, 4, 8} /\ 4 \in {2, 4}
      /\ at \in Int /\ chars \in Nat /\ Len(a) \in Nat
  BY Concatenated, LenProperties
<1>2. ReadU(s, Len(a) + at, 4) = n
  BY <1>1, TailReads
<1>3. n \in Int
  BY <1>1, ReadType
<1>a. (Len(a) + at) + 4 = Len(a) + chars
  BY <1>1
<1>. HIDE DEF s, n, chars
<1>4. Bytes(s, Len(a) + chars, n) = Bytes(d, chars, n)
  BY <1>1, <1>3, TailBytes
<1>. QED
  BY <1>2, <1>4, <1>a DEF TextOf, s, n, chars

LEMMA ObjectsKept ==
  ASSUME NEW x \in Builders, NEW y \in Builders, Adds(x, y),
         NEW o \in Int, o <= Size(x)
  PROVE  /\ EntriesIn(y, o) = EntriesIn(x, o) /\ TextIn(y, o) = TextIn(x, o)
         /\ DistanceIn(y, o) = DistanceIn(x, o) /\ o <= Size(y)
<1>1. PICK a \in Seq(Byte) : DataOf(y) = a \o DataOf(x)
  BY DEF Adds
<1>. DEFINE d == DataOf(x)
            e == DataOf(y)
            at == Size(x) - o
            l == Len(a)
<1>2. /\ a \in Seq(Int) /\ d \in Seq(Int) /\ l \in Nat /\ Size(x) \in Nat
      /\ Size(y) \in Nat /\ Size(x) = Len(d) /\ Size(y) = Len(e)
  BY ByteSeq, BuilderParts, LenProperties
<1>3. /\ e = a \o d /\ IsTail(e, d, l) /\ Len(e) = l + Len(d)
  BY <1>1, <1>2, Concatenated
<1>. HIDE DEF d, e, l
<1>4. at \in Nat /\ Size(y) - o = l + at /\ o <= Size(y)
  BY <1>2, <1>3
<1>. HIDE DEF at
<1>5. /\ EntriesOf(e, l + at) = EntriesOf(d, at)
      /\ TextOf(e, l + at) = TextOf(d, at)
  BY <1>2, <1>3, <1>4, EntriesStay, TextStays DEF l
<1>6. ReadS(e, l + at, 4) = ReadS(d, at, 4)
  <2>1. 4 \in {1, 2, 4, 8}
    OBVIOUS
  <2>. QED
    BY <1>3, <1>4, <2>1, TailReads
<1>. QED
  BY <1>4, <1>5, <1>6 DEF EntriesIn, TextIn, DistanceIn, at, d, e

LEMMA PadOffsets ==
  ASSUME NEW x, Sound(x), NEW n \in Nat, Len(PadOf(x)) = 4 * n,
         NEW i \in 1..n
  PROVE  /\ PadOffset(x, i) \in Nat /\ PadOffset(x, i) <= Size(x)
         /\ PadOffset(x, i) \in Int /\ OnPad(PadOf(x), PadOffset(x, i))
<1>1. PICK k \in Nat :
        /\ Len(PadOf(x)) = 4 * k
        /\ \A j \in 1..k : /\ ReadU(PadOf(x), 4 * (j - 1), 4) \in Nat
                           /\ ReadU(PadOf(x), 4 * (j - 1), 4) <= Size(x)
  BY DEF Sound
<1>2. k = n
  BY <1>1
<1>3. PadOffset(x, i) \in Nat /\ PadOffset(x, i) <= Size(x)
  BY <1>1, <1>2 DEF PadOffset
<1>4. OnPad(PadOf(x), PadOffset(x, i))
  BY DEF OnPad, PadOffset
<1>. QED
  BY <1>3, <1>4

(* y has what x has, and what x knows.                                     *)
Continues(x, y) ==
  /\ Sound(x) /\ Sound(y) /\ Adds(x, y) /\ y.dedup = x.dedup
  /\ x.pool \subseteq y.pool
  /\ \A o : OnPad(PadOf(x), o) => OnPad(PadOf(y), o)

LEMMA GrowsContinues ==
  ASSUME NEW x, NEW y, Sound(x), Grows(x, y), ~y.nested
  PROVE  Continues(x, y)
<1>1. Sound(y)
  BY GrowsSound
<1>. QED
  BY <1>1 DEF Continues, Grows, Remembers

LEMMA KnownStays ==
  ASSUME NEW x, NEW y, Continues(x, y), NEW off
  PROVE  /\ VtableKnown(x, off) => VtableKnown(y, off)
         /\ \A str : TextKnown(x, off, str) => TextKnown(y, off, str)
<1>1. /\ x \in Builders /\ y \in Builders /\ Adds(x, y)
      /\ x.pool \subseteq y.pool /\ \A o \in x.pool : o <= Size(x)
      /\ \A o : OnPad(PadOf(x), o) => OnPad(PadOf(y), o)
  BY DEF Continues, Sound
<1>2. x.pool \in SUBSET Int
  BY <1>1, BuilderParts
<1>3. ASSUME VtableKnown(x, off)
      PROVE  VtableKnown(y, off)
  <2>1. /\ off \in Int /\ off <= Size(x)
        /\ OnPad(PadOf(x), off + DistanceIn(x, off))
    BY <1>3 DEF VtableKnown
  <2>2. DistanceIn(y, off) = DistanceIn(x, off) /\ off <= Size(y)
    BY <1>1, <2>1, ObjectsKept
  <2>. QED
    BY <1>1, <2>1, <2>2 DEF VtableKnown
<1>4. ASSUME NEW str, TextKnown(x, off, str)
      PROVE  TextKnown(y, off, str)
  <2>1. off \in x.pool /\ off \in Int /\ off <= Size(x)
    BY <1>1, <1>2, <1>4 DEF TextKnown
  <2>2. TextIn(y, off) = TextIn(x, off)
    BY <1>1, <2>1, ObjectsKept
  <2>. QED
    BY <1>1, <1>4, <2>1, <2>2 DEF TextKnown
<1>. QED
  BY <1>3, <1>4

LEMMA VtablesStay ==
  ASSUME NEW x, Sound(x), NEW y \in Builders, Adds(x, y), y.dedup = x.dedup,
         PadOf(y) = PadOf(x), VtablesDiffer(x)
  PROVE  VtablesDiffer(y)
<1>. SUFFICES ASSUME y.dedup, NEW n \in Nat, Len(PadOf(y)) = 4 * n,
                     NEW i \in 1..n, NEW j \in 1..n,
                     EntriesIn(y, PadOffset(y, i))
                       = EntriesIn(y, PadOffset(y, j))
              PROVE  i = j
  BY DEF VtablesDiffer
<1>. DEFINE oi == PadOffset(x, i)
            oj == PadOffset(x, j)
<1>1. x \in Builders /\ Len(PadOf(x)) = 4 * n
  BY DEF Sound
<1>2. oi \in Int /\ oi <= Size(x) /\ oj \in Int /\ oj <= Size(x)
  BY <1>1, PadOffsets
<1>3. PadOffset(y, i) = oi /\ PadOffset(y, j) = oj
  BY DEF PadOffset
<1>. HIDE DEF oi, oj
<1>4. EntriesIn(x, oi) = EntriesIn(x, oj)
  BY <1>1, <1>2, <1>3, ObjectsKept
<1>. QED
  BY <1>1, <1>4 DEF VtablesDiffer, oi, oj

LEMMA TextsStay ==
  ASSUME NEW x, Sound(x), NEW y \in Builders, Adds(x, y), y.pool = x.pool,
         TextsDiffer(x)
  PROVE  TextsDiffer(y)
<1>1. x \in Builders /\ \A o \in x.pool : o <= Size(x)
  BY DEF Sound
<1>2. x.pool \in SUBSET Int
  BY <1>1, BuilderParts
<1>3. \A o \in x.pool : TextIn(y, o) = TextIn(x, o)
  BY <1>1, <1>2, ObjectsKept
<1>. QED
  BY <1>3 DEF TextsDiffer

(* One more offset on the scratch pad.                                     *)
PadWith(pad, m, q) ==
  \A n \in Nat : Len(pad) = 4 * n =>
    /\ Len(q) = 4 * (n + 1) /\ ReadU(q, 4 * ((n + 1) - 1), 4) = m
    /\ \A i \in 1..n : ReadU(q, 4 * (i - 1), 4) = ReadU(pad, 4 * (i - 1), 4)

LEMMA PadGrown ==
  ASSUME NEW pad \in Seq(Int), NEW m \in Nat, m < Huge
  PROVE  PadWith(pad, m, pad \o Scalar(m, 4))
<1>. DEFINE e == Scalar(m, 4)
            q == pad \o e
<1>a. m \in Int
  OBVIOUS
<1>b. e \in Seq(Int) /\ Len(e) = 4
  BY ONLY <1>a, ScalarOfFour
<1>c. ReadU(e, 0, 4) = m
  BY ONLY m \in Nat, m < Huge, ReadBackFour
<1>. HIDE DEF e
<1>d. Len(pad \o e) = Len(pad) + Len(e) /\ Len(pad) \in Nat
  BY ONLY pad \in Seq(Int), <1>b, Concatenated, LenProperties
<1>1. ASSUME NEW n \in Nat, Len(pad) = 4 * n
      PROVE  /\ Len(q) = 4 * (n + 1) /\ ReadU(q, 4 * ((n + 1) - 1), 4) = m
             /\ \A i \in 1..n :
                  ReadU(q, 4 * (i - 1), 4) = ReadU(pad, 4 * (i - 1), 4)
  <2>1. Len(q) = 4 * (n + 1)
    BY ONLY <1>1, <1>b, <1>d, n \in Nat DEF q
  <2>. DEFINE last == 4 * ((n + 1) - 1)
  <2>2. /\ last \in Nat /\ Len(pad) <= last /\ last - Len(pad) = 0
        /\ 4 \in {1, 2, 4, 8}
    BY <1>1
  <2>. HIDE DEF last
  <2>3. ReadU(pad \o e, last, 4) = ReadU(e, last - Len(pad), 4)
    BY ONLY pad \in Seq(Int), <1>b, <2>2, BackRead
  <2>4. ReadU(q, last, 4) = m
    BY ONLY <1>c, <2>2, <2>3 DEF q
  <2>5. ASSUME NEW i \in 1..n
        PROVE  ReadU(q, 4 * (i - 1), 4) = ReadU(pad, 4 * (i - 1), 4)
    <3>. DEFINE at == 4 * (i - 1)
    <3>1. at \in Nat /\ at + 4 <= Len(pad) /\ 4 \in {1, 2, 4, 8}
      BY <1>1
    <3>. HIDE DEF at
    <3>2. ReadU(pad \o e, at, 4) = ReadU(pad, at, 4)
      BY ONLY pad \in Seq(Int), <1>b, <3>1, FrontRead
    <3>. QED
      BY <3>2 DEF at
  <2>. HIDE DEF q
  <2>. QED
    BY <2>1, <2>4, <2>5 DEF last
<1>. HIDE DEF q
<1>. QED
  BY <1>1 DEF PadWith, q, e

LEMMA OneMoreOnPad ==
  ASSUME NEW pad, NEW m, NEW q, PadWith(pad, m, q), OffsetsOn(pad, m)
  PROVE  OnPad(q, m) /\ \A o : OnPad(pad, o) => OnPad(q, o)
<1>1. PICK n \in Nat : Len(pad) = 4 * n
  BY DEF OffsetsOn
<1>2. /\ Len(q) = 4 * (n + 1) /\ ReadU(q, 4 * ((n + 1) - 1), 4) = m
      /\ n + 1 \in Nat /\ n + 1 \in 1..(n + 1)
  BY <1>1 DEF PadWith
<1>3. OnPad(q, m)
  BY <1>2 DEF OnPad
<1>4. ASSUME NEW o, OnPad(pad, o)
      PROVE  OnPad(q, o)
  <2>1. PICK k \in Nat : /\ Len(pad) = 4 * k
                         /\ \E i \in 1..k : ReadU(pad, 4 * (i - 1), 4) = o
    BY <1>4 DEF OnPad
  <2>2. PICK i \in 1..k : ReadU(pad, 4 * (i - 1), 4) = o
    BY <2>1
  <2>3. /\ Len(q) = 4 * (k + 1) /\ ReadU(q, 4 * (i - 1), 4) = o
        /\ k + 1 \in Nat /\ i \in 1..(k + 1)
    BY <2>1, <2>2 DEF PadWith
  <2>. QED
    BY <2>3 DEF OnPad
<1>. QED
  BY <1>3, <1>4

LEMMA FrontEntries ==
  ASSUME NEW s \in Seq(Int), NEW e \in Seq(Int), ReadU(s, 0, 2) = Len(s),
         2 <= Len(s)
  PROVE  EntriesOf(s \o e, 0) = s
<1>. DEFINE d == s \o e
            n == Len(s)
<1>1. 0 \in Nat /\ 2 \in {1, 2, 4, 8} /\ 0 + 2 <= Len(s) /\ n \in Nat
  BY LenProperties
<1>2. ReadU(d, 0, 2) = n
  BY <1>1, FrontRead
<1>3. d \in Seq(Int) /\ Len(d) = n + Len(e) /\ IsHead(d, s) /\ Len(e) \in Nat
  BY Concatenated, LenProperties
<1>. HIDE DEF d, n
<1>4. Inside(d, 0, n)
  BY <1>1, <1>3 DEF Inside
<1>5. EntriesOf(d, 0) = SubSeq(d, 0 + 1, 0 + n)
  BY <1>2, <1>4 DEF EntriesOf, Bytes
<1>6. SubSeq(d, 1, n) = s
  <2>1. 1 \in 1..(Len(d) + 1) /\ n \in 0..Len(d) /\ 1 <= n
    BY <1>1, <1>3 DEF n
  <2>2. /\ SubSeq(d, 1, n) \in Seq(Int) /\ Len(SubSeq(d, 1, n)) = n
        /\ \A i \in 1..n : SubSeq(d, 1, n)[i] = d[i]
    BY <1>1, <1>3, <2>1, SubSeqProperties
  <2>3. \A i \in 1..n : d[i] = s[i]
    BY <1>3 DEF IsHead, n
  <2>. QED
    BY <2>2, <2>3, SeqEqual DEF n
<1>. QED
  BY <1>1, <1>5, <1>6 DEF d

(* A vtable that is none of those before: it is the last on the scratch    *)
(* pad, and it is what the table refers to.                                *)
LEMMA NewVtableKnown ==
  ASSUME NEW z, NEW r, NEW s \in Seq(Byte), NEW pre \in Seq(Byte),
         Sound(z), Sound(r), NewlyStored(z, r, s, pre),
         NEW loc \in Int, loc = 4 + (Len(pre) + Size(z)), Size(r) < Huge
  PROVE  /\ VtableKnown(r, loc) /\ OnPad(PadOf(r), Size(r))
         /\ \A o : OnPad(PadOf(z), o) => OnPad(PadOf(r), o)
<1>1. /\ z \in Builders /\ r \in Builders /\ Size(r) \in Nat
      /\ Size(r) = Len(DataOf(r)) /\ PadOf(z) \in Seq(Int) /\ Size(z) \in Nat
      /\ Len(pre) \in Nat
  BY BuilderParts, LenProperties DEF Sound
<1>2. WithNewVtable(z, r, s, pre, loc)
  BY <1>1, NewTableReads
<1>3. /\ Size(r) - loc = Len(s) /\ DistanceIn(r, loc) = Len(s)
      /\ Len(s) \in Nat
  BY ONLY <1>1, <1>2 DEF WithNewVtable, DistanceIn
<1>4. loc + DistanceIn(r, loc) = Size(r) /\ loc <= Size(r) /\ Size(z) <= Size(r)
  BY <1>1, <1>3
<1>5. PadOf(r) = PadOf(z) \o Scalar(Size(r), 4)
  BY DEF NewlyStored
<1>6. PadWith(PadOf(z), Size(r), PadOf(r))
  BY <1>1, <1>5, PadGrown
<1>7. OffsetsOn(PadOf(z), Size(r))
  <2>1. OffsetsOn(PadOf(z), Size(z))
    BY SoundOffsets
  <2>. QED
    BY <1>1, <1>4, <2>1, OffsetsBelow
<1>8. /\ OnPad(PadOf(r), Size(r))
      /\ \A o : OnPad(PadOf(z), o) => OnPad(PadOf(r), o)
  BY <1>6, <1>7, OneMoreOnPad
<1>. QED
  BY <1>4, <1>8 DEF VtableKnown

LEMMA NewVtableDiffers ==
  ASSUME NEW z, NEW r, NEW s \in Seq(Byte), NEW pre \in Seq(Byte),
         Sound(z), Sound(r), Adds(z, r), r.dedup = z.dedup,
         NewlyStored(z, r, s, pre), ReadU(s, 0, 2) = Len(s), 2 <= Len(s),
         NEW loc \in Int, loc = 4 + (Len(pre) + Size(z)), Size(r) < Huge,
         VtablesDiffer(z)
  PROVE  VtablesDiffer(r)
<1>1. /\ z \in Builders /\ r \in Builders /\ Size(r) \in Nat
      /\ Size(r) = Len(DataOf(r)) /\ PadOf(z) \in Seq(Int)
      /\ s \in Seq(Int)
  BY BuilderParts, ByteSeq DEF Sound
<1>2. EntriesIn(r, Size(r)) = s
  <2>. DEFINE e == Scalar(Len(s), 4) \o (pre \o DataOf(z))
  <2>1. DataOf(r) = s \o e /\ e \in Seq(Int)
    <3>1. WithNewVtable(z, r, s, pre, loc)
      BY <1>1, NewTableReads
    <3>. QED
      BY ONLY <3>1 DEF WithNewVtable
  <2>. HIDE DEF e
  <2>2. EntriesOf(DataOf(r), 0) = s
    BY <1>1, <2>1, FrontEntries
  <2>3. Size(r) - Size(r) = 0
    BY <1>1
  <2>. QED
    BY <2>2, <2>3 DEF EntriesIn
<1>3. PadWith(PadOf(z), Size(r), PadOf(r))
  <2>1. PadOf(r) = PadOf(z) \o Scalar(Size(r), 4)
    BY DEF NewlyStored
  <2>. QED
    BY <1>1, <2>1, PadGrown
<1>. SUFFICES ASSUME r.dedup, NEW k \in Nat, Len(PadOf(r)) = 4 * k,
                     NEW i \in 1..k, NEW j \in 1..k,
                     EntriesIn(r, PadOffset(r, i))
                       = EntriesIn(r, PadOffset(r, j))
              PROVE  i = j
  BY DEF VtablesDiffer
<1>4. PICK n \in Nat : Len(PadOf(z)) = 4 * n
  BY DEF Sound
<1>5. /\ k = n + 1 /\ PadOffset(r, n + 1) = Size(r)
      /\ \A h \in 1..n : PadOffset(r, h) = PadOffset(z, h)
  <2>1. /\ Len(PadOf(r)) = 4 * (n + 1)
        /\ ReadU(PadOf(r), 4 * ((n + 1) - 1), 4) = Size(r)
        /\ \A h \in 1..n : ReadU(PadOf(r), 4 * (h - 1), 4)
                             = ReadU(PadOf(z), 4 * (h - 1), 4)
    BY <1>3, <1>4 DEF PadWith
  <2>2. k = n + 1
    BY <2>1
  <2>. QED
    BY <2>1, <2>2 DEF PadOffset
<1>6. \A h \in 1..n :
        /\ EntriesIn(r, PadOffset(r, h)) = EntriesIn(z, PadOffset(z, h))
        /\ EntriesIn(z, PadOffset(z, h)) # s
  <2>. SUFFICES ASSUME NEW h \in 1..n
                PROVE  /\ EntriesIn(r, PadOffset(z, h))
                            = EntriesIn(z, PadOffset(z, h))
                       /\ EntriesIn(z, PadOffset(z, h)) # s
    BY <1>5
  <2>. DEFINE o == PadOffset(z, h)
  <2>1. o \in Nat /\ o \in Int /\ o <= Size(z) /\ OnPad(PadOf(z), o)
    BY <1>4, PadOffsets
  <2>. HIDE DEF o
  <2>2. EntriesIn(r, o) = EntriesIn(z, o)
    BY <1>1, <2>1, ObjectsKept
  <2>3. EntriesIn(z, o) # s
    BY <2>1 DEF NewlyStored, EntriesIn
  <2>. QED
    BY <2>2, <2>3 DEF o
<1>7. CASE i = n + 1 /\ j # n + 1
  <2>1. j \in 1..n
    BY <1>5, <1>7
  <2>. QED
    BY <1>2, <1>5, <1>6, <1>7, <2>1
<1>8. CASE i # n + 1 /\ j = n + 1
  <2>1. i \in 1..n
    BY <1>5, <1>8
  <2>. QED
    BY <1>2, <1>5, <1>6, <1>8, <2>1
<1>9. CASE i # n + 1 /\ j # n + 1
  <2>1. i \in 1..n /\ j \in 1..n
    BY <1>5, <1>9
  <2>2. EntriesIn(z, PadOffset(z, i)) = EntriesIn(z, PadOffset(z, j))
    BY <1>6, <2>1
  <2>. QED
    BY <1>4, <2>1, <2>2 DEF VtablesDiffer
<1>. QED
  BY <1>7, <1>8, <1>9

(* A vtable that was used before.                                          *)
LEMMA OldVtableKnown ==
  ASSUME NEW z, NEW r, NEW s \in Seq(Byte), NEW pre \in Seq(Byte),
         Sound(z), Sound(r), NEW use \in Nat, NEW loc \in Int,
         StoredBefore(z, r, s, pre, loc, use),
         loc = 4 + (Len(pre) + Size(z)), 4 <= Len(s), Size(r) < Huge
  PROVE  VtableKnown(r, loc)
<1>1. /\ z \in Builders /\ r \in Builders /\ Size(r) \in Nat
      /\ Size(r) = Len(DataOf(r))
  BY BuilderParts DEF Sound
<1>2. WithOldVtable(z, r, s, loc, use)
  BY <1>1, SharedTableReads
<1>3. Size(r) - loc = 0 /\ DistanceIn(r, loc) = use - loc
  BY ONLY <1>1, <1>2 DEF WithOldVtable, DistanceIn
<1>4. loc <= Size(r) /\ loc + DistanceIn(r, loc) = use
  BY <1>1, <1>3
<1>5. OnPad(PadOf(r), use)
  BY DEF StoredBefore
<1>. QED
  BY <1>4, <1>5 DEF VtableKnown

(* Create<table>() lets every table refer to a vtable on the scratch pad,  *)
(* and writes no vtable twice.                                             *)
THEOREM VtableStoredOnce ==
  ASSUME NEW z, Sound(z), NEW m, NEW fs \in SUBSET Fields,
         TableMade(z, m, fs), Size(m.b) < Huge,
         VtablesDiffer(z), TextsDiffer(z)
  PROVE  /\ Continues(z, m.b) /\ VtableKnown(m.b, m.off)
         /\ VtablesDiffer(m.b) /\ TextsDiffer(m.b)
<1>. DEFINE r == m.b
            loc == m.off
<1>1. z \in Builders
  BY DEF Sound
<1>2. PICK s \in Seq(Byte), pre \in Seq(Byte) : MadeWith(z, m, fs, s, pre)
  BY <1>1, VtableWritten
<1>. HIDE DEF r, loc
<1>3. /\ Stored(z, r, s, pre, loc) /\ loc = 4 + (Len(pre) + Size(z))
      /\ VtableFor(s, fs, loc - Size(z)) /\ loc \in Int /\ Size(r) < Huge
  BY <1>2 DEF MadeWith, r, loc
<1>4. /\ Sound(r) /\ Adds(z, r) /\ r.pool = z.pool /\ r.dedup = z.dedup
      /\ r \in Builders
  BY <1>3 DEF Stored, Sound
<1>5. ReadU(s, 0, 2) = Len(s) /\ 4 <= Len(s) /\ 2 <= Len(s)
  <2>1. ReadU(s, 0, 2) = Len(s) /\ 4 <= Len(s) /\ Len(s) \in Nat
    BY <1>3 DEF VtableFor
  <2>. QED
    BY <2>1
<1>6. TextsDiffer(r)
  BY <1>4, TextsStay
<1>7. CASE NewlyStored(z, r, s, pre)
  <2>1. /\ VtableKnown(r, loc)
        /\ \A o : OnPad(PadOf(z), o) => OnPad(PadOf(r), o)
    BY <1>3, <1>4, <1>7, NewVtableKnown
  <2>2. VtablesDiffer(r)
    BY <1>3, <1>4, <1>5, <1>7, NewVtableDiffers
  <2>3. Continues(z, r)
    BY <1>4, <2>1 DEF Continues
  <2>. QED
    BY <1>6, <2>1, <2>2, <2>3 DEF r, loc
<1>8. CASE \E use \in Nat : StoredBefore(z, r, s, pre, loc, use)
  <2>1. PICK use \in Nat : StoredBefore(z, r, s, pre, loc, use)
    BY <1>8
  <2>2. VtableKnown(r, loc)
    BY <1>3, <1>4, <1>5, <2>1, OldVtableKnown
  <2>3. PadOf(r) = PadOf(z)
    BY <2>1 DEF StoredBefore
  <2>4. VtablesDiffer(r)
    BY <1>4, <2>3, VtablesStay
  <2>5. Continues(z, r)
    BY <1>4, <2>3 DEF Continues
  <2>. QED
    BY <1>6, <2>2, <2>4, <2>5 DEF r, loc
<1>. QED
  BY <1>3, <1>7, <1>8 DEF Stored

LEMMA HeadBytes ==
  ASSUME NEW s, NEW h, IsHead(s, h), NEW at \in Nat, NEW len \in Nat,
         at + len <= Len(h)
  PROVE  Bytes(s, at, len) = Bytes(h, at, len)
<1>. DEFINE lo == at + 1
            hi == at + len
<1>1. /\ s \in Seq(Int) /\ h \in Seq(Int) /\ Len(h) <= Len(s)
      /\ \A i \in 1..Len(h) : s[i] = h[i]
  BY DEF IsHead
<1>2. Len(s) \in Nat /\ Len(h) \in Nat
  BY <1>1, LenProperties
<1>3. Inside(s, at, len) /\ Inside(h, at, len)
  BY <1>1, <1>2 DEF Inside
<1>4. lo \in Nat /\ hi \in Nat
  OBVIOUS
<1>5. SubSeq(s, lo, hi) = SubSeq(h, lo, hi)
  <2>1. CASE len = 0
    <3>1. hi < lo
      BY <2>1
    <3>. HIDE DEF lo, hi
    <3>. QED
      BY <1>1, <1>2, <1>4, <3>1, SubSeqProperties
  <2>2. CASE len # 0
    <3>1. /\ lo \in 1..(Len(s) + 1) /\ hi \in 0..Len(s)
          /\ lo \in 1..(Len(h) + 1) /\ hi \in 0..Len(h) /\ lo <= hi
      BY <1>1, <1>2, <2>2
    <3>2. \A i \in 1..(hi - lo + 1) : lo + i - 1 \in 1..Len(h)
      BY <1>1, <1>2, <3>1
    <3>a. /\ lo \in Int /\ hi \in Int /\ lo <= hi
          /\ \A i \in lo..hi : i \in 1..Len(s) /\ i \in 1..Len(h)
      <4>. DEFINE n == Len(s)
                  m == Len(h)
      <4>1. /\ lo \in Nat /\ hi \in Nat /\ lo <= hi /\ n \in Nat /\ m \in Nat
            /\ 1 <= lo /\ hi <= n /\ hi <= m
        BY <1>1, <1>2, <1>4, <3>1
      <4>. HIDE DEF n, m, lo, hi
      <4>2. /\ lo \in Int /\ hi \in Int /\ lo <= hi
            /\ \A i \in lo..hi : i \in 1..n /\ i \in 1..m
        BY ONLY <4>1
      <4>. QED
        BY <4>2 DEF n, m
    <3>. HIDE DEF lo, hi
    <3>b. \A i \in lo..hi : s[i] \in Int /\ h[i] \in Int
      BY <1>1, <3>a, ElementOfSeq
    <3>3. /\ SubSeq(s, lo, hi) \in Seq(Int)
          /\ Len(SubSeq(s, lo, hi)) = hi - lo + 1
          /\ \A i \in 1..(hi - lo + 1) : SubSeq(s, lo, hi)[i] = s[lo + i - 1]
      BY ONLY <3>a, <3>b, SubSeqProperties
    <3>4. /\ SubSeq(h, lo, hi) \in Seq(Int)
          /\ Len(SubSeq(h, lo, hi)) = hi - lo + 1
          /\ \A i \in 1..(hi - lo + 1) : SubSeq(h, lo, hi)[i] = h[lo + i - 1]
      BY ONLY <3>a, <3>b, SubSeqProperties
    <3>. QED
      BY <1>1, <3>2, <3>3, <3>4, SeqEqual
  <2>. QED
    BY <2>1, <2>2
<1>. QED
  BY <1>3, <1>5 DEF Bytes

(* A string whose length comes right in front of its characters.           *)
LEMMA FrontText ==
  ASSUME NEW str \in Seq(Byte), NEW d \in Seq(Int)
  PROVE  TextOf(Scalar(Len(str), 4) \o (str \o d), 0) = TextRead(str)
<1>. DEFINE n == Len(str)
            c == Scalar(n, 4)
            h == c \o str
            s == h \o d
            k == ReadU(c, 0, 4)
<1>1. n \in Nat /\ n \in Int /\ 0 <= n /\ str \in Seq(Int)
  BY ByteSeq, LenProperties
<1>. HIDE DEF n
<1>2. c \in Seq(Int) /\ Len(c) = 4
  BY <1>1, ScalarOfFour
<1>3. k \in Nat /\ k <= n
  BY <1>1, ReadBackFour
<1>. HIDE DEF c
<1>4. h \in Seq(Int) /\ Len(h) = 4 + n
  BY <1>1, <1>2, Concatenated DEF n
<1>5. /\ 0 \in Nat /\ 4 \in {1, 2, 4, 8} /\ 0 + 4 <= Len(c) /\ 0 + 4 <= Len(h)
      /\ 0 + 4 \in Nat
  BY <1>1, <1>2, <1>4
<1>6. ReadU(h, 0, 4) = k
  BY <1>1, <1>2, <1>5, FrontRead
<1>. HIDE DEF h, k
<1>7. ReadU(s, 0, 4) = k /\ IsHead(s, h)
  BY <1>4, <1>5, <1>6, FrontRead, Concatenated
<1>. HIDE DEF s
<1>8. (0 + 4) + k <= Len(h)
  BY <1>1, <1>3, <1>4
<1>9. Bytes(s, 0 + 4, k) = Bytes(h, 0 + 4, k)
  BY <1>3, <1>5, <1>7, <1>8, HeadBytes
<1>10. TextOf(s, 0) = TextOf(h, 0)
  BY <1>6, <1>7, <1>9 DEF TextOf
<1>11. c \o (str \o d) = s
  <2>1. c \in Seq(Int) /\ str \in Seq(Int) /\ d \in Seq(Int)
    BY <1>1, <1>2
  <2>2. (c \o str) \o d = c \o (str \o d)
    BY ONLY <2>1, ThreeParts, Zenon
  <2>. QED
    BY <2>2 DEF s, h
<1>. QED
  BY <1>10, <1>11 DEF TextRead, h, c, n

LEMMA PreAlignedSize ==
  ASSUME NEW x \in Builders, NEW len \in Nat \ {0}
  PROVE  /\ PreAlign(x, len, 4) \in Builders
         /\ Size(PreAlign(x, len, 4))
              = PaddingBytes(Size(x) + len, 4) + Size(x)
<1>. DEFINE k == PaddingBytes(Size(x) + len, 4)
            p == TrackMinAlign(x, 4)
<1>1. /\ 4 \in Nat /\ 4 \in Nat \ {0} /\ Size(x) + len \in Int /\ Twins(x, x)
      /\ len # 0 /\ len \in Nat
  BY BuilderParts, OwnTwin
<1>2. k \in Nat
  <2>. DEFINE m == Size(x) + len
  <2>1. m \in Int
    BY <1>1
  <2>. HIDE DEF m
  <2>2. PaddingBytes(m, 4) \in Nat
    BY <1>1, <2>1, Padding
  <2>. QED
    BY <2>2 DEF m
<1>3. PreAlign(x, len, 4) = PushBytes(p, Zeros(k))
  <2>1. PreAlign(x, len, 4)
          = [TrackMinAlign(x, 4) EXCEPT
               !.v = Fill(@, PaddingBytes(Size(x) + len, 4))]
    BY <1>1 DEF PreAlign
  <2>. HIDE DEF k
  <2>. QED
    BY <2>1 DEF PushBytes, Fill, Zeros, k
<1>. HIDE DEF k
<1>4. p \in Builders /\ Size(p) = Size(x)
  BY <1>1, TwinTrackMinAlign, TwinParts
<1>. HIDE DEF p
<1>5. Zeros(k) \in Seq(Int) /\ Len(Zeros(k)) = k
  BY <1>2, ZeroBytes
<1>6. /\ PushBytes(p, Zeros(k)) \in Builders
      /\ Size(PushBytes(p, Zeros(k))) = k + Size(x)
  BY <1>4, <1>5, PushBytesAdds
<1>. QED
  BY <1>3, <1>6 DEF k

LEMMA NoPadding ==
  ASSUME NEW n \in Nat, NEW l \in Nat
  PROVE  PaddingBytes(l + (1 + (PaddingBytes(n + (l + 1), 4) + n)), 4) = 0
<1>. DEFINE a == n + (l + 1)
            k == (-a) % 4
<1>1. a \in Int /\ k \in 0..3 /\ k \in Nat
  OBVIOUS
<1>2. (-(a + k)) % 4 = 0
  <2>. HIDE DEF a
  <2>. QED
    BY <1>1
<1>3. l + (1 + (k + n)) = a + k
  <2>. HIDE DEF k
  <2>. QED
    BY <1>1
<1>. QED
  BY <1>1, <1>2, <1>3 DEF PaddingBytes

LEMMA NoZeros ==
  ASSUME NEW d \in Seq(Int)
  PROVE  Zeros(0) \o d = d
<1>1. 0 \in Nat
  OBVIOUS
<1>2. Zeros(0) \in Seq(Int) /\ Len(Zeros(0)) = 0
  BY <1>1, ZeroBytes
<1>3. Zeros(0) = <<>>
  BY <1>2, EmptySeq
<1>. QED
  BY <1>3, ConcatEmptySeq

LEMMA StringWritten ==
  ASSUME NEW x \in Builders, NEW str \in Seq(Byte)
  PROVE  \E d \in Seq(Int) :
           DataOf(CreateStringImpl(x, str))
             = Scalar(Len(str), 4) \o (str \o d)
<1>. DEFINE l == Len(str)
            n == l + 1
            c == Scalar(l, 4)
            p1 == PreAlign(x, n, 4)
            p2 == PushBytes(p1, Zeros(1))
            p3 == PushBytes(p2, str)
            p4 == PushElement(p3, c)
<1>1. /\ l \in Nat /\ n \in Nat \ {0} /\ l \in Int /\ str \in Seq(Int)
      /\ Size(x) \in Nat
  BY ByteSeq, LenProperties, BuilderParts
<1>2. Zeros(1) \in Seq(Byte) /\ Zeros(1) \in Seq(Int) /\ Len(Zeros(1)) = 1
  BY ZeroBytes
<1>3. CreateStringImpl(x, str) = p4
  BY DEF CreateStringImpl, PushBytes, Fill, Zeros
<1>. HIDE DEF n
<1>4. p1 \in Builders /\ Size(p1) = PaddingBytes(Size(x) + n, 4) + Size(x)
  BY <1>1, PreAlignedSize
<1>. HIDE DEF p1
<1>5. p2 \in Builders /\ Size(p2) = 1 + Size(p1)
  BY <1>2, <1>4, PushBytesAdds
<1>. HIDE DEF p2, l
<1>6. /\ p3 \in Builders /\ DataOf(p3) = str \o DataOf(p2)
      /\ Size(p3) = l + Size(p2)
  BY <1>1, <1>5, PushBytesAdds DEF l
<1>. HIDE DEF p3
<1>7. PaddingBytes(Size(p3), 4) = 0
  <2>1. Size(p3) = l + (1 + (PaddingBytes(Size(x) + (l + 1), 4) + Size(x)))
    BY <1>4, <1>5, <1>6 DEF n
  <2>. DEFINE sx == Size(x)
  <2>. HIDE DEF sx
  <2>2. sx \in Nat /\ l \in Nat
    BY <1>1 DEF sx
  <2>3. PaddingBytes(l + (1 + (PaddingBytes(sx + (l + 1), 4) + sx)), 4) = 0
    BY ONLY <2>2, NoPadding
  <2>4. Size(p3) = l + (1 + (PaddingBytes(sx + (l + 1), 4) + sx))
    BY ONLY <2>1, Zenon DEF sx
  <2>. QED
    BY ONLY <2>3, <2>4, Zenon
<1>8. c \in Seq(Byte) /\ Len(c) = 4 /\ Len(c) # 0
  <2>1. l \in Int
    BY <1>1
  <2>2. Scalar(l, 4) \in Seq(Byte) /\ Len(Scalar(l, 4)) = 4
    BY ONLY <2>1, ScalarOfFour
  <2>. HIDE DEF c
  <2>3. c \in Seq(Byte) /\ Len(c) = 4
    BY ONLY <2>2 DEF c
  <2>. QED
    BY ONLY <2>3
<1>. HIDE DEF c
<1>9. DataOf(p4) = c \o (Zeros(PaddingBytes(Size(p3), 4)) \o DataOf(p3))
  <2>1. Twins(p3, p3)
    BY <1>6, OwnTwin
  <2>2. DataOf(p4)
          = c \o (Zeros(PaddingBytes(Size(p3), Len(c))) \o DataOf(p3))
    BY <1>8, <2>1, TwinPushElement
  <2>. QED
    BY <1>8, <2>2
<1>10. DataOf(p3) \in Seq(Int) /\ DataOf(p2) \in Seq(Int)
  BY <1>5, <1>6, BuilderParts
<1>11. DataOf(p4) = c \o (str \o DataOf(p2))
  BY <1>6, <1>7, <1>9, <1>10, NoZeros
<1>. QED
  BY <1>3, <1>10, <1>11 DEF c, l

(* What CreateString() made reads as what was written.                     *)
LEMMA MadeText ==
  ASSUME NEW x \in Builders, NEW str \in Seq(Byte), NEW m,
         m = CreateString(x, str), m.b \in Builders
  PROVE  TextIn(m.b, m.off) = TextRead(str) /\ m.off = Size(m.b)
<1>1. m.b = CreateStringImpl(x, str) /\ m.off = Size(m.b)
  BY DEF CreateString, Made
<1>2. PICK d \in Seq(Int) :
        DataOf(CreateStringImpl(x, str)) = Scalar(Len(str), 4) \o (str \o d)
  BY StringWritten
<1>3. TextOf(DataOf(m.b), 0) = TextRead(str)
  BY <1>1, <1>2, FrontText
<1>4. Size(m.b) - m.off = 0
  <2>1. Size(m.b) \in Nat
    BY BuilderParts
  <2>. QED
    BY <1>1, <2>1
<1>. QED
  BY <1>1, <1>3, <1>4 DEF TextIn

(* A string that none of the pool is the same as.                          *)
LEMMA TextAdded ==
  ASSUME NEW x, Sound(x), NEW m, Grows(x, m.b), ~m.b.nested,
         m.off = Size(m.b), NEW str, TextIn(m.b, m.off) = TextRead(str),
         \A o \in x.pool : TextIn(m.b, o) # TextIn(m.b, m.off),
         VtablesDiffer(x), TextsDiffer(x),
         NEW p, p = [m.b EXCEPT !.pool = @ \cup {m.off}]
  PROVE  /\ Continues(x, p) /\ VtablesDiffer(p) /\ TextsDiffer(p)
         /\ TextKnown(p, m.off, str)
<1>1. /\ Sound(m.b) /\ m.b \in Builders /\ Adds(x, m.b) /\ m.b.pool = x.pool
      /\ x \in Builders /\ m.b.dedup = x.dedup /\ PadOf(m.b) = PadOf(x)
  BY GrowsSound DEF Grows, Remembers
<1>2. /\ Size(m.b) \in Nat /\ m.b.pool \in SUBSET Int
  BY <1>1, BuilderParts
<1>. DEFINE pool == m.b.pool \cup {m.off}
<1>3. pool \in SUBSET Int /\ \A o \in pool : o <= Size(m.b)
  BY <1>1, <1>2 DEF Sound
<1>4. p = [m.b EXCEPT !.pool = pool]
  BY <1>1 DEF Builders
<1>. HIDE DEF pool
<1>5. Twins(m.b, m.b)
  BY <1>1, OwnTwin
<1>6. /\ Twins(p, p) /\ DataOf(p) = DataOf(m.b) /\ PadOf(p) = PadOf(m.b)
      /\ Size(p) = Size(m.b) /\ p.pool = pool /\ p.nested = m.b.nested
      /\ p.fields = m.b.fields /\ p.maxvo = m.b.maxvo
  <2>. DEFINE w == m.b
  <2>. HIDE DEF w
  <2>1. pool \in SUBSET Int /\ Twins(w, w) /\ p = [w EXCEPT !.pool = pool]
    BY <1>3, <1>4, <1>5 DEF w
  <2>2. /\ Twins(p, p) /\ DataOf(p) = DataOf(w) /\ PadOf(p) = PadOf(w)
        /\ Size(p) = Size(w) /\ p.pool = pool /\ p.nested = w.nested
        /\ p.fields = w.fields /\ p.maxvo = w.maxvo
    BY ONLY <2>1, TwinPool
  <2>. QED
    BY <2>2 DEF w
<1>7. p.dedup = x.dedup
  BY <1>1, <1>4 DEF Builders
<1>8. p \in Builders /\ Sound(p)
  BY <1>1, <1>3, <1>6, TwinParts DEF Sound
<1>9. Adds(x, p)
  BY <1>1, <1>6 DEF Adds
<1>10. Continues(x, p)
  BY <1>1, <1>6, <1>7, <1>8, <1>9 DEF Continues, pool
<1>11. VtablesDiffer(p)
  BY <1>1, <1>6, <1>7, <1>8, <1>9, VtablesStay
<1>12. TextsDiffer(m.b)
  BY <1>1, TextsStay
<1>13. TextsDiffer(p)
  <2>1. \A o : TextIn(p, o) = TextIn(m.b, o)
    BY <1>6 DEF TextIn
  <2>. QED
    BY <1>1, <1>6, <1>12, <2>1 DEF TextsDiffer, pool
<1>14. TextKnown(p, m.off, str)
  <2>1. TextIn(p, m.off) = TextIn(m.b, m.off)
    BY <1>6 DEF TextIn
  <2>. QED
    BY <1>6, <2>1 DEF TextKnown, pool
<1>. QED
  BY <1>10, <1>11, <1>13, <1>14

(* A string that one of the pool is the same as is taken back.             *)
LEMMA TextFound ==
  ASSUME NEW x, Sound(x), NEW y \in Builders, Grows(x, y), ~y.nested,
         NEW o \in x.pool, NEW str, TextIn(y, o) = TextRead(str),
         VtablesDiffer(x), TextsDiffer(x),
         NEW p, p = [y EXCEPT !.v = Pop(@, Size(y) - Size(x))]
  PROVE  /\ Continues(x, p) /\ VtablesDiffer(p) /\ TextsDiffer(p)
         /\ TextKnown(p, o, str)
<1>1. /\ x \in Builders /\ Adds(x, y) /\ Remembers(x, y)
      /\ \A q \in x.pool : q <= Size(x)
  BY DEF Grows, Sound
<1>2. PICK a \in Seq(Byte) : DataOf(y) = a \o DataOf(x)
  BY <1>1 DEF Adds
<1>3. /\ DataOf(x) \in Seq(Int) /\ a \in Seq(Int) /\ Len(a) \in Nat
      /\ Size(x) \in Nat /\ x.pool \in SUBSET Int
      /\ Size(x) = Len(DataOf(x)) /\ Size(y) = Len(DataOf(y))
  BY <1>1, BuilderParts, ByteSeq, LenProperties
<1>4. Size(y) - Size(x) = Len(a)
  <2>1. Len(a \o DataOf(x)) = Len(a) + Len(DataOf(x))
    BY <1>3, Concatenated
  <2>. QED
    BY <1>2, <1>3, <2>1
<1>5. p = [y EXCEPT !.v = Pop(@, Len(a))]
  BY <1>4
<1>6. /\ p \in Builders /\ DataOf(p) = DataOf(x) /\ PadOf(p) = PadOf(y)
      /\ SameRest(y, p)
  <2>. DEFINE d == DataOf(x)
  <2>. HIDE DEF d
  <2>1. /\ y \in Builders /\ a \in Seq(Byte) /\ d \in Seq(Int)
        /\ DataOf(y) = a \o d
    BY <1>2, <1>3 DEF d
  <2>2. /\ [y EXCEPT !.v = Pop(@, Len(a))] \in Builders
        /\ DataOf([y EXCEPT !.v = Pop(@, Len(a))]) = d
        /\ PadOf([y EXCEPT !.v = Pop(@, Len(a))]) = PadOf(y)
        /\ SameRest(y, [y EXCEPT !.v = Pop(@, Len(a))])
    BY ONLY <2>1, PopBack
  <2>. QED
    BY ONLY <1>5, <2>2 DEF d
<1>7. Size(p) = Size(x)
  BY <1>3, <1>6, BuilderParts
<1>8. Grows(x, p) /\ ~p.nested
  <2>1. Adds(x, p)
    BY <1>1, <1>6, GrowsNot DEF Grows, Adds
  <2>2. Remembers(x, p)
    BY <1>1, <1>6 DEF Remembers, SameRest
  <2>. QED
    BY <1>1, <1>6, <2>1, <2>2 DEF Grows, SameRest
<1>9. Continues(x, p)
  BY <1>8, GrowsContinues
<1>10. /\ Adds(x, p) /\ p.dedup = x.dedup /\ PadOf(p) = PadOf(x)
       /\ p.pool = x.pool
  BY <1>8 DEF Grows, Remembers
<1>11. VtablesDiffer(p) /\ TextsDiffer(p)
  BY <1>6, <1>10, VtablesStay, TextsStay
<1>12. TextKnown(p, o, str)
  <2>1. o \in Int /\ o <= Size(x)
    BY <1>1, <1>3
  <2>2. TextIn(y, o) = TextIn(x, o)
    BY <1>1, <2>1, ObjectsKept
  <2>3. TextIn(p, o) = TextIn(x, o)
    BY <1>6, <1>7 DEF TextIn
  <2>. QED
    BY <1>10, <2>2, <2>3 DEF TextKnown
<1>. QED
  BY <1>9, <1>11, <1>12

(* CreateSharedString() writes no string twice: it gives the one of the    *)
(* pool that reads as what it was to write.                                *)
THEOREM TextStoredOnce ==
  ASSUME NEW x, Sound(x), NEW str \in Seq(Byte),
         VtablesDiffer(x), TextsDiffer(x),
         NEW r, r = CreateSharedString(x, str)
  PROVE  /\ Continues(x, r.b) /\ VtablesDiffer(r.b) /\ TextsDiffer(r.b)
         /\ TextKnown(r.b, r.off, str)
<1>. DEFINE m == CreateString(x, str)
            same == {o \in x.pool : StringAt(m.b, o) = StringAt(m.b, m.off)}
            kept == [m EXCEPT !.b.pool = @ \cup {m.off}]
            back == [m.b EXCEPT !.v = Pop(@, Size(m.b) - Size(x))]
            first == CHOOSE o \in same : TRUE
<1>1. /\ x \in Builders /\ Twins(x, x) /\ ~x.nested
      /\ \A o \in x.pool : o <= Size(x)
  BY OwnTwin DEF Sound
<1>2. Makes(x, x, m, m)
  BY <1>1, TwinCreateString
<1>3. r = IF same = {} THEN kept ELSE [b |-> back, off |-> first]
  BY DEF CreateSharedString
<1>4. m = [b |-> m.b, off |-> m.off] /\ m = CreateString(x, str)
  BY DEF CreateString, Made
<1>. HIDE DEF m
<1>5. Grows(x, m.b) /\ ~m.b.nested /\ m.b \in Builders /\ Adds(x, m.b)
  BY <1>2 DEF Makes, Grows
<1>6. TextIn(m.b, m.off) = TextRead(str) /\ m.off = Size(m.b)
  BY <1>1, <1>4, <1>5, MadeText
<1>7. /\ \A o \in x.pool : StringAt(m.b, o) = TextIn(m.b, o)
      /\ StringAt(m.b, m.off) = TextIn(m.b, m.off)
  <2>1. /\ x.pool \in SUBSET Int /\ Size(m.b) \in Nat /\ Size(x) \in Nat
        /\ Size(x) <= Size(m.b)
    BY <1>1, <1>5, BuilderParts, AddsSize
  <2>2. m.off \in Int /\ m.off <= Size(m.b)
    BY <1>6, <2>1
  <2>3. \A o \in x.pool : o \in Int /\ o <= Size(m.b)
    BY <1>1, <2>1
  <2>. QED
    BY <1>5, <2>2, <2>3, ObjectReads DEF TextIn
<1>8. CASE same = {}
  <2>1. \A o \in x.pool : TextIn(m.b, o) # TextIn(m.b, m.off)
    BY <1>7, <1>8
  <2>. DEFINE p == [m.b EXCEPT !.pool = @ \cup {m.off}]
  <2>2. r.b = p /\ r.off = m.off
    BY <1>3, <1>4, <1>8
  <2>. HIDE DEF p, same
  <2>3. /\ Continues(x, p) /\ VtablesDiffer(p) /\ TextsDiffer(p)
        /\ TextKnown(p, m.off, str)
    BY <1>5, <1>6, <2>1, TextAdded DEF p
  <2>. QED
    BY <2>2, <2>3
<1>9. CASE same # {}
  <2>1. first \in x.pool /\ StringAt(m.b, first) = StringAt(m.b, m.off)
    <3>1. first \in same
      BY <1>9
    <3>. QED
      BY <3>1
  <2>2. r.b = back /\ r.off = first
    BY <1>3, <1>9
  <2>. HIDE DEF first, back, same
  <2>3. TextIn(m.b, first) = TextRead(str)
    BY <1>6, <1>7, <2>1
  <2>4. /\ Continues(x, back) /\ VtablesDiffer(back) /\ TextsDiffer(back)
        /\ TextKnown(back, first, str)
    BY <1>5, <2>1, <2>3, TextFound DEF back
  <2>. QED
    BY <2>2, <2>4
<1>. QED
  BY <1>8, <1>9
==============================================================================
