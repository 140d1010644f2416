-------------------------- MODULE StationIO_proofs --------------------------
(***************************************************************************)
(* Proofs about StationIO, for any number of clients, records and buffers. *)
(*                                                                         *)
(* The two stores of a station are filled by the same steps and emptied by *)
(* different ones.  FilesInv says where their oldest records are, and as a *)
(* record is dropped from disk only together with a whole file, a disk of  *)
(* which all files but one can hold the memory's records covers the memory.*)
(***************************************************************************)
EXTENDS StationIO, SequenceTheorems, TLAPS

DiskLargeEnough == NBufs <= FilesHold(MaxFiles - 1)

-----------------------------------------------------------------------------
(* Sequence numbers: arithmetic modulo M.                                  *)

LEMMA DivMod ==
  ASSUME NEW M \in Nat, M > 0, NEW a \in Int
  PROVE  a \div M \in Int /\ a % M \in 0 .. M - 1 /\ a = M * (a \div M) + (a % M)
BY SMT

LEMMA ProductAtLeast ==
  ASSUME NEW M \in Nat, M > 0, NEW x \in Int, x >= 1
  PROVE  M * x >= M
BY SMT

\* Records that are less than M apart have different numbers.
LEMMA ModInjective ==
  ASSUME NEW M \in Nat, M > 0, NEW a \in Int, NEW b \in Int,
         a % M = b % M, a - b < M, b - a < M
  PROVE  a = b
<1> DEFINE x == a \div M
           y == b \div M
<1>1. x \in Int /\ y \in Int /\ a - b = M * x - M * y
  BY DivMod
<1>2. a - b = M * (x - y) /\ b - a = M * (y - x)
  BY <1>1
<1>3. ~(x - y >= 1) /\ ~(y - x >= 1)
  BY <1>1, <1>2, ProductAtLeast
<1>4. x = y
  <2> HIDE DEF x, y
  <2> QED
    BY <1>1, <1>3
<1> QED
  BY <1>1, <1>4

\* The distance of two records less than M apart, from their numbers.
LEMMA ModDistance ==
  ASSUME NEW M \in Nat, M > 0, NEW a \in Int, NEW b \in Int, a - b \in 0 .. M - 1
  PROVE  ((a % M) - b) % M = a - b
<1> DEFINE c == (a % M) - b
           d == a - b
<1>1. a % M \in Int /\ c \in Int /\ d \in Int /\ c = d - M * (a \div M)
  BY DivMod
<1>2. c % M \in 0 .. M - 1 /\ c \div M \in Int /\ c = M * (c \div M) + (c % M)
  BY <1>1, DivMod
<1> DEFINE e == c % M
           z == (a \div M) + (c \div M)
<1>3. z \in Int /\ e - d = M * (0 - z) /\ d - e = M * z /\ e \in 0 .. M - 1
  BY <1>1, <1>2, DivMod
<1>4. ~(0 - z >= 1) /\ ~(z >= 1)
  <2> HIDE DEF z, e, d
  <2>1. d \in 0 .. M - 1
    BY DEF d
  <2>2. 0 - z >= 1 => M * (0 - z) >= M
    BY <1>3, ProductAtLeast
  <2>3. z >= 1 => M * z >= M
    BY <1>3, ProductAtLeast
  <2> QED
    BY <1>3, <2>1, <2>2, <2>3
<1>5. z = 0
  <2> HIDE DEF z
  <2> QED
    BY <1>3, <1>4
<1>6. e - d = 0
  <2> HIDE DEF z, e, d
  <2> QED
    BY <1>3, <1>5
<1> QED
  BY <1>1, <1>3, <1>6

\* Going from record b to the record with number q.
LEMMA ModOffset ==
  ASSUME NEW M \in Nat, M > 0, NEW q \in Int, NEW b \in Int
  PROVE  (b + ((q - b) % M)) % M = q % M
<1> DEFINE o == (q - b) % M
           x == (q - b) \div M
           p == b + o
           y == p \div M
           z == q \div M
<1>1. /\ o \in Int /\ x \in Int /\ q - b = M * x + o
      /\ p \in Int
  BY DivMod
<1>2. /\ y \in Int /\ p % M \in 0 .. M - 1 /\ p = M * y + (p % M)
      /\ z \in Int /\ q % M \in 0 .. M - 1 /\ q = M * z + (q % M)
  BY <1>1, DivMod
<1> DEFINE u == p % M
           v == q % M
           w == x + y - z
<1> HIDE DEF o, x, y, z, u, v
<1>3. u - v = M * (z - (x + y)) /\ v - u = M * w /\ w \in Int
      /\ u \in 0 .. M - 1 /\ v \in 0 .. M - 1
  <2>1. q = p + M * x
    BY <1>1
  <2>2. v - u = M * x + M * y - M * z
    BY <1>1, <1>2, <2>1 DEF u, v
  <2>3. v - u = M * w /\ u - v = M * (z - (x + y))
    BY <1>1, <1>2, <2>2 DEF u, v
  <2> QED
    BY <1>1, <1>2, <2>3 DEF u, v
<1>4. ~(w >= 1) /\ ~(z - (x + y) >= 1)
  <2> HIDE DEF w
  <2>1. w >= 1 => M * w >= M
    BY <1>3, ProductAtLeast
  <2>2. z - (x + y) >= 1 => M * (z - (x + y)) >= M
    BY <1>1, <1>2, ProductAtLeast
  <2> QED
    BY <1>3, <2>1, <2>2
<1>5. w = 0
  BY <1>1, <1>2, <1>4
<1>6. u = v
  <2> HIDE DEF w
  <2> QED
    BY <1>3, <1>5
<1> QED
  BY <1>6 DEF u, v, o

-----------------------------------------------------------------------------
(* Segment files in a row.                                                 *)

SegFile == [seq: Nat, nbuf: Nat]

LEMMA Sizes ==
  /\ NBufs \in Nat /\ NBufs >= 2 /\ MaxHeld \in Nat /\ NBufs > MaxHeld
  /\ FileSize \in Nat /\ FileSize > 0 /\ MaxFiles \in Nat /\ MaxFiles >= 2
  /\ SeqMod \in Nat /\ SeqMod > FilesHold(MaxFiles) + NBufs
BY StationAssumption DEF FilesHold

LEMMA Hold ==
  /\ FilesHold(0) = 0
  /\ \A n \in Nat : FilesHold(n) \in Nat /\ FilesHold(n + 1) = FilesHold(n) + FileSize
  /\ \A n \in Nat, m \in Nat : n <= m => FilesHold(n) <= FilesHold(m)
<1>1. FileSize \in Nat
  BY StationAssumption
<1>2. ASSUME NEW n \in Nat, NEW m \in Nat, n <= m, FileSize \in Nat
      PROVE  n * FileSize <= m * FileSize
  BY <1>2, SMT
<1> QED
  BY <1>1, <1>2 DEF FilesHold

LEMMA RowElements ==
  ASSUME NEW s \in Seq(SegFile)
  PROVE  /\ Len(s) \in Nat /\ DOMAIN s = 1 .. Len(s)
         /\ s # <<>> => Len(s) >= 1
         /\ \A k \in 1 .. Len(s) :
              s[k] \in SegFile /\ s[k].seq \in Nat /\ s[k].nbuf \in Nat
<1>1. Len(s) \in Nat /\ DOMAIN s = 1 .. Len(s) /\ (s # <<>> => Len(s) >= 1)
  BY EmptySeq, LenProperties
<1>2. \A k \in 1 .. Len(s) : s[k] \in SegFile
  BY ElementOfSeq
<1>3. \A f \in SegFile : f.seq \in Nat /\ f.nbuf \in Nat
  BY DEF SegFile
<1> QED
  BY <1>1, <1>2, <1>3

\* Where the files of a row begin and end.
LEMMA RowExtent ==
  ASSUME NEW s \in Seq(SegFile), NEW end, InRow(s, end), s # <<>>
  PROVE  /\ end \in Nat
         /\ end = s[1].seq + FilesHold(Len(s) - 1) + s[Len(s)].nbuf
         /\ s[1].seq <= end /\ end - s[1].seq <= FilesHold(Len(s))
         /\ \A k \in 1 .. Len(s) :
              /\ s[k].nbuf <= FileSize
              /\ s[1].seq <= s[k].seq
              /\ s[k].seq + s[k].nbuf <= end
<1> DEFINE L == Len(s)
<1>1. L \in Nat /\ L >= 1 /\ L - 1 \in Nat /\ (L - 1) + 1 = L /\ FileSize \in Nat
  BY RowElements, Sizes
<1>2. \A k \in 1 .. L : s[k].seq \in Nat /\ s[k].nbuf \in Nat
  BY RowElements
<1>3. /\ end = s[L].seq + s[L].nbuf /\ s[L].nbuf <= FileSize
      /\ \A k \in 1 .. L : s[k].seq = s[1].seq + FilesHold(k - 1)
      /\ \A k \in 1 .. (L - 1) : s[k].nbuf = FileSize
  BY DEF InRow
<1> HIDE DEF L
<1>4. FilesHold(L - 1) \in Nat /\ FilesHold(L) = FilesHold(L - 1) + FileSize
  BY <1>1, Hold
<1>5. s[1].seq \in Nat /\ s[L].nbuf \in Nat /\ s[L].seq = s[1].seq + FilesHold(L - 1)
  BY <1>1, <1>2, <1>3
<1>6. /\ end \in Nat /\ end = s[1].seq + FilesHold(L - 1) + s[L].nbuf
      /\ s[1].seq <= end /\ end - s[1].seq <= FilesHold(L)
  <2>1. end = s[L].seq + s[L].nbuf /\ s[L].nbuf <= FileSize /\ FileSize \in Nat
    BY <1>1, <1>3
  <2>2. end = s[1].seq + FilesHold(L - 1) + s[L].nbuf
    BY <1>5, <2>1
  <2>3. end \in Nat
    BY <1>4, <1>5, <2>2
  <2>4. s[1].seq <= end
    BY <1>4, <1>5, <2>2, <2>3
  <2>5. end - s[1].seq <= FilesHold(L)
    BY <1>4, <1>5, <2>1, <2>2, <2>3, SMTT(30)
  <2> QED
    BY <2>2, <2>3, <2>4, <2>5
<1>7. ASSUME NEW k \in 1 .. L
      PROVE  s[k].nbuf <= FileSize /\ s[1].seq <= s[k].seq /\ s[k].seq + s[k].nbuf <= end
  <2>1. k \in Nat /\ k >= 1 /\ k <= L /\ k - 1 \in Nat /\ (k - 1) + 1 = k
    BY <1>1
  <2>2. FilesHold(k - 1) \in Nat /\ FilesHold(k) = FilesHold(k - 1) + FileSize
    BY <2>1, Hold
  <2>3. s[k].seq = s[1].seq + FilesHold(k - 1) /\ s[k].nbuf \in Nat
    BY <1>2, <1>3
  <2>4. FileSize \in Nat /\ end = s[L].seq + s[L].nbuf /\ s[L].nbuf <= FileSize
    BY <1>1, <1>3
  <2>5. CASE k = L
    BY <1>5, <2>2, <2>3, <2>4, <2>5
  <2>6. CASE k # L
    <3>1. k <= L - 1 /\ k \in 1 .. (L - 1)
      BY <1>1, <2>1, <2>6
    <3>2. FilesHold(k) <= FilesHold(L - 1) /\ FilesHold(k) \in Nat
      BY <1>1, <2>1, <3>1, Hold
    <3>3. s[k].nbuf = FileSize
      BY <1>3, <3>1
    <3>4. s[k].nbuf <= FileSize /\ s[1].seq <= s[k].seq
      BY <1>5, <2>2, <2>3, <2>4, <3>3
    <3>5. s[k].seq + s[k].nbuf = s[1].seq + FilesHold(k)
      BY <1>5, <2>2, <2>3, <2>4, <3>3
    <3>6. s[1].seq + FilesHold(k) <= end
      BY <1>4, <1>5, <2>4, <3>2, SMTT(30)
    <3> QED
      BY <3>4, <3>5, <3>6
  <2> QED
    BY <2>5, <2>6
<1> QED
  BY <1>6, <1>7 DEF L

LEMMA OneMore ==
  ASSUME NEW f \in SegFile
  PROVE  LET g == [seq |-> f.seq, nbuf |-> f.nbuf + 1]
         IN  /\ [f EXCEPT !.nbuf = @ + 1] = g
             /\ g \in SegFile /\ g.seq = f.seq /\ g.nbuf = f.nbuf + 1
BY DEF SegFile

\* A record is stored in the last file.
LEMMA RowGrows ==
  ASSUME NEW s \in Seq(SegFile), NEW end \in Nat, InRow(s, end), s # <<>>,
         s[Len(s)].nbuf < FileSize
  PROVE  LET t == [s EXCEPT ![Len(s)].nbuf = @ + 1]
         IN  /\ t \in Seq(SegFile) /\ InRow(t, end + 1)
             /\ Len(t) = Len(s) /\ t[1].seq = s[1].seq
<1> DEFINE L == Len(s)
           f == [seq |-> s[L].seq, nbuf |-> s[L].nbuf + 1]
           t == [s EXCEPT ![L] = f]
<1>1. L \in Nat /\ L >= 1 /\ FileSize \in Nat /\ 1 \in 1 .. L /\ L \in 1 .. L
  BY RowElements, Sizes
<1>2. s[L] \in SegFile /\ s[L].seq \in Nat /\ s[L].nbuf \in Nat
  BY <1>1, RowElements
<1>3. /\ [s[L] EXCEPT !.nbuf = @ + 1] = f
      /\ f \in SegFile /\ f.seq = s[L].seq /\ f.nbuf = s[L].nbuf + 1
  BY <1>2, OneMore
<1> HIDE DEF f
<1>4. /\ t \in Seq(SegFile) /\ Len(t) = L /\ t[L] = f
      /\ \A k \in 1 .. L : k # L => t[k] = s[k]
  BY <1>1, <1>3, ExceptSeq
<1>5. /\ end = s[L].seq + s[L].nbuf /\ s[L].nbuf < FileSize
      /\ \A k \in 1 .. L : s[k].seq = s[1].seq + FilesHold(k - 1)
      /\ \A k \in 1 .. (L - 1) : s[k].nbuf = FileSize
  BY DEF InRow
<1> HIDE DEF t, L
<1>6. \A k \in 1 .. L : t[k].seq = s[k].seq
  BY <1>3, <1>4
<1>7. t[1].seq = s[1].seq
  BY <1>1, <1>6
<1>8. InRow(t, end + 1)
  <2>1. t # <<>>
    BY <1>1, <1>4, EmptySeq
  <2>2. t[L].nbuf <= FileSize /\ t[L].seq + t[L].nbuf = end + 1
    <3>1. /\ end = s[L].seq + s[L].nbuf /\ s[L].nbuf < FileSize /\ FileSize \in Nat
          /\ t[L].seq = s[L].seq /\ t[L].nbuf = s[L].nbuf + 1
      BY <1>1, <1>3, <1>4, <1>5
    <3> QED
      BY <1>2, <3>1, SMTT(30)
  <2>3. \A k \in 1 .. L : t[k].seq = t[1].seq + FilesHold(k - 1)
    BY <1>5, <1>6, <1>7
  <2>4. ASSUME NEW k \in 1 .. (L - 1)
        PROVE  t[k].nbuf = FileSize
    <3>1. k \in 1 .. L /\ k # L
      BY <1>1
    <3> QED
      BY <1>4, <1>5, <3>1
  <2> QED
    BY <1>4, <2>1, <2>2, <2>3, <2>4 DEF InRow
<1> QED
  BY <1>3, <1>4, <1>7, <1>8 DEF t, L

\* A record is stored in a new file, after the last one, which is full.
LEMMA RowAppends ==
  ASSUME NEW s \in Seq(SegFile), NEW end \in Nat, InRow(s, end),
         s # <<>> => s[Len(s)].nbuf = FileSize
  PROVE  LET t == Append(s, [seq |-> end, nbuf |-> 1])
         IN  /\ t \in Seq(SegFile) /\ InRow(t, end + 1)
             /\ Len(t) = Len(s) + 1
             /\ t[1].seq = IF s = <<>> THEN end ELSE s[1].seq
<1> DEFINE L == Len(s)
           new == [seq |-> end, nbuf |-> 1]
           t == Append(s, new)
<1>1. L \in Nat /\ (s # <<>> => L >= 1) /\ (s = <<>> => L = 0)
      /\ FileSize \in Nat /\ FileSize >= 1
  BY RowElements, Sizes
<1>2. new \in SegFile /\ new.seq = end /\ new.nbuf = 1
  BY DEF SegFile
<1> HIDE DEF new
<1>3. /\ t \in Seq(SegFile) /\ Len(t) = L + 1
      /\ \A k \in 1 .. L : t[k] = s[k]
      /\ t[L + 1] = new
  BY <1>2, AppendProperties
<1> HIDE DEF t
<1>4. s # <<>> => end = s[1].seq + FilesHold(L) /\ s[1].seq \in Nat
  <2> SUFFICES ASSUME s # <<>> PROVE end = s[1].seq + FilesHold(L) /\ s[1].seq \in Nat
    OBVIOUS
  <2>1. end = s[1].seq + FilesHold(L - 1) + FileSize /\ s[1].seq \in Nat
    BY <1>1, RowExtent, RowElements
  <2>2. /\ FilesHold(L) = FilesHold(L - 1) + FileSize /\ FilesHold(L - 1) \in Nat
    <3>1. L - 1 \in Nat /\ (L - 1) + 1 = L
      BY <1>1
    <3> QED
      BY <3>1, Hold
  <2> HIDE DEF L
  <2> QED
    BY <1>1, <2>1, <2>2
<1>5. t[1].seq = IF s = <<>> THEN end ELSE s[1].seq
  BY <1>1, <1>2, <1>3
<1>6. \A k \in 1 .. L : s[k].seq = s[1].seq + FilesHold(k - 1)
  BY DEF InRow
<1>7. \A k \in 1 .. L : s[k].nbuf = FileSize
  BY <1>1 DEF InRow
<1> HIDE DEF L
<1>8. InRow(t, end + 1)
  <2>1. \A k \in 1 .. (L + 1) : t[k].seq = t[1].seq + FilesHold(k - 1)
    <3> SUFFICES ASSUME NEW k \in 1 .. (L + 1)
                 PROVE  t[k].seq = t[1].seq + FilesHold(k - 1)
      OBVIOUS
    <3>1. CASE k = L + 1 /\ s = <<>>
      <4>1. k = 1 /\ k - 1 = 0 /\ t[k].seq = end /\ t[1].seq = end
        BY <1>1, <1>2, <1>3, <1>5, <3>1
      <4> QED
        BY <4>1, Hold
    <3>2. CASE k = L + 1 /\ s # <<>>
      <4>1. k - 1 = L
        BY <1>1, <3>2
      <4> QED
        BY <1>2, <1>3, <1>4, <1>5, <3>2, <4>1
    <3>3. CASE k # L + 1
      <4>1. k \in 1 .. L /\ s # <<>>
        BY <1>1, <3>3
      <4> QED
        BY <1>3, <1>5, <1>6, <4>1
    <3> QED
      BY <3>1, <3>2, <3>3
  <2>2. \A k \in 1 .. L : t[k].nbuf = FileSize
    BY <1>3, <1>7
  <2>3. t # <<>> /\ t[L + 1].nbuf <= FileSize /\ t[L + 1].seq + t[L + 1].nbuf = end + 1
    BY <1>1, <1>2, <1>3, EmptySeq
  <2> QED
    BY <1>1, <1>3, <2>1, <2>2, <2>3 DEF InRow
<1> QED
  BY <1>3, <1>5, <1>8 DEF t, L, new

\* The oldest file is deleted.
LEMMA RowTail ==
  ASSUME NEW s \in Seq(SegFile), NEW end \in Nat, InRow(s, end), Len(s) >= 2
  PROVE  LET t == Tail(s)
         IN  /\ t \in Seq(SegFile) /\ InRow(t, end) /\ t # <<>>
             /\ Len(t) = Len(s) - 1
             /\ t[1].seq = s[1].seq + FileSize
             /\ t[Len(t)] = s[Len(s)]
<1> DEFINE L == Len(s)
           t == Tail(s)
<1>1. L \in Nat /\ L >= 2 /\ s # <<>> /\ FileSize \in Nat /\ L - 1 \in Nat
  BY RowElements, Sizes, EmptySeq
<1>2. /\ t \in Seq(SegFile) /\ Len(t) = L - 1
      /\ \A k \in 1 .. L - 1 : t[k] = s[k + 1]
  BY <1>1, HeadTailProperties
<1>3. /\ \A k \in 1 .. L : s[k].seq = s[1].seq + FilesHold(k - 1) /\ s[k].seq \in Nat
      /\ \A k \in 1 .. L - 1 : s[k].nbuf = FileSize
      /\ s[L].nbuf <= FileSize /\ s[L].seq + s[L].nbuf = end
  BY <1>1, RowElements DEF InRow
<1> HIDE DEF t, L
<1>4. t[L - 1] = s[L] /\ t # <<>>
  <2>1. L - 1 \in 1 .. L - 1 /\ (L - 1) + 1 = L
    BY <1>1
  <2> QED
    BY <1>1, <1>2, <2>1, EmptySeq
<1>5. t[1].seq = s[1].seq + FileSize /\ s[1].seq \in Nat
  <2>1. 1 \in 1 .. L - 1 /\ 1 + 1 \in 1 .. L /\ (1 + 1) - 1 = 1 /\ 1 \in 1 .. L
    BY <1>1
  <2>2. FilesHold(1) = FileSize
    BY <1>1, Hold
  <2> QED
    BY <1>2, <1>3, <2>1, <2>2
<1>6. ASSUME NEW k \in 1 .. L - 1
      PROVE  t[k].seq = t[1].seq + FilesHold(k - 1)
  <2>1. k \in Nat /\ k + 1 \in 1 .. L /\ (k + 1) - 1 = k /\ k - 1 \in Nat /\ (k - 1) + 1 = k
    BY <1>1
  <2>2. FilesHold(k) = FilesHold(k - 1) + FileSize /\ FilesHold(k - 1) \in Nat
    BY <2>1, Hold
  <2>3. t[k].seq = s[1].seq + FilesHold(k)
    BY <1>2, <1>3, <2>1
  <2> QED
    BY <1>1, <1>5, <2>2, <2>3
<1>7. ASSUME NEW k \in 1 .. (L - 1) - 1
      PROVE  t[k].nbuf = FileSize
  <2>1. k \in 1 .. L - 1 /\ k + 1 \in 1 .. L - 1
    BY <1>1
  <2> QED
    BY <1>2, <1>3, <2>1
<1>8. InRow(t, end)
  BY <1>2, <1>3, <1>4, <1>6, <1>7 DEF InRow
<1> QED
  BY <1>1, <1>2, <1>4, <1>5, <1>8 DEF t, L

\* The files after the m-th one are lost, and the end of the m-th one.
LEMMA RowCut ==
  ASSUME NEW s \in Seq(SegFile), NEW end \in Nat, InRow(s, end),
         NEW m \in 1 .. Len(s), NEW n \in Nat, n <= s[m].nbuf
  PROVE  LET t == [SubSeq(s, 1, m) EXCEPT ![m].nbuf = n]
         IN  /\ t \in Seq(SegFile) /\ InRow(t, s[m].seq + n)
             /\ Len(t) = m /\ t[1].seq = s[1].seq
<1> DEFINE L == Len(s)
           u == SubSeq(s, 1, m)
           f == [u[m] EXCEPT !.nbuf = n]
           t == [u EXCEPT ![m] = f]
<1>1. /\ L \in Nat /\ m \in Nat /\ m >= 1 /\ m <= L /\ FileSize \in Nat
      /\ s # <<>> /\ m - 1 + 1 = m
  BY RowElements, Sizes, EmptySeq
<1>2. /\ \A k \in 1 .. L : s[k] \in SegFile /\ s[k].seq \in Nat
      /\ \A k \in 1 .. L : s[k].seq = s[1].seq + FilesHold(k - 1)
      /\ \A k \in 1 .. L : s[k].nbuf <= FileSize
      /\ \A k \in 1 .. L - 1 : s[k].nbuf = FileSize
  BY <1>1, RowElements, RowExtent DEF InRow
<1>3. u \in Seq(SegFile) /\ Len(u) = m /\ \A k \in 1 .. m : u[k] = s[k]
  <2>1. \A k \in 1 .. m : s[k] \in SegFile
    BY <1>1, <1>2
  <2>2. /\ u \in Seq(SegFile) /\ Len(u) = m - 1 + 1
        /\ \A k \in 1 .. m - 1 + 1 : u[k] = s[1 + k - 1]
    BY <1>1, <2>1, SubSeqProperties
  <2>3. \A k \in 1 .. m : 1 + k - 1 = k
    BY <1>1
  <2> QED
    BY <1>1, <2>2, <2>3
<1>4. f \in SegFile /\ f.seq = s[m].seq /\ f.nbuf = n
  <2> HIDE DEF u
  <2>1. u[m] = s[m] /\ s[m] \in SegFile
    BY <1>1, <1>2, <1>3
  <2> QED
    BY <2>1 DEF SegFile
<1>5. t = [SubSeq(s, 1, m) EXCEPT ![m].nbuf = n]
  OBVIOUS
<1> HIDE DEF L, u, f
<1>6. /\ t \in Seq(SegFile) /\ Len(t) = m /\ t[m] = f
      /\ \A k \in 1 .. m : k # m => t[k] = s[k]
  BY <1>1, <1>3, <1>4, ExceptSeq
<1> HIDE DEF t
<1>7. \A k \in 1 .. m : t[k].seq = s[k].seq
  BY <1>4, <1>6
<1>8. t[1].seq = s[1].seq
  BY <1>1, <1>7
<1>9. ASSUME NEW k \in 1 .. m
      PROVE  t[k].seq = t[1].seq + FilesHold(k - 1)
  <2>1. k \in 1 .. L
    BY <1>1
  <2> QED
    BY <1>2, <1>7, <1>8, <2>1
<1>10. ASSUME NEW k \in 1 .. m - 1
       PROVE  t[k].nbuf = FileSize
  <2>1. k \in 1 .. m /\ k # m /\ k \in 1 .. L - 1
    BY <1>1
  <2> QED
    BY <1>2, <1>6, <2>1
<1>11. t # <<>> /\ t[m].nbuf <= FileSize /\ t[m].seq + t[m].nbuf = s[m].seq + n
  <2>1. s[m].nbuf <= FileSize /\ s[m] \in SegFile /\ s[m].nbuf \in Nat
    BY <1>1, <1>2 DEF SegFile
  <2> QED
    BY <1>1, <1>4, <1>6, <2>1, EmptySeq
<1>12. InRow(t, s[m].seq + n)
  BY <1>6, <1>9, <1>10, <1>11 DEF InRow
<1> QED
  BY <1>5, <1>6, <1>8, <1>12 DEF t, f

\* No two files share a record, and between them there is every record.
LEMMA RowOrdered ==
  ASSUME NEW s \in Seq(SegFile), NEW end \in Nat, InRow(s, end),
         NEW j \in 1 .. Len(s), NEW k \in 1 .. Len(s), j < k
  PROVE  s[j].seq + s[j].nbuf <= s[k].seq
<1>1. /\ Len(s) \in Nat /\ FileSize \in Nat /\ 1 \in 1 .. Len(s)
      /\ j \in Nat /\ j >= 1 /\ k \in Nat /\ j - 1 \in Nat /\ k - 1 \in Nat
      /\ j <= k - 1 /\ j \in 1 .. Len(s) - 1 /\ (j - 1) + 1 = j
  BY RowElements, Sizes
<1>2. s[1].seq \in Nat
  BY <1>1, RowElements
<1>3. s[j].seq = s[1].seq + FilesHold(j - 1) /\ s[k].seq = s[1].seq + FilesHold(k - 1)
      /\ s[j].nbuf = FileSize
  BY <1>1 DEF InRow
<1>4. /\ FilesHold(j) = FilesHold(j - 1) + FileSize /\ FilesHold(j - 1) \in Nat
      /\ FilesHold(j) <= FilesHold(k - 1) /\ FilesHold(k - 1) \in Nat
  BY <1>1, Hold
<1> QED
  BY <1>1, <1>2, <1>3, <1>4, SMTT(30)

LEMMA RowCovers ==
  ASSUME NEW s \in Seq(SegFile), NEW end \in Nat, InRow(s, end), s # <<>>,
         NEW i \in Nat, s[1].seq <= i, i < end
  PROVE  \E k \in 1 .. Len(s) : s[k].seq <= i /\ i < s[k].seq + s[k].nbuf
<1> DEFINE L == Len(s)
           b == s[1].seq
           d == (i - b) \div FileSize
           r == (i - b) % FileSize
<1>1. /\ L \in Nat /\ L >= 1 /\ 1 \in 1 .. L /\ L \in 1 .. L /\ b \in Nat
      /\ FileSize \in Nat /\ FileSize > 0 /\ L - 1 \in Nat
  BY RowElements, Sizes
<1>2. i - b \in Nat /\ i - b \in Int
  BY <1>1
<1>3. d \in Int /\ r \in 0 .. FileSize - 1 /\ i - b = FileSize * d + r
  BY <1>1, <1>2, DivMod
<1> HIDE DEF d, r
<1>4. d >= 0
  <2>1. ASSUME 0 - d >= 1 PROVE FALSE
    <3>1. FileSize * (0 - d) >= FileSize
      BY <1>1, <1>3, <2>1, ProductAtLeast
    <3>2. FileSize * (0 - d) = 0 - FileSize * d
      BY <1>1, <1>3
    <3> DEFINE z == FileSize * d
    <3>3. 0 - z >= FileSize /\ i - b = z + r /\ z \in Int
      BY <1>1, <1>3, <3>1, <3>2
    <3> HIDE DEF z
    <3> QED
      BY <1>1, <1>2, <1>3, <3>3
  <2> QED
    BY <1>3, <2>1
<1>5. d \in Nat /\ FilesHold(d) = FileSize * d /\ FilesHold(d) \in Nat
  BY <1>1, <1>3, <1>4, Hold DEF FilesHold
<1>6. i = b + FilesHold(d) + r
  <2>1. i - b = FilesHold(d) + r /\ r \in Nat
    BY <1>1, <1>3, <1>5
  <2>2. b \in Nat /\ FilesHold(d) \in Nat
    BY <1>1, <1>5
  <2> HIDE DEF b
  <2> QED
    BY <2>1, <2>2
<1>7. /\ end = b + FilesHold(L - 1) + s[L].nbuf /\ s[L].nbuf <= FileSize
      /\ s[L].nbuf \in Nat /\ FilesHold(L - 1) \in Nat
      /\ FilesHold(L) = FilesHold(L - 1) + FileSize
  <2>1. (L - 1) + 1 = L
    BY <1>1
  <2> QED
    BY <1>1, <2>1, RowExtent, RowElements, Hold
<1> HIDE DEF L, b
<1>8. d <= L - 1
  <2>1. ASSUME d >= L PROVE FALSE
    <3>1. FilesHold(L) <= FilesHold(d)
      BY <1>1, <1>5, <2>1, Hold
    <3>2. FilesHold(L) \in Nat /\ r \in Nat /\ i < end /\ b \in Nat
      BY <1>1, <1>3, <1>7
    <3>3. end <= b + FilesHold(L)
      BY <1>1, <1>7
    <3>4. b + FilesHold(L) <= i
      BY <1>5, <1>6, <3>1, <3>2
    <3> QED
      BY <3>2, <3>3, <3>4
  <2> QED
    BY <1>1, <1>5, <2>1
<1>9. d + 1 \in 1 .. L /\ (d + 1) - 1 = d
  BY <1>1, <1>5, <1>8
<1>10. s[d + 1].seq = b + FilesHold(d)
  BY <1>9 DEF InRow, L, b
<1>11. i < s[d + 1].seq + s[d + 1].nbuf
  <2>1. CASE d + 1 = L
    <3>1. d = L - 1
      BY <1>1, <1>5, <2>1
    <3> QED
      BY <1>7, <1>10, <2>1, <3>1
  <2>2. CASE d + 1 # L
    <3>1. d + 1 \in 1 .. L - 1
      BY <1>1, <1>5, <1>8, <2>2
    <3>2. s[d + 1].nbuf = FileSize
      BY <3>1 DEF InRow, L
    <3> QED
      BY <1>1, <1>3, <1>5, <1>6, <1>10, <3>2
  <2> QED
    BY <2>1, <2>2
<1>12. s[d + 1].seq <= i
  BY <1>1, <1>3, <1>5, <1>6, <1>10
<1> QED
  BY <1>9, <1>11, <1>12 DEF L

-----------------------------------------------------------------------------
(* Looking for a sequence number in the files, and storing a record.       *)

FilesTypeOK == rec \in Seq(Content) /\ files \in Seq(SegFile)

LEMMA Counts ==
  ASSUME FilesTypeOK
  PROVE  seq_long \in Nat /\ Len(files) \in Nat /\ DOMAIN files = 1 .. Len(files)
BY LenProperties, RowElements DEF FilesTypeOK, seq_long

LEMMA DiskExtent ==
  ASSUME FilesTypeOK, FilesInv
  PROVE  /\ DiskLo \in Nat /\ DiskLo <= seq_long
         /\ seq_long - DiskLo <= FilesHold(MaxFiles)
<1>1. CASE files = <<>>
  <2>1. DiskLo = seq_long /\ seq_long \in Nat
    BY <1>1, Counts DEF DiskLo
  <2>2. FilesHold(MaxFiles) \in Nat
    BY Hold, Sizes
  <2> QED
    BY <2>1, <2>2
<1>2. CASE files # <<>>
  <2>1. /\ files[1].seq \in Nat /\ files[1].seq <= seq_long
        /\ seq_long - files[1].seq <= FilesHold(Len(files))
    <3>1. 1 \in 1 .. Len(files)
      BY <1>2, RowElements DEF FilesTypeOK
    <3> QED
      BY <1>2, <3>1, RowExtent, RowElements DEF FilesTypeOK, FilesInv
  <2>2. /\ FilesHold(Len(files)) <= FilesHold(MaxFiles)
        /\ FilesHold(Len(files)) \in Nat /\ FilesHold(MaxFiles) \in Nat
    BY Counts, Hold, Sizes DEF FilesInv
  <2> QED
    BY <1>2, <2>1, <2>2, Counts DEF DiskLo
<1> QED
  BY <1>1, <1>2

\* The record that a client looking for number q is led to: it is in the file
\* where it is looked for, and has that number.
LEMMA PositionInFile ==
  ASSUME FilesTypeOK, FilesInv, NEW q \in Int, NEW k \in FilesWith(q)
  PROVE  LET p == files[k].seq + Offset(k, q)
         IN  /\ k \in 1 .. Len(files) /\ p \in Nat
             /\ files[k].seq <= p /\ p < FileEnd(k)
             /\ DiskLo <= p /\ p < seq_long
             /\ p % SeqMod = q % SeqMod
<1> DEFINE b == files[k].seq
           o == Offset(k, q)
           p == b + o
<1>1. /\ k \in 1 .. Len(files) /\ b \in Nat /\ files[k].nbuf \in Nat
      /\ o < files[k].nbuf /\ files # <<>>
  BY Counts, RowElements, EmptySeq DEF FilesWith, FilesTypeOK
<1>2. o \in 0 .. SeqMod - 1 /\ o \in Nat
  <2>1. q - b \in Int /\ SeqMod \in Nat /\ SeqMod > 0
    BY <1>1, StationAssumption
  <2> HIDE DEF b
  <2> QED
    BY <2>1, DivMod DEF Offset, b
<1>3. /\ DiskLo <= b /\ DiskLo \in Nat /\ b + files[k].nbuf <= seq_long
      /\ seq_long \in Nat
  BY <1>1, RowExtent, DiskExtent, Counts DEF DiskLo, FilesTypeOK, FilesInv
<1>4. (b + o) % SeqMod = q % SeqMod
  <2>1. o = (q - b) % SeqMod
    BY DEF Offset
  <2>2. SeqMod \in Nat /\ SeqMod > 0 /\ q - b \in Int /\ b \in Int
    BY <1>1, StationAssumption
  <2> HIDE DEF o, b
  <2> QED
    BY <2>1, <2>2, ModOffset
<1> HIDE DEF o, b
<1>5. /\ p \in Nat /\ b <= p /\ p < b + files[k].nbuf
      /\ DiskLo <= p /\ p < seq_long
  BY <1>1, <1>2, <1>3
<1> QED
  BY <1>1, <1>4, <1>5 DEF o, b, FileEnd

\* A number is found in at most one file, and at one place in it: SeqMod is
\* larger than the disk.
LEMMA NumberIsUnique ==
  ASSUME FilesTypeOK, FilesInv, NEW q \in Int,
         NEW j \in FilesWith(q), NEW k \in FilesWith(q)
  PROVE  j = k
<1> DEFINE a == files[j].seq + Offset(j, q)
           b == files[k].seq + Offset(k, q)
<1>1. /\ j \in 1 .. Len(files) /\ a \in Nat /\ files[j].seq <= a /\ a < FileEnd(j)
      /\ DiskLo <= a /\ a < seq_long /\ a % SeqMod = q % SeqMod
      /\ k \in 1 .. Len(files) /\ b \in Nat /\ files[k].seq <= b /\ b < FileEnd(k)
      /\ DiskLo <= b /\ b < seq_long /\ b % SeqMod = q % SeqMod
  BY PositionInFile
<1> HIDE DEF a, b
<1>2. a = b
  <2>1. /\ DiskLo \in Nat /\ seq_long \in Nat /\ seq_long - DiskLo <= FilesHold(MaxFiles)
        /\ FilesHold(MaxFiles) \in Nat /\ NBufs \in Nat
        /\ SeqMod \in Nat /\ SeqMod > FilesHold(MaxFiles) + NBufs
    BY DiskExtent, Counts, Sizes, Hold
  <2>2. a - b < SeqMod /\ b - a < SeqMod /\ SeqMod > 0
    BY <1>1, <2>1
  <2>3. a \in Int /\ b \in Int /\ a % SeqMod = b % SeqMod
    BY <1>1
  <2> QED
    BY <2>1, <2>2, <2>3, ModInjective
<1>3. \A m, n \in 1 .. Len(files) : m < n => FileEnd(m) <= files[n].seq
  BY RowOrdered, Counts DEF FilesTypeOK, FilesInv, FileEnd
<1>4. /\ files[j].seq \in Nat /\ FileEnd(j) \in Nat
      /\ files[k].seq \in Nat /\ FileEnd(k) \in Nat
  <2>1. /\ files[j].seq \in Nat /\ files[j].nbuf \in Nat
        /\ files[k].seq \in Nat /\ files[k].nbuf \in Nat
    BY <1>1, RowElements DEF FilesTypeOK
  <2> QED
    BY <2>1 DEF FileEnd
<1>5. ~(j < k) /\ ~(k < j)
  <2>1. j < k => FileEnd(j) <= files[k].seq
    BY <1>1, <1>3
  <2>2. k < j => FileEnd(k) <= files[j].seq
    BY <1>1, <1>3
  <2> QED
    BY <1>1, <1>2, <1>4, <2>1, <2>2
<1> QED
  BY <1>1, <1>5, Counts

\* A restarted station loads the newest NBufs records, or all that there are.
LEMMA LoadPoint ==
  ASSUME FilesTypeOK, FilesInv
  PROVE  /\ LoadFrom \in Nat
         /\ DiskLo <= LoadFrom /\ LoadFrom <= seq_long
         /\ seq_long - LoadFrom <= NBufs
<1> DEFINE n == seq_long - NBufs
           q == SeqOf(n)
<1>1. /\ DiskLo \in Nat /\ seq_long \in Nat /\ DiskLo <= seq_long
      /\ seq_long - DiskLo <= FilesHold(MaxFiles)
      /\ FilesHold(MaxFiles) \in Nat /\ NBufs \in Nat /\ NBufs >= 2
      /\ SeqMod \in Nat /\ SeqMod > FilesHold(MaxFiles) + NBufs /\ SeqMod > 0
  <2>1. /\ FilesHold(MaxFiles) \in Nat /\ NBufs \in Nat /\ NBufs >= 2
        /\ SeqMod \in Nat /\ SeqMod > FilesHold(MaxFiles) + NBufs
    BY Sizes, Hold
  <2>2. SeqMod > 0
    BY <2>1
  <2> QED
    BY <2>1, <2>2, DiskExtent, Counts
<1>2. n \in Int /\ q \in Int /\ q = n % SeqMod /\ q % SeqMod = q
  <2>1. n \in Int
    BY <1>1
  <2> HIDE DEF n
  <2>2. q \in 0 .. SeqMod - 1 /\ q = n % SeqMod
    BY <1>1, <2>1, DivMod DEF SeqOf
  <2>3. q % SeqMod = q
    <3>1. q \in Int /\ q - 0 \in 0 .. SeqMod - 1 /\ 0 \in Int
      BY <1>1, <2>2
    <3> DEFINE r == q % SeqMod
    <3>2. r \in 0 .. SeqMod - 1 /\ r % SeqMod = q % SeqMod
      <4>1. (0 + ((q - 0) % SeqMod)) % SeqMod = q % SeqMod
        BY <1>1, <3>1, ModOffset
      <4>2. q - 0 = q /\ r \in 0 .. SeqMod - 1
        BY <1>1, <3>1, DivMod
      <4> HIDE DEF q
      <4> QED
        BY <4>1, <4>2
    <3> HIDE DEF q, r
    <3>3. r \in Int /\ r - q < SeqMod /\ q - r < SeqMod
      BY <1>1, <2>2, <3>2
    <3>4. r = q
      BY <1>1, <3>1, <3>2, <3>3, ModInjective
    <3> QED
      BY <3>4 DEF r
  <2> QED
    BY <2>1, <2>2, <2>3
<1>3. CASE FilesWith(q) # {}
  <2>1. PICK k \in FilesWith(q) : TRUE
    BY <1>3
  <2>2. FilesWith(q) = {k}
    BY <1>2, <2>1, NumberIsUnique
  <2>3. k \in Nat
    BY <1>2, <2>1, PositionInFile
  <2>4. Least(FilesWith(q)) = k
    BY <2>2, <2>3 DEF Least
  <2> DEFINE p == files[k].seq + Offset(k, q)
  <2>5. LoadFrom = p
    BY <1>3, <2>4 DEF LoadFrom
  <2>6. p \in Nat /\ DiskLo <= p /\ p < seq_long /\ p % SeqMod = q
    BY <1>2, PositionInFile
  <2> HIDE DEF p, q
  <2>7. p - n < SeqMod /\ n - p < SeqMod
    BY <1>1, <2>6
  <2>8. p = n
    BY <1>1, <1>2, <2>6, <2>7, ModInjective
  <2>9. seq_long - p <= NBufs
    BY <1>1, <2>6, <2>8
  <2> QED
    BY <1>1, <2>5, <2>6, <2>9
<1>4. CASE FilesWith(q) = {}
  <2>1. LoadFrom = DiskLo
    BY <1>4 DEF LoadFrom
  <2>2. ASSUME n >= DiskLo PROVE FALSE
    <3>1. n \in Nat /\ n < seq_long /\ DiskLo < seq_long
      BY <1>1, <2>2
    <3>2. files # <<>> /\ DiskLo = files[1].seq
      BY <1>1, <3>1 DEF DiskLo
    <3>3. PICK k \in 1 .. Len(files) : files[k].seq <= n /\ n < files[k].seq + files[k].nbuf
      BY <1>1, <2>2, <3>1, <3>2, RowCovers DEF FilesTypeOK, FilesInv
    <3> DEFINE b == files[k].seq
    <3>4. /\ b \in Nat /\ files[k].nbuf \in Nat
          /\ b + files[k].nbuf <= seq_long /\ DiskLo <= b
      BY <1>1, <3>2, <3>3, RowElements, RowExtent DEF FilesTypeOK, FilesInv
    <3> HIDE DEF n, b
    <3>5. n - b \in 0 .. SeqMod - 1 /\ n - b < files[k].nbuf /\ b \in Int /\ n \in Int
      <4>1. b <= n /\ n < b + files[k].nbuf /\ n < seq_long
        BY <3>1, <3>3 DEF b
      <4> QED
        BY <1>1, <3>1, <3>4, <4>1, SMTT(30)
    <3>6. ((n % SeqMod) - b) % SeqMod = n - b
      BY <1>1, <3>5, ModDistance
    <3>7. Offset(k, q) < files[k].nbuf
      BY <1>2, <3>5, <3>6 DEF Offset, b
    <3> QED
      BY <1>4, <3>3, <3>7, Counts DEF FilesWith
  <2>3. seq_long - DiskLo <= NBufs
    BY <1>1, <2>2
  <2> QED
    BY <1>1, <2>1, <2>3
<1> QED
  BY <1>3, <1>4

\* A record is stored on disk, after deleting a file when there are too many.
LEMMA RecordStored ==
  ASSUME FilesTypeOK, FilesInv
  PROVE  LET t == FilesAfterStore
         IN  /\ t \in Seq(SegFile) /\ Len(t) <= MaxFiles /\ InRow(t, seq_long + 1)
             /\ t # <<>>
             /\ t[1].seq = IF DropsFile THEN seq_long - FilesHold(MaxFiles - 1)
                           ELSE DiskLo
<1> DEFINE s == files
           L == Len(files)
           kept == IF DropsFile THEN Tail(files) ELSE files
           t == FilesAfterStore
<1>1. /\ L \in Nat /\ L <= MaxFiles /\ MaxFiles \in Nat /\ MaxFiles >= 2
      /\ s \in Seq(SegFile) /\ InRow(s, seq_long) /\ seq_long \in Nat
      /\ FileSize \in Nat
  BY Counts, Sizes DEF FilesTypeOK, FilesInv
<1>2. CASE ~RollsFile
  <2>1. s # <<>> /\ L >= 1 /\ ~DropsFile
    BY <1>1, <1>2, RowElements DEF RollsFile, DropsFile
  <2>2. L \in 1 .. L
    BY <1>1, <2>1
  <2>3. s[L].nbuf \in Nat /\ s[L].nbuf < FileSize
    BY <1>1, <1>2, <2>2, RowElements DEF RollsFile
  <2>4. t = [s EXCEPT ![L].nbuf = @ + 1]
    BY <1>2 DEF FilesAfterStore
  <2>5. /\ t \in Seq(SegFile) /\ InRow(t, seq_long + 1)
        /\ Len(t) = L /\ t[1].seq = s[1].seq
    BY <1>1, <2>1, <2>3, <2>4, RowGrows
  <2> HIDE DEF t
  <2>6. t # <<>>
    BY <1>1, <2>1, <2>5, EmptySeq
  <2> QED
    BY <1>1, <2>1, <2>5, <2>6 DEF DiskLo, t
<1>3. CASE RollsFile
  <2>1. t = Append(kept, [seq |-> seq_long, nbuf |-> 1])
    BY <1>3 DEF FilesAfterStore
  <2>2. s # <<>> => s[L].nbuf = FileSize
    <3>1. s # <<>> => L \in 1 .. L
      BY <1>1, RowElements
    <3> QED
      BY <1>1, <1>3, <3>1, RowElements DEF RollsFile, InRow
  <2>3. CASE ~DropsFile
    <3>1. L + 1 <= MaxFiles
      BY <1>1, <1>3, <2>3 DEF DropsFile
    <3>2. t = Append(s, [seq |-> seq_long, nbuf |-> 1])
      BY <2>1, <2>3
    <3>3. /\ t \in Seq(SegFile) /\ InRow(t, seq_long + 1) /\ Len(t) = L + 1
          /\ t[1].seq = IF s = <<>> THEN seq_long ELSE s[1].seq
      BY <1>1, <2>2, <3>2, RowAppends
    <3> HIDE DEF t
    <3>4. t # <<>>
      BY <1>1, <3>3, EmptySeq
    <3> QED
      BY <2>3, <3>1, <3>3, <3>4 DEF DiskLo, t
  <2>4. CASE DropsFile
    <3>1. L = MaxFiles /\ L >= 2 /\ s # <<>>
      BY <1>1, <2>4, EmptySeq DEF DropsFile
    <3> DEFINE u == Tail(s)
    <3>2. /\ u \in Seq(SegFile) /\ InRow(u, seq_long) /\ u # <<>>
          /\ Len(u) = L - 1 /\ u[1].seq = s[1].seq + FileSize
          /\ u[Len(u)] = s[L]
      BY <1>1, <3>1, RowTail
    <3>3. t = Append(u, [seq |-> seq_long, nbuf |-> 1])
      BY <2>1, <2>4
    <3>4. u[Len(u)].nbuf = FileSize
      BY <2>2, <3>1, <3>2
    <3> HIDE DEF u
    <3>5. /\ t \in Seq(SegFile) /\ InRow(t, seq_long + 1) /\ Len(t) = Len(u) + 1
          /\ t[1].seq = u[1].seq
      BY <1>1, <3>2, <3>3, <3>4, RowAppends
    <3> HIDE DEF t
    <3>6. Len(t) = L /\ t # <<>>
      BY <1>1, <3>2, <3>5, EmptySeq
    <3>7. s[1].seq + FileSize = seq_long - FilesHold(MaxFiles - 1)
      <4>1. s[1].seq \in Nat /\ FilesHold(MaxFiles - 1) \in Nat
        <5>1. 1 \in 1 .. L /\ MaxFiles - 1 \in Nat
          BY <1>1, <3>1
        <5> QED
          BY <1>1, <5>1, RowElements, Hold
      <4>2. seq_long = s[1].seq + FilesHold(MaxFiles - 1) + FileSize
        BY <1>1, <2>2, <3>1, RowExtent
      <4> QED
        BY <1>1, <4>1, <4>2
    <3> QED
      BY <1>1, <2>4, <3>1, <3>2, <3>5, <3>6, <3>7 DEF t
  <2> QED
    BY <2>3, <2>4
<1> QED
  BY <1>2, <1>3

-----------------------------------------------------------------------------
(* The invariant of the two stores, action by action.                      *)

IInv == StoreTypeOK /\ WindowInv /\ FilesInv

LEMMA Types ==
  ASSUME IInv
  PROVE  /\ FilesTypeOK
         /\ lo \in Nat /\ seq_long \in Nat /\ held \in Nat /\ held <= MaxHeld
         /\ lo <= seq_long /\ seq_long - lo <= NBufs - held
         /\ NBufs \in Nat /\ MaxHeld \in Nat /\ NBufs > MaxHeld /\ NBufs >= 2
<1>1. FilesTypeOK
  BY DEF IInv, StoreTypeOK, FilesTypeOK, SegFile
<1>2. lo \in Nat /\ held \in 0 .. MaxHeld /\ lo <= seq_long /\ seq_long - lo <= NBufs - held
  BY DEF IInv, StoreTypeOK, WindowInv
<1>3. NBufs \in Nat /\ MaxHeld \in Nat /\ NBufs > MaxHeld /\ NBufs >= 2
  BY Sizes
<1> QED
  BY <1>1, <1>2, <1>3, Counts

LEMMA InitIInv == Init => IInv
<1> SUFFICES ASSUME Init PROVE IInv
  OBVIOUS
<1>1. StoreTypeOK
  <2>1. rec \in Seq(Content) /\ files \in Seq([seq: Nat, nbuf: Nat])
    BY EmptySeq DEF Init
  <2>2. 0 \in 0 .. BlankBufs /\ 0 \in 0 .. MaxRestarts /\ 0 \in 0 .. MaxHeld
    BY StationAssumption
  <2> QED
    BY <2>1, <2>2 DEF Init, StoreTypeOK
<1>2. seq_long = 0 /\ Len(files) = 0
  BY EmptySeq DEF Init, seq_long
<1>3. WindowInv
  BY <1>2, Sizes DEF Init, WindowInv
<1>4. FilesInv
  BY <1>2, Sizes DEF Init, FilesInv, InRow
<1> QED
  BY <1>1, <1>3, <1>4 DEF IInv

\* What storing a record does to the invariant.
LEMMA NewBufferStores ==
  ASSUME IInv, NEW k \in Content, NewBuffer(k)
  PROVE  /\ rec' \in Seq(Content) /\ seq_long' = seq_long + 1
         /\ files' \in Seq(SegFile) /\ FilesInv'
         /\ DiskLo' = IF DropsFile THEN seq_long - FilesHold(MaxFiles - 1) ELSE DiskLo
<1>1. rec' \in Seq(Content) /\ seq_long' = seq_long + 1
  BY AppendProperties DEF IInv, StoreTypeOK, NewBuffer, seq_long
<1>2. /\ files' \in Seq(SegFile) /\ Len(files') <= MaxFiles /\ InRow(files', seq_long + 1)
      /\ files' # <<>>
      /\ files'[1].seq = IF DropsFile THEN seq_long - FilesHold(MaxFiles - 1) ELSE DiskLo
  BY Types, RecordStored DEF NewBuffer, IInv
<1>3. FilesInv'
  BY <1>1, <1>2 DEF FilesInv, InRow, FilesHold
<1> QED
  BY <1>1, <1>2, <1>3 DEF DiskLo

LEMMA ContentOfRecords == Blank \in Content /\ \A k \in Kind : k \in Content
BY DEF Content

LEMMA GetBufferIInv == IInv /\ GetBuffer => IInv'
<1> SUFFICES ASSUME IInv, GetBuffer PROVE IInv'
  OBVIOUS
<1>1. /\ held < MaxHeld /\ held' = held + 1 /\ seq_long' = seq_long
      /\ UNCHANGED <<phase, xml, blanks, restarts, durable, rec, files>>
  BY DEF GetBuffer, server, seq_long
<1>2. lo' \in Nat /\ lo' <= seq_long /\ seq_long - lo' <= NBufs - (held + 1)
  <2>1. CASE PoolIsFull /\ lo' = lo + 1
    BY <1>1, <2>1, Types DEF PoolIsFull
  <2>2. CASE ~PoolIsFull /\ lo' = lo
    BY <2>2, Types DEF PoolIsFull
  <2> QED
    BY <2>1, <2>2 DEF GetBuffer
<1>3. StoreTypeOK'
  BY <1>1, <1>2, Types DEF IInv, StoreTypeOK
<1>4. WindowInv'
  BY <1>1, <1>2 DEF GetBuffer, IInv, WindowInv
<1>5. FilesInv'
  BY <1>1 DEF IInv, FilesInv, InRow
<1> QED
  BY <1>3, <1>4, <1>5 DEF IInv

LEMMA QueueBufferIInv == IInv /\ (\E k \in Kind : QueueBuffer(k)) => IInv'
<1> SUFFICES ASSUME IInv, NEW k \in Kind, QueueBuffer(k) PROVE IInv'
  OBVIOUS
<1>1. /\ phase = "up" /\ held > 0 /\ held' = held - 1 /\ NewBuffer(k)
      /\ UNCHANGED <<phase, xml, blanks, restarts, durable, lo>>
  BY DEF QueueBuffer, server
<1>2. /\ rec' \in Seq(Content) /\ seq_long' = seq_long + 1
      /\ files' \in Seq(SegFile) /\ FilesInv'
  BY <1>1, NewBufferStores, ContentOfRecords
<1>3. StoreTypeOK'
  <2>1. held' \in 0 .. MaxHeld
    BY <1>1, Types
  <2> QED
    BY <1>1, <1>2, <2>1 DEF IInv, StoreTypeOK, SegFile
<1>4. WindowInv'
  <2>1. lo' <= seq_long' /\ seq_long' - lo' <= NBufs - held'
    BY <1>1, <1>2, Types
  <2> QED
    BY <1>1, <2>1 DEF WindowInv
<1> QED
  BY <1>2, <1>3, <1>4 DEF IInv

LEMMA TerminateIInv == IInv /\ Terminate => IInv'
<1> SUFFICES ASSUME IInv, Terminate PROVE IInv'
  OBVIOUS
<1>1. /\ phase' = "down" /\ xml' = TRUE /\ blanks' = 0 /\ held' = 0 /\ lo' = seq_long
      /\ restarts < MaxRestarts /\ seq_long' = seq_long
      /\ UNCHANGED <<restarts, durable, rec, files>>
  BY DEF Terminate, Stops, seq_long
<1>2. StoreTypeOK'
  BY <1>1, Types, StationAssumption DEF IInv, StoreTypeOK
<1>3. WindowInv'
  BY <1>1, Types DEF WindowInv
<1>4. FilesInv'
  BY <1>1 DEF IInv, FilesInv, InRow
<1> QED
  BY <1>2, <1>3, <1>4 DEF IInv

\* A crash leaves an initial part of the row of files.
LEMMA CrashCuts ==
  ASSUME IInv, NEW m \in 1 .. MaxFiles, NEW n \in 0 .. FileSize, CrashUpTo(m, n)
  PROVE  /\ rec' \in Seq(Content) /\ seq_long' = lo' /\ lo' \in 0 .. seq_long
         /\ files' \in Seq(SegFile) /\ FilesInv' /\ DiskLo' <= lo'
<1> DEFINE end == files[m].seq + n
           t == [SubSeq(files, 1, m) EXCEPT ![m].nbuf = n]
<1>1. /\ files \in Seq(SegFile) /\ rec \in Seq(Content) /\ seq_long \in Nat
      /\ Len(files) \in Nat /\ Len(files) <= MaxFiles /\ MaxFiles \in Nat
      /\ InRow(files, seq_long) /\ FileSize \in Nat
  BY Types, Counts, Sizes DEF FilesTypeOK, IInv, FilesInv
<1>2. m \in 1 .. Len(files) /\ n \in Nat /\ n <= files[m].nbuf /\ files # <<>>
  BY <1>1, RowElements, EmptySeq DEF CrashUpTo
<1>3. end \in Nat /\ end <= seq_long
  <2>1. /\ files[m].seq \in Nat /\ files[m].nbuf \in Nat
        /\ files[m].seq + files[m].nbuf <= seq_long
    BY <1>1, <1>2, RowElements, RowExtent
  <2> QED
    BY <1>1, <1>2, <2>1
<1>4. /\ t \in Seq(SegFile) /\ InRow(t, end) /\ Len(t) = m /\ t[1].seq = files[1].seq
  BY <1>1, <1>2, RowCut
<1>5. rec' = SubSeq(rec, 1, end) /\ files' = t /\ lo' = end
  BY DEF CrashUpTo
<1> HIDE DEF end, t
<1>6. rec' \in Seq(Content) /\ Len(rec') = end
  <2>1. \A i \in 1 .. end : rec[i] \in Content
    <3>1. \A i \in 1 .. end : i \in 1 .. Len(rec)
      BY <1>1, <1>3 DEF seq_long
    <3> QED
      BY <1>1, <3>1, ElementOfSeq
  <2>2. /\ SubSeq(rec, 1, end) \in Seq(Content)
        /\ Len(SubSeq(rec, 1, end)) = IF 1 <= end THEN end - 1 + 1 ELSE 0
    BY <1>3, <2>1, SubSeqProperties
  <2> QED
    BY <1>3, <1>5, <2>2
<1>7. t # <<>>
  BY <1>1, <1>2, <1>4, EmptySeq
<1>8. FilesInv'
  <2>1. Len(t) <= MaxFiles
    BY <1>1, <1>4
  <2> QED
    BY <1>4, <1>5, <1>6, <2>1 DEF FilesInv, InRow, FilesHold, seq_long
<1>9. t[1].seq <= end
  BY <1>4, <1>7, RowExtent
<1> QED
  BY <1>3, <1>4, <1>5, <1>6, <1>7, <1>8, <1>9 DEF DiskLo, seq_long

LEMMA CrashStore ==
  ASSUME IInv, Crash
  PROVE  /\ phase' = "down" /\ blanks' = 0 /\ held' = 0 /\ restarts < MaxRestarts
         /\ UNCHANGED <<xml, restarts, durable>>
         /\ rec' \in Seq(Content) /\ files' \in Seq(SegFile) /\ FilesInv'
         /\ lo' \in Nat /\ lo' <= seq_long' /\ seq_long' - lo' <= NBufs
         /\ DiskLo' <= lo' \/ (DiskLo' = DiskLo /\ lo' = lo)
<1>1. /\ phase' = "down" /\ blanks' = 0 /\ held' = 0 /\ restarts < MaxRestarts
      /\ UNCHANGED <<xml, restarts, durable>>
  BY DEF Crash, Stops
<1>2. CASE files = <<>> /\ UNCHANGED <<rec, files, lo>>
  <2>1. seq_long' = seq_long /\ FilesInv' /\ DiskLo' = DiskLo
    BY <1>2 DEF seq_long, IInv, FilesInv, InRow, DiskLo
  <2> QED
    BY <1>1, <1>2, <2>1, Types DEF FilesTypeOK
<1>3. ASSUME NEW m \in 1 .. MaxFiles, NEW n \in 0 .. FileSize, CrashUpTo(m, n)
      PROVE  /\ rec' \in Seq(Content) /\ files' \in Seq(SegFile) /\ FilesInv'
             /\ lo' \in Nat /\ lo' <= seq_long' /\ seq_long' - lo' <= NBufs
             /\ DiskLo' <= lo'
  <2>1. /\ rec' \in Seq(Content) /\ seq_long' = lo' /\ lo' \in Nat
        /\ files' \in Seq(SegFile) /\ FilesInv'
    BY <1>3, CrashCuts
  <2> QED
    BY <1>3, <2>1, CrashCuts, Types
<1> QED
  BY <1>1, <1>2, <1>3 DEF Crash

LEMMA CrashIInv == IInv /\ Crash => IInv'
<1> SUFFICES ASSUME IInv, Crash PROVE IInv'
  OBVIOUS
<1>1. StoreTypeOK'
  <2>1. 0 \in 0 .. BlankBufs /\ 0 \in 0 .. MaxHeld
    BY StationAssumption
  <2> QED
    BY <2>1, CrashStore DEF IInv, StoreTypeOK, SegFile
<1>2. WindowInv'
  BY CrashStore, Sizes DEF WindowInv
<1> QED
  BY <1>1, <1>2, CrashStore DEF IInv

LEMMA RestartStore ==
  ASSUME IInv, Restart
  PROVE  /\ seq_long' = seq_long /\ lo' = LoadFrom /\ lo' \in Nat
         /\ DiskLo' = DiskLo /\ DiskLo <= lo' /\ lo' <= seq_long /\ seq_long - lo' <= NBufs
         /\ held = 0 /\ held' = 0
<1>1. /\ phase = "down" /\ lo' = LoadFrom /\ UNCHANGED <<rec, held, files>>
  BY DEF Restart
<1>2. seq_long' = seq_long /\ DiskLo' = DiskLo
  BY <1>1 DEF seq_long, DiskLo
<1>3. held = 0
  BY <1>1 DEF IInv, WindowInv
<1>4. FilesTypeOK /\ FilesInv
  BY Types DEF IInv
<1> QED
  BY <1>1, <1>2, <1>3, <1>4, LoadPoint

LEMMA RestartIInv == IInv /\ Restart => IInv'
<1> SUFFICES ASSUME IInv, Restart PROVE IInv'
  OBVIOUS
<1>1. StoreTypeOK'
  <2>1. restarts' \in 0 .. MaxRestarts
    <3>1. restarts' = restarts + 1 /\ restarts < MaxRestarts
      BY DEF Restart, IInv, WindowInv
    <3>2. restarts \in 0 .. MaxRestarts /\ MaxRestarts \in Nat
      BY StationAssumption DEF IInv, StoreTypeOK
    <3> QED
      BY <3>1, <3>2
  <2>2. blanks' \in 0 .. BlankBufs
    BY StationAssumption DEF Restart
  <2>3. durable' \in Nat
    BY Types DEF Restart
  <2>4. phase' \in {"down", "restoring", "up"} /\ xml' \in BOOLEAN
        /\ UNCHANGED <<rec, held, files>>
    BY DEF Restart
  <2> QED
    BY <2>1, <2>2, <2>3, <2>4, RestartStore DEF IInv, StoreTypeOK
<1>2. WindowInv'
  <2>1. phase' # "down" /\ (phase' = "restoring" => blanks' > 0)
    BY StationAssumption DEF Restart
  <2> QED
    BY <2>1, RestartStore, Types DEF WindowInv
<1>3. FilesInv'
  BY RestartStore DEF Restart, IInv, FilesInv, InRow
<1> QED
  BY <1>1, <1>2, <1>3 DEF IInv

LEMMA CreateBlankIInv == IInv /\ CreateBlank => IInv'
<1> SUFFICES ASSUME IInv, CreateBlank PROVE IInv'
  OBVIOUS
<1>1. /\ phase = "restoring" /\ NewBuffer(Blank) /\ blanks' = blanks - 1
      /\ phase' = IF blanks = 1 THEN "up" ELSE "restoring"
      /\ lo' = IF seq_long - lo < NBufs THEN lo ELSE seq_long
      /\ UNCHANGED <<xml, restarts, durable, held>>
  BY DEF CreateBlank
<1>2. /\ rec' \in Seq(Content) /\ seq_long' = seq_long + 1
      /\ files' \in Seq(SegFile) /\ FilesInv'
  BY <1>1, NewBufferStores, ContentOfRecords
<1>3. blanks \in 0 .. BlankBufs /\ blanks > 0 /\ held = 0 /\ BlankBufs \in Nat
  BY <1>1, StationAssumption DEF IInv, StoreTypeOK, WindowInv
<1>4. lo' \in Nat /\ lo' <= seq_long' /\ seq_long' - lo' <= NBufs
  BY <1>1, <1>2, Types
<1>5. StoreTypeOK'
  <2>1. blanks' \in 0 .. BlankBufs
    BY <1>1, <1>3
  <2> QED
    BY <1>1, <1>2, <1>4, <2>1 DEF IInv, StoreTypeOK, SegFile
<1>6. WindowInv'
  BY <1>1, <1>3, <1>4, Sizes DEF WindowInv
<1> QED
  BY <1>2, <1>5, <1>6 DEF IInv

\* The commands and the deliveries change neither store.
LEMMA ClientsLeaveStores ==
  \A c \in Client : Disconnect(c) \/ Command(c) \/ SendResponse(c) \/ Deliver(c)
                    => UNCHANGED <<server, store>>
<1> SUFFICES ASSUME NEW c \in Client,
                    Disconnect(c) \/ Command(c) \/ SendResponse(c) \/ Deliver(c)
             PROVE  UNCHANGED <<server, store>>
  OBVIOUS
<1>1. CASE Disconnect(c)
  BY <1>1 DEF Disconnect
<1>2. CASE Command(c)
  BY <1>2 DEF Command, Select, BadData, DataNext, DataAll, DataFrom, Subscribe, End
<1>3. CASE SendResponse(c)
  BY <1>3 DEF SendResponse
<1>4. CASE Deliver(c)
  BY <1>4 DEF Deliver, DeliverFromFile, DeliverFromMemory, DeliverNothing, Sent
<1> QED
  BY <1>1, <1>2, <1>3, <1>4

\* Every step is one of these.
StoreStep ==
  \/ UNCHANGED <<server, store>>
  \/ GetBuffer
  \/ \E k \in Kind : QueueBuffer(k)
  \/ Terminate \/ Crash \/ Restart \/ CreateBlank

LEMMA StepStores == [Next]_vars => StoreStep
<1>1. ASSUME NEW c \in Client, NEW m \in Handshake, Connect(c, m)
      PROVE  UNCHANGED <<server, store>>
  BY <1>1 DEF Connect
<1>2. UNCHANGED vars => UNCHANGED <<server, store>>
  BY DEF vars
<1> QED
  BY <1>1, <1>2, ClientsLeaveStores DEF Next, StoreStep

LEMMA StepIInv == IInv /\ [Next]_vars => IInv'
<1>1. IInv /\ UNCHANGED <<server, store>> => IInv'
  BY DEF server, store, seq_long, IInv, StoreTypeOK, WindowInv, FilesInv, InRow
<1> QED
  BY <1>1, StepStores, GetBufferIInv, QueueBufferIInv, TerminateIInv, CrashIInv,
     RestartIInv, CreateBlankIInv DEF StoreStep

-----------------------------------------------------------------------------
(* The theorems.                                                           *)

\* The state of the two stores and of the server has its types; the memory
\* never holds more records than it has free buffers for; the segment files
\* are a row of full files that ends with the newest record.  This is what
\* get_buffer, new_buffer, get_file and restore_state maintain together.
THEOREM Invariance == Spec => [](StoreTypeOK /\ WindowInv /\ FilesInv)
<1>1. Spec => []IInv
  BY InitIInv, StepIInv, PTL DEF Spec
<1>2. IInv => StoreTypeOK /\ WindowInv /\ FilesInv
  BY DEF IInv
<1> QED
  BY <1>1, <1>2, PTL

LEMMA StepCovers ==
  ASSUME DiskLargeEnough, IInv, IInv', DiskCoversMemory, [Next]_vars
  PROVE  DiskCoversMemory'
<1>1. lo' <= seq_long'
  BY DEF IInv, WindowInv
<1>2. /\ FilesTypeOK /\ FilesInv /\ DiskLo <= lo
      /\ DiskLo \in Nat /\ seq_long \in Nat /\ lo \in Nat /\ held \in Nat
      /\ lo <= seq_long /\ seq_long - lo <= NBufs - held
      /\ NBufs \in Nat
  BY Types, DiskExtent DEF IInv, DiskCoversMemory
<1>3. FilesHold(MaxFiles - 1) \in Nat /\ NBufs <= FilesHold(MaxFiles - 1)
  <2>1. MaxFiles - 1 \in Nat
    BY Sizes
  <2> QED
    BY <2>1, Hold DEF DiskLargeEnough
<1>4. CASE UNCHANGED <<server, store>>
  BY <1>4, <1>2, <1>1 DEF store, DiskLo, seq_long, DiskCoversMemory
<1>5. CASE GetBuffer
  <2>1. DiskLo' = DiskLo
    BY <1>5 DEF GetBuffer, DiskLo, seq_long
  <2>2. lo' = lo \/ lo' = lo + 1
    BY <1>5 DEF GetBuffer
  <2> QED
    BY <1>1, <1>2, <2>1, <2>2 DEF DiskCoversMemory
<1>6. ASSUME NEW k \in Kind, QueueBuffer(k) PROVE DiskCoversMemory'
  <2>1. lo' = lo /\ NewBuffer(k)
    BY <1>6 DEF QueueBuffer
  <2>2. DiskLo' = IF DropsFile THEN seq_long - FilesHold(MaxFiles - 1) ELSE DiskLo
    BY <2>1, NewBufferStores, ContentOfRecords
  <2> QED
    BY <1>1, <1>2, <1>3, <2>1, <2>2 DEF DiskCoversMemory
<1>7. CASE Terminate
  <2>1. DiskLo' = DiskLo /\ lo' = seq_long
    BY <1>7 DEF Terminate, DiskLo, seq_long
  <2> QED
    BY <1>1, <1>2, <2>1 DEF DiskCoversMemory
<1>8. CASE Crash
  BY <1>1, <1>2, <1>8, CrashStore DEF DiskCoversMemory
<1>9. CASE Restart
  BY <1>1, <1>9, RestartStore DEF DiskCoversMemory
<1>10. CASE CreateBlank
  <2>1. NewBuffer(Blank) /\ lo' = IF seq_long - lo < NBufs THEN lo ELSE seq_long
    BY <1>10 DEF CreateBlank
  <2>2. DiskLo' = IF DropsFile THEN seq_long - FilesHold(MaxFiles - 1) ELSE DiskLo
    BY <2>1, NewBufferStores, ContentOfRecords
  <2> QED
    BY <1>1, <1>2, <1>3, <2>1, <2>2 DEF DiskCoversMemory
<1> QED
  BY <1>4, <1>5, <1>6, <1>7, <1>8, <1>9, <1>10, StepStores DEF StoreStep

\* A record that is in memory is on disk, whatever is stored, deleted, loaded
\* or lost, if the files that remain when one is deleted hold as many records
\* as the memory: delete_oldest_buffer then finds a place in a file for every
\* client whose buffer is reused.
THEOREM DiskCovers ==
  ASSUME DiskLargeEnough
  PROVE  Spec => []DiskCoversMemory
<1>1. Init => DiskCoversMemory
  BY EmptySeq DEF Init, DiskCoversMemory, DiskLo, seq_long
<1>2. IInv /\ IInv' /\ DiskCoversMemory /\ [Next]_vars => DiskCoversMemory'
  BY StepCovers
<1> QED
  BY <1>1, <1>2, InitIInv, StepIInv, PTL DEF Spec

\* What a crash leaves of the window: nothing in memory, and on disk no record
\* that was not there.
LEMMA CrashLoses ==
  ASSUME IInv, Crash
  PROVE  seq_long' \in 0 .. seq_long /\ lo' = seq_long'
<1>1. CASE files = <<>> /\ UNCHANGED <<rec, files, lo>>
  BY <1>1, Types DEF IInv, FilesInv, InRow, seq_long
<1>2. ASSUME NEW m \in 1 .. MaxFiles, NEW n \in 0 .. FileSize, CrashUpTo(m, n)
      PROVE  seq_long' \in 0 .. seq_long /\ lo' = seq_long'
  BY <1>2, CrashCuts, Types
<1> QED
  BY <1>1, <1>2 DEF Crash

\* StationIO uses its memory as RecordWindow allows: while the server is up, a
\* record leaves memory only when an encoder needs a buffer and none is free;
\* blank records push others out before the server is up, and memory is empty
\* when its process has ended.
THEOREM Refinement == Spec => WindowSpec
<1>1. Init => Window!Init
  BY EmptySeq, Sizes DEF Init, Window!Init, seq_long
<1>2. ASSUME IInv, IInv', [Next]_vars PROVE [Window!Next]_(Window!vars)
  <2>1. CASE UNCHANGED <<server, store>>
    BY <2>1 DEF server, store, seq_long, Window!vars
  <2>2. CASE GetBuffer
    <3>1. /\ held + 1 < NBufs /\ held' = held + 1 /\ seq_long' = seq_long
          /\ lo' = IF PoolIsFull THEN lo + 1 ELSE lo
          /\ phase = "up" /\ phase' = "up"
      BY <1>2, <2>2, Types DEF GetBuffer, server, seq_long
    <3> QED
      BY <3>1 DEF Window!Next, Window!Take, Window!Full, PoolIsFull
  <2>3. ASSUME NEW k \in Kind, QueueBuffer(k) PROVE Window!Next
    <3>1. phase = "up" /\ phase' = "up"
      BY <2>3 DEF QueueBuffer, server
    <3>2. held > 0 /\ held' = held - 1 /\ seq_long' = seq_long + 1 /\ lo' = lo
      BY <1>2, <2>3, NewBufferStores, ContentOfRecords DEF QueueBuffer
    <3> QED
      BY <3>1, <3>2 DEF Window!Next, Window!Put
  <2>4. CASE CreateBlank
    <3>1. /\ held = 0 /\ held' = held /\ seq_long' = seq_long + 1
          /\ lo' = IF seq_long - lo < NBufs THEN lo ELSE seq_long
          /\ phase = "restoring" /\ phase' \in {"restoring", "up"}
      BY <1>2, <2>4, NewBufferStores, ContentOfRecords DEF CreateBlank, IInv, WindowInv
    <3>2. seq_long - lo < NBufs <=> ~(seq_long - lo = NBufs - held)
      BY <1>2, <3>1, Types
    <3> QED
      BY <3>1, <3>2 DEF Window!Next, Window!Make, Window!Full
  <2>5. CASE Terminate \/ Crash
    <3>1. phase \in {"restoring", "up"} /\ phase' = "down" /\ held' = 0
      <4>1. phase # "down" /\ phase' = "down" /\ held' = 0
        BY <1>2, <2>5, CrashStore DEF Terminate, Stops, Crash
      <4> QED
        BY <1>2, <4>1 DEF IInv, StoreTypeOK
    <3>2. seq_long' \in 0 .. seq_long /\ lo' = seq_long'
      <4>1. CASE Terminate
        BY <1>2, <4>1, Types DEF Terminate, seq_long
      <4> QED
        BY <1>2, <2>5, <4>1, CrashLoses
    <3> QED
      BY <3>1, <3>2 DEF Window!Next, Window!Stop
  <2>6. CASE Restart
    <3>1. phase = "down" /\ phase' \in {"restoring", "up"}
      BY <2>6 DEF Restart
    <3>2. /\ seq_long' = seq_long /\ held' = held
          /\ lo' \in 0 .. seq_long /\ seq_long - lo' <= NBufs
      BY <1>2, <2>6, RestartStore, Types
    <3> QED
      BY <3>1, <3>2 DEF Window!Next, Window!Start
  <2> QED
    BY <1>2, <2>1, <2>2, <2>3, <2>4, <2>5, <2>6, StepStores DEF StoreStep
<1> QED
  BY <1>1, <1>2, InitIInv, StepIInv, PTL DEF Spec, WindowSpec, Window!Spec

-----------------------------------------------------------------------------
(* The clients of the stores: their places stay valid while buffers are    *)
(* reused, files deleted and the server restarted, packets come in order   *)
(* and with their own number, and no record is passed over that could      *)
(* still be read.                                                          *)

\* The record at which client s stands, when end records are stored.
PlaceOf(s, end) ==
  IF s.file_queue # None
  THEN IF s.readfd # None THEN s.readfd ELSE s.file_queue
  ELSE IF s.buffer_queue # None THEN s.buffer_queue ELSE end

InFile(s, F) ==
  \E k \in DOMAIN F : /\ F[k].seq = s.file_queue
                      /\ s.readfd \in {None} \cup s.file_queue .. (F[k].seq + F[k].nbuf)

\* Client s fits the stores: the files F and the records a .. b - 1 in memory.
Fits(s, F, a, b) ==
  /\ s \in SX
  /\ s.ready => s.active
  /\ s.file_queue = None => s.readfd = None
  /\ s.active => s.seq # Uninit
  /\ s.seq >= Uninit
  /\ s.buffer_queue \in {None} \cup a .. (b - 1)
  /\ s.file_queue # None => InFile(s, F)
  /\ s.readfd # None => s.seq = SeqOf(s.readfd)

\* The number with which a client is compared that has just come to a file: that
\* of the file, or an old one when the file before it has been deleted.
AtFile(s, b) ==
  s.file_queue # None /\ s.readfd = None =>
    \/ s.seq = SeqOf(s.file_queue)
    \/ s.file_queue < b /\ (s.buffer_queue = None \/ s.buffer_queue > s.file_queue)

\* Its place in memory is not before its place in the files, and neither is
\* before the record it is due.
InTurn(s, due, b) ==
  s.active =>
    /\ AtFile(s, b)
    /\ due <= PlaceOf(s, b)
    /\ s.buffer_queue # None => s.buffer_queue >= due
    /\ s.buffer_queue # None /\ s.file_queue # None => PlaceOf(s, b) <= s.buffer_queue

\* What it has passed over, it does not select, or it is not on disk, of which d is the
\* oldest record.
NoneMissed(s, due, d, b) ==
  s.active => \A j \in due .. (PlaceOf(s, b) - 1) : j < d \/ ~Matches(s, j)

\* As long as the numbers have not come round, an old number is a small one.
OldNumber(s) ==
  s.active /\ s.file_queue # None /\ s.readfd = None => s.seq \in 0 .. s.file_queue

NotUp == /\ phase # "up" => \A c \in Client : ~cx[c].conn
         /\ \A c \in Client : ~cx[c].conn => sx[c] = IdleSX /\ obs[c] = IdleObs

ClientsFit == \A c \in Client : Fits(sx[c], files, lo, seq_long)
ClientsInTurn == \A c \in Client : InTurn(sx[c], obs[c].due, seq_long)
ClientsMissNothing == \A c \in Client : NoneMissed(sx[c], obs[c].due, DiskLo, seq_long)

-----------------------------------------------------------------------------
(* Looking for a record.                                                   *)

LEMMA FieldTypes ==
  ASSUME NEW s \in SX
  PROVE  /\ s.active \in BOOLEAN /\ s.ready \in BOOLEAN /\ s.realtime \in BOOLEAN
         /\ s.eod \in BOOLEAN /\ s.buffer_queue \in Int /\ s.file_queue \in Int
         /\ s.readfd \in Int /\ s.seq \in Int /\ s.sel \in SUBSET Kind
BY DEF SX

LEMMA Numbers ==
  ASSUME NEW i \in Int
  PROVE  SeqOf(i) \in Nat /\ SeqOf(i) < SeqMod /\ SeqOf(i) # Uninit /\ SeqMod \in Nat /\ SeqMod > 0
<1>1. SeqMod \in Nat /\ SeqMod > 0
  BY StationAssumption
<1>2. i % SeqMod \in 0 .. SeqMod - 1
  BY <1>1, DivMod
<1> QED
  BY <1>1, <1>2 DEF SeqOf, Uninit

\* Two records that are on disk or in memory at one time have different numbers.
LEMMA SameNumber ==
  ASSUME FilesTypeOK, FilesInv, lo \in Nat, seq_long - lo <= NBufs,
         NEW i \in Nat, NEW j \in Nat, i <= seq_long, j <= seq_long,
         i >= DiskLo \/ i >= lo, j >= DiskLo \/ j >= lo,
         SeqOf(i) = SeqOf(j)
  PROVE  i = j
<1>1. /\ DiskLo \in Nat /\ seq_long \in Nat /\ seq_long - DiskLo <= FilesHold(MaxFiles)
      /\ FilesHold(MaxFiles) \in Nat /\ NBufs \in Nat
      /\ SeqMod \in Nat /\ SeqMod > FilesHold(MaxFiles) + NBufs
  BY DiskExtent, Counts, Sizes, Hold
<1>2. i - j < SeqMod /\ j - i < SeqMod /\ SeqMod > 0
  BY <1>1
<1>3. i % SeqMod = j % SeqMod
  BY DEF SeqOf
<1> QED
  BY <1>1, <1>2, <1>3, ModInjective

\* What find_packet_in_filestore finds.
LEMMA FoundInFile ==
  ASSUME FilesTypeOK, FilesInv, NEW q \in Int, FilesWith(q) # {}
  PROVE  LET k == Least(FilesWith(q))
             p == files[k].seq + Offset(k, q)
         IN  /\ k \in 1 .. Len(files) /\ p \in Nat /\ files[k].seq \in Nat
             /\ files[k].seq <= p /\ p < FileEnd(k)
             /\ DiskLo <= p /\ p < seq_long /\ SeqOf(p) = SeqOf(q)
<1> DEFINE k == Least(FilesWith(q))
<1>1. PICK j \in FilesWith(q) : TRUE
  OBVIOUS
<1>2. j \in 1 .. Len(files) /\ j <= j
  BY Counts DEF FilesWith
<1>3. \A m \in FilesWith(q) : m = j
  BY NumberIsUnique
<1>4. k \in FilesWith(q)
  BY <1>1, <1>2, <1>3 DEF Least
<1>5. k \in 1 .. Len(files) /\ files[k].seq \in Nat
  BY <1>4, Counts, RowElements DEF FilesWith, FilesTypeOK
<1> HIDE DEF k
<1> QED
  BY <1>4, <1>5, PositionInFile DEF SeqOf, k

\* A record that is on disk is found.
LEMMA IsOnDisk ==
  ASSUME FilesTypeOK, FilesInv, NEW i \in Nat, DiskLo <= i, i < seq_long
  PROVE  /\ FilesWith(SeqOf(i)) # {}
         /\ \E k \in DOMAIN files : files[k].seq <= i /\ i < FileEnd(k)
<1>1. files # <<>> /\ files \in Seq(SegFile) /\ InRow(files, seq_long) /\ files[1].seq <= i
      /\ seq_long \in Nat
  BY Counts DEF DiskLo, FilesTypeOK, FilesInv
<1>2. PICK k \in 1 .. Len(files) : files[k].seq <= i /\ i < files[k].seq + files[k].nbuf
  BY <1>1, RowCovers
<1>3. files[k].seq \in Nat /\ files[k].nbuf \in Nat /\ files[k].nbuf <= FileSize
      /\ DOMAIN files = 1 .. Len(files)
  BY <1>1, RowElements, RowExtent
<1>4. FileSize \in Nat /\ FileSize <= SeqMod /\ SeqMod \in Nat /\ SeqMod > 0
  <2>1. FilesHold(1) = FileSize /\ FilesHold(1) <= FilesHold(MaxFiles) /\ FilesHold(MaxFiles) \in Nat
    BY Hold, Sizes DEF FilesHold
  <2> QED
    BY <2>1, Sizes
<1>5. i - files[k].seq \in 0 .. SeqMod - 1 /\ i - files[k].seq < files[k].nbuf
  BY <1>2, <1>3, <1>4
<1>6. Offset(k, SeqOf(i)) = i - files[k].seq
  <2> DEFINE b == files[k].seq
  <2>1. b \in Int /\ i \in Int /\ i - b \in 0 .. SeqMod - 1
    BY <1>3, <1>5
  <2> HIDE DEF b
  <2>2. ((i % SeqMod) - b) % SeqMod = i - b
    BY <1>4, <2>1, ModDistance
  <2> QED
    BY <2>2 DEF Offset, SeqOf, b
<1>7. k \in FilesWith(SeqOf(i))
  BY <1>3, <1>5, <1>6 DEF FilesWith
<1> QED
  BY <1>2, <1>3, <1>7 DEF FileEnd

\* What find_packet_in_bufferstore finds.
LEMMA FoundInMemory ==
  ASSUME IInv, NEW q \in Int, BuffersWith(q) # {}
  PROVE  Least(BuffersWith(q)) \in lo .. (seq_long - 1) /\ SeqOf(Least(BuffersWith(q))) = q
<1>1. PICK j \in BuffersWith(q) : TRUE
  OBVIOUS
<1>2. \A m \in BuffersWith(q) : m \in lo .. (seq_long - 1) /\ SeqOf(m) = q /\ m \in Nat
  BY Types DEF BuffersWith
<1>3. \A m \in BuffersWith(q) : m = j
  <2>1. FilesTypeOK /\ FilesInv /\ lo \in Nat /\ seq_long \in Nat /\ seq_long - lo <= NBufs
    BY Types DEF IInv
  <2> TAKE m \in BuffersWith(q)
  <2>2. m \in Nat /\ j \in Nat /\ m <= seq_long /\ j <= seq_long /\ m >= lo /\ j >= lo
    BY <1>2, <2>1
  <2> QED
    BY <1>2, <2>1, <2>2, SameNumber
<1>4. j <= j
  BY <1>2
<1>5. Least(BuffersWith(q)) \in BuffersWith(q)
  BY <1>1, <1>3, <1>4 DEF Least
<1> QED
  BY <1>2, <1>5

-----------------------------------------------------------------------------
(* What the handlers make of the fields of a client.                       *)

\* Client t has the subscription of client s, and this place in the stores.
Same(s, t) ==
  /\ t \in SX
  /\ t.active = s.active /\ t.ready = s.ready /\ t.realtime = s.realtime
  /\ t.eod = s.eod /\ t.sel = s.sel

At(t, b, f, r, q) ==
  t.buffer_queue = b /\ t.file_queue = f /\ t.readfd = r /\ t.seq = q

LEMMA MoveAll ==
  ASSUME NEW s \in SX, NEW b \in Int, NEW f \in Int, NEW r \in Int, NEW q \in Int
  PROVE  LET t == [s EXCEPT !.file_queue = f, !.readfd = r, !.seq = q]
             u == [t EXCEPT !.buffer_queue = b]
         IN  Same(s, u) /\ At(u, b, f, r, q)
BY DEF SX, Same, At

LEMMA MoveBuffer ==
  ASSUME NEW s \in SX, NEW b \in Int
  PROVE  LET t == [s EXCEPT !.buffer_queue = b]
         IN  Same(s, t) /\ At(t, b, s.file_queue, s.readfd, s.seq)
BY DEF SX, Same, At

LEMMA MoveNumber ==
  ASSUME NEW s \in SX, NEW b \in Int, NEW q \in Int
  PROVE  LET t == [s EXCEPT !.seq = q]
             u == [t EXCEPT !.buffer_queue = b]
         IN  Same(s, u) /\ At(u, b, s.file_queue, s.readfd, q)
BY DEF SX, Same, At

LEMMA MoveFile ==
  ASSUME NEW s \in SX, NEW f \in Int, NEW r \in Int
  PROVE  LET t == [s EXCEPT !.readfd = r, !.file_queue = f]
         IN  Same(s, t) /\ At(t, s.buffer_queue, f, r, s.seq)
BY DEF SX, Same, At

LEMMA NextBufferIs ==
  ASSUME seq_long \in Int, NEW i \in Int
  PROVE  NextBuffer(i) \in Int /\ NextBuffer(i) = IF i + 1 < seq_long THEN i + 1 ELSE None
BY DEF NextBuffer, None

\* delete_oldest_buffer.
LEMMA BufferDeleted ==
  ASSUME FilesTypeOK, FilesInv, lo \in Nat, NEW s \in SX
  PROVE  LET t == DeleteOldestBuffer(s)
             q == SeqOf(lo)
             k == Least(FilesWith(q))
         IN  /\ s.buffer_queue # lo => t = s
             /\ s.buffer_queue = lo =>
                  /\ Same(s, t)
                  /\ s.file_queue # None =>
                       At(t, NextBuffer(lo), s.file_queue, s.readfd, s.seq)
                  /\ s.file_queue = None /\ FilesWith(q) # {} =>
                       At(t, NextBuffer(lo), files[k].seq, files[k].seq + Offset(k, q), q)
                  /\ s.file_queue = None /\ FilesWith(q) = {} =>
                       At(t, NextBuffer(lo), None, s.readfd, SeqOf(s.seq + 1))
<1> DEFINE t == DeleteOldestBuffer(s)
           q == SeqOf(lo)
           k == Least(FilesWith(q))
           b == NextBuffer(lo)
           f == files[k].seq
           r == f + Offset(k, q)
<1>1. b \in Int /\ q \in Int /\ lo \in Int
  <2>1. lo \in Int /\ seq_long \in Int
    BY Counts
  <2> QED
    BY <2>1, NextBufferIs, Numbers
<1>2. s.buffer_queue # lo => t = s
  BY DEF DeleteOldestBuffer
<1>3. CASE s.buffer_queue = lo /\ s.file_queue # None
  <2>1. t = [s EXCEPT !.buffer_queue = b]
    BY <1>3 DEF DeleteOldestBuffer
  <2> HIDE DEF t, b
  <2> QED
    BY <1>1, <1>3, <2>1, MoveBuffer DEF t, b
<1>4. CASE s.buffer_queue = lo /\ s.file_queue = None /\ FilesWith(q) # {}
  <2>1. f \in Int /\ r \in Int
    BY <1>1, <1>4, FoundInFile
  <2>2. t = [[s EXCEPT !.file_queue = f, !.readfd = r, !.seq = q] EXCEPT !.buffer_queue = b]
    BY <1>4 DEF DeleteOldestBuffer
  <2> HIDE DEF t, b, f, r, q
  <2>3. Same(s, t) /\ At(t, b, f, r, q)
    BY <1>1, <2>1, <2>2, MoveAll
  <2> QED
    BY <1>4, <2>3 DEF t, b, f, r, q
<1>5. CASE s.buffer_queue = lo /\ s.file_queue = None /\ FilesWith(q) = {}
  <2> DEFINE n == SeqOf(s.seq + 1)
  <2>1. n \in Int
    BY FieldTypes, Numbers
  <2>2. t = [[s EXCEPT !.seq = n] EXCEPT !.buffer_queue = b]
    BY <1>5 DEF DeleteOldestBuffer
  <2> HIDE DEF t, b, n
  <2>3. Same(s, t) /\ At(t, b, s.file_queue, s.readfd, n)
    BY <1>1, <2>1, <2>2, MoveNumber
  <2> QED
    BY <1>5, <2>3 DEF t, b, n, q
<1> QED
  BY <1>2, <1>3, <1>4, <1>5

\* delete_oldest_segment.
LEMMA SegmentDeleted ==
  ASSUME FilesTypeOK, FilesInv, NEW s \in SX
  PROVE  LET t == DeleteOldestSegment(s)
         IN  /\ ~(DropsFile /\ s.file_queue = files[1].seq) => t = s
             /\ DropsFile /\ s.file_queue = files[1].seq =>
                  Same(s, t) /\ At(t, s.buffer_queue, files[2].seq, None, s.seq)
<1>1. CASE DropsFile /\ s.file_queue = files[1].seq
  <2> DEFINE f == files[2].seq
  <2>1. f \in Int
    <3>1. 2 \in 1 .. Len(files)
      BY <1>1, Counts, Sizes DEF DropsFile
    <3> QED
      BY <3>1, RowElements DEF FilesTypeOK
  <2>2. DeleteOldestSegment(s) = [s EXCEPT !.readfd = None, !.file_queue = f]
    BY <1>1 DEF DeleteOldestSegment
  <2> HIDE DEF f
  <2>3. LET t == [s EXCEPT !.readfd = None, !.file_queue = f]
        IN  Same(s, t) /\ At(t, s.buffer_queue, f, None, s.seq)
    <3>1. None \in Int
      BY DEF None
    <3> QED
      BY <2>1, <3>1, MoveFile
  <2> QED
    BY <1>1, <2>2, <2>3 DEF f
<1>2. CASE ~(DropsFile /\ s.file_queue = files[1].seq)
  BY <1>2 DEF DeleteOldestSegment
<1> QED
  BY <1>1, <1>2

\* The rest of new_buffer.
LEMMA Arrived ==
  ASSUME seq_long \in Nat, NEW s \in SX, NEW k, NEW hs \in BOOLEAN
  PROVE  LET t == Arrive(s, k, hs)
             b == IF s.active /\ s.buffer_queue = None /\ k \in s.sel
                  THEN seq_long ELSE s.buffer_queue
         IN  /\ t \in SX
             /\ t.active = s.active /\ t.realtime = s.realtime /\ t.eod = s.eod
             /\ t.sel = s.sel
             /\ t.ready => s.active \/ s.ready
             /\ At(t, b, s.file_queue, s.readfd, s.seq)
<1> DEFINE x == IF s.buffer_queue = None /\ k \in s.sel
                THEN [s EXCEPT !.buffer_queue = seq_long] ELSE s
           b == IF s.buffer_queue = None /\ k \in s.sel THEN seq_long ELSE s.buffer_queue
<1>1. Same(s, x) /\ At(x, b, s.file_queue, s.readfd, s.seq)
  <2>1. CASE s.buffer_queue = None /\ k \in s.sel
    <3> DEFINE n == seq_long
    <3>1. n \in Int /\ x = [s EXCEPT !.buffer_queue = n] /\ b = n
      BY <2>1
    <3> HIDE DEF n, x, b
    <3> QED
      BY <3>1, MoveBuffer
  <2>2. CASE ~(s.buffer_queue = None /\ k \in s.sel)
    BY <2>2 DEF Same, At
  <2> QED
    BY <2>1, <2>2
<1> HIDE DEF x
<1>2. CASE ~s.active
  <2>1. Arrive(s, k, hs) = s
    BY <1>2 DEF Arrive
  <2> QED
    BY <1>2, <2>1 DEF At
<1>3. CASE s.active /\ ~(x.buffer_queue # None /\ hs)
  <2>1. Arrive(s, k, hs) = x
    BY <1>3 DEF Arrive, x
  <2> QED
    BY <1>1, <1>3, <2>1 DEF Same, At
<1>4. CASE s.active /\ x.buffer_queue # None /\ hs
  <2>1. Arrive(s, k, hs) = [x EXCEPT !.ready = TRUE]
    BY <1>4 DEF Arrive, x
  <2>2. ASSUME NEW y \in SX, NEW r \in BOOLEAN
        PROVE  LET t == [y EXCEPT !.ready = r]
               IN  /\ t \in SX /\ t.active = y.active /\ t.realtime = y.realtime
                   /\ t.eod = y.eod /\ t.sel = y.sel
                   /\ At(t, y.buffer_queue, y.file_queue, y.readfd, y.seq)
    BY DEF SX, At
  <2>3. LET t == [x EXCEPT !.ready = TRUE]
        IN  /\ t \in SX /\ t.active = x.active /\ t.realtime = x.realtime
            /\ t.eod = x.eod /\ t.sel = x.sel
            /\ At(t, x.buffer_queue, x.file_queue, x.readfd, x.seq)
    BY <1>1, <2>2 DEF Same
  <2> HIDE DEF b
  <2> QED
    BY <1>1, <1>4, <2>1, <2>3 DEF Same, At, b
<1> QED
  BY <1>2, <1>3, <1>4

\* SELECT and DATA begin by forgetting the subscription.
LEMMA Forgotten ==
  ASSUME NEW s \in SX
  PROVE  LET t == Forget(s)
         IN  /\ t \in SX /\ ~t.active /\ ~t.ready /\ ~t.eod /\ t.sel = s.sel
             /\ At(t, None, None, None, Uninit)
<1>1. ASSUME NEW n \in Int, NEW u \in Int
      PROVE  LET t == [[s EXCEPT !.readfd = n, !.buffer_queue = n, !.file_queue = n, !.seq = u]
                         EXCEPT !.active = FALSE, !.ready = FALSE, !.eod = FALSE]
             IN  /\ t \in SX /\ ~t.active /\ ~t.ready /\ ~t.eod /\ t.sel = s.sel
                 /\ At(t, n, n, n, u)
  BY DEF SX, At
<1>2. None \in Int /\ Uninit \in Int
  BY DEF None, Uninit
<1>3. LET t == [[s EXCEPT !.readfd = None, !.buffer_queue = None, !.file_queue = None,
                          !.seq = Uninit]
                  EXCEPT !.active = FALSE, !.ready = FALSE, !.eod = FALSE]
      IN  /\ t \in SX /\ ~t.active /\ ~t.ready /\ ~t.eod /\ t.sel = s.sel
          /\ At(t, None, None, None, Uninit)
  BY <1>1, <1>2, Zenon
<1> QED
  BY <1>3 DEF Forget, ResetQueue

\* SELECT and a DATA without a valid number leave it at that.
LEMMA OtherSelector ==
  ASSUME NEW s \in SX, NEW S \in SUBSET Kind, NEW rt \in BOOLEAN
  PROVE  /\ LET t == [s EXCEPT !.sel = S]
            IN  t \in SX /\ t.active = s.active /\ t.ready = s.ready /\ t.eod = s.eod
                /\ At(t, s.buffer_queue, s.file_queue, s.readfd, s.seq)
         /\ LET t == [s EXCEPT !.realtime = rt]
            IN  t \in SX /\ t.active = s.active /\ t.ready = s.ready /\ t.eod = s.eod
                /\ At(t, s.buffer_queue, s.file_queue, s.readfd, s.seq)
BY DEF SX, At

\* The place that DATA finds: in memory or at the end, at the first file, or at
\* record p of a file, which is then not in memory.
InMemory(t) == /\ t.buffer_queue \in {None} \cup lo .. (seq_long - 1)
               /\ t.file_queue = None /\ t.readfd = None

AtOldest(t) == /\ files # <<>>
               /\ At(t, FirstBuffer, files[1].seq, None, SeqOf(files[1].seq))

InsideFile(t, k, p) ==
  /\ files[k].seq <= p /\ p < FileEnd(k) /\ p < lo
  /\ At(t, FirstBuffer, files[k].seq, p, SeqOf(p))

FoundPlace(t) ==
  /\ t.seq \in Nat
  /\ \/ InMemory(t) \/ AtOldest(t)
     \/ \E k \in 1 .. Len(files), p \in Nat : InsideFile(t, k, p)

LEMMA Oldest ==
  ASSUME IInv, NEW s \in SX, At(s, None, None, None, Uninit)
  PROVE  Same(s, FindOldest(s)) /\ FoundPlace(FindOldest(s))
<1> DEFINE t == FindOldest(s)
           q == SeqOf(DiskLo)
           b == FirstBuffer
<1>1. /\ seq_long \in Nat /\ lo \in Nat /\ lo <= seq_long /\ FilesTypeOK /\ FilesInv
      /\ DiskLo \in Nat /\ None \in Int
  BY Types, DiskExtent DEF None, IInv
<1>2. b \in Int /\ b \in {None} \cup lo .. (seq_long - 1)
  BY <1>1 DEF FirstBuffer, None
<1>3. q \in Nat /\ q \in Int
  BY <1>1, Numbers
<1>4. ASSUME NEW x \in Int, NEW y \in Int, NEW z \in Int
      PROVE  LET u == [s EXCEPT !.seq = z, !.buffer_queue = x, !.file_queue = y]
             IN  Same(s, u) /\ At(u, x, y, s.readfd, z)
  BY DEF SX, Same, At
<1>5. CASE files = <<>>
  <2>1. t = [s EXCEPT !.seq = 0, !.buffer_queue = b, !.file_queue = None]
    BY <1>5 DEF FindOldest
  <2> HIDE DEF t, b
  <2>2. Same(s, t) /\ At(t, b, None, s.readfd, 0)
    <3>1. 0 \in Int
      OBVIOUS
    <3> QED
      BY <1>1, <1>2, <1>4, <2>1, <3>1, Zenon
  <2>3. InMemory(t) /\ t.seq \in Nat
    BY <1>2, <2>2 DEF At, InMemory
  <2> QED
    BY <2>2, <2>3 DEF FoundPlace, t
<1>6. CASE files # <<>> /\ BuffersWith(q) # {}
  <2> DEFINE i == Least(BuffersWith(q))
  <2>1. i \in lo .. (seq_long - 1) /\ i \in Int
    BY <1>1, <1>3, <1>6, FoundInMemory
  <2>2. t = [s EXCEPT !.seq = q, !.buffer_queue = i, !.file_queue = None]
    BY <1>6 DEF FindOldest
  <2> HIDE DEF t, i, q
  <2>3. Same(s, t) /\ At(t, i, None, s.readfd, q)
    BY <1>1, <1>3, <1>4, <2>1, <2>2
  <2>4. InMemory(t) /\ t.seq \in Nat
    BY <1>3, <2>1, <2>3 DEF At, InMemory
  <2> QED
    BY <2>3, <2>4 DEF FoundPlace, t
<1>7. CASE files # <<>> /\ BuffersWith(q) = {}
  <2> DEFINE f == FirstFile
  <2>1. t = [s EXCEPT !.seq = q, !.buffer_queue = b, !.file_queue = f]
    BY <1>7 DEF FindOldest
  <2>2. f = files[1].seq /\ DiskLo = f /\ f \in Int
    BY <1>1, <1>7 DEF FirstFile, DiskLo
  <2> HIDE DEF t, f, q, b
  <2>3. Same(s, t) /\ At(t, b, f, s.readfd, q)
    BY <1>2, <1>3, <1>4, <2>1, <2>2
  <2>4. q = SeqOf(files[1].seq)
    BY <2>2 DEF q
  <2>5. AtOldest(t) /\ t.seq \in Nat
    BY <1>3, <1>7, <2>2, <2>3, <2>4 DEF At, AtOldest, b
  <2> QED
    BY <2>3, <2>5 DEF FoundPlace, t
<1> QED
  BY <1>5, <1>6, <1>7

LEMMA NumberOfNumber ==
  ASSUME NEW q \in 0 .. SeqMod - 1
  PROVE  SeqOf(q) = q
<1> DEFINE x == q \div SeqMod
           r == q % SeqMod
<1>1. /\ SeqMod \in Nat /\ SeqMod > 0 /\ q \in Int
      /\ x \in Int /\ r \in 0 .. SeqMod - 1 /\ q = SeqMod * x + r
  BY StationAssumption, DivMod
<1> HIDE DEF r
<1>2. ~(x >= 1) /\ ~(0 - x >= 1)
  <2> HIDE DEF x
  <2>1. (x >= 1 => SeqMod * x >= SeqMod) /\ (0 - x >= 1 => SeqMod * (0 - x) >= SeqMod)
    BY <1>1, ProductAtLeast
  <2>2. SeqMod * (0 - x) = 0 - SeqMod * x
    BY <1>1
  <2> QED
    BY <1>1, <2>1, <2>2
<1>3. x = 0
  <2> HIDE DEF x
  <2> QED
    BY <1>1, <1>2
<1>4. q = r
  BY <1>1, <1>3
<1> QED
  BY <1>4 DEF SeqOf, r

LEMMA PacketFound ==
  ASSUME IInv, NEW s \in SX, At(s, None, None, None, Uninit), NEW q \in 0 .. SeqMod - 1
  PROVE  Same(s, FindPacket(s, q)) /\ FoundPlace(FindPacket(s, q))
<1> DEFINE t == FindPacket(s, q)
           b == FirstBuffer
           e == end_seq
<1>1. /\ seq_long \in Nat /\ lo \in Nat /\ lo <= seq_long /\ FilesTypeOK /\ FilesInv
      /\ None \in Int /\ q \in Nat
  BY Types, StationAssumption DEF None, IInv
<1>2. b \in Int /\ b \in {None} \cup lo .. (seq_long - 1)
  BY <1>1 DEF FirstBuffer, None
<1>3. e \in Nat /\ SeqOf(q) = q
  BY <1>1, Numbers, NumberOfNumber DEF end_seq
<1>4. ASSUME NEW x \in Int, NEW y \in Int, NEW z \in Int
      PROVE  /\ LET u == [s EXCEPT !.seq = z, !.buffer_queue = x, !.file_queue = y]
                IN  Same(s, u) /\ At(u, x, y, s.readfd, z)
             /\ LET u == [s EXCEPT !.buffer_queue = x, !.file_queue = y, !.seq = z]
                IN  Same(s, u) /\ At(u, x, y, s.readfd, z)
             /\ LET u == [s EXCEPT !.seq = z]
                IN  Same(s, u) /\ At(u, s.buffer_queue, s.file_queue, s.readfd, z)
  BY DEF SX, Same, At
<1>5. CASE BuffersWith(q) # {}
  <2> DEFINE i == Least(BuffersWith(q))
  <2>1. i \in lo .. (seq_long - 1) /\ i \in Int
    BY <1>1, <1>5, FoundInMemory
  <2>2. t = [s EXCEPT !.seq = q, !.buffer_queue = i, !.file_queue = None]
    BY <1>5 DEF FindPacket
  <2> HIDE DEF t, i
  <2>3. Same(s, t) /\ At(t, i, None, s.readfd, q)
    <3>1. q \in Int /\ None \in Int
      BY <1>1
    <3> QED
      BY <1>4, <2>1, <2>2, <3>1, Zenon
  <2>4. InMemory(t) /\ t.seq \in Nat
    BY <1>1, <2>1, <2>3 DEF At, InMemory
  <2> QED
    BY <2>3, <2>4 DEF FoundPlace, t
<1>6. CASE BuffersWith(q) = {} /\ FilesWith(q) # {}
  <2> DEFINE k == Least(FilesWith(q))
             f == files[k].seq
             p == f + Offset(k, q)
  <2>1. /\ k \in 1 .. Len(files) /\ p \in Nat /\ f \in Nat /\ f <= p /\ p < FileEnd(k)
        /\ p < seq_long /\ SeqOf(p) = q
    BY <1>1, <1>3, <1>6, FoundInFile
  <2>2. p < lo
    <3> HIDE DEF p
    <3>1. p >= lo => p \in BuffersWith(q)
      BY <1>1, <2>1 DEF BuffersWith
    <3> QED
      BY <1>1, <1>6, <2>1, <3>1
  <2>3. t = [s EXCEPT !.buffer_queue = b, !.file_queue = f, !.readfd = p, !.seq = q]
    BY <1>6 DEF FindPacket, InFiles
  <2>4. ASSUME NEW x \in Int, NEW y \in Int, NEW r \in Int, NEW z \in Int
        PROVE  LET u == [s EXCEPT !.buffer_queue = x, !.file_queue = y, !.readfd = r, !.seq = z]
               IN  Same(s, u) /\ At(u, x, y, r, z)
    BY DEF SX, Same, At
  <2> HIDE DEF t, b, f, p, k
  <2>5. Same(s, t) /\ At(t, b, f, p, q)
    <3>1. b \in Int /\ f \in Int /\ p \in Int /\ q \in Int
      BY <1>1, <1>2, <2>1
    <3> QED
      BY <2>3, <2>4, <3>1, Zenon
  <2>6. InsideFile(t, k, p)
    BY <2>1, <2>2, <2>5 DEF InsideFile, At, f, b
  <2>7. t.seq \in Nat
    BY <1>1, <2>5 DEF At
  <2> QED
    BY <2>1, <2>5, <2>6, <2>7 DEF FoundPlace, t
<1>7. CASE BuffersWith(q) = {} /\ FilesWith(q) = {} /\ q = e
  <2>1. t = [s EXCEPT !.seq = q]
    BY <1>7 DEF FindPacket
  <2> HIDE DEF t, e
  <2>2. Same(s, t) /\ At(t, s.buffer_queue, s.file_queue, s.readfd, q)
    <3>1. q \in Int
      BY <1>1
    <3> QED
      BY <1>1, <1>4, <2>1, <3>1
  <2>3. InMemory(t) /\ t.seq \in Nat
    BY <1>1, <2>2 DEF At, InMemory
  <2> QED
    BY <2>2, <2>3 DEF FoundPlace, t
<1>8. CASE BuffersWith(q) = {} /\ FilesWith(q) = {} /\ q # e /\ TooFar(q)
  <2>1. t = [s EXCEPT !.buffer_queue = None, !.file_queue = None, !.seq = e]
    BY <1>8 DEF FindPacket
  <2> HIDE DEF t, e
  <2>2. Same(s, t) /\ At(t, None, None, s.readfd, e)
    <3>1. e \in Int
      BY <1>3
    <3> QED
      BY <1>1, <1>4, <2>1, <3>1
  <2>3. InMemory(t) /\ t.seq \in Nat
    BY <1>3, <2>2 DEF At, InMemory
  <2> QED
    BY <2>2, <2>3 DEF FoundPlace, t
<1>9. CASE BuffersWith(q) = {} /\ FilesWith(q) = {} /\ q # e /\ ~TooFar(q)
  <2>1. t = FindOldest(s)
    BY <1>9 DEF FindPacket
  <2> HIDE DEF t
  <2> QED
    BY <2>1, Oldest DEF t
<1> QED
  BY <1>5, <1>6, <1>7, <1>8, <1>9

\* The end of DATA: the subscription is active.
LEMMA Activated ==
  ASSUME NEW s \in SX, NEW rt \in BOOLEAN, NEW r \in BOOLEAN
  PROVE  LET t == [s EXCEPT !.realtime = rt, !.active = TRUE, !.ready = r]
         IN  /\ t \in SX /\ t.active /\ t.eod = s.eod /\ t.sel = s.sel
             /\ At(t, s.buffer_queue, s.file_queue, s.readfd, s.seq)
BY DEF SX, At

\* After a delivery from a file or from memory, or after the last one.
LEMMA FileDelivered ==
  ASSUME NEW s \in SX, NEW f \in Int, NEW r \in Int, NEW q \in Int
  PROVE  LET t == [s EXCEPT !.file_queue = f, !.readfd = r, !.seq = q]
         IN  Same(s, t) /\ At(t, s.buffer_queue, f, r, q)
BY DEF SX, Same, At

LEMMA MemoryDelivered ==
  ASSUME NEW s \in SX, NEW n \in Int, NEW b \in Int, NEW q \in Int
  PROVE  LET t == [s EXCEPT !.file_queue = n, !.readfd = n, !.buffer_queue = b, !.seq = q]
         IN  Same(s, t) /\ At(t, b, n, n, q)
BY DEF SX, Same, At

LEMMA AllDelivered ==
  ASSUME NEW s \in SX, NEW n \in Int, NEW q \in Int
  PROVE  LET t == [s EXCEPT !.file_queue = n, !.readfd = n, !.buffer_queue = n,
                            !.ready = FALSE, !.seq = q,
                            !.active = s.realtime, !.eod = ~s.realtime]
         IN  /\ t \in SX /\ ~t.ready /\ t.active = s.realtime /\ t.eod = ~s.realtime
             /\ t.sel = s.sel
             /\ At(t, n, n, n, q)
BY DEF SX, At

-----------------------------------------------------------------------------
(* The files after a record has been stored.                               *)

LEMMA AppendKeeps ==
  ASSUME NEW s \in Seq(SegFile), NEW f \in SegFile, NEW k \in 1 .. Len(s)
  PROVE  k \in 1 .. Len(Append(s, f)) /\ Append(s, f)[k] = s[k]
<1>1. Len(s) \in Nat /\ Len(Append(s, f)) = Len(s) + 1
      /\ \A i \in 1 .. Len(s) : Append(s, f)[i] = s[i]
  BY LenProperties, AppendProperties
<1> QED
  BY <1>1

\* Every file but one that is dropped is still there, and has as many records.
LEMMA FilesKept ==
  ASSUME FilesTypeOK, FilesInv, NEW k \in 1 .. Len(files), k # 1 \/ ~DropsFile
  PROVE  LET t == FilesAfterStore
         IN  \E j \in DOMAIN t : t[j].seq = files[k].seq /\ t[j].nbuf >= files[k].nbuf
<1> DEFINE L == Len(files)
           t == FilesAfterStore
           new == [seq |-> seq_long, nbuf |-> 1]
<1>1. /\ L \in Nat /\ files \in Seq(SegFile) /\ L >= 1 /\ k \in Nat /\ k >= 1 /\ k <= L
      /\ seq_long \in Nat /\ new \in SegFile
      /\ \A i \in 1 .. L : files[i] \in SegFile /\ files[i].seq \in Nat /\ files[i].nbuf \in Nat
  BY Counts, RowElements DEF FilesTypeOK, SegFile
<1>2. t \in Seq(SegFile) /\ DOMAIN t = 1 .. Len(t)
  BY RecordStored, RowElements
<1>3. CASE ~RollsFile
  <2> DEFINE f == [seq |-> files[L].seq, nbuf |-> files[L].nbuf + 1]
  <2>1. L \in 1 .. L /\ files[L] \in SegFile
    BY <1>1
  <2>2. [files[L] EXCEPT !.nbuf = @ + 1] = f /\ f \in SegFile
        /\ f.seq = files[L].seq /\ f.nbuf = files[L].nbuf + 1
    BY <2>1, OneMore
  <2> HIDE DEF f
  <2>3. t = [files EXCEPT ![L] = f]
    <3>1. t = [files EXCEPT ![L].nbuf = @ + 1]
      BY <1>3 DEF FilesAfterStore
    <3>2. [files EXCEPT ![L].nbuf = @ + 1] = [files EXCEPT ![L] = [files[L] EXCEPT !.nbuf = @ + 1]]
      OBVIOUS
    <3> QED
      BY <2>2, <3>1, <3>2
  <2> HIDE DEF t, L
  <2>4. Len(t) = L /\ t[L] = f /\ \A i \in 1 .. L : i # L => t[i] = files[i]
    BY <1>1, <2>1, <2>2, <2>3, ExceptSeq DEF L
  <2>5. k \in DOMAIN t
    BY <1>1, <1>2, <2>4
  <2>6. t[k].seq = files[k].seq /\ t[k].nbuf >= files[k].nbuf
    <3>1. CASE k = L
      BY <1>1, <2>1, <2>2, <2>4, <3>1
    <3>2. CASE k # L
      <4>1. t[k] = files[k] /\ files[k].nbuf \in Nat
        BY <1>1, <2>4, <3>2
      <4> QED
        BY <4>1
    <3> QED
      BY <3>1, <3>2
  <2> QED
    BY <2>5, <2>6 DEF t
<1>4. CASE RollsFile /\ ~DropsFile
  <2>1. t = Append(files, new)
    BY <1>4 DEF FilesAfterStore
  <2> HIDE DEF t, new, L
  <2>2. k \in 1 .. Len(t) /\ t[k] = files[k] /\ files[k].nbuf \in Nat
    BY <1>1, <2>1, AppendKeeps DEF L
  <2> QED
    BY <1>2, <2>2 DEF t
<1>5. CASE RollsFile /\ DropsFile
  <2> DEFINE u == Tail(files)
  <2>1. t = Append(u, new)
    BY <1>5 DEF FilesAfterStore
  <2>2. L >= 2 /\ k # 1 /\ files # <<>>
    BY <1>1, <1>5, Sizes, EmptySeq DEF DropsFile
  <2>3. u \in Seq(SegFile) /\ Len(u) = L - 1 /\ \A i \in 1 .. L - 1 : u[i] = files[i + 1]
    BY <1>1, <2>2, HeadTailProperties
  <2>4. k - 1 \in 1 .. Len(u) /\ (k - 1) + 1 = k
    BY <1>1, <2>2, <2>3
  <2> HIDE DEF t, u, new, L
  <2>5. k - 1 \in 1 .. Len(t) /\ t[k - 1] = u[k - 1]
    BY <1>1, <2>1, <2>3, <2>4, AppendKeeps
  <2>6. t[k - 1] = files[k] /\ files[k].nbuf \in Nat
    BY <1>1, <2>3, <2>4, <2>5
  <2> QED
    BY <1>2, <2>5, <2>6 DEF t
<1> QED
  BY <1>3, <1>4, <1>5 DEF DropsFile

\* When the first file is dropped, the second one begins where it ends, and is then
\* the oldest.
LEMMA SecondFile ==
  ASSUME FilesTypeOK, FilesInv, DropsFile
  PROVE  /\ Len(files) >= 2 /\ 2 \in 1 .. Len(files) /\ 1 \in 1 .. Len(files) /\ files # <<>>
         /\ files[1].seq \in Nat /\ files[2].seq \in Nat
         /\ files[2].seq = FileEnd(1)
         /\ files[2].seq = seq_long - FilesHold(MaxFiles - 1)
         /\ files[2].seq < seq_long
<1> DEFINE L == Len(files)
<1>1. /\ L = MaxFiles /\ L \in Nat /\ L >= 2 /\ files \in Seq(SegFile) /\ InRow(files, seq_long)
      /\ FileSize \in Nat /\ FileSize > 0 /\ seq_long \in Nat /\ RollsFile /\ files # <<>>
      /\ 2 \in 1 .. L /\ 1 \in 1 .. L /\ L \in 1 .. L
  BY Counts, Sizes, EmptySeq DEF DropsFile, FilesTypeOK, FilesInv
<1>2. \A i \in 1 .. L : files[i].seq \in Nat /\ files[i].nbuf \in Nat
  BY <1>1, RowElements
<1>3. files[2].seq = files[1].seq + FilesHold(1) /\ files[1].nbuf = FileSize
      /\ files[L].nbuf <= FileSize /\ files[L].nbuf >= FileSize
  <2>1. 2 - 1 = 1 /\ 1 \in 1 .. L - 1
    BY <1>1
  <2> QED
    BY <1>1, <2>1 DEF InRow, RollsFile
<1>4. FilesHold(1) = FileSize /\ FilesHold(1) <= FilesHold(MaxFiles - 1)
      /\ FilesHold(MaxFiles - 1) \in Nat
  <2>1. FilesHold(1) = FileSize
    <3>1. FilesHold(0 + 1) = FilesHold(0) + FileSize /\ FilesHold(0) = 0 /\ 0 + 1 = 1
      BY Hold
    <3> QED
      BY <1>1, <3>1
  <2>2. 1 \in Nat /\ MaxFiles - 1 \in Nat /\ 1 <= MaxFiles - 1
    BY <1>1
  <2> QED
    BY <2>1, <2>2, Hold
<1>5. seq_long = files[1].seq + FilesHold(L - 1) + files[L].nbuf
  BY <1>1, RowExtent
<1> HIDE DEF L
<1>6. files[2].seq = seq_long - FilesHold(MaxFiles - 1)
  BY <1>1, <1>2, <1>3, <1>4, <1>5, SMTT(30)
<1>7. files[2].seq = FileEnd(1) /\ files[2].seq < seq_long
  BY <1>1, <1>2, <1>3, <1>4, <1>6 DEF FileEnd
<1> QED
  BY <1>1, <1>2, <1>6, <1>7 DEF L

-----------------------------------------------------------------------------
(* A client keeps a valid place, and its turn, whatever happens to a store.*)

LEMMA PlaceInStores ==
  ASSUME IInv, NEW s, Fits(s, files, lo, seq_long)
  PROVE  /\ s \in SX /\ seq_long \in Nat /\ lo \in Nat /\ lo <= seq_long /\ None = -1
         /\ DiskLo \in Nat
         /\ s.file_queue # None => /\ files # <<>> /\ s.file_queue \in Nat
                                   /\ DiskLo <= s.file_queue
                                   /\ s.file_queue <= PlaceOf(s, seq_long)
                                   /\ \E k \in 1 .. Len(files) :
                                        /\ files[k].seq = s.file_queue
                                        /\ PlaceOf(s, seq_long) <= FileEnd(k)
         /\ s.readfd # None => s.readfd \in Nat /\ s.readfd = PlaceOf(s, seq_long)
         /\ s.buffer_queue # None => s.buffer_queue \in Nat /\ lo <= s.buffer_queue
                                     /\ s.buffer_queue < seq_long
         /\ PlaceOf(s, seq_long) \in Nat /\ PlaceOf(s, seq_long) <= seq_long
<1>1. /\ s \in SX /\ seq_long \in Nat /\ lo \in Nat /\ lo <= seq_long /\ None = -1
      /\ FilesTypeOK /\ FilesInv /\ DiskLo \in Nat
  BY Types, DiskExtent DEF Fits, None, IInv
<1>2. s.buffer_queue # None => s.buffer_queue \in Nat /\ lo <= s.buffer_queue
                                     /\ s.buffer_queue < seq_long
  BY <1>1 DEF Fits
<1>3. s.file_queue = None => s.readfd = None
  BY DEF Fits
<1>4. CASE s.file_queue = None
  BY <1>1, <1>2, <1>3, <1>4 DEF PlaceOf
<1>5. CASE s.file_queue # None
  <2>1. PICK k \in DOMAIN files :
          /\ files[k].seq = s.file_queue
          /\ s.readfd \in {None} \cup s.file_queue .. (files[k].seq + files[k].nbuf)
    BY <1>5 DEF Fits, InFile
  <2>2. k \in 1 .. Len(files) /\ files # <<>> /\ files[k].seq \in Nat /\ files[k].nbuf \in Nat
    BY <1>1, Counts, RowElements, EmptySeq DEF FilesTypeOK
  <2>3. files[1].seq <= files[k].seq /\ files[k].seq + files[k].nbuf <= seq_long
        /\ DiskLo = files[1].seq
    BY <1>1, <2>2, RowExtent DEF FilesTypeOK, FilesInv, DiskLo
  <2>4. s.readfd # None => s.readfd \in Nat /\ s.file_queue <= s.readfd
                           /\ s.readfd <= files[k].seq + files[k].nbuf
    BY <2>1, <2>2
  <2> DEFINE p == PlaceOf(s, seq_long)
  <2>5. p = IF s.readfd # None THEN s.readfd ELSE s.file_queue
    BY <1>5 DEF PlaceOf
  <2> HIDE DEF p
  <2>6. p \in Nat /\ s.file_queue <= p /\ p <= files[k].seq + files[k].nbuf /\ p <= seq_long
    BY <1>1, <2>1, <2>2, <2>3, <2>4, <2>5
  <2> QED
    BY <1>1, <1>2, <1>5, <2>1, <2>2, <2>3, <2>4, <2>5, <2>6 DEF p, FileEnd
<1> QED
  BY <1>4, <1>5

\* The oldest buffer is reused.
LEMMA BufferGoesFits ==
  ASSUME IInv, NEW s, Fits(s, files, lo, seq_long)
  PROVE  Fits(DeleteOldestBuffer(s), files, lo + 1, seq_long)
<1> DEFINE t == DeleteOldestBuffer(s)
           q == SeqOf(lo)
           k == Least(FilesWith(q))
           f == files[k].seq
           p == f + Offset(k, q)
           b == NextBuffer(lo)
<1>1. s \in SX /\ seq_long \in Nat /\ lo \in Nat /\ FilesTypeOK /\ FilesInv /\ None = -1
      /\ Uninit = -1
  BY PlaceInStores, Types DEF IInv, Uninit
<1>2. b \in {None} \cup (lo + 1) .. (seq_long - 1)
  BY <1>1, NextBufferIs
<1>3. q \in 0 .. SeqMod - 1 /\ q \in Nat /\ SeqOf(q) = q
  <2>1. q \in 0 .. SeqMod - 1 /\ q \in Nat
    BY <1>1, Numbers
  <2> HIDE DEF q
  <2> QED
    BY <2>1, NumberOfNumber
<1>4. CASE s.buffer_queue # lo
  <2>1. t = s
    BY <1>1, <1>4, BufferDeleted
  <2>2. s.buffer_queue \in {None} \cup (lo + 1) .. (seq_long - 1)
    BY <1>1, <1>4 DEF Fits
  <2> QED
    BY <2>1, <2>2 DEF Fits
<1>5. CASE s.buffer_queue = lo /\ s.file_queue # None
  <2>1. Same(s, t) /\ At(t, b, s.file_queue, s.readfd, s.seq)
    BY <1>1, <1>5, BufferDeleted
  <2> HIDE DEF t, b
  <2> QED
    BY <1>2, <2>1 DEF Fits, Same, At, InFile, t, b
<1>6. CASE s.buffer_queue = lo /\ s.file_queue = None /\ FilesWith(q) # {}
  <2>1. Same(s, t) /\ At(t, b, f, p, q)
    BY <1>1, <1>6, BufferDeleted
  <2>2. k \in DOMAIN files /\ f \in Nat /\ p \in Nat /\ f <= p /\ p < f + files[k].nbuf
        /\ SeqOf(p) = q
    BY <1>1, <1>3, <1>6, FoundInFile, Counts DEF FileEnd
  <2>3. files[k].nbuf \in Nat
    BY <1>1, <2>2, Counts, RowElements DEF FilesTypeOK
  <2> HIDE DEF t, b, f, p, q
  <2>4. p \in f .. (f + files[k].nbuf)
    BY <2>2, <2>3
  <2>5. InFile(t, files)
    BY <2>1, <2>2, <2>4 DEF InFile, At, f
  <2> QED
    BY <1>1, <1>2, <1>3, <2>1, <2>2, <2>5 DEF Fits, Same, At, t
<1>7. CASE s.buffer_queue = lo /\ s.file_queue = None /\ FilesWith(q) = {}
  <2> DEFINE n == SeqOf(s.seq + 1)
  <2>1. Same(s, t) /\ At(t, b, None, s.readfd, n)
    BY <1>1, <1>7, BufferDeleted
  <2>2. n \in Nat
    <3>1. s.seq + 1 \in Int
      BY <1>1, FieldTypes
    <3> QED
      BY <3>1, Numbers
  <2> HIDE DEF t, b, n, q
  <2>3. s.readfd = None
    BY <1>7 DEF Fits
  <2> QED
    BY <1>1, <1>2, <2>1, <2>2, <2>3 DEF Fits, Same, At, t
<1> QED
  BY <1>4, <1>5, <1>6, <1>7

LEMMA BufferGoesInTurn ==
  ASSUME IInv, DiskLo <= lo, lo < seq_long, NEW s, Fits(s, files, lo, seq_long),
         NEW due \in Int, InTurn(s, due, seq_long)
  PROVE  /\ InTurn(DeleteOldestBuffer(s), due, seq_long)
         /\ PlaceOf(DeleteOldestBuffer(s), seq_long) = PlaceOf(s, seq_long)
<1> DEFINE t == DeleteOldestBuffer(s)
           q == SeqOf(lo)
           k == Least(FilesWith(q))
           f == files[k].seq
           p == f + Offset(k, q)
           b == NextBuffer(lo)
<1>1. s \in SX /\ seq_long \in Nat /\ lo \in Nat /\ FilesTypeOK /\ FilesInv /\ None = -1
      /\ seq_long - lo <= NBufs /\ NBufs \in Nat
  BY PlaceInStores, Types DEF IInv
<1>2. b = None \/ b = lo + 1
  BY <1>1, NextBufferIs
<1>3. FilesWith(q) # {}
  BY <1>1, IsOnDisk
<1>4. CASE s.buffer_queue # lo
  <2>1. t = s
    BY <1>1, <1>4, BufferDeleted
  <2> QED
    BY <2>1
<1>5. CASE s.buffer_queue = lo /\ s.file_queue # None
  <2>1. Same(s, t) /\ At(t, b, s.file_queue, s.readfd, s.seq)
    BY <1>1, <1>5, BufferDeleted
  <2>2. s.file_queue \in Nat /\ PlaceOf(s, seq_long) \in Nat
    BY <1>5, PlaceInStores
  <2> HIDE DEF t, b
  <2>3. PlaceOf(t, seq_long) = PlaceOf(s, seq_long)
    BY <1>5, <2>1 DEF PlaceOf, At
  <2>4. ASSUME s.active
        PROVE  /\ AtFile(t, seq_long) /\ due <= PlaceOf(t, seq_long)
               /\ t.buffer_queue # None => t.buffer_queue >= due
                                           /\ PlaceOf(t, seq_long) <= t.buffer_queue
    <3>1. AtFile(s, seq_long) /\ due <= PlaceOf(s, seq_long) /\ PlaceOf(s, seq_long) <= lo
      BY <1>1, <1>5, <2>4 DEF InTurn
    <3>2. AtFile(t, seq_long)
      BY <1>1, <1>2, <1>5, <2>1, <2>2, <3>1 DEF AtFile, At
    <3> QED
      BY <1>1, <1>2, <2>1, <2>2, <2>3, <3>1, <3>2 DEF At
  <2> QED
    BY <2>1, <2>3, <2>4 DEF InTurn, Same, t
<1>6. CASE s.buffer_queue = lo /\ s.file_queue = None
  <2>1. Same(s, t) /\ At(t, b, f, p, q)
    BY <1>1, <1>3, <1>6, BufferDeleted
  <2>2. f \in Nat /\ p \in Nat /\ DiskLo <= p /\ p < seq_long /\ SeqOf(p) = SeqOf(q)
    <3>1. q \in Int
      BY <1>1, Numbers
    <3> HIDE DEF q
    <3> QED
      BY <1>1, <1>3, <3>1, FoundInFile
  <2>3. SeqOf(q) = q
    <3>1. q \in 0 .. SeqMod - 1
      BY <1>1, Numbers
    <3> HIDE DEF q
    <3> QED
      BY <3>1, NumberOfNumber
  <2> HIDE DEF t, b, f, p
  <2>4. p = lo
    <3>1. SeqOf(p) = SeqOf(lo) /\ p <= seq_long /\ lo <= seq_long
      BY <1>1, <2>2, <2>3
    <3> QED
      BY <1>1, <2>2, <3>1, SameNumber
  <2>5. PlaceOf(t, seq_long) = lo /\ PlaceOf(s, seq_long) = lo
    BY <1>1, <1>6, <2>1, <2>2, <2>4 DEF PlaceOf, At
  <2>6. AtFile(t, seq_long)
    BY <1>1, <2>1, <2>2 DEF AtFile, At
  <2>7. s.active => due <= lo
    BY <2>5 DEF InTurn
  <2> QED
    BY <1>1, <1>2, <2>1, <2>5, <2>6, <2>7 DEF InTurn, Same, At, t
<1> QED
  BY <1>4, <1>5, <1>6

\* The oldest file is deleted, if that must be, and a record stored on disk.
LEMMA SegmentGoesFits ==
  ASSUME IInv, NEW s, Fits(s, files, lo, seq_long)
  PROVE  Fits(DeleteOldestSegment(s), FilesAfterStore, lo, seq_long)
<1> DEFINE t == DeleteOldestSegment(s)
           F == FilesAfterStore
<1>1. /\ s \in SX /\ seq_long \in Nat /\ lo \in Nat /\ FilesTypeOK /\ FilesInv /\ None = -1
      /\ DOMAIN files = 1 .. Len(files)
      /\ \A i \in 1 .. Len(files) : files[i].seq \in Nat /\ files[i].nbuf \in Nat
  BY PlaceInStores, Types, Counts, RowElements DEF IInv, FilesTypeOK
<1>2. \A j \in 1 .. Len(files) : j # 1 \/ ~DropsFile =>
        \E i \in DOMAIN F : F[i].seq = files[j].seq /\ F[i].nbuf >= files[j].nbuf
           /\ F[i].nbuf \in Nat
  <2>1. F \in Seq(SegFile)
    BY <1>1, RecordStored
  <2>2. \A i \in DOMAIN F : F[i].nbuf \in Nat
    BY <2>1, RowElements
  <2> HIDE DEF F
  <2>3. ASSUME NEW j \in 1 .. Len(files), j # 1 \/ ~DropsFile
        PROVE  \E i \in DOMAIN F : F[i].seq = files[j].seq /\ F[i].nbuf >= files[j].nbuf
    BY <1>1, <2>3, FilesKept DEF F
  <2> QED
    BY <2>2, <2>3
<1>3. CASE DropsFile /\ s.file_queue = files[1].seq
  <2> DEFINE f == files[2].seq
  <2>1. Same(s, t) /\ At(t, s.buffer_queue, f, None, s.seq)
    BY <1>1, <1>3, SegmentDeleted
  <2>2. 2 \in 1 .. Len(files) /\ f \in Nat
    BY <1>1, <1>3, SecondFile
  <2>3. PICK i \in DOMAIN F : F[i].seq = f
    <3>1. 2 # 1
      OBVIOUS
    <3> QED
      BY <1>2, <2>2, <3>1
  <2> HIDE DEF t, F, f
  <2>4. InFile(t, F)
    BY <2>1, <2>3 DEF InFile, At
  <2> QED
    BY <1>1, <2>1, <2>2, <2>4 DEF Fits, Same, At, t, F
<1>4. CASE ~(DropsFile /\ s.file_queue = files[1].seq)
  <2>1. t = s
    BY <1>1, <1>4, SegmentDeleted
  <2> HIDE DEF t, F
  <2>2. ASSUME s.file_queue # None
        PROVE  InFile(s, F)
    <3>1. PICK k \in 1 .. Len(files) :
            /\ files[k].seq = s.file_queue
            /\ s.readfd \in {None} \cup s.file_queue .. (files[k].seq + files[k].nbuf)
      BY <1>1, <2>2 DEF Fits, InFile
    <3>2. k # 1 \/ ~DropsFile
      BY <1>4, <3>1
    <3>3. PICK i \in DOMAIN F : F[i].seq = files[k].seq /\ F[i].nbuf >= files[k].nbuf
                                /\ F[i].nbuf \in Nat
      BY <1>2, <3>1, <3>2
    <3>4. s.readfd \in {None} \cup s.file_queue .. (F[i].seq + F[i].nbuf)
      <4>1. files[k].seq \in Nat /\ files[k].nbuf \in Nat
        BY <1>1, <3>1
      <4>2. F[i].seq = s.file_queue
        BY <3>1, <3>3
      <4> QED
        BY <3>1, <3>3, <4>1, <4>2
    <3> QED
      BY <3>1, <3>3, <3>4 DEF InFile
  <2> QED
    BY <2>1, <2>2 DEF Fits, t, F
<1> QED
  BY <1>3, <1>4

LEMMA SegmentGoesInTurn ==
  ASSUME IInv, DiskLargeEnough, held > 0, NEW s, Fits(s, files, lo, seq_long),
         NEW due \in Int, InTurn(s, due, seq_long)
  PROVE  LET t == DeleteOldestSegment(s)
         IN  /\ InTurn(t, due, seq_long)
             /\ PlaceOf(t, seq_long) \in Nat /\ PlaceOf(t, seq_long) <= seq_long
             /\ \/ PlaceOf(t, seq_long) = PlaceOf(s, seq_long)
                \/ /\ DropsFile /\ PlaceOf(t, seq_long) = files[2].seq
                   /\ PlaceOf(s, seq_long) <= PlaceOf(t, seq_long)
<1> DEFINE t == DeleteOldestSegment(s)
           f == files[2].seq
<1>1. /\ s \in SX /\ seq_long \in Nat /\ lo \in Nat /\ FilesTypeOK /\ FilesInv /\ None = -1
      /\ NBufs \in Nat /\ held \in Nat /\ seq_long - lo <= NBufs - held
      /\ PlaceOf(s, seq_long) \in Nat /\ PlaceOf(s, seq_long) <= seq_long
      /\ s.buffer_queue # None => s.buffer_queue \in Nat /\ lo <= s.buffer_queue
  BY PlaceInStores, Types DEF IInv
<1>2. CASE DropsFile /\ s.file_queue = files[1].seq
  <2>1. Same(s, t) /\ At(t, s.buffer_queue, f, None, s.seq)
    BY <1>1, <1>2, SegmentDeleted
  <2>2. /\ f \in Nat /\ f = FileEnd(1) /\ f < seq_long /\ f = seq_long - FilesHold(MaxFiles - 1)
        /\ files[1].seq \in Nat /\ 1 \in 1 .. Len(files)
    BY <1>1, <1>2, SecondFile
  <2>3. f < lo
    <3>1. FilesHold(MaxFiles - 1) \in Nat /\ NBufs <= FilesHold(MaxFiles - 1)
      <4>1. MaxFiles - 1 \in Nat
        BY Sizes
      <4> QED
        BY <4>1, Hold DEF DiskLargeEnough
    <3> HIDE DEF f
    <3> QED
      BY <1>1, <2>2, <3>1
  <2>4. PlaceOf(s, seq_long) <= f
    <3>1. s.file_queue # None
      BY <1>1, <1>2, <2>2
    <3>2. PICK k \in 1 .. Len(files) : files[k].seq = s.file_queue
                                      /\ PlaceOf(s, seq_long) <= FileEnd(k)
      BY <3>1, PlaceInStores
    <3>3. k = 1
      <4>1. ASSUME k # 1 PROVE FALSE
        <5>1. 1 < k
          BY <3>2, <4>1, Counts, <1>1
        <5>2. files[1].seq + files[1].nbuf <= files[k].seq
          BY <1>1, <2>2, <3>2, <5>1, RowOrdered DEF FilesTypeOK, FilesInv
        <5>3. files[1].nbuf \in Nat /\ files[1].nbuf = f - files[1].seq
          BY <1>1, <2>2, RowElements, SMTT(30) DEF FilesTypeOK, FileEnd
        <5>4. files[1].nbuf = FileSize /\ FileSize > 0
          <6>1. Len(files) >= 2 /\ 1 \in 1 .. Len(files) - 1
            BY <1>1, <1>2, SecondFile, Counts
          <6> QED
            BY <1>1, <6>1, Sizes DEF FilesInv, InRow
        <5> QED
          BY <1>2, <2>2, <3>2, <5>2, <5>3, <5>4
      <4> QED
        BY <4>1
    <3> QED
      BY <2>2, <3>2, <3>3
  <2> HIDE DEF t, f
  <2>5. PlaceOf(t, seq_long) = f
    BY <1>1, <2>1, <2>2 DEF PlaceOf, At
  <2>6. AtFile(t, seq_long)
    BY <1>1, <2>1, <2>2, <2>3 DEF AtFile, At
  <2>7. s.active => due <= f /\ (s.buffer_queue # None => s.buffer_queue >= due)
    BY <1>1, <2>2, <2>4 DEF InTurn
  <2> QED
    BY <1>1, <1>2, <2>1, <2>2, <2>3, <2>4, <2>5, <2>6, <2>7, SMTT(30) DEF InTurn, Same, At, t, f
<1>3. CASE ~(DropsFile /\ s.file_queue = files[1].seq)
  <2>1. t = s
    BY <1>1, <1>3, SegmentDeleted
  <2> QED
    BY <1>1, <2>1, Zenon
<1> QED
  BY <1>2, <1>3

\* The record is in memory, too.
LEMMA ArriveFits ==
  ASSUME seq_long \in Nat, lo \in Nat, lo <= seq_long, NEW F, NEW s, Fits(s, F, lo, seq_long),
         NEW k, NEW hs \in BOOLEAN
  PROVE  Fits(Arrive(s, k, hs), F, lo, seq_long + 1)
<1> DEFINE t == Arrive(s, k, hs)
           b == IF s.active /\ s.buffer_queue = None /\ k \in s.sel
                THEN seq_long ELSE s.buffer_queue
<1>1. s \in SX /\ None = -1
  BY DEF Fits, None
<1>2. /\ t \in SX
      /\ t.active = s.active /\ t.ready => s.active \/ s.ready
      /\ At(t, b, s.file_queue, s.readfd, s.seq)
  BY <1>1, Arrived
<1>3. b \in {None} \cup lo .. ((seq_long + 1) - 1)
  BY <1>1 DEF Fits
<1>4. s.ready => s.active
  BY DEF Fits
<1>5. t.ready => t.active
  <2>1. (t.ready => s.active \/ s.ready) /\ t.active = s.active
    BY <1>1, Arrived
  <2> QED
    BY <1>4, <2>1
<1>6. t.active = s.active
  BY <1>1, Arrived
<1>7. /\ s.file_queue = None => s.readfd = None
      /\ s.active => s.seq # Uninit
      /\ s.seq >= Uninit
      /\ s.file_queue # None => InFile(s, F)
      /\ s.readfd # None => s.seq = SeqOf(s.readfd)
  BY DEF Fits
<1>8. At(t, b, s.file_queue, s.readfd, s.seq) /\ t \in SX
  BY <1>1, Arrived
<1> HIDE DEF t, b
<1>9. t.file_queue # None => InFile(t, F)
  BY <1>7, <1>8 DEF InFile, At
<1> QED
  BY <1>3, <1>5, <1>6, <1>7, <1>8, <1>9 DEF Fits, At, t

LEMMA ArriveInTurn ==
  ASSUME seq_long \in Nat, NEW s \in SX, NEW k, NEW hs \in BOOLEAN,
         PlaceOf(s, seq_long) \in Nat, PlaceOf(s, seq_long) <= seq_long,
         s.file_queue \in Int,
         NEW due \in Int, InTurn(s, due, seq_long)
  PROVE  LET t == Arrive(s, k, hs)
         IN  /\ InTurn(t, due, seq_long + 1)
             /\ t.active = s.active /\ t.sel = s.sel
             /\ \/ PlaceOf(t, seq_long + 1) = PlaceOf(s, seq_long)
                \/ /\ PlaceOf(s, seq_long) = seq_long /\ PlaceOf(t, seq_long + 1) = seq_long + 1
                   /\ s.active => k \notin s.sel
<1> DEFINE t == Arrive(s, k, hs)
           b == IF s.active /\ s.buffer_queue = None /\ k \in s.sel
                THEN seq_long ELSE s.buffer_queue
           n == seq_long
<1>1. /\ t.active = s.active /\ t.sel = s.sel
      /\ At(t, b, s.file_queue, s.readfd, s.seq) /\ None = -1 /\ s.buffer_queue \in Int
      /\ s.readfd \in Int
  BY Arrived, FieldTypes DEF None
<1> HIDE DEF t
<1>2. PlaceOf(t, n + 1) = IF s.file_queue # None
                          THEN IF s.readfd # None THEN s.readfd ELSE s.file_queue
                          ELSE IF b # None THEN b ELSE n + 1
  BY <1>1 DEF PlaceOf, At
<1>3. PlaceOf(s, n) = IF s.file_queue # None
                      THEN IF s.readfd # None THEN s.readfd ELSE s.file_queue
                      ELSE IF s.buffer_queue # None THEN s.buffer_queue ELSE n
  BY DEF PlaceOf
<1>4. \/ PlaceOf(t, n + 1) = PlaceOf(s, n)
      \/ /\ PlaceOf(s, n) = n /\ PlaceOf(t, n + 1) = n + 1
         /\ s.active => k \notin s.sel
  <2> DEFINE y == PlaceOf(t, n + 1)
             z == PlaceOf(s, n)
  <2>1. CASE s.file_queue # None
    <3>1. y = z
      BY <1>2, <1>3, <2>1
    <3> QED
      BY <3>1, Zenon
  <2>2. CASE s.file_queue = None /\ b # None
    <3>1. y = b
      BY <1>2, <2>2
    <3>2. CASE s.buffer_queue # None
      <4>1. y = z
        BY <1>1, <1>3, <2>2, <3>1, <3>2
      <4> QED
        BY <4>1, Zenon
    <3>3. CASE s.buffer_queue = None
      <4>1. z = n /\ y = n
        BY <1>3, <2>2, <3>1, <3>3
      <4> QED
        BY <4>1
    <3> QED
      BY <3>2, <3>3
  <2>3. CASE s.file_queue = None /\ b = None
    <3>1. s.buffer_queue = None /\ (s.active => k \notin s.sel)
      BY <1>1, <2>3
    <3>2. y = n + 1 /\ z = n
      BY <1>2, <1>3, <2>3, <3>1
    <3> QED
      BY <3>1, <3>2
  <2> QED
    BY <2>1, <2>2, <2>3
<1>5. ASSUME s.active PROVE InTurn(t, due, n + 1)
  <2>1. /\ AtFile(s, n) /\ due <= PlaceOf(s, n)
        /\ s.buffer_queue # None => s.buffer_queue >= due
        /\ s.buffer_queue # None /\ s.file_queue # None => PlaceOf(s, n) <= s.buffer_queue
    BY <1>5 DEF InTurn
  <2>2. AtFile(t, n + 1)
    BY <1>1, <2>1 DEF AtFile, At
  <2>3. due <= PlaceOf(t, n + 1) /\ due <= n
    BY <1>1, <1>4, <2>1
  <2>4. b # None => b >= due
    BY <2>1, <2>3
  <2>5. b # None /\ s.file_queue # None => PlaceOf(t, n + 1) <= b
    BY <1>2, <1>3, <2>1
  <2> HIDE DEF b
  <2> QED
    BY <1>1, <2>2, <2>3, <2>4, <2>5 DEF InTurn, At
<1>6. ASSUME ~s.active PROVE InTurn(t, due, n + 1)
  BY <1>1, <1>6 DEF InTurn
<1> QED
  BY <1>1, <1>4, <1>5, <1>6 DEF t

\* A subscription begins in its turn.
LEMMA SubscribedFits ==
  ASSUME IInv, NEW t \in SX, t.active, FoundPlace(t)
  PROVE  /\ Fits(t, files, lo, seq_long)
         /\ PlaceOf(t, seq_long) \in Nat
         /\ DiskCoversMemory => InTurn(t, PlaceOf(t, seq_long), seq_long)
<1>1. /\ seq_long \in Nat /\ lo \in Nat /\ lo <= seq_long /\ FilesTypeOK /\ FilesInv
      /\ None = -1 /\ Uninit = -1 /\ DOMAIN files = 1 .. Len(files) /\ Len(files) \in Nat
      /\ \A i \in 1 .. Len(files) : files[i].seq \in Nat /\ files[i].nbuf \in Nat
      /\ files # <<>> => 1 \in 1 .. Len(files)
      /\ t.seq \in Nat /\ t.buffer_queue \in Int
  BY Types, Counts, RowElements, FieldTypes DEF IInv, FilesTypeOK, None, Uninit, FoundPlace
<1>2. /\ FirstBuffer \in {None} \cup lo .. (seq_long - 1)
      /\ FirstBuffer # None => FirstBuffer = lo
  BY <1>1 DEF FirstBuffer
<1>3. CASE InMemory(t)
  <2>1. t.buffer_queue \in {None} \cup lo .. (seq_long - 1) /\ t.file_queue = None
        /\ t.readfd = None
    BY <1>3 DEF InMemory
  <2>2. Fits(t, files, lo, seq_long)
    BY <1>1, <2>1 DEF Fits
  <2>3. PlaceOf(t, seq_long) = (IF t.buffer_queue # None THEN t.buffer_queue ELSE seq_long)
    BY <2>1 DEF PlaceOf
  <2>4. PlaceOf(t, seq_long) \in Nat
    BY <1>1, <2>1, <2>3
  <2>5. InTurn(t, PlaceOf(t, seq_long), seq_long)
    <3>1. AtFile(t, seq_long)
      BY <2>1 DEF AtFile
    <3> QED
      BY <1>1, <2>1, <2>3, <2>4, <3>1 DEF InTurn
  <2> QED
    BY <2>2, <2>4, <2>5
<1>4. CASE AtOldest(t)
  <2> DEFINE f == files[1].seq
  <2>1. /\ t.buffer_queue = FirstBuffer /\ t.file_queue = f /\ t.readfd = None
        /\ t.seq = SeqOf(f) /\ files # <<>> /\ f = DiskLo /\ f \in Nat /\ 1 \in DOMAIN files
    BY <1>1, <1>4 DEF AtOldest, At, DiskLo
  <2> HIDE DEF f
  <2>2. Fits(t, files, lo, seq_long)
    <3>1. InFile(t, files)
      BY <2>1 DEF InFile, f
    <3> QED
      BY <1>1, <1>2, <2>1, <3>1 DEF Fits
  <2>3. PlaceOf(t, seq_long) = f
    BY <1>1, <2>1 DEF PlaceOf
  <2>4. DiskCoversMemory => InTurn(t, PlaceOf(t, seq_long), seq_long)
    <3>1. AtFile(t, seq_long)
      BY <2>1 DEF AtFile
    <3> QED
      BY <1>1, <1>2, <2>1, <2>3, <3>1 DEF InTurn, DiskCoversMemory
  <2> QED
    BY <2>1, <2>2, <2>3, <2>4
<1>5. ASSUME NEW k \in 1 .. Len(files), NEW p \in Nat, InsideFile(t, k, p)
      PROVE  /\ Fits(t, files, lo, seq_long)
             /\ PlaceOf(t, seq_long) \in Nat
             /\ DiskCoversMemory => InTurn(t, PlaceOf(t, seq_long), seq_long)
  <2> DEFINE f == files[k].seq
  <2>1. /\ t.buffer_queue = FirstBuffer /\ t.file_queue = f /\ t.readfd = p
        /\ t.seq = SeqOf(p) /\ f \in Nat /\ f <= p /\ p < f + files[k].nbuf /\ p < lo
        /\ files[k].nbuf \in Nat /\ k \in DOMAIN files
    BY <1>1, <1>5 DEF InsideFile, At, FileEnd
  <2> HIDE DEF f
  <2>2. Fits(t, files, lo, seq_long)
    <3>1. p \in f .. (f + files[k].nbuf)
      BY <2>1
    <3>2. InFile(t, files)
      BY <2>1, <3>1 DEF InFile, f
    <3> QED
      BY <1>1, <1>2, <2>1, <3>2 DEF Fits
  <2>3. PlaceOf(t, seq_long) = p
    BY <1>1, <2>1 DEF PlaceOf
  <2>4. InTurn(t, PlaceOf(t, seq_long), seq_long)
    <3>1. AtFile(t, seq_long)
      BY <1>1, <2>1 DEF AtFile
    <3> QED
      BY <1>1, <1>2, <2>1, <2>3, <3>1 DEF InTurn
  <2> QED
    BY <2>2, <2>3, <2>4
<1> QED
  BY <1>3, <1>4, <1>5 DEF FoundPlace

\* The numbers with which a record is compared and sent.
LEMMA NumberAfter ==
  ASSUME NEW a \in Int, NEW d \in Int
  PROVE  SeqOf(SeqOf(a) + d) = SeqOf(a + d)
<1>1. SeqMod \in Nat /\ SeqMod > 0 /\ a + d \in Int /\ (a + d) - d = a
  BY StationAssumption
<1>2. (d + (((a + d) - d) % SeqMod)) % SeqMod = (a + d) % SeqMod
  BY <1>1, ModOffset
<1>3. a % SeqMod \in Int
  BY <1>1, DivMod
<1>4. d + (a % SeqMod) = (a % SeqMod) + d
  BY <1>3
<1> QED
  BY <1>1, <1>2, <1>4 DEF SeqOf

LEMMA NumberRead ==
  ASSUME NEW s, NEW F, NEW a, NEW b, Fits(s, F, a, b), NEW i \in Int
  PROVE  SeqRead(s, i) = SeqOf(i)
<1>1. s.readfd # None => SeqOf(s.seq + (i - s.readfd)) = SeqOf(i)
  <2> SUFFICES ASSUME s.readfd # None PROVE SeqOf(s.seq + (i - s.readfd)) = SeqOf(i)
    OBVIOUS
  <2>1. s.seq = SeqOf(s.readfd) /\ s.readfd \in Int
    BY FieldTypes DEF Fits
  <2> DEFINE r == s.readfd
             d == i - r
  <2>2. r \in Int /\ d \in Int /\ r + d = i
    BY <2>1
  <2> HIDE DEF r, d
  <2>3. SeqOf(SeqOf(r) + d) = SeqOf(i)
    BY <2>2, NumberAfter
  <2> QED
    BY <2>1, <2>3 DEF r, d
<1> QED
  BY <1>1 DEF SeqRead

LEMMA NumberTested ==
  ASSUME NEW s, NEW F, NEW a, NEW b, Fits(s, F, a, b), NEW i \in Int
  PROVE  \/ SeqTested(s, i) = SeqOf(i)
         \/ /\ s.readfd = None /\ i = s.file_queue /\ SeqTested(s, i) = s.seq
<1>1. CASE s.readfd # None /\ EndsAt(s.file_queue, i)
  <2>1. SeqTested(s, i) = SeqOf(s.seq + (i - s.readfd))
    BY <1>1 DEF SeqTested
  <2>2. s.seq = SeqOf(s.readfd) /\ s.readfd \in Int
    BY <1>1, FieldTypes DEF Fits
  <2> DEFINE r == s.readfd
             d == i - r
  <2>3. r \in Int /\ d \in Int /\ r + d = i
    BY <2>2
  <2> HIDE DEF r, d
  <2>4. SeqOf(SeqOf(r) + d) = SeqOf(i)
    BY <2>3, NumberAfter
  <2> QED
    BY <2>1, <2>2, <2>4 DEF r, d
<1>2. CASE ~(s.readfd # None /\ EndsAt(s.file_queue, i)) /\ s.readfd = None /\ i = s.file_queue
  BY <1>2 DEF SeqTested
<1>3. CASE ~(s.readfd # None /\ EndsAt(s.file_queue, i)) /\ ~(s.readfd = None /\ i = s.file_queue)
  BY <1>3, NumberRead DEF SeqTested
<1> QED
  BY <1>1, <1>2, <1>3

\* A client that has come to the buffer it waits for goes over to memory.
LEMMA SwitchesInTime ==
  ASSUME IInv, NEW s, Fits(s, files, lo, seq_long), s.active,
         NEW due, InTurn(s, due, seq_long),
         s.buffer_queue # None
  PROVE  Switches(s, s.buffer_queue)
<1>1. s.buffer_queue \in Int /\ None = -1 /\ s.file_queue \in Int
  BY PlaceInStores, FieldTypes
<1>2. CASE SeqTested(s, s.buffer_queue) = SeqOf(s.buffer_queue)
  BY <1>2 DEF Switches
<1>3. CASE s.readfd = None /\ s.buffer_queue = s.file_queue
           /\ SeqTested(s, s.buffer_queue) = s.seq
  <2>1. AtFile(s, seq_long) /\ s.file_queue # None
    BY <1>3 DEF InTurn
  <2>2. s.seq = SeqOf(s.file_queue)
    BY <1>1, <1>3, <2>1 DEF AtFile
  <2> QED
    BY <1>3, <2>2 DEF Switches
<1> QED
  BY <1>1, <1>2, <1>3, NumberTested

\* A record is delivered from a file.
LEMMA FileOfRecord ==
  ASSUME FilesTypeOK, FilesInv, NEW i \in Nat, DiskLo <= i, i < seq_long
  PROVE  \E k \in DOMAIN files : /\ files[k].seq = FileOf(i)
                                 /\ FileOf(i) \in Nat /\ files[k].nbuf \in Nat
                                 /\ FileOf(i) <= i /\ i < FileEnd(k)
<1> DEFINE k == CHOOSE k \in DOMAIN files : files[k].seq <= i /\ i < FileEnd(k)
<1>1. k \in DOMAIN files /\ files[k].seq <= i /\ i < FileEnd(k)
  BY IsOnDisk
<1>2. FileOf(i) = files[k].seq
  BY DEF FileOf
<1> HIDE DEF k
<1>3. files[k].seq \in Nat /\ files[k].nbuf \in Nat
  BY <1>1, Counts, RowElements DEF FilesTypeOK
<1> QED
  BY <1>1, <1>2, <1>3

LEMMA FileDelivers ==
  ASSUME IInv, NEW s, Fits(s, files, lo, seq_long), s.active, s.file_queue # None,
         NEW i \in PlaceOf(s, seq_long) .. (seq_long - 1)
  PROVE  LET t == [s EXCEPT !.file_queue = FileOf(i), !.readfd = i + 1,
                            !.seq = SeqOf(SeqRead(s, i) + 1)]
         IN  /\ Fits(t, files, lo, seq_long) /\ t.active /\ Same(s, t)
             /\ i \in Nat /\ i < seq_long /\ DiskLo <= i /\ SeqRead(s, i) = SeqOf(i)
             /\ PlaceOf(t, seq_long) = i + 1
             /\ (/\ \A j \in PlaceOf(s, seq_long) .. i : ~Switches(s, j)
                 /\ \E due \in Int : InTurn(s, due, seq_long))
                => InTurn(t, i + 1, seq_long)
<1> DEFINE f == FileOf(i)
           r == i + 1
           q == SeqOf(SeqRead(s, i) + 1)
           t == [s EXCEPT !.file_queue = f, !.readfd = r, !.seq = q]
<1>1. /\ s \in SX /\ seq_long \in Nat /\ lo \in Nat /\ FilesTypeOK /\ FilesInv
      /\ None = -1 /\ Uninit = -1 /\ DiskLo \in Nat /\ DiskLo <= PlaceOf(s, seq_long)
      /\ PlaceOf(s, seq_long) \in Nat
      /\ s.buffer_queue # None => s.buffer_queue \in Nat /\ s.buffer_queue < seq_long
  BY PlaceInStores, Types, SMTT(30) DEF IInv, Uninit
<1>2. i \in Nat /\ i < seq_long /\ DiskLo <= i /\ i \in Int /\ r \in Nat /\ r # None
  BY <1>1
<1>3. SeqRead(s, i) = SeqOf(i)
  BY <1>2, NumberRead
<1>4. q = SeqOf(r) /\ q \in Nat
  <2>1. SeqOf(SeqOf(i) + 1) = SeqOf(i + 1)
    BY <1>2, NumberAfter
  <2>2. SeqOf(r) \in Nat
    BY <1>2, Numbers
  <2> QED
    BY <1>3, <2>1, <2>2
<1>5. PICK k \in DOMAIN files : /\ files[k].seq = f /\ f \in Nat /\ files[k].nbuf \in Nat
                                /\ f <= i /\ i < FileEnd(k)
  BY <1>1, <1>2, FileOfRecord
<1> HIDE DEF f, q
<1>6. Same(s, t) /\ At(t, s.buffer_queue, f, r, q)
  <2>1. f \in Int /\ r \in Int /\ q \in Int
    BY <1>2, <1>4, <1>5
  <2> HIDE DEF r
  <2> QED
    BY <1>1, <2>1, FileDelivered
<1>7. r \in f .. (f + files[k].nbuf)
  BY <1>2, <1>5 DEF FileEnd
<1> HIDE DEF t, r
<1>8. InFile(t, files)
  BY <1>5, <1>6, <1>7 DEF InFile, At
<1>9. Fits(t, files, lo, seq_long)
  BY <1>1, <1>2, <1>4, <1>5, <1>6, <1>8 DEF Fits, Same, At
<1>10. PlaceOf(t, seq_long) = r
  BY <1>1, <1>2, <1>5, <1>6 DEF PlaceOf, At
<1>11. ASSUME \A j \in PlaceOf(s, seq_long) .. i : ~Switches(s, j),
              NEW due \in Int, InTurn(s, due, seq_long)
       PROVE  InTurn(t, r, seq_long)
  <2>1. s.buffer_queue # None => s.buffer_queue >= r
    <3> SUFFICES ASSUME s.buffer_queue # None, s.buffer_queue < r PROVE FALSE
      BY <1>1, <1>2
    <3>1. PlaceOf(s, seq_long) <= s.buffer_queue
      BY <1>11 DEF InTurn
    <3>2. s.buffer_queue \in PlaceOf(s, seq_long) .. i
      BY <1>1, <1>2, <3>1 DEF r
    <3>3. Switches(s, s.buffer_queue)
      BY <1>11, SwitchesInTime
    <3> QED
      BY <1>11, <3>2, <3>3
  <2>2. AtFile(t, seq_long)
    BY <1>2, <1>6 DEF AtFile, At
  <2> QED
    BY <1>2, <1>6, <1>10, <2>1, <2>2 DEF InTurn, At
<1> QED
  BY <1>2, <1>3, <1>6, <1>9, <1>10, <1>11 DEF Same, t, f, q, r

\* A record is delivered from memory.
LEMMA MemoryDelivers ==
  ASSUME IInv, NEW s, Fits(s, files, lo, seq_long), s.active,
         NEW i \in s.buffer_queue .. (seq_long - 1), s.buffer_queue # None
  PROVE  LET t == [s EXCEPT !.file_queue = None, !.readfd = None,
                            !.buffer_queue = NextBuffer(i), !.seq = SeqOf(i + 1)]
         IN  /\ Fits(t, files, lo, seq_long) /\ t.active /\ Same(s, t)
             /\ i \in Nat /\ i < seq_long
             /\ PlaceOf(t, seq_long) = i + 1
             /\ InTurn(t, i + 1, seq_long)
<1> DEFINE b == NextBuffer(i)
           q == SeqOf(i + 1)
           t == [s EXCEPT !.file_queue = None, !.readfd = None, !.buffer_queue = b, !.seq = q]
<1>1. /\ s \in SX /\ seq_long \in Nat /\ lo \in Nat /\ None = -1 /\ Uninit = -1
      /\ s.buffer_queue \in Nat /\ lo <= s.buffer_queue
  BY PlaceInStores DEF Uninit
<1>2. i \in Nat /\ i < seq_long /\ lo <= i
  BY <1>1
<1>3. b \in Int /\ b = IF i + 1 < seq_long THEN i + 1 ELSE None
  BY <1>1, <1>2, NextBufferIs
<1>4. q \in Nat
  <2>1. i + 1 \in Int
    BY <1>2
  <2> QED
    BY <2>1, Numbers
<1> HIDE DEF b, q
<1>5. Same(s, t) /\ At(t, b, None, None, q)
  <2>1. q \in Int /\ None \in Int
    BY <1>1, <1>4
  <2> QED
    BY <1>1, <1>3, <2>1, MemoryDelivered, Zenon
<1> HIDE DEF t
<1>6. b \in {None} \cup lo .. (seq_long - 1)
  BY <1>1, <1>2, <1>3
<1>7. Fits(t, files, lo, seq_long)
  BY <1>1, <1>4, <1>5, <1>6 DEF Fits, Same, At
<1>8. PlaceOf(t, seq_long) = i + 1
  BY <1>1, <1>2, <1>3, <1>5 DEF PlaceOf, At
<1>9. InTurn(t, i + 1, seq_long)
  <2>1. AtFile(t, seq_long)
    BY <1>5 DEF AtFile, At
  <2> QED
    BY <1>1, <1>2, <1>3, <1>5, <1>8, <2>1 DEF InTurn, At
<1> QED
  BY <1>2, <1>5, <1>7, <1>8, <1>9 DEF Same, t, b, q

\* Nothing is left to deliver.
LEMMA NothingDelivered ==
  ASSUME IInv, NEW s, Fits(s, files, lo, seq_long), s.active,
         NEW q \in Int, q = s.seq \/ q = end_seq
  PROVE  LET t == [s EXCEPT !.file_queue = None, !.readfd = None, !.buffer_queue = None,
                            !.ready = FALSE, !.seq = q,
                            !.active = s.realtime, !.eod = ~s.realtime]
         IN  /\ Fits(t, files, lo, seq_long)
             /\ t.active = s.realtime /\ t.eod = ~s.realtime /\ t.sel = s.sel
             /\ PlaceOf(t, seq_long) = seq_long
             /\ \A due \in Int : due <= seq_long => InTurn(t, due, seq_long)
<1> DEFINE t == [s EXCEPT !.file_queue = None, !.readfd = None, !.buffer_queue = None,
                          !.ready = FALSE, !.seq = q,
                          !.active = s.realtime, !.eod = ~s.realtime]
<1>1. /\ s \in SX /\ seq_long \in Nat /\ lo \in Nat /\ None = -1 /\ Uninit = -1
      /\ s.seq # Uninit /\ s.seq >= Uninit /\ s.seq \in Int
  BY PlaceInStores, FieldTypes DEF Uninit, Fits
<1>2. q # Uninit /\ q >= Uninit
  <2>1. end_seq \in Nat
    BY <1>1, Numbers DEF end_seq
  <2> QED
    BY <1>1, <2>1
<1>3. /\ t \in SX /\ ~t.ready /\ t.active = s.realtime /\ t.eod = ~s.realtime
      /\ t.sel = s.sel
      /\ At(t, None, None, None, q)
  <2>1. PICK n \in Int : n = None
    BY <1>1
  <2> DEFINE u == [s EXCEPT !.file_queue = n, !.readfd = n, !.buffer_queue = n,
                            !.ready = FALSE, !.seq = q,
                            !.active = s.realtime, !.eod = ~s.realtime]
  <2>2. /\ u \in SX /\ ~u.ready /\ u.active = s.realtime /\ u.eod = ~s.realtime
        /\ u.sel = s.sel
        /\ At(u, n, n, n, q)
    BY <1>1, AllDelivered
  <2>3. t = u
    BY <2>1
  <2> HIDE DEF t, u
  <2> QED
    BY <2>1, <2>2, <2>3
<1> HIDE DEF t
<1>4. Fits(t, files, lo, seq_long)
  BY <1>1, <1>2, <1>3 DEF Fits, At
<1>5. PlaceOf(t, seq_long) = seq_long
  BY <1>3 DEF PlaceOf, At
<1>6. AtFile(t, seq_long)
  BY <1>3 DEF AtFile, At
<1>7. \A due \in Int : due <= seq_long => InTurn(t, due, seq_long)
  BY <1>3, <1>5, <1>6 DEF InTurn, At
<1> QED
  BY <1>3, <1>4, <1>5, <1>7 DEF t

-----------------------------------------------------------------------------
(* What a step does to a client.                                           *)

Obs == [due: Nat, label: Int]

ClientTypes ==
  /\ cx \in [Client -> CX] /\ sx \in [Client -> SX] /\ obs \in [Client -> Obs]
  /\ issued \in Nat

Untouched(c) ==
  /\ sx'[c] = sx[c] /\ obs'[c] = obs[c]
  /\ UNCHANGED <<rec, lo, files>> \/ (sx[c] = IdleSX /\ obs[c] = IdleObs)

Idled(c) == sx'[c] = IdleSX /\ obs'[c] = IdleObs

LosesBuffer(c) ==
  /\ GetBuffer /\ PoolIsFull /\ lo' = lo + 1
  /\ sx'[c] = DeleteOldestBuffer(sx[c]) /\ obs'[c] = obs[c]

GetsRecord(c, k) ==
  /\ QueueBuffer(k)
  /\ sx'[c] = Arrive(DeleteOldestSegment(sx[c]), k, cx[c].handshaking_done)
  /\ obs'[c] = obs[c]

Forgets(c) ==
  /\ UNCHANGED store
  /\ sx'[c] \in SX /\ ~sx'[c].active /\ ~sx'[c].ready /\ ~sx'[c].eod
  /\ At(sx'[c], None, None, None, Uninit)
  /\ obs'[c] = IdleObs

Subscribes(c) ==
  /\ UNCHANGED store
  /\ sx'[c] \in SX /\ sx'[c].active /\ ~sx'[c].eod /\ FoundPlace(sx'[c])
  /\ obs'[c] = [due |-> PlaceOf(sx'[c], seq_long), label |-> Uninit]

ClientCase(c) ==
  \/ Untouched(c) \/ Idled(c) \/ LosesBuffer(c) \/ \E k \in Kind : GetsRecord(c, k)
  \/ Forgets(c) \/ Subscribes(c)
  \/ DeliverFromFile(c) \/ DeliverFromMemory(c) \/ DeliverNothing(c)

IsMap(f) == f = [c \in Client |-> f[c]]

LEMMA MapType ==
  ASSUME NEW f, IsMap(f), NEW S, \A c \in Client : f[c] \in S
  PROVE  f \in [Client -> S]
BY DEF IsMap

LEMMA Update ==
  ASSUME NEW S, NEW f \in [Client -> S], NEW c \in Client, NEW t
  PROVE  LET g == [f EXCEPT ![c] = t]
         IN  g[c] = t /\ IsMap(g) /\ \A d \in Client : d # c => g[d] = f[d]
BY DEF IsMap

LEMMA MapsAreMaps ==
  ASSUME ClientTypes
  PROVE  IsMap(cx) /\ IsMap(sx) /\ IsMap(obs)
BY DEF ClientTypes, IsMap

LEMMA IdleTypes == IdleCX \in CX /\ IdleSX \in SX /\ IdleObs \in Obs
<1>1. IdleCX \in CX
  BY DEF IdleCX, CX
<1>2. IdleSX \in SX
  BY DEF IdleSX, SX, None, Uninit
<1>3. IdleObs \in Obs
  BY DEF IdleObs, Obs, Uninit
<1> QED
  BY <1>1, <1>2, <1>3

\* One client's handler leaves the others alone.
LEMMA OthersUntouched ==
  ASSUME ClientTypes, UNCHANGED store, NEW c \in Client, NEW t, NEW o,
         sx' = [sx EXCEPT ![c] = t], obs' = [obs EXCEPT ![c] = o]
  PROVE  /\ sx'[c] = t /\ obs'[c] = o /\ IsMap(sx') /\ IsMap(obs')
         /\ \A d \in Client : d # c => Untouched(d)
<1>1. sx'[c] = t /\ IsMap(sx') /\ \A d \in Client : d # c => sx'[d] = sx[d]
  BY Update DEF ClientTypes
<1>2. obs'[c] = o /\ IsMap(obs') /\ \A d \in Client : d # c => obs'[d] = obs[d]
  BY Update DEF ClientTypes
<1>3. UNCHANGED <<rec, lo, files>>
  BY DEF store
<1> QED
  BY <1>1, <1>2, <1>3 DEF Untouched

LEMMA PlaceIs == \A s : Place(s) = PlaceOf(s, seq_long)
BY DEF Place, PlaceOf

\* The handlers of one client, and those that tell all clients.
LEMMA SubscribeCase ==
  ASSUME IInv, ClientTypes, NEW c \in Client, NEW s \in SX, FoundPlace(s), ~s.eod,
         NEW rt \in BOOLEAN, NEW r \in BOOLEAN, Subscribe(c, s, rt, r)
  PROVE  Subscribes(c) /\ IsMap(sx') /\ IsMap(obs') /\ \A d \in Client : d # c => Untouched(d)
<1> DEFINE t == [s EXCEPT !.realtime = rt, !.active = TRUE, !.ready = r]
           o == [due |-> Place(s), label |-> Uninit]
<1>1. UNCHANGED store /\ sx' = [sx EXCEPT ![c] = t] /\ obs' = [obs EXCEPT ![c] = o]
  BY DEF Subscribe
<1>2. /\ t \in SX /\ t.active /\ t.eod = s.eod
      /\ At(t, s.buffer_queue, s.file_queue, s.readfd, s.seq)
  BY Activated
<1> HIDE DEF t
<1>3. FoundPlace(t)
  <2>1. InMemory(s) => InMemory(t)
    BY <1>2 DEF InMemory, At
  <2>2. AtOldest(s) => AtOldest(t)
    BY <1>2 DEF AtOldest, At
  <2>3. \A k, p : InsideFile(s, k, p) => InsideFile(t, k, p)
    BY <1>2 DEF InsideFile, At
  <2>4. t.seq = s.seq
    BY <1>2 DEF At
  <2> QED
    BY <2>1, <2>2, <2>3, <2>4 DEF FoundPlace
<1>4. o = [due |-> PlaceOf(t, seq_long), label |-> Uninit]
  BY <1>2 DEF Place, PlaceOf, At
<1>5. /\ sx'[c] = t /\ obs'[c] = o /\ IsMap(sx') /\ IsMap(obs')
      /\ \A d \in Client : d # c => Untouched(d)
  <2> HIDE DEF o
  <2> QED
    BY <1>1, OthersUntouched
<1>6. Subscribes(c)
  BY <1>1, <1>2, <1>3, <1>4, <1>5 DEF Subscribes
<1> QED
  BY <1>5, <1>6

LEMMA CommandCase ==
  ASSUME IInv, ClientTypes, NEW c \in Client, Command(c)
  PROVE  /\ Untouched(c) \/ Forgets(c) \/ Subscribes(c)
         /\ IsMap(sx') /\ IsMap(obs') /\ \A d \in Client : d # c => Untouched(d)
<1> DEFINE s == sx[c]
           u == Forget(s)
<1>1. s \in SX
  BY DEF ClientTypes
<1>2. /\ u \in SX /\ ~u.active /\ ~u.ready /\ ~u.eod
      /\ At(u, None, None, None, Uninit)
  BY <1>1, Forgotten
<1>3. \A rt \in Mode : rt \in BOOLEAN
  BY StationAssumption
<1>4. ASSUME NEW S \in Selection, Select(c, S)
      PROVE  Forgets(c) /\ IsMap(sx') /\ IsMap(obs') /\ \A d \in Client : d # c => Untouched(d)
  <2> DEFINE t == [u EXCEPT !.sel = S]
  <2>1. S \in SUBSET Kind
    BY StationAssumption
  <2>2. UNCHANGED store /\ sx' = [sx EXCEPT ![c] = t] /\ obs' = [obs EXCEPT ![c] = IdleObs]
    BY <1>4 DEF Select
  <2> HIDE DEF u
  <2>3. /\ t \in SX /\ t.active = u.active /\ t.ready = u.ready /\ t.eod = u.eod
        /\ At(t, u.buffer_queue, u.file_queue, u.readfd, u.seq)
    <3>1. TRUE \in BOOLEAN
      OBVIOUS
    <3> QED
      BY <1>2, <2>1, <3>1, OtherSelector
  <2> HIDE DEF t
  <2>4. /\ sx'[c] = t /\ obs'[c] = IdleObs /\ IsMap(sx') /\ IsMap(obs')
        /\ \A d \in Client : d # c => Untouched(d)
    BY <2>2, OthersUntouched
  <2> QED
    BY <1>2, <2>2, <2>3, <2>4 DEF Forgets, At
<1>5. ASSUME NEW rt \in Mode, BadData(c, rt)
      PROVE  Forgets(c) /\ IsMap(sx') /\ IsMap(obs') /\ \A d \in Client : d # c => Untouched(d)
  <2> DEFINE t == [u EXCEPT !.realtime = rt]
  <2>2. UNCHANGED store /\ sx' = [sx EXCEPT ![c] = t] /\ obs' = [obs EXCEPT ![c] = IdleObs]
    BY <1>5 DEF BadData
  <2> HIDE DEF u
  <2>3. /\ t \in SX /\ t.active = u.active /\ t.ready = u.ready /\ t.eod = u.eod
        /\ At(t, u.buffer_queue, u.file_queue, u.readfd, u.seq)
    <3>1. {} \in SUBSET Kind
      OBVIOUS
    <3> QED
      BY <1>2, <1>3, <3>1, OtherSelector
  <2> HIDE DEF t
  <2>4. /\ sx'[c] = t /\ obs'[c] = IdleObs /\ IsMap(sx') /\ IsMap(obs')
        /\ \A d \in Client : d # c => Untouched(d)
    BY <2>2, OthersUntouched
  <2> QED
    BY <1>2, <2>2, <2>3, <2>4 DEF Forgets, At
<1>6. ASSUME NEW rt \in Mode, DataNext(c, rt)
      PROVE  Subscribes(c) /\ IsMap(sx') /\ IsMap(obs')
             /\ \A d \in Client : d # c => Untouched(d)
  <2> DEFINE t == [u EXCEPT !.seq = end_seq]
  <2>1. end_seq \in Nat /\ end_seq \in Int
    BY Types, Numbers DEF end_seq
  <2> HIDE DEF u
  <2>2. ASSUME NEW z \in Int
        PROVE  LET v == [u EXCEPT !.seq = z]
               IN  Same(u, v) /\ At(v, u.buffer_queue, u.file_queue, u.readfd, z)
    BY <1>2 DEF SX, Same, At
  <2>3. Same(u, t) /\ At(t, u.buffer_queue, u.file_queue, u.readfd, end_seq)
    BY <2>1, <2>2
  <2>4. Subscribe(c, t, rt, FALSE)
    BY <1>6 DEF DataNext, u
  <2> HIDE DEF t
  <2>5. FoundPlace(t) /\ t \in SX /\ ~t.eod
    BY <1>2, <2>1, <2>3 DEF FoundPlace, InMemory, At, Same
  <2>6. FALSE \in BOOLEAN
    OBVIOUS
  <2> QED
    BY <1>3, <2>4, <2>5, <2>6, SubscribeCase
<1>7. ASSUME NEW rt \in Mode, DataAll(c, rt)
      PROVE  Subscribes(c) /\ IsMap(sx') /\ IsMap(obs')
             /\ \A d \in Client : d # c => Untouched(d)
  <2> DEFINE t == FindOldest(u)
  <2>1. Subscribe(c, t, rt, TRUE)
    BY <1>7 DEF DataAll
  <2> HIDE DEF u
  <2>2. Same(u, t) /\ FoundPlace(t)
    BY <1>2, Oldest
  <2> HIDE DEF t
  <2>3. t \in SX /\ ~t.eod /\ TRUE \in BOOLEAN
    BY <1>2, <2>2 DEF Same
  <2> QED
    BY <1>3, <2>1, <2>2, <2>3, SubscribeCase
<1>8. ASSUME NEW rt \in Mode, NEW q \in 0 .. (SeqMod - 1), DataFrom(c, rt, q)
      PROVE  Subscribes(c) /\ IsMap(sx') /\ IsMap(obs')
             /\ \A d \in Client : d # c => Untouched(d)
  <2> DEFINE t == FindPacket(u, q)
  <2>1. Subscribe(c, t, rt, Found(q))
    BY <1>8 DEF DataFrom
  <2> HIDE DEF u
  <2>2. Same(u, t) /\ FoundPlace(t)
    BY <1>2, PacketFound
  <2> HIDE DEF t
  <2>3. t \in SX /\ ~t.eod
    BY <1>2, <2>2 DEF Same
  <2>4. Found(q) \in BOOLEAN
    BY DEF Found
  <2> QED
    BY <1>3, <2>1, <2>2, <2>3, <2>4, SubscribeCase
<1>9. CASE End(c)
  BY <1>9, MapsAreMaps DEF End, store, Untouched
<1> QED
  BY <1>4, <1>5, <1>6, <1>7, <1>8, <1>9 DEF Command

LEMMA DeliverCase ==
  ASSUME ClientTypes, NEW c \in Client, Deliver(c)
  PROVE  /\ UNCHANGED <<server, store>> /\ UNCHANGED cx
         /\ IsMap(sx') /\ IsMap(obs') /\ \A d \in Client : d # c => Untouched(d)
<1>1. ASSUME NEW s, NEW i, NEW q, Sent(c, s, i, q)
      PROVE  /\ UNCHANGED <<server, store>> /\ UNCHANGED cx
             /\ IsMap(sx') /\ IsMap(obs') /\ \A d \in Client : d # c => Untouched(d)
  <2> DEFINE o == [due |-> i + 1, label |-> q]
  <2>1. UNCHANGED store /\ sx' = [sx EXCEPT ![c] = s] /\ obs' = [obs EXCEPT ![c] = o]
    BY <1>1 DEF Sent
  <2> HIDE DEF o
  <2>2. IsMap(sx') /\ IsMap(obs') /\ \A d \in Client : d # c => Untouched(d)
    BY <2>1, OthersUntouched
  <2> QED
    BY <1>1, <2>2 DEF Sent
<1>2. CASE DeliverFromFile(c)
  BY <1>1, <1>2 DEF DeliverFromFile
<1>3. CASE DeliverFromMemory(c)
  BY <1>1, <1>3 DEF DeliverFromMemory
<1>4. CASE DeliverNothing(c)
  <2>1. PICK t : sx' = [sx EXCEPT ![c] = t]
    BY <1>4 DEF DeliverNothing
  <2>2. IsMap(sx') /\ \A d \in Client : d # c => sx'[d] = sx[d]
    BY <2>1, Update DEF ClientTypes
  <2>3. UNCHANGED <<server, store, cx, obs>>
    BY <1>4 DEF DeliverNothing
  <2> QED
    BY <2>2, <2>3, MapsAreMaps DEF store, Untouched
<1> QED
  BY <1>2, <1>3, <1>4 DEF Deliver

LEMMA TellsAll ==
  ASSUME ClientTypes, NotUp, NEW k, NewBuffer(k), UNCHANGED obs, NEW c \in Client
  PROVE  /\ IsMap(sx') /\ IsMap(obs')
         /\ \/ Untouched(c)
            \/ /\ cx[c].conn /\ obs'[c] = obs[c]
               /\ sx'[c] = Arrive(DeleteOldestSegment(sx[c]), k, cx[c].handshaking_done)
<1>1. sx' = [d \in Client |->
               IF cx[d].conn
               THEN Arrive(DeleteOldestSegment(sx[d]), k, cx[d].handshaking_done)
               ELSE sx[d]]
  BY DEF NewBuffer
<1>2. IsMap(sx') /\ IsMap(obs')
  BY <1>1, MapsAreMaps DEF IsMap
<1>3. CASE cx[c].conn
  BY <1>1, <1>2, <1>3
<1>4. CASE ~cx[c].conn
  <2>1. sx'[c] = sx[c]
    BY <1>1, <1>4
  <2>2. sx[c] = IdleSX /\ obs[c] = IdleObs
    BY <1>4 DEF NotUp
  <2> QED
    BY <1>2, <2>1, <2>2 DEF Untouched
<1> QED
  BY <1>3, <1>4

LEMMA StepCases ==
  ASSUME IInv, ClientTypes, NotUp, [Next]_vars
  PROVE  IsMap(sx') /\ IsMap(obs') /\ \A c \in Client : ClientCase(c)
<1>1. CASE UNCHANGED vars
  BY <1>1, MapsAreMaps DEF vars, store, Untouched, ClientCase
<1>2. CASE GetBuffer
  <2>1. CASE ~PoolIsFull
    BY <1>2, <2>1, MapsAreMaps DEF GetBuffer, Untouched, ClientCase
  <2>2. CASE PoolIsFull
    <3>1. /\ lo' = lo + 1 /\ UNCHANGED obs
          /\ sx' = [c \in Client |->
                      IF cx[c].conn THEN DeleteOldestBuffer(sx[c]) ELSE sx[c]]
      BY <1>2, <2>2 DEF GetBuffer
    <3>2. IsMap(sx') /\ IsMap(obs')
      BY <3>1, MapsAreMaps DEF IsMap
    <3>3. ASSUME NEW c \in Client PROVE ClientCase(c)
      <4>1. CASE cx[c].conn
        BY <1>2, <2>2, <3>1, <4>1 DEF LosesBuffer, ClientCase
      <4>2. CASE ~cx[c].conn
        <5>1. sx'[c] = sx[c]
          BY <3>1, <4>2
        <5>2. sx[c] = IdleSX /\ obs[c] = IdleObs
          BY <4>2 DEF NotUp
        <5> QED
          BY <3>1, <5>1, <5>2 DEF Untouched, ClientCase
      <4> QED
        BY <4>1, <4>2
    <3> QED
      BY <3>2, <3>3
  <2> QED
    BY <2>1, <2>2
<1>3. ASSUME NEW k \in Kind, QueueBuffer(k)
      PROVE  IsMap(sx') /\ IsMap(obs') /\ \A c \in Client : ClientCase(c)
  <2>1. NewBuffer(k) /\ UNCHANGED obs
    BY <1>3 DEF QueueBuffer
  <2>2. IsMap(sx') /\ IsMap(obs')
    <3>1. CASE Client = {}
      BY <2>1, <3>1, MapsAreMaps DEF NewBuffer, IsMap
    <3>2. CASE Client # {}
      BY <2>1, <3>2, TellsAll
    <3> QED
      BY <3>1, <3>2
  <2>3. ASSUME NEW c \in Client PROVE ClientCase(c)
    BY <1>3, <2>1, TellsAll DEF GetsRecord, ClientCase
  <2> QED
    BY <2>2, <2>3
<1>4. ASSUME NEW c \in Client, NEW m \in Handshake, Connect(c, m)
      PROVE  IsMap(sx') /\ IsMap(obs') /\ \A d \in Client : ClientCase(d)
  BY <1>4, MapsAreMaps DEF Connect, store, Untouched, ClientCase
<1>5. ASSUME NEW c \in Client, Disconnect(c)
      PROVE  IsMap(sx') /\ IsMap(obs') /\ \A d \in Client : ClientCase(d)
  <2>1. UNCHANGED store /\ sx' = [sx EXCEPT ![c] = IdleSX] /\ obs' = [obs EXCEPT ![c] = IdleObs]
    BY <1>5 DEF Disconnect
  <2>2. /\ sx'[c] = IdleSX /\ obs'[c] = IdleObs /\ IsMap(sx') /\ IsMap(obs')
        /\ \A d \in Client : d # c => Untouched(d)
    BY <2>1, OthersUntouched
  <2> QED
    BY <2>2 DEF Idled, ClientCase
<1>6. ASSUME NEW c \in Client, Command(c)
      PROVE  IsMap(sx') /\ IsMap(obs') /\ \A d \in Client : ClientCase(d)
  BY <1>6, CommandCase DEF ClientCase
<1>7. ASSUME NEW c \in Client, SendResponse(c)
      PROVE  IsMap(sx') /\ IsMap(obs') /\ \A d \in Client : ClientCase(d)
  BY <1>7, MapsAreMaps DEF SendResponse, store, Untouched, ClientCase
<1>8. ASSUME NEW c \in Client, Deliver(c)
      PROVE  IsMap(sx') /\ IsMap(obs') /\ \A d \in Client : ClientCase(d)
  BY <1>8, DeliverCase DEF Deliver, ClientCase
<1>9. CASE Terminate \/ Crash
  <2>1. sx' = [c \in Client |-> IdleSX] /\ obs' = [c \in Client |-> IdleObs]
    BY <1>9 DEF Terminate, Crash, Stops
  <2> QED
    BY <2>1 DEF IsMap, Idled, ClientCase
<1>10. CASE Restart
  <2>1. phase # "up" /\ UNCHANGED <<sx, obs>>
    BY <1>10 DEF Restart
  <2> QED
    BY <2>1, MapsAreMaps DEF NotUp, Untouched, ClientCase
<1>11. CASE CreateBlank
  <2>1. phase # "up" /\ NewBuffer(Blank) /\ UNCHANGED obs
    BY <1>11 DEF CreateBlank
  <2>2. \A c \in Client : ~cx[c].conn
    BY <2>1 DEF NotUp
  <2>3. IsMap(sx') /\ IsMap(obs')
    BY <2>1, MapsAreMaps DEF NewBuffer, IsMap
  <2>4. ASSUME NEW c \in Client PROVE Untouched(c)
    BY <2>1, <2>2, TellsAll
  <2> QED
    BY <2>3, <2>4 DEF ClientCase
<1> QED
  BY <1>1, <1>2, <1>3, <1>4, <1>5, <1>6, <1>7, <1>8, <1>9, <1>10, <1>11 DEF Next

-----------------------------------------------------------------------------
(* The invariant, case by case.                                            *)

LabelOK(o) == o.label # Uninit => o.label = SeqOf(o.due - 1)

LEMMA IdleFits ==
  /\ \A F, a, b : Fits(IdleSX, F, a, b)
  /\ \A due, b : InTurn(IdleSX, due, b)
  /\ LabelOK(IdleObs)
<1>1. /\ ~IdleSX.active /\ ~IdleSX.ready /\ At(IdleSX, None, None, None, Uninit)
      /\ Uninit = -1 /\ None = -1
  BY DEF IdleSX, At, Uninit, None
<1>2. ASSUME NEW F, NEW a, NEW b PROVE Fits(IdleSX, F, a, b)
  BY <1>1, IdleTypes DEF Fits, At
<1>3. ASSUME NEW due, NEW b PROVE InTurn(IdleSX, due, b)
  BY <1>1 DEF InTurn
<1>4. LabelOK(IdleObs)
  BY DEF IdleObs, LabelOK
<1> QED
  BY <1>2, <1>3, <1>4

\* A client that is served is active.
LEMMA ServedIsActive ==
  ASSUME ClientsFit, NEW c \in Client, CanDeliver(c)
  PROVE  sx[c].active /\ sx[c].ready /\ phase = "up" /\ cx[c].conn
BY DEF CanDeliver, ClientsFit, Fits

LEMMA SentIs ==
  ASSUME ClientTypes, NEW c \in Client, NEW s, NEW i, NEW q, Sent(c, s, i, q)
  PROVE  /\ UNCHANGED <<rec, lo, files>> /\ sx'[c] = s
         /\ obs'[c] = [due |-> i + 1, label |-> q]
         /\ issued' = IF i + 1 > issued THEN i + 1 ELSE issued
BY DEF Sent, ClientTypes, store

LEMMA CaseFits ==
  ASSUME IInv, ClientTypes, ClientsFit, LabelsRecord, NEW c \in Client, ClientCase(c)
  PROVE  Fits(sx'[c], files', lo', seq_long') /\ obs'[c] \in Obs /\ LabelOK(obs'[c])
<1> DEFINE s == sx[c]
<1>1. Fits(s, files, lo, seq_long) /\ obs[c] \in Obs /\ LabelOK(obs[c]) /\ s \in SX
  BY DEF ClientsFit, LabelsRecord, LabelOK, ClientTypes
<1>2. /\ seq_long \in Nat /\ lo \in Nat /\ lo <= seq_long
  BY Types
<1>3. CASE Untouched(c)
  <2>1. CASE UNCHANGED <<rec, lo, files>>
    BY <1>1, <1>3, <2>1 DEF Untouched, seq_long
  <2>2. CASE sx[c] = IdleSX /\ obs[c] = IdleObs
    BY <1>1, <1>3, <2>2, IdleFits DEF Untouched
  <2> QED
    BY <1>3, <2>1, <2>2 DEF Untouched
<1>4. CASE Idled(c)
  BY <1>4, IdleFits, IdleTypes DEF Idled
<1>5. CASE LosesBuffer(c)
  <2>1. sx'[c] = DeleteOldestBuffer(s) /\ obs'[c] = obs[c] /\ files' = files /\ lo' = lo + 1
        /\ seq_long' = seq_long
    BY <1>5 DEF LosesBuffer, GetBuffer, seq_long
  <2>2. Fits(DeleteOldestBuffer(s), files, lo + 1, seq_long)
    BY <1>1, BufferGoesFits
  <2> QED
    BY <1>1, <2>1, <2>2
<1>6. ASSUME NEW k \in Kind, GetsRecord(c, k)
      PROVE  Fits(sx'[c], files', lo', seq_long') /\ obs'[c] \in Obs /\ LabelOK(obs'[c])
  <2> DEFINE u == DeleteOldestSegment(s)
             hs == cx[c].handshaking_done
             F == FilesAfterStore
  <2>1. sx'[c] = Arrive(u, k, hs) /\ obs'[c] = obs[c] /\ files' = F /\ lo' = lo
        /\ NewBuffer(k)
    BY <1>6 DEF GetsRecord, QueueBuffer, NewBuffer
  <2>2. seq_long' = seq_long + 1
    BY <2>1, NewBufferStores, ContentOfRecords
  <2>3. Fits(u, F, lo, seq_long)
    BY <1>1, SegmentGoesFits
  <2>4. hs \in BOOLEAN
    BY DEF ClientTypes, CX
  <2> HIDE DEF u, F, hs
  <2>5. Fits(Arrive(u, k, hs), F, lo, seq_long + 1)
    BY <1>2, <2>3, <2>4, ArriveFits
  <2> QED
    BY <1>1, <2>1, <2>2, <2>5
<1>7. CASE Forgets(c)
  <2>1. None = -1 /\ Uninit = -1
    BY DEF None, Uninit
  <2>2. Fits(sx'[c], files', lo', seq_long')
    BY <1>7, <2>1 DEF Forgets, Fits, At
  <2> QED
    BY <1>7, <2>2, IdleFits, IdleTypes DEF Forgets
<1>8. CASE Subscribes(c)
  <2> DEFINE t == sx'[c]
             p == PlaceOf(t, seq_long)
  <2>1. t \in SX /\ t.active /\ FoundPlace(t) /\ UNCHANGED <<rec, lo, files>>
        /\ obs'[c] = [due |-> p, label |-> Uninit]
    BY <1>8 DEF Subscribes, store
  <2> HIDE DEF t
  <2>2. Fits(t, files, lo, seq_long) /\ p \in Nat
    BY <2>1, SubscribedFits
  <2>3. seq_long' = seq_long /\ files' = files /\ lo' = lo
    BY <2>1 DEF seq_long
  <2> HIDE DEF p
  <2>4. obs'[c] \in Obs /\ LabelOK(obs'[c])
    BY <2>1, <2>2 DEF Obs, LabelOK, Uninit
  <2> QED
    BY <2>2, <2>3, <2>4 DEF t
<1>9. ASSUME NEW t, NEW i \in Nat, Sent(c, t, i, SeqOf(i)), Fits(t, files, lo, seq_long)
      PROVE  Fits(sx'[c], files', lo', seq_long') /\ obs'[c] \in Obs /\ LabelOK(obs'[c])
  <2> DEFINE q == SeqOf(i)
  <2>1. q \in Nat
    BY Numbers
  <2>2. UNCHANGED <<rec, lo, files>> /\ sx'[c] = t /\ obs'[c] = [due |-> i + 1, label |-> q]
    BY <1>9, SentIs
  <2>3. q = SeqOf((i + 1) - 1)
    <3>1. (i + 1) - 1 = i
      OBVIOUS
    <3> QED
      BY <3>1
  <2> HIDE DEF q
  <2>4. obs'[c] \in Obs /\ LabelOK(obs'[c])
    BY <2>1, <2>2, <2>3 DEF Obs, LabelOK
  <2> QED
    BY <1>9, <2>2, <2>4 DEF seq_long
<1>10. CASE DeliverFromFile(c)
  <2>1. CanDeliver(c) /\ s.file_queue # None
    BY <1>10 DEF DeliverFromFile
  <2>2. PICK i \in Place(s) .. (seq_long - 1) :
          Sent(c, [s EXCEPT !.file_queue = FileOf(i), !.readfd = i + 1,
                            !.seq = SeqOf(SeqRead(s, i) + 1)], i, SeqRead(s, i))
    BY <1>10 DEF DeliverFromFile
  <2>3. i \in PlaceOf(s, seq_long) .. (seq_long - 1) /\ s.active
    BY <2>1, PlaceIs, ServedIsActive
  <2> DEFINE t == [s EXCEPT !.file_queue = FileOf(i), !.readfd = i + 1,
                            !.seq = SeqOf(SeqRead(s, i) + 1)]
  <2>4. Fits(t, files, lo, seq_long) /\ i \in Nat /\ SeqRead(s, i) = SeqOf(i)
    BY <1>1, <2>1, <2>3, FileDelivers
  <2>5. Sent(c, t, i, SeqRead(s, i))
    BY <2>2
  <2> HIDE DEF t
  <2> QED
    BY <1>9, <2>4, <2>5
<1>11. CASE DeliverFromMemory(c)
  <2>1. CanDeliver(c) /\ s.buffer_queue # None
    BY <1>11 DEF DeliverFromMemory
  <2>2. PICK i \in s.buffer_queue .. (seq_long - 1) :
          Sent(c, [s EXCEPT !.file_queue = None, !.readfd = None,
                            !.buffer_queue = NextBuffer(i), !.seq = SeqOf(i + 1)],
               i, SeqOf(i))
    BY <1>11 DEF DeliverFromMemory
  <2>3. s.active
    BY <2>1, ServedIsActive
  <2> DEFINE t == [s EXCEPT !.file_queue = None, !.readfd = None,
                            !.buffer_queue = NextBuffer(i), !.seq = SeqOf(i + 1)]
  <2>4. Fits(t, files, lo, seq_long) /\ i \in Nat
    BY <1>1, <2>1, <2>3, MemoryDelivers
  <2>5. Sent(c, t, i, SeqOf(i))
    BY <2>2
  <2> HIDE DEF t
  <2> QED
    BY <1>9, <2>4, <2>5
<1>12. CASE DeliverNothing(c)
  <2> DEFINE q == IF s.file_queue = None /\ s.buffer_queue = None THEN s.seq ELSE end_seq
             t == [s EXCEPT !.file_queue = None, !.readfd = None, !.buffer_queue = None,
                            !.ready = FALSE, !.seq = q,
                            !.active = s.realtime, !.eod = ~s.realtime]
  <2>1. CanDeliver(c) /\ UNCHANGED <<rec, lo, files, obs>> /\ sx' = [sx EXCEPT ![c] = t]
    BY <1>12 DEF DeliverNothing, store
  <2>2. q \in Int /\ (q = s.seq \/ q = end_seq)
    BY <1>1, <1>2, FieldTypes, Numbers DEF end_seq
  <2>3. s.active
    BY <2>1, ServedIsActive
  <2> HIDE DEF q
  <2>4. Fits(t, files, lo, seq_long)
    BY <1>1, <2>2, <2>3, NothingDelivered
  <2> HIDE DEF t
  <2>5. sx'[c] = t
    BY <2>1 DEF ClientTypes
  <2> QED
    BY <1>1, <2>1, <2>4, <2>5 DEF seq_long
<1> QED
  BY <1>3, <1>4, <1>5, <1>6, <1>7, <1>8, <1>10, <1>11, <1>12 DEF ClientCase

\* Who is not connected is idle, and nobody is connected when the server is not up.
LEMMA ConnectionFields ==
  ASSUME NEW x \in CX, NEW h \in BOOLEAN, NEW r \in BOOLEAN
  PROVE  /\ x.conn \in BOOLEAN
         /\ LET y == [x EXCEPT !.have_response = r] IN y \in CX /\ y.conn = x.conn
         /\ LET y == [x EXCEPT !.handshaking_done = h] IN y \in CX /\ y.conn = x.conn
         /\ LET y == [x EXCEPT !.have_response = r, !.handshaking_done = h]
            IN  y \in CX /\ y.conn = x.conn
BY DEF CX

\* The steps of a connection, as far as cx goes.
LEMMA ConnectionKept ==
  ASSUME ClientTypes, NEW c \in Client, NEW t \in CX, cx' = [cx EXCEPT ![c] = t]
  PROVE  cx' \in [Client -> CX] /\ cx'[c] = t /\ \A d \in Client : d # c => cx'[d] = cx[d]
BY DEF ClientTypes

LEMMA CommandKeeps ==
  ASSUME ClientTypes, NEW c \in Client, Command(c) \/ SendResponse(c)
  PROVE  /\ cx' \in [Client -> CX] /\ cx[c].conn /\ cx'[c].conn
         /\ \A d \in Client : d # c => cx'[d] = cx[d]
         /\ UNCHANGED <<phase, issued>> /\ phase = "up"
<1>1. cx[c] \in CX /\ TRUE \in BOOLEAN /\ FALSE \in BOOLEAN
  BY DEF ClientTypes
<1>2. LET y == [cx[c] EXCEPT !.have_response = TRUE] IN y \in CX /\ y.conn = cx[c].conn
  BY <1>1 DEF CX
<1>3. LET y == [cx[c] EXCEPT !.handshaking_done = TRUE] IN y \in CX /\ y.conn = cx[c].conn
  BY <1>1 DEF CX
<1>4. LET y == [cx[c] EXCEPT !.have_response = FALSE, !.handshaking_done = FALSE]
      IN  y \in CX /\ y.conn = cx[c].conn
  BY <1>1 DEF CX
<1>5. /\ cx[c].conn /\ UNCHANGED <<phase, issued>> /\ phase = "up"
      /\ \/ cx' = [cx EXCEPT ![c] = [cx[c] EXCEPT !.have_response = TRUE]]
         \/ cx' = [cx EXCEPT ![c] = [cx[c] EXCEPT !.handshaking_done = TRUE]]
         \/ cx' = [cx EXCEPT ![c] = [cx[c] EXCEPT !.have_response = FALSE,
                                                  !.handshaking_done = FALSE]]
  <2>1. CASE SendResponse(c)
    BY <2>1 DEF SendResponse, server, ClientTypes
  <2>2. CASE End(c)
    BY <2>2 DEF End, server
  <2>3. ASSUME NEW S, Select(c, S)
        PROVE /\ cx[c].conn /\ UNCHANGED <<phase, issued>> /\ phase = "up"
              /\ cx' = [cx EXCEPT ![c] = [cx[c] EXCEPT !.have_response = TRUE]]
    BY <2>3 DEF Select, server
  <2>4. ASSUME NEW rt, BadData(c, rt)
        PROVE /\ cx[c].conn /\ UNCHANGED <<phase, issued>> /\ phase = "up"
              /\ cx' = [cx EXCEPT ![c] = [cx[c] EXCEPT !.have_response = TRUE]]
    BY <2>4 DEF BadData, server
  <2>5. ASSUME NEW s, NEW rt, NEW r, Subscribe(c, s, rt, r)
        PROVE /\ cx[c].conn /\ UNCHANGED <<phase, issued>> /\ phase = "up"
              /\ \/ cx' = [cx EXCEPT ![c] = [cx[c] EXCEPT !.have_response = TRUE]]
                 \/ cx' = [cx EXCEPT ![c] = [cx[c] EXCEPT !.handshaking_done = TRUE]]
    BY <2>5 DEF Subscribe, server
  <2>6. CASE Command(c)
    BY <2>2, <2>3, <2>4, <2>5, <2>6 DEF Command, DataNext, DataAll, DataFrom
  <2> QED
    BY <2>1, <2>6
<1>6. PICK t \in CX : cx' = [cx EXCEPT ![c] = t] /\ t.conn = cx[c].conn
  BY <1>2, <1>3, <1>4, <1>5
<1>7. cx' \in [Client -> CX] /\ cx'[c] = t /\ \A d \in Client : d # c => cx'[d] = cx[d]
  BY <1>6, ConnectionKept
<1> QED
  BY <1>5, <1>6, <1>7

LEMMA IssuedType ==
  ASSUME IInv, ClientTypes, ClientsFit, NEW c \in Client, Deliver(c)
  PROVE  issued' \in Nat
<1> DEFINE s == sx[c]
<1>1. /\ issued \in Nat /\ Fits(s, files, lo, seq_long)
  BY DEF ClientsFit, ClientTypes
<1>2. ASSUME NEW t, NEW i \in Nat, NEW q, Sent(c, t, i, q) PROVE issued' \in Nat
  <2>1. issued' = IF i + 1 > issued THEN i + 1 ELSE issued
    BY <1>2 DEF Sent
  <2> QED
    BY <1>1, <2>1
<1>3. CASE DeliverFromFile(c)
  <2>1. PICK i \in Place(s) .. (seq_long - 1) :
          Sent(c, [s EXCEPT !.file_queue = FileOf(i), !.readfd = i + 1,
                            !.seq = SeqOf(SeqRead(s, i) + 1)], i, SeqRead(s, i))
    BY <1>3 DEF DeliverFromFile
  <2>2. i \in Nat
    BY <1>1, <2>1, PlaceIs, PlaceInStores
  <2> QED
    BY <1>2, <2>1, <2>2
<1>4. CASE DeliverFromMemory(c)
  <2>1. PICK i \in s.buffer_queue .. (seq_long - 1) :
          Sent(c, [s EXCEPT !.file_queue = None, !.readfd = None,
                            !.buffer_queue = NextBuffer(i), !.seq = SeqOf(i + 1)],
               i, SeqOf(i))
    BY <1>4 DEF DeliverFromMemory
  <2>2. i \in Nat
    BY <1>1, <1>4, <2>1, PlaceInStores DEF DeliverFromMemory
  <2> QED
    BY <1>2, <2>1, <2>2
<1>5. CASE DeliverNothing(c)
  BY <1>1, <1>5 DEF DeliverNothing
<1> QED
  BY <1>3, <1>4, <1>5 DEF Deliver

LEMMA StepNotUp ==
  ASSUME IInv, ClientTypes, ClientsFit, NotUp, [Next]_vars
  PROVE  NotUp' /\ cx' \in [Client -> CX] /\ issued' \in Nat
<1>1. cx \in [Client -> CX] /\ issued \in Nat /\ \A c \in Client : cx[c].conn \in BOOLEAN
  BY DEF ClientTypes, CX
<1>2. CASE UNCHANGED vars
  BY <1>1, <1>2 DEF vars, server, NotUp
<1>3. CASE GetBuffer
  <2>1. UNCHANGED <<phase, cx, obs, issued>>
    BY <1>3 DEF GetBuffer, server
  <2>2. \A c \in Client : ~cx[c].conn => sx'[c] = sx[c]
    BY <1>3 DEF GetBuffer
  <2> QED
    BY <1>1, <2>1, <2>2 DEF NotUp
<1>4. ASSUME NEW k \in Kind, QueueBuffer(k)
      PROVE  NotUp' /\ cx' \in [Client -> CX] /\ issued' \in Nat
  <2>1. UNCHANGED <<phase, cx, obs, issued>>
    BY <1>4 DEF QueueBuffer, server
  <2>2. \A c \in Client : ~cx[c].conn => sx'[c] = sx[c]
    BY <1>4 DEF QueueBuffer, NewBuffer
  <2> QED
    BY <1>1, <2>1, <2>2 DEF NotUp
<1>5. ASSUME NEW c \in Client, NEW m \in Handshake, Connect(c, m)
      PROVE  NotUp' /\ cx' \in [Client -> CX] /\ issued' \in Nat
  <2> DEFINE t == [conn |-> TRUE, multi |-> m, handshaking_done |-> FALSE,
                   have_response |-> FALSE]
  <2>1. t \in CX /\ t.conn
    BY StationAssumption DEF CX
  <2>2. /\ cx' = [cx EXCEPT ![c] = t]
        /\ phase = "up" /\ UNCHANGED <<phase, sx, obs, issued>>
    BY <1>5 DEF Connect, server
  <2> HIDE DEF t
  <2>3. cx' \in [Client -> CX] /\ cx'[c] = t /\ \A d \in Client : d # c => cx'[d] = cx[d]
    BY <2>1, <2>2, ConnectionKept
  <2> QED
    BY <1>1, <2>1, <2>2, <2>3 DEF NotUp
<1>6. ASSUME NEW c \in Client, Disconnect(c)
      PROVE  NotUp' /\ cx' \in [Client -> CX] /\ issued' \in Nat
  <2>1. /\ cx' = [cx EXCEPT ![c] = IdleCX]
        /\ sx' = [sx EXCEPT ![c] = IdleSX] /\ obs' = [obs EXCEPT ![c] = IdleObs]
        /\ phase = "up" /\ UNCHANGED <<phase, issued>> /\ UNCHANGED store
    BY <1>6 DEF Disconnect, server
  <2>2. cx' \in [Client -> CX] /\ cx'[c] = IdleCX /\ \A d \in Client : d # c => cx'[d] = cx[d]
    BY <2>1, IdleTypes, ConnectionKept
  <2>3. /\ sx'[c] = IdleSX /\ obs'[c] = IdleObs
        /\ \A d \in Client : d # c => Untouched(d)
    BY <2>1, OthersUntouched
  <2> QED
    BY <1>1, <2>1, <2>2, <2>3 DEF NotUp, Untouched
<1>7. ASSUME NEW c \in Client, Command(c) \/ SendResponse(c)
      PROVE  NotUp' /\ cx' \in [Client -> CX] /\ issued' \in Nat
  <2>1. /\ cx' \in [Client -> CX] /\ cx[c].conn /\ cx'[c].conn
        /\ \A d \in Client : d # c => cx'[d] = cx[d]
        /\ UNCHANGED <<phase, issued>> /\ phase = "up"
    BY <1>7, CommandKeeps
  <2>2. \A d \in Client : d # c => sx'[d] = sx[d] /\ obs'[d] = obs[d]
    BY <1>7, CommandCase DEF SendResponse, Untouched
  <2> QED
    BY <1>1, <2>1, <2>2 DEF NotUp
<1>8. ASSUME NEW c \in Client, Deliver(c)
      PROVE  NotUp' /\ cx' \in [Client -> CX] /\ issued' \in Nat
  <2>1. UNCHANGED <<phase, cx>> /\ \A d \in Client : d # c => sx'[d] = sx[d] /\ obs'[d] = obs[d]
    BY <1>8, DeliverCase DEF server, Untouched
  <2>2. phase = "up" /\ cx[c].conn
    BY <1>8, ServedIsActive DEF Deliver, DeliverFromFile, DeliverFromMemory, DeliverNothing
  <2>3. issued' \in Nat
    BY <1>8, IssuedType
  <2> QED
    BY <1>1, <2>1, <2>2, <2>3 DEF NotUp
<1>9. CASE Terminate \/ Crash
  <2>1. /\ cx' = [c \in Client |-> IdleCX] /\ sx' = [c \in Client |-> IdleSX]
        /\ obs' = [c \in Client |-> IdleObs] /\ UNCHANGED issued
    BY <1>9 DEF Terminate, Crash, Stops
  <2>2. ~IdleCX.conn
    BY DEF IdleCX
  <2> QED
    BY <1>1, <2>1, <2>2, IdleTypes DEF NotUp
<1>10. CASE Restart
  <2>1. phase # "up" /\ UNCHANGED <<cx, sx, obs, issued>>
    BY <1>10 DEF Restart
  <2> QED
    BY <1>1, <2>1 DEF NotUp
<1>11. CASE CreateBlank
  <2>1. phase # "up" /\ UNCHANGED <<cx, obs, issued>> /\ NewBuffer(Blank)
    BY <1>11 DEF CreateBlank
  <2>2. \A c \in Client : ~cx[c].conn /\ sx'[c] = sx[c]
    BY <2>1 DEF NotUp, NewBuffer
  <2> QED
    BY <1>1, <2>1, <2>2 DEF NotUp
<1> QED
  BY <1>2, <1>3, <1>4, <1>5, <1>6, <1>7, <1>8, <1>9, <1>10, <1>11 DEF Next

-----------------------------------------------------------------------------
(* Valid places, and numbers that belong to their records.                 *)

ClientInv == IInv /\ ClientTypes /\ NotUp /\ ClientsFit /\ LabelsRecord

LEMMA InitClientInv == Init => ClientInv
<1> SUFFICES ASSUME Init PROVE ClientInv
  OBVIOUS
<1>1. /\ cx = [c \in Client |-> IdleCX] /\ sx = [c \in Client |-> IdleSX]
      /\ obs = [c \in Client |-> IdleObs] /\ issued = 0 /\ phase = "up"
  BY DEF Init
<1>2. ClientTypes
  BY <1>1, IdleTypes DEF ClientTypes
<1>3. NotUp
  BY <1>1 DEF NotUp
<1>4. ClientsFit
  BY <1>1, IdleFits DEF ClientsFit
<1>5. LabelsRecord
  BY <1>1, IdleFits DEF LabelsRecord, LabelOK
<1> QED
  BY <1>2, <1>3, <1>4, <1>5, InitIInv DEF ClientInv

LEMMA StepClientInv == ClientInv /\ [Next]_vars => ClientInv'
<1> SUFFICES ASSUME ClientInv, [Next]_vars PROVE ClientInv'
  OBVIOUS
<1>1. IInv /\ ClientTypes /\ NotUp /\ ClientsFit /\ LabelsRecord
  BY DEF ClientInv
<1>2. IInv'
  BY <1>1, StepIInv
<1>3. IsMap(sx') /\ IsMap(obs') /\ \A c \in Client : ClientCase(c)
  BY <1>1, StepCases
<1>4. \A c \in Client : Fits(sx'[c], files', lo', seq_long') /\ obs'[c] \in Obs
                        /\ LabelOK(obs'[c])
  BY <1>1, <1>3, CaseFits
<1>5. \A c \in Client : sx'[c] \in SX
  BY <1>4 DEF Fits
<1>6. NotUp' /\ cx' \in [Client -> CX] /\ issued' \in Nat
  BY <1>1, StepNotUp
<1>7. sx' \in [Client -> SX] /\ obs' \in [Client -> Obs]
  BY <1>3, <1>4, <1>5, MapType
<1>8. ClientTypes'
  BY <1>6, <1>7 DEF ClientTypes
<1>9. ClientsFit' /\ LabelsRecord'
  BY <1>4 DEF ClientsFit, LabelsRecord, LabelOK
<1> QED
  BY <1>2, <1>6, <1>8, <1>9 DEF ClientInv

LEMMA ClientInvAlways == Spec => []ClientInv
BY InitClientInv, StepClientInv, PTL DEF Spec

\* However buffers are reused, files deleted and the server stopped, crashed and
\* restarted, the place of a client in memory is a buffer that is queued, its
\* file one that exists, and its place in the file one that the file has; an
\* active client has a number.  Nothing is assumed of the sizes of the stores.
THEOREM PlacesValid == Spec => []QueuesValid
<1>1. ASSUME ClientInv PROVE QueuesValid
  <2>1. TypeOK
    BY <1>1 DEF ClientInv, IInv, ClientTypes, Obs, TypeOK
  <2>2. ASSUME NEW c \in Client
        PROVE  LET s == sx[c] IN
               /\ s.ready => s.active
               /\ s.file_queue = None => s.readfd = None
               /\ s.active => s.seq # Uninit
               /\ s.buffer_queue \in {None} \cup lo .. (seq_long - 1)
               /\ s.file_queue # None =>
                    \E k \in DOMAIN files :
                      /\ files[k].seq = s.file_queue
                      /\ s.readfd \in {None} \cup s.file_queue .. FileEnd(k)
    BY <1>1 DEF ClientInv, ClientsFit, Fits, InFile, FileEnd
  <2> QED
    BY <2>1, <2>2 DEF QueuesValid
<1> QED
  BY <1>1, ClientInvAlways, PTL

\* The number in the header of a packet is that of the record in it, whether the
\* record was read from memory, from the file that the client was in, or from
\* one that it went over to because the file it was in had been deleted.
THEOREM LabelsRight == Spec => []LabelsRecord
<1>1. ClientInv => LabelsRecord
  BY DEF ClientInv
<1> QED
  BY <1>1, ClientInvAlways, PTL

-----------------------------------------------------------------------------
(* First in, first out.                                                    *)

LEMMA NumberIsSmall ==
  ASSUME NEW i \in Nat
  PROVE  SeqOf(i) \in 0 .. i
<1> DEFINE x == i \div SeqMod
           r == i % SeqMod
<1>1. SeqMod \in Nat /\ SeqMod > 0 /\ x \in Int /\ r \in 0 .. SeqMod - 1
      /\ i = SeqMod * x + r
  BY StationAssumption, DivMod
<1> HIDE DEF r
<1>2. ~(0 - x >= 1)
  <2> HIDE DEF x
  <2>1. 0 - x >= 1 => SeqMod * (0 - x) >= SeqMod
    BY <1>1, ProductAtLeast
  <2>2. SeqMod * (0 - x) = 0 - SeqMod * x
    BY <1>1
  <2> QED
    BY <1>1, <2>1, <2>2
<1>3. SeqMod * x >= 0
  <2> HIDE DEF x
  <2>1. x >= 1 => SeqMod * x >= SeqMod
    BY <1>1, ProductAtLeast
  <2>2. x = 0 => SeqMod * x = 0
    BY <1>1
  <2>3. x >= 1 \/ x = 0
    BY <1>1, <1>2
  <2> QED
    BY <1>1, <2>1, <2>2, <2>3
<1>4. r \in 0 .. i
  <2> DEFINE y == SeqMod * x
  <2>1. y \in Int /\ y >= 0 /\ i = y + r
    BY <1>1, <1>3
  <2> HIDE DEF y, x
  <2> QED
    BY <1>1, <2>1
<1> QED
  BY <1>4 DEF SeqOf, r

LEMMA BufferGoesOld ==
  ASSUME IInv, NEW s, Fits(s, files, lo, seq_long), OldNumber(s)
  PROVE  OldNumber(DeleteOldestBuffer(s))
<1> DEFINE t == DeleteOldestBuffer(s)
           q == SeqOf(lo)
           k == Least(FilesWith(q))
           f == files[k].seq
           p == f + Offset(k, q)
<1>1. s \in SX /\ lo \in Nat /\ FilesTypeOK /\ FilesInv /\ None = -1
  BY PlaceInStores, Types DEF IInv
<1>2. CASE s.buffer_queue # lo
  <2>1. t = s
    BY <1>1, <1>2, BufferDeleted
  <2> QED
    BY <2>1
<1>3. CASE s.buffer_queue = lo /\ s.file_queue # None
  <2>1. Same(s, t) /\ At(t, NextBuffer(lo), s.file_queue, s.readfd, s.seq)
    BY <1>1, <1>3, BufferDeleted
  <2> HIDE DEF t
  <2> QED
    BY <2>1 DEF OldNumber, Same, At, t
<1>4. CASE s.buffer_queue = lo /\ s.file_queue = None /\ FilesWith(q) # {}
  <2>1. Same(s, t) /\ At(t, NextBuffer(lo), f, p, q)
    BY <1>1, <1>4, BufferDeleted
  <2>2. p \in Nat
    <3>1. q \in Int
      BY <1>1, Numbers
    <3> HIDE DEF q
    <3> QED
      BY <1>1, <1>4, <3>1, FoundInFile
  <2> HIDE DEF t, f, p
  <2> QED
    BY <1>1, <2>1, <2>2 DEF OldNumber, At, t
<1>5. CASE s.buffer_queue = lo /\ s.file_queue = None /\ FilesWith(q) = {}
  <2>1. At(t, NextBuffer(lo), None, s.readfd, SeqOf(s.seq + 1))
    BY <1>1, <1>5, BufferDeleted
  <2> HIDE DEF t
  <2> QED
    BY <2>1 DEF OldNumber, At, t
<1> QED
  BY <1>2, <1>3, <1>4, <1>5

LEMMA SegmentGoesOld ==
  ASSUME IInv, NEW s, Fits(s, files, lo, seq_long), OldNumber(s)
  PROVE  OldNumber(DeleteOldestSegment(s))
<1> DEFINE t == DeleteOldestSegment(s)
           f == files[2].seq
<1>1. s \in SX /\ FilesTypeOK /\ FilesInv /\ None = -1 /\ seq_long \in Nat
  BY PlaceInStores, Types DEF IInv
<1>2. CASE DropsFile /\ s.file_queue = files[1].seq
  <2>1. Same(s, t) /\ At(t, s.buffer_queue, f, None, s.seq)
    BY <1>1, <1>2, SegmentDeleted
  <2>2. /\ f \in Nat /\ f = FileEnd(1) /\ files[1].seq \in Nat /\ 1 \in 1 .. Len(files)
        /\ files # <<>> /\ files[1].nbuf \in Nat
    BY <1>1, <1>2, SecondFile, RowElements DEF FilesTypeOK
  <2>3. f >= files[1].seq /\ f \in Nat
    BY <2>2 DEF FileEnd
  <2> DEFINE r == s.readfd
  <2>4. s.readfd # None => s.seq = SeqOf(r) /\ r \in Nat /\ r <= f
    <3> SUFFICES ASSUME s.readfd # None PROVE s.seq = SeqOf(r) /\ r \in Nat /\ r <= f
      OBVIOUS
    <3>1. PICK k \in 1 .. Len(files) : files[k].seq = s.file_queue
                                      /\ PlaceOf(s, seq_long) <= FileEnd(k)
      BY <1>1, <1>2, <2>2, PlaceInStores
    <3>2. ~(1 < k)
      <4> SUFFICES ASSUME 1 < k PROVE FALSE
        OBVIOUS
      <4>1. files[1].seq + files[1].nbuf <= files[k].seq
        BY <1>1, <2>2, RowOrdered DEF FilesTypeOK, FilesInv
      <4>2. files[1].nbuf = FileSize /\ FileSize > 0 /\ FileSize \in Nat
        <5>1. Len(files) >= 2 /\ Len(files) \in Nat
          BY <1>1, <1>2, SecondFile, Counts
        <5>2. 1 \in 1 .. Len(files) - 1
          BY <5>1
        <5> QED
          BY <1>1, <5>2, Sizes DEF FilesInv, InRow
      <4> QED
        BY <1>2, <2>2, <3>1, <4>1, <4>2
    <3>3. k = 1
      BY <1>1, <3>2, Counts
    <3>4. r = PlaceOf(s, seq_long) /\ r \in Nat /\ s.seq = SeqOf(r)
      BY PlaceInStores DEF Fits
    <3> QED
      BY <2>2, <3>1, <3>3, <3>4
  <2>5. s.active => s.seq \in 0 .. f
    <3>1. CASE s.readfd # None
      <4>1. SeqOf(r) \in 0 .. r
        BY <2>4, <3>1, NumberIsSmall
      <4> HIDE DEF r, f
      <4> QED
        BY <2>3, <2>4, <3>1, <4>1
    <3>2. CASE s.readfd = None
      BY <1>1, <1>2, <2>2, <2>3, <3>2 DEF OldNumber
    <3> QED
      BY <3>1, <3>2
  <2> HIDE DEF t, f
  <2> QED
    BY <2>1, <2>5 DEF OldNumber, Same, At, t
<1>3. CASE ~(DropsFile /\ s.file_queue = files[1].seq)
  <2>1. t = s
    BY <1>1, <1>3, SegmentDeleted
  <2> QED
    BY <2>1
<1> QED
  BY <1>2, <1>3

LEMMA ArriveOld ==
  ASSUME seq_long \in Nat, NEW s \in SX, NEW k, NEW hs \in BOOLEAN, OldNumber(s)
  PROVE  OldNumber(Arrive(s, k, hs))
<1> DEFINE t == Arrive(s, k, hs)
           b == IF s.active /\ s.buffer_queue = None /\ k \in s.sel
                THEN seq_long ELSE s.buffer_queue
<1>1. t.active = s.active /\ At(t, b, s.file_queue, s.readfd, s.seq)
  BY Arrived
<1> HIDE DEF t, b
<1> QED
  BY <1>1 DEF OldNumber, At, t

Turn(s, due, b) == InTurn(s, due, b) /\ OldNumber(s)

Turns == \A c \in Client : Turn(sx[c], obs[c].due, seq_long)

LEMMA CaseTurn ==
  ASSUME DiskLargeEnough, ClientInv, DiskCoversMemory, Turns, NEW c \in Client, ClientCase(c)
  PROVE  Turn(sx'[c], obs'[c].due, seq_long')
<1> DEFINE s == sx[c]
           d == obs[c].due
<1>1. /\ Fits(s, files, lo, seq_long) /\ s \in SX /\ d \in Nat
      /\ InTurn(s, d, seq_long) /\ OldNumber(s) /\ IInv /\ ClientTypes /\ ClientsFit
  BY DEF ClientInv, ClientsFit, ClientTypes, Turns, Turn, Obs
<1>2. /\ seq_long \in Nat /\ lo \in Nat /\ lo <= seq_long /\ None = -1
      /\ DiskLo <= lo /\ held \in Nat
  BY <1>1, Types DEF DiskCoversMemory, None
<1>3. CASE Untouched(c)
  <2>1. CASE UNCHANGED <<rec, lo, files>>
    BY <1>1, <1>3, <2>1 DEF Untouched, seq_long, Turn
  <2>2. CASE sx[c] = IdleSX /\ obs[c] = IdleObs
    BY <1>1, <1>3, <2>2, IdleFits DEF Untouched, Turn
  <2> QED
    BY <1>3, <2>1, <2>2 DEF Untouched
<1>4. CASE Idled(c)
  <2>1. InTurn(IdleSX, obs'[c].due, seq_long') /\ OldNumber(IdleSX)
    BY IdleFits DEF OldNumber, IdleSX
  <2> QED
    BY <1>4, <2>1 DEF Idled, Turn
<1>5. CASE LosesBuffer(c)
  <2>1. sx'[c] = DeleteOldestBuffer(s) /\ obs'[c] = obs[c] /\ seq_long' = seq_long
        /\ held < MaxHeld /\ PoolIsFull
    BY <1>5 DEF LosesBuffer, GetBuffer, seq_long
  <2>2. lo < seq_long
    BY <1>1, <2>1, Types DEF PoolIsFull
  <2>3. InTurn(DeleteOldestBuffer(s), d, seq_long) /\ OldNumber(DeleteOldestBuffer(s))
    BY <1>1, <1>2, <2>2, BufferGoesInTurn, BufferGoesOld
  <2> QED
    BY <2>1, <2>3 DEF Turn
<1>6. ASSUME NEW k \in Kind, GetsRecord(c, k)
      PROVE  Turn(sx'[c], obs'[c].due, seq_long')
  <2> DEFINE u == DeleteOldestSegment(s)
             hs == cx[c].handshaking_done
  <2>1. sx'[c] = Arrive(u, k, hs) /\ obs'[c] = obs[c] /\ held > 0 /\ NewBuffer(k)
    BY <1>6 DEF GetsRecord, QueueBuffer
  <2>2. seq_long' = seq_long + 1
    BY <1>1, <2>1, NewBufferStores, ContentOfRecords
  <2>3. hs \in BOOLEAN
    BY <1>1 DEF ClientTypes, CX
  <2>4. /\ InTurn(u, d, seq_long) /\ OldNumber(u)
        /\ PlaceOf(u, seq_long) \in Nat /\ PlaceOf(u, seq_long) <= seq_long
    BY <1>1, <2>1, SegmentGoesInTurn, SegmentGoesOld
  <2>5. u \in SX
    <3>1. Fits(u, FilesAfterStore, lo, seq_long)
      BY <1>1, SegmentGoesFits
    <3> QED
      BY <3>1 DEF Fits
  <2> HIDE DEF u, hs
  <2>6. u.file_queue \in Int
    BY <2>5, FieldTypes
  <2>7. InTurn(Arrive(u, k, hs), d, seq_long + 1)
    BY <1>1, <1>2, <2>3, <2>4, <2>5, <2>6, ArriveInTurn
  <2>8. OldNumber(Arrive(u, k, hs))
    BY <1>2, <2>3, <2>4, <2>5, ArriveOld
  <2> QED
    BY <2>1, <2>2, <2>7, <2>8 DEF Turn
<1>7. CASE Forgets(c)
  BY <1>7 DEF Forgets, Turn, InTurn, OldNumber
<1>8. CASE Subscribes(c)
  <2> DEFINE t == sx'[c]
             p == PlaceOf(t, seq_long)
  <2>1. t \in SX /\ t.active /\ FoundPlace(t) /\ UNCHANGED <<rec, lo, files>>
        /\ obs'[c] = [due |-> p, label |-> Uninit]
    BY <1>8 DEF Subscribes, store
  <2> HIDE DEF t
  <2>2. InTurn(t, p, seq_long)
    BY <1>1, <2>1, SubscribedFits
  <2>3. OldNumber(t)
    <3>1. CASE InMemory(t)
      BY <3>1 DEF InMemory, OldNumber
    <3>2. CASE AtOldest(t)
      <4>1. files[1].seq \in Nat
        <5>1. DiskLo = files[1].seq /\ DiskLo \in Nat
          BY <1>1, <3>2, Types, DiskExtent DEF AtOldest, DiskLo, IInv
        <5> QED
          BY <5>1
      <4>2. SeqOf(files[1].seq) \in 0 .. files[1].seq
        BY <4>1, NumberIsSmall
      <4> QED
        BY <3>2, <4>2 DEF AtOldest, OldNumber, At
    <3>3. ASSUME NEW k, NEW i \in Nat, InsideFile(t, k, i) PROVE OldNumber(t)
      BY <1>2, <3>3 DEF InsideFile, OldNumber, At
    <3> QED
      BY <2>1, <3>1, <3>2, <3>3 DEF FoundPlace
  <2>4. seq_long' = seq_long
    BY <2>1 DEF seq_long
  <2> HIDE DEF p
  <2> QED
    BY <2>1, <2>2, <2>3, <2>4 DEF Turn, t
<1>9. ASSUME NEW t, NEW i \in Nat, NEW q, Sent(c, t, i, q), InTurn(t, i + 1, seq_long),
             t.file_queue = None \/ t.readfd # None
      PROVE  Turn(sx'[c], obs'[c].due, seq_long')
  <2>1. UNCHANGED <<rec, lo, files>> /\ sx'[c] = t /\ obs'[c] = [due |-> i + 1, label |-> q]
    BY <1>1, <1>9, SentIs
  <2>2. obs'[c].due = i + 1 /\ seq_long' = seq_long
    BY <2>1 DEF seq_long
  <2>3. OldNumber(t)
    BY <1>9 DEF OldNumber
  <2> QED
    BY <1>9, <2>1, <2>2, <2>3 DEF Turn
<1>10. CASE DeliverFromFile(c)
  <2>1. CanDeliver(c) /\ s.file_queue # None
    BY <1>10 DEF DeliverFromFile
  <2>2. PICK i \in Place(s) .. (seq_long - 1) :
          /\ \A j \in Place(s) .. (i - 1) : Skips(s, j)
          /\ ~Switches(s, i) /\ Matches(s, i)
          /\ Sent(c, [s EXCEPT !.file_queue = FileOf(i), !.readfd = i + 1,
                            !.seq = SeqOf(SeqRead(s, i) + 1)], i, SeqRead(s, i))
    BY <1>10 DEF DeliverFromFile
  <2>3. i \in PlaceOf(s, seq_long) .. (seq_long - 1) /\ s.active /\ PlaceOf(s, seq_long) \in Nat
    BY <1>1, <2>1, PlaceIs, ServedIsActive, PlaceInStores
  <2>4. \A j \in PlaceOf(s, seq_long) .. i : ~Switches(s, j)
    <3> TAKE j \in PlaceOf(s, seq_long) .. i
    <3>1. CASE j = i
      BY <2>2, <3>1
    <3>2. CASE j # i
      <4>1. j \in Place(s) .. (i - 1)
        BY <1>2, <2>3, <3>2, PlaceIs
      <4> QED
        BY <2>2, <4>1 DEF Skips
    <3> QED
      BY <3>1, <3>2
  <2>5. \E due \in Int : InTurn(s, due, seq_long)
    BY <1>1
  <2> DEFINE f == FileOf(i)
             r == i + 1
             q == SeqOf(SeqRead(s, i) + 1)
             t == [s EXCEPT !.file_queue = f, !.readfd = r, !.seq = q]
  <2>6. i \in Nat /\ InTurn(t, i + 1, seq_long)
    BY <1>1, <2>1, <2>3, <2>4, <2>5, FileDelivers
  <2>7. Sent(c, t, i, SeqRead(s, i))
    BY <2>2
  <2>8. t.readfd # None
    <3>1. r # None
      BY <1>2, <2>6
    <3>2. t.readfd = r
      <4> HIDE DEF f, r, q
      <4> QED
        BY <1>1 DEF SX
    <3> HIDE DEF t, r
    <3> QED
      BY <3>1, <3>2
  <2> HIDE DEF t
  <2> QED
    BY <1>9, <2>6, <2>7, <2>8
<1>11. CASE DeliverFromMemory(c)
  <2>1. CanDeliver(c) /\ s.buffer_queue # None
    BY <1>11 DEF DeliverFromMemory
  <2>2. PICK i \in s.buffer_queue .. (seq_long - 1) :
          Sent(c, [s EXCEPT !.file_queue = None, !.readfd = None,
                            !.buffer_queue = NextBuffer(i), !.seq = SeqOf(i + 1)],
               i, SeqOf(i))
    BY <1>11 DEF DeliverFromMemory
  <2>3. s.active
    BY <1>1, <2>1, ServedIsActive
  <2> DEFINE b == NextBuffer(i)
             q == SeqOf(i + 1)
             t == [s EXCEPT !.file_queue = None, !.readfd = None, !.buffer_queue = b,
                            !.seq = q]
  <2>4. InTurn(t, i + 1, seq_long) /\ i \in Nat
    BY <1>1, <2>1, <2>3, MemoryDelivers
  <2>5. Sent(c, t, i, SeqOf(i))
    BY <2>2
  <2>6. t.file_queue = None
    <3> HIDE DEF b, q
    <3> QED
      BY <1>1 DEF SX
  <2> HIDE DEF t
  <2> QED
    BY <1>9, <2>4, <2>5, <2>6
<1>12. CASE DeliverNothing(c)
  <2> DEFINE q == IF s.file_queue = None /\ s.buffer_queue = None THEN s.seq ELSE end_seq
             t == [s EXCEPT !.file_queue = None, !.readfd = None, !.buffer_queue = None,
                            !.ready = FALSE, !.seq = q,
                            !.active = s.realtime, !.eod = ~s.realtime]
  <2>1. CanDeliver(c) /\ UNCHANGED <<rec, lo, files, obs>> /\ sx' = [sx EXCEPT ![c] = t]
    BY <1>12 DEF DeliverNothing, store
  <2>2. q \in Int /\ (q = s.seq \/ q = end_seq)
    BY <1>1, <1>2, FieldTypes, Numbers DEF end_seq
  <2>3. s.active
    BY <1>1, <2>1, ServedIsActive
  <2>4. d \in Int /\ d <= seq_long
    <3>1. d <= PlaceOf(s, seq_long) /\ PlaceOf(s, seq_long) <= seq_long
          /\ PlaceOf(s, seq_long) \in Nat
      BY <1>1, <2>3, PlaceInStores DEF InTurn
    <3> QED
      BY <1>1, <1>2, <3>1
  <2> HIDE DEF q
  <2>5. InTurn(t, d, seq_long)
    BY <1>1, <2>2, <2>3, <2>4, NothingDelivered
  <2>6. t.file_queue = None
    BY <1>1 DEF SX
  <2>7. sx'[c] = t
    BY <1>1, <2>1 DEF ClientTypes
  <2> HIDE DEF t
  <2>8. OldNumber(t)
    BY <2>6 DEF OldNumber
  <2> QED
    BY <2>1, <2>5, <2>7, <2>8 DEF seq_long, Turn
<1> QED
  BY <1>3, <1>4, <1>5, <1>6, <1>7, <1>8, <1>10, <1>11, <1>12 DEF ClientCase

TurnInv == ClientInv /\ DiskCoversMemory /\ Turns

LEMMA InitTurnInv == Init => TurnInv
<1> SUFFICES ASSUME Init PROVE TurnInv
  OBVIOUS
<1>1. ClientInv
  BY InitClientInv
<1>2. DiskCoversMemory
  BY EmptySeq DEF Init, DiskCoversMemory, DiskLo, seq_long
<1>3. Turns
  <2>1. \A c \in Client : sx[c] = IdleSX
    BY DEF Init
  <2>2. OldNumber(IdleSX)
    BY DEF OldNumber, IdleSX
  <2> QED
    BY <2>1, <2>2, IdleFits DEF Turns, Turn
<1> QED
  BY <1>1, <1>2, <1>3 DEF TurnInv

LEMMA StepTurnInv ==
  ASSUME DiskLargeEnough, TurnInv, [Next]_vars
  PROVE  TurnInv'
<1>1. ClientInv /\ DiskCoversMemory /\ Turns /\ IInv /\ ClientTypes /\ NotUp
  BY DEF TurnInv, ClientInv
<1>2. ClientInv' /\ IInv'
  BY <1>1, StepClientInv DEF ClientInv
<1>3. DiskCoversMemory'
  BY <1>1, <1>2, StepCovers
<1>4. \A c \in Client : ClientCase(c)
  BY <1>1, StepCases
<1>5. \A c \in Client : Turn(sx'[c], obs'[c].due, seq_long')
  BY <1>1, <1>4, CaseTurn
<1> QED
  BY <1>2, <1>3, <1>5 DEF TurnInv, Turns

LEMMA TurnInvAlways == ASSUME DiskLargeEnough PROVE Spec => []TurnInv
<1>1. TurnInv /\ [Next]_vars => TurnInv'
  BY StepTurnInv
<1> QED
  BY <1>1, InitTurnInv, PTL DEF Spec

\* Neither the place where a client reads the files nor the buffer with which it
\* will go on in memory is before the record that it is due, whatever it skips,
\* whichever store it changes to and whichever file is deleted under it.  As in
\* DiskCovers, the files that remain when one is deleted must hold as many
\* records as the memory: a client that is moved to the next file would come
\* to it after records that it had seen in memory.
THEOREM FirstInFirstOut ==
  ASSUME DiskLargeEnough
  PROVE  Spec => []FIFO
<1>1. ASSUME TurnInv PROVE FIFO
  <2>1. ASSUME NEW c \in Client, sx[c].active
        PROVE  Place(sx[c]) >= obs[c].due
               /\ (sx[c].buffer_queue = None \/ sx[c].buffer_queue >= obs[c].due)
    <3>1. InTurn(sx[c], obs[c].due, seq_long)
      BY <1>1 DEF TurnInv, Turns, Turn
    <3>2. Place(sx[c]) = PlaceOf(sx[c], seq_long)
      BY PlaceIs
    <3>3. PlaceOf(sx[c], seq_long) \in Nat /\ obs[c].due \in Nat
      BY <1>1, PlaceInStores DEF TurnInv, ClientInv, ClientsFit, ClientTypes, Obs
    <3> QED
      BY <2>1, <3>1, <3>2, <3>3 DEF InTurn
  <2> QED
    BY <2>1 DEF FIFO
<1> QED
  BY <1>1, TurnInvAlways, PTL

-----------------------------------------------------------------------------
(* Nothing is passed over.                                                 *)

\* The station has not stored more records than there are numbers.
NumbersFresh == seq_long <= SeqMod

\* Going through the files a client changes to memory at the buffer it is queued
\* for and at no other record: were its number an old one, from before the numbers
\* came round, another record could be taken for that buffer.
LEMMA SwitchesAtBuffer ==
  ASSUME IInv, DiskLo <= lo, NumbersFresh, NEW s, Fits(s, files, lo, seq_long), s.active,
         NEW due, InTurn(s, due, seq_long), OldNumber(s), s.file_queue # None,
         NEW i \in PlaceOf(s, seq_long) .. seq_long, Switches(s, i)
  PROVE  i = s.buffer_queue
<1> DEFINE b == s.buffer_queue
<1>1. /\ s \in SX /\ seq_long \in Nat /\ lo \in Nat /\ FilesTypeOK /\ FilesInv
      /\ None = -1 /\ DiskLo \in Nat /\ DiskLo <= PlaceOf(s, seq_long)
      /\ PlaceOf(s, seq_long) \in Nat /\ s.file_queue \in Nat
      /\ seq_long - lo <= NBufs
      /\ SeqMod \in Nat /\ SeqMod > 0
  BY PlaceInStores, Types, StationAssumption, SMTT(30) DEF IInv
<1>2. b # None /\ SeqTested(s, i) = SeqOf(b)
  BY DEF Switches
<1>3. b \in Nat /\ lo <= b /\ b < seq_long
  BY <1>2, PlaceInStores
<1>4. i \in Nat /\ i <= seq_long /\ DiskLo <= i
  BY <1>1
<1>5. CASE SeqTested(s, i) = SeqOf(i)
  <2>1. SeqOf(i) = SeqOf(b)
    BY <1>2, <1>5
  <2> HIDE DEF b
  <2>2. b <= seq_long
    BY <1>1, <1>3
  <2> QED
    BY <1>1, <1>3, <1>4, <2>1, <2>2, SameNumber DEF b
<1>6. CASE s.readfd = None /\ i = s.file_queue /\ SeqTested(s, i) = s.seq
          /\ SeqTested(s, i) # SeqOf(i)
  <2>1. b > s.file_queue
    <3>1. AtFile(s, seq_long)
      BY DEF InTurn
    <3> QED
      BY <1>2, <1>6, <3>1 DEF AtFile
  <2>2. s.seq \in 0 .. s.file_queue
    BY <1>6 DEF OldNumber
  <2>3. SeqOf(b) = b
    <3>1. b \in 0 .. SeqMod - 1
      BY <1>1, <1>3 DEF NumbersFresh
    <3> HIDE DEF b
    <3> QED
      BY <3>1, NumberOfNumber
  <2> HIDE DEF b
  <2>4. s.seq = b
    BY <1>2, <1>6, <2>3
  <2> QED
    BY <1>1, <1>3, <2>1, <2>2, <2>4
<1> QED
  BY <1>4, <1>5, <1>6, NumberTested

\* What a client passes over on its way to memory it does not select.
LEMMA SkipsToMemory ==
  ASSUME IInv, DiskLo <= lo, NumbersFresh, NEW s, Fits(s, files, lo, seq_long), s.active,
         NEW due, InTurn(s, due, seq_long), OldNumber(s), ReadsMemory(s)
  PROVE  LET e == IF s.buffer_queue # None THEN s.buffer_queue ELSE seq_long
         IN  \A j \in PlaceOf(s, seq_long) .. (e - 1) : ~Matches(s, j)
<1> DEFINE e == IF s.buffer_queue # None THEN s.buffer_queue ELSE seq_long
           p == PlaceOf(s, seq_long)
<1>1. /\ seq_long \in Nat /\ p \in Nat
      /\ s.buffer_queue # None => s.buffer_queue \in Nat /\ s.buffer_queue < seq_long
  BY PlaceInStores
<1>2. e \in Nat /\ e <= seq_long
  BY <1>1
<1>3. CASE s.file_queue = None
  <2>1. p = e
    BY <1>3 DEF PlaceOf
  <2> HIDE DEF p, e
  <2>2. \A j \in p .. (e - 1) : FALSE
    BY <1>1, <1>2, <2>1
  <2> QED
    BY <2>2 DEF p, e
<1>4. CASE s.file_queue # None
  <2>1. PICK i \in p .. seq_long :
          /\ \A j \in p .. (i - 1) : Skips(s, j)
          /\ Switches(s, i) \/ i = seq_long
    BY <1>4, PlaceIs DEF ReadsMemory, LeavesFiles
  <2>2. e <= i
    <3>1. CASE Switches(s, i)
      <4>1. i = s.buffer_queue
        BY <1>4, <3>1, SwitchesAtBuffer
      <4>2. s.buffer_queue # None
        BY <3>1 DEF Switches
      <4>3. e = i
        BY <4>1, <4>2
      <4> QED
        BY <1>2, <4>3
    <3>2. CASE i = seq_long
      BY <1>2, <3>2
    <3> QED
      BY <2>1, <3>1, <3>2
  <2> HIDE DEF p, e
  <2>3. ASSUME NEW j \in p .. (e - 1) PROVE ~Matches(s, j)
    <3>1. j \in p .. (i - 1)
      BY <1>1, <1>2, <2>2
    <3> QED
      BY <2>1, <3>1 DEF Skips
  <2> QED
    BY <2>3 DEF p, e
<1> QED
  BY <1>3, <1>4

MissedInv == TurnInv /\ ClientsMissNothing

LEMMA MissedFacts ==
  ASSUME MissedInv, NEW c \in Client
  PROVE  LET s == sx[c]
             d == obs[c].due
         IN  /\ Fits(s, files, lo, seq_long) /\ s \in SX /\ d \in Nat
             /\ InTurn(s, d, seq_long) /\ OldNumber(s) /\ IInv /\ ClientTypes /\ ClientsFit
             /\ NoneMissed(s, d, DiskLo, seq_long)
             /\ seq_long \in Nat /\ lo \in Nat /\ lo <= seq_long /\ None = -1
             /\ DiskLo <= lo /\ DiskLo \in Nat /\ held \in Nat
             /\ PlaceOf(s, seq_long) \in Nat /\ PlaceOf(s, seq_long) <= seq_long
             /\ s.active => d <= PlaceOf(s, seq_long)
<1>1. LET s == sx[c]
          d == obs[c].due
      IN  /\ Fits(s, files, lo, seq_long) /\ s \in SX /\ d \in Nat
          /\ InTurn(s, d, seq_long) /\ OldNumber(s) /\ IInv /\ ClientTypes /\ ClientsFit
          /\ NoneMissed(s, d, DiskLo, seq_long) /\ DiskLo <= lo
  BY DEF MissedInv, ClientsMissNothing, TurnInv, ClientInv, ClientsFit, ClientTypes, Turns,
         Turn, Obs, DiskCoversMemory
<1>2. /\ seq_long \in Nat /\ lo \in Nat /\ lo <= seq_long /\ None = -1
      /\ DiskLo \in Nat /\ held \in Nat
      /\ PlaceOf(sx[c], seq_long) \in Nat /\ PlaceOf(sx[c], seq_long) <= seq_long
  BY <1>1, Types, PlaceInStores
<1>3. sx[c].active => obs[c].due <= PlaceOf(sx[c], seq_long)
  BY <1>1 DEF InTurn
<1> QED
  BY <1>1, <1>2, <1>3

\* What has been passed over when record i is sent.
LEMMA PassedByFile ==
  ASSUME MissedInv, NEW c \in Client, DeliverFromFile(c)
  PROVE  \E i \in Nat : \E t, q :
           /\ Sent(c, t, i, q) /\ obs[c].due <= i /\ PlaceOf(t, seq_long) = i + 1
           /\ t.sel = sx[c].sel /\ t.eod = sx[c].eod
           /\ \A j \in obs[c].due .. (i - 1) : j < DiskLo \/ ~Matches(sx[c], j)
<1> DEFINE s == sx[c]
           d == obs[c].due
           p == PlaceOf(s, seq_long)
<1>1. /\ Fits(s, files, lo, seq_long) /\ s \in SX /\ d \in Nat
      /\ IInv /\ ClientTypes /\ ClientsFit
      /\ NoneMissed(s, d, DiskLo, seq_long)
      /\ seq_long \in Nat /\ p \in Nat
      /\ s.active => d <= p
  BY MissedFacts
<1>2. CanDeliver(c) /\ s.file_queue # None
  BY DEF DeliverFromFile
<1>3. PICK i \in p .. (seq_long - 1) :
        /\ \A j \in p .. (i - 1) : Skips(s, j)
        /\ Sent(c, [s EXCEPT !.file_queue = FileOf(i), !.readfd = i + 1,
                            !.seq = SeqOf(SeqRead(s, i) + 1)], i, SeqRead(s, i))
  BY PlaceIs DEF DeliverFromFile
<1>4. s.active
  BY <1>1, <1>2, ServedIsActive
<1> DEFINE t == [s EXCEPT !.file_queue = FileOf(i), !.readfd = i + 1,
                          !.seq = SeqOf(SeqRead(s, i) + 1)]
<1>5. i \in Nat /\ PlaceOf(t, seq_long) = i + 1 /\ Same(s, t)
  BY <1>1, <1>2, <1>4, FileDelivers
<1>6. Sent(c, t, i, SeqRead(s, i))
  BY <1>3
<1> HIDE DEF t
<1>7. d <= i
  BY <1>1, <1>3, <1>4, <1>5
<1>8. ASSUME NEW j \in d .. (i - 1) PROVE j < DiskLo \/ ~Matches(s, j)
  <2>1. CASE j < p
    <3>1. j \in d .. (p - 1)
      BY <1>1, <1>5, <2>1
    <3> QED
      BY <1>1, <1>4, <3>1 DEF NoneMissed
  <2>2. CASE ~(j < p)
    <3>1. j \in p .. (i - 1)
      BY <1>1, <1>5, <2>2
    <3> QED
      BY <1>3, <3>1 DEF Skips
  <2> QED
    BY <2>1, <2>2
<1> QED
  BY <1>5, <1>6, <1>7, <1>8 DEF Same

LEMMA PassedByMemory ==
  ASSUME MissedInv, NumbersFresh, NEW c \in Client, DeliverFromMemory(c)
  PROVE  \E i \in Nat : \E t, q :
           /\ Sent(c, t, i, q) /\ obs[c].due <= i /\ PlaceOf(t, seq_long) = i + 1
           /\ t.sel = sx[c].sel /\ t.eod = sx[c].eod
           /\ \A j \in obs[c].due .. (i - 1) : j < DiskLo \/ ~Matches(sx[c], j)
<1> DEFINE s == sx[c]
           d == obs[c].due
           p == PlaceOf(s, seq_long)
           b == s.buffer_queue
<1>1. /\ Fits(s, files, lo, seq_long) /\ s \in SX /\ d \in Nat /\ InTurn(s, d, seq_long)
      /\ IInv /\ ClientTypes /\ ClientsFit /\ OldNumber(s) /\ DiskLo <= lo
      /\ NoneMissed(s, d, DiskLo, seq_long)
      /\ seq_long \in Nat /\ p \in Nat
      /\ s.active => d <= p
  BY MissedFacts
<1>2. CanDeliver(c) /\ b # None /\ ReadsMemory(s)
  BY DEF DeliverFromMemory
<1>3. PICK i \in b .. (seq_long - 1) :
        /\ \A j \in b .. (i - 1) : ~Matches(s, j)
        /\ Sent(c, [s EXCEPT !.file_queue = None, !.readfd = None,
                            !.buffer_queue = NextBuffer(i), !.seq = SeqOf(i + 1)],
               i, SeqOf(i))
  BY DEF DeliverFromMemory
<1>4. s.active
  BY <1>1, <1>2, ServedIsActive
<1> DEFINE t == [s EXCEPT !.file_queue = None, !.readfd = None,
                          !.buffer_queue = NextBuffer(i), !.seq = SeqOf(i + 1)]
<1>5. i \in Nat /\ PlaceOf(t, seq_long) = i + 1 /\ Same(s, t)
  <2>1. i \in s.buffer_queue .. (seq_long - 1) /\ s.buffer_queue # None
    BY <1>2
  <2> HIDE DEF b
  <2> QED
    <3>1. IInv /\ Fits(s, files, lo, seq_long) /\ s.active
      BY <1>1, <1>4
    <3>2. Same(s, t)
      BY <2>1, <3>1, MemoryDelivers
    <3>3. PlaceOf(t, seq_long) = i + 1
      BY <2>1, <3>1, MemoryDelivers
    <3>4. i \in Nat
      BY <2>1, <3>1, MemoryDelivers
    <3> QED
      BY <3>2, <3>3, <3>4
<1>6. Sent(c, t, i, SeqOf(i))
  BY <1>3
<1> HIDE DEF t
<1>7. b \in Nat /\ b >= d
  BY <1>1, <1>2, <1>4, PlaceInStores DEF InTurn
<1>8. \A j \in p .. (b - 1) : ~Matches(s, j)
  BY <1>1, <1>2, <1>4, SkipsToMemory
<1>9. ASSUME NEW j \in d .. (i - 1) PROVE j < DiskLo \/ ~Matches(s, j)
  <2>1. CASE j < p
    <3>1. j \in d .. (p - 1)
      BY <1>1, <1>5, <2>1
    <3> QED
      BY <1>1, <1>4, <3>1 DEF NoneMissed
  <2>2. CASE ~(j < p) /\ j < b
    <3>1. j \in p .. (b - 1)
      BY <1>1, <1>5, <1>7, <2>2
    <3> QED
      BY <1>8, <3>1
  <2>3. CASE ~(j < b)
    <3>1. j \in b .. (i - 1)
      BY <1>1, <1>5, <1>7, <2>3
    <3> QED
      BY <1>3, <3>1
  <2> QED
    BY <2>1, <2>2, <2>3
<1>10. d <= i
  BY <1>1, <1>5, <1>7
<1> QED
  BY <1>5, <1>6, <1>9, <1>10 DEF Same

LEMMA PassedAtEnd ==
  ASSUME MissedInv, NumbersFresh, NEW c \in Client, DeliverNothing(c)
  PROVE  \A j \in obs[c].due .. (seq_long - 1) : j < DiskLo \/ ~Matches(sx[c], j)
<1> DEFINE s == sx[c]
           d == obs[c].due
           p == PlaceOf(s, seq_long)
           b == s.buffer_queue
           e == IF b # None THEN b ELSE seq_long
<1>1. /\ Fits(s, files, lo, seq_long) /\ s \in SX /\ d \in Nat /\ InTurn(s, d, seq_long)
      /\ IInv /\ ClientTypes /\ ClientsFit /\ OldNumber(s) /\ DiskLo <= lo
      /\ NoneMissed(s, d, DiskLo, seq_long)
      /\ seq_long \in Nat /\ p \in Nat
  BY MissedFacts
<1>2. /\ CanDeliver(c) /\ ReadsMemory(s)
      /\ b # None => \A i \in b .. (seq_long - 1) : ~Matches(s, i)
  BY DEF DeliverNothing
<1>3. s.active
  BY <1>1, <1>2, ServedIsActive
<1>4. \A j \in p .. (e - 1) : ~Matches(s, j)
  BY <1>1, <1>2, <1>3, SkipsToMemory
<1>5. b # None => b \in Nat
  BY <1>1, PlaceInStores
<1> TAKE j \in d .. (seq_long - 1)
<1>6. j \in Int /\ d <= j /\ j <= seq_long - 1
  BY <1>1
<1>7. CASE j < p
  <2>1. j \in d .. (p - 1)
    BY <1>1, <1>6, <1>7
  <2> QED
    BY <1>1, <1>3, <2>1 DEF NoneMissed
<1>8. CASE ~(j < p) /\ j < e
  <2>1. e \in Nat
    BY <1>1, <1>5
  <2> HIDE DEF e
  <2>2. j \in p .. (e - 1)
    BY <1>1, <1>6, <1>8, <2>1
  <2> QED
    BY <1>4, <2>2
<1>9. CASE ~(j < e)
  <2>1. b # None /\ ~(j < b)
    BY <1>1, <1>6, <1>9
  <2>2. j \in b .. (seq_long - 1)
    BY <1>1, <1>5, <1>6, <2>1
  <2> QED
    BY <1>2, <2>1, <2>2
<1> QED
  BY <1>7, <1>8, <1>9

\* What a record that arrives adds to the history, and what it may drop.
LEMMA RecordAdded ==
  ASSUME IInv, NEW k \in Kind, NewBuffer(k)
  PROVE  /\ seq_long' = seq_long + 1
         /\ \A j \in Nat : j < seq_long => rec'[j + 1] = rec[j + 1]
         /\ rec'[seq_long + 1] = k
         /\ DiskLo' \in Nat /\ DiskLo <= DiskLo'
         /\ DropsFile => DiskLo' = files[2].seq
<1>1. FilesTypeOK /\ FilesInv /\ seq_long \in Nat /\ rec \in Seq(Content) /\ k \in Content
  BY Types, ContentOfRecords DEF IInv, StoreTypeOK
<1>2. rec' = Append(rec, k) /\ seq_long' = seq_long + 1
      /\ DiskLo' = IF DropsFile THEN seq_long - FilesHold(MaxFiles - 1) ELSE DiskLo
  BY <1>1, NewBufferStores DEF NewBuffer
<1>3. /\ \A j \in Nat : j < seq_long => rec'[j + 1] = rec[j + 1]
      /\ rec'[seq_long + 1] = k
  <2>1. /\ \A i \in 1 .. Len(rec) : Append(rec, k)[i] = rec[i]
        /\ Append(rec, k)[Len(rec) + 1] = k
    BY <1>1, AppendProperties
  <2>2. \A j \in Nat : j < seq_long => j + 1 \in 1 .. Len(rec)
    BY <1>1 DEF seq_long
  <2> QED
    BY <1>2, <2>1, <2>2 DEF seq_long
<1>4. DiskLo \in Nat
  BY <1>1, DiskExtent
<1>5. CASE DropsFile
  <2>1. DiskLo' = files[2].seq /\ files[2].seq \in Nat
    BY <1>1, <1>2, <1>5, SecondFile
  <2>2. DiskLo = files[1].seq /\ files[1].seq \in Nat
        /\ files[2].seq = files[1].seq + files[1].nbuf /\ files[1].nbuf \in Nat
    <3>1. files[2].seq = FileEnd(1) /\ files # <<>> /\ 1 \in 1 .. Len(files)
      BY <1>1, <1>5, SecondFile
    <3> QED
      BY <1>1, <3>1, RowElements DEF FilesTypeOK, DiskLo, FileEnd
  <2> QED
    <3>1. DiskLo <= files[2].seq
      BY <2>1, <2>2
    <3>2. DiskLo' \in Nat /\ DiskLo <= DiskLo'
      BY <2>1, <3>1, Zenon
    <3> QED
      BY <1>2, <1>3, <2>1, <3>2, Zenon
<1>6. CASE ~DropsFile
  <2>1. DiskLo' = DiskLo
    BY <1>2, <1>6, Zenon
  <2>2. DiskLo' \in Nat /\ DiskLo <= DiskLo'
    BY <1>4, <2>1
  <2> QED
    BY <1>2, <1>3, <1>6, <2>2, Zenon
<1> QED
  BY <1>5, <1>6

LEMMA CaseMissed ==
  ASSUME DiskLargeEnough, NumbersFresh, MissedInv, NEW c \in Client, ClientCase(c)
  PROVE  sx'[c].active =>
           \A j \in obs'[c].due .. (PlaceOf(sx'[c], seq_long') - 1) :
             j < DiskLo' \/ rec'[j + 1] \notin sx'[c].sel
<1> DEFINE s == sx[c]
           d == obs[c].due
           p == PlaceOf(s, seq_long)
<1>1. /\ Fits(s, files, lo, seq_long) /\ s \in SX /\ d \in Nat /\ InTurn(s, d, seq_long)
      /\ IInv /\ ClientTypes /\ ClientsFit /\ OldNumber(s) /\ DiskLo <= lo
      /\ NoneMissed(s, d, DiskLo, seq_long)
      /\ seq_long \in Nat /\ p \in Nat /\ p <= seq_long /\ DiskLo \in Nat /\ lo \in Nat
      /\ s.active => d <= p
  BY MissedFacts
<1>2. s.active => \A j \in d .. (p - 1) : j < DiskLo \/ rec[j + 1] \notin s.sel
  BY <1>1 DEF NoneMissed, Matches
<1> SUFFICES ASSUME sx'[c].active
             PROVE  \A j \in obs'[c].due .. (PlaceOf(sx'[c], seq_long') - 1) :
                      j < DiskLo' \/ rec'[j + 1] \notin sx'[c].sel
  OBVIOUS
<1>3. ASSUME UNCHANGED <<rec, files>>, obs'[c] = obs[c], s.active, sx'[c].sel = s.sel,
             PlaceOf(sx'[c], seq_long) = p
      PROVE  \A j \in obs'[c].due .. (PlaceOf(sx'[c], seq_long') - 1) :
               j < DiskLo' \/ rec'[j + 1] \notin sx'[c].sel
  <2>1. seq_long' = seq_long /\ DiskLo' = DiskLo /\ rec' = rec
    BY <1>3 DEF seq_long, DiskLo
  <2> QED
    BY <1>2, <1>3, <2>1
<1>4. CASE Untouched(c)
  <2>1. CASE UNCHANGED <<rec, lo, files>>
    BY <1>3, <1>4, <2>1 DEF Untouched
  <2>2. CASE sx[c] = IdleSX /\ obs[c] = IdleObs
    <3>1. ~IdleSX.active
      BY DEF IdleSX
    <3> QED
      BY <1>4, <2>2, <3>1 DEF Untouched
  <2> QED
    BY <1>4, <2>1, <2>2 DEF Untouched
<1>5. CASE Idled(c)
  BY <1>5 DEF Idled, IdleSX
<1>6. CASE LosesBuffer(c)
  <2>1. sx'[c] = DeleteOldestBuffer(s) /\ obs'[c] = obs[c] /\ UNCHANGED <<rec, files>>
        /\ held < MaxHeld /\ PoolIsFull
    BY <1>6 DEF LosesBuffer, GetBuffer
  <2>2. lo < seq_long
    BY <1>1, <2>1, Types DEF PoolIsFull
  <2>3. PlaceOf(sx'[c], seq_long) = p
    BY <1>1, <2>1, <2>2, BufferGoesInTurn
  <2>4. sx'[c].active = s.active /\ sx'[c].sel = s.sel
    <3> DEFINE q == SeqOf(lo)
    <3>1. FilesTypeOK /\ FilesInv
      BY <1>1, Types DEF IInv
    <3> HIDE DEF s
    <3> QED
      BY <1>1, <2>1, <3>1, BufferDeleted DEF Same
  <2> QED
    BY <1>3, <2>1, <2>3, <2>4
<1>7. ASSUME NEW k \in Kind, GetsRecord(c, k)
      PROVE  \A j \in obs'[c].due .. (PlaceOf(sx'[c], seq_long') - 1) :
               j < DiskLo' \/ rec'[j + 1] \notin sx'[c].sel
  <2> DEFINE u == DeleteOldestSegment(s)
             hs == cx[c].handshaking_done
             t == Arrive(u, k, hs)
             n == seq_long
  <2>1. sx'[c] = t /\ obs'[c] = obs[c] /\ held > 0 /\ NewBuffer(k)
    BY <1>7 DEF GetsRecord, QueueBuffer
  <2>2. /\ seq_long' = n + 1
        /\ \A j \in Nat : j < n => rec'[j + 1] = rec[j + 1]
        /\ rec'[n + 1] = k
        /\ DiskLo' \in Nat /\ DiskLo <= DiskLo'
        /\ DropsFile => DiskLo' = files[2].seq
    BY <1>1, <2>1, RecordAdded
  <2>3. hs \in BOOLEAN
    BY <1>1 DEF ClientTypes, CX
  <2>4. /\ InTurn(u, d, n) /\ PlaceOf(u, n) \in Nat /\ PlaceOf(u, n) <= n
        /\ \/ PlaceOf(u, n) = p
           \/ DropsFile /\ PlaceOf(u, n) = files[2].seq /\ p <= PlaceOf(u, n)
    BY <1>1, <2>1, SegmentGoesInTurn
  <2>5. u \in SX /\ u.file_queue \in Int
    <3>1. Fits(u, FilesAfterStore, lo, seq_long)
      BY <1>1, SegmentGoesFits
    <3> QED
      BY <3>1, FieldTypes DEF Fits
  <2>6. u.active = s.active /\ u.sel = s.sel
    <3>1. FilesTypeOK /\ FilesInv
      BY <1>1, Types DEF IInv
    <3> QED
      BY <1>1, <3>1, SegmentDeleted DEF Same
  <2> HIDE DEF u, hs
  <2>7. /\ t.active = u.active /\ t.sel = u.sel
        /\ \/ PlaceOf(t, n + 1) = PlaceOf(u, n)
           \/ /\ PlaceOf(u, n) = n /\ PlaceOf(t, n + 1) = n + 1
              /\ u.active => k \notin u.sel
    BY <1>1, <2>3, <2>4, <2>5, ArriveInTurn
  <2> HIDE DEF t
  <2>8. s.active
    BY <2>1, <2>6, <2>7
  <2> DEFINE y == PlaceOf(u, n)
             z == PlaceOf(t, n + 1)
  <2>9. ASSUME NEW j \in d .. (y - 1) PROVE j < DiskLo' \/ rec'[j + 1] \notin s.sel
    <3>1. j \in Nat /\ j < n /\ rec'[j + 1] = rec[j + 1]
      BY <1>1, <2>2, <2>4
    <3>2. CASE j < p
      <4>1. j < DiskLo \/ rec[j + 1] \notin s.sel
        <5>1. j \in d .. (p - 1)
          BY <1>1, <3>2
        <5> QED
          BY <1>2, <2>8, <5>1
      <4> QED
        BY <1>1, <2>2, <3>1, <4>1
    <3>3. CASE ~(j < p)
      <4>1. y # p
        BY <1>1, <3>3
      <4>2. DropsFile /\ y = files[2].seq
        BY <2>4, <4>1
      <4>3. DiskLo' = y
        BY <2>2, <4>2
      <4> QED
        BY <2>4, <4>3
    <3> QED
      BY <3>2, <3>3
  <2>10. ASSUME NEW j \in d .. (z - 1) PROVE j < DiskLo' \/ rec'[j + 1] \notin s.sel
    <3>1. CASE j \in d .. (y - 1)
      BY <2>9, <3>1
    <3>2. CASE j \notin d .. (y - 1)
      <4>1. z # y
        BY <3>2
      <4>2. y = n /\ z = n + 1 /\ k \notin s.sel
        BY <2>6, <2>7, <2>8, <4>1
      <4> HIDE DEF y, z
      <4>3. j = n
        BY <1>1, <3>2, <4>2
      <4> QED
        BY <2>2, <4>2, <4>3
    <3> QED
      BY <3>1, <3>2
  <2> QED
    BY <2>1, <2>2, <2>6, <2>7, <2>10
<1>8. CASE Forgets(c)
  BY <1>8 DEF Forgets
<1>9. CASE Subscribes(c)
  <2> DEFINE x == PlaceOf(sx'[c], seq_long)
  <2>1. obs'[c].due = x /\ seq_long' = seq_long /\ x \in Nat
    <3>1. sx'[c] \in SX /\ sx'[c].active /\ FoundPlace(sx'[c])
          /\ obs'[c] = [due |-> PlaceOf(sx'[c], seq_long), label |-> Uninit]
          /\ seq_long' = seq_long
      BY <1>9 DEF Subscribes, store, seq_long
    <3>2. x \in Nat
      BY <1>1, <3>1, SubscribedFits
    <3> HIDE DEF x
    <3> QED
      BY <3>1, <3>2 DEF x
  <2> HIDE DEF x
  <2>2. \A j \in x .. (x - 1) : FALSE
    BY <2>1
  <2> QED
    BY <2>1, <2>2 DEF x
<1>10. ASSUME NEW i \in Nat, NEW t, NEW q, Sent(c, t, i, q), PlaceOf(t, seq_long) = i + 1
       PROVE  \A j \in obs'[c].due .. (PlaceOf(sx'[c], seq_long') - 1) :
                j < DiskLo' \/ rec'[j + 1] \notin sx'[c].sel
  <2>1. UNCHANGED <<rec, lo, files>> /\ sx'[c] = t /\ obs'[c].due = i + 1
    <3>1. UNCHANGED <<rec, lo, files>> /\ sx'[c] = t /\ obs'[c] = [due |-> i + 1, label |-> q]
      BY <1>1, <1>10, SentIs
    <3> QED
      BY <3>1
  <2>2. PlaceOf(sx'[c], seq_long') = i + 1
    BY <1>10, <2>1 DEF seq_long
  <2>3. \A j \in (i + 1) .. ((i + 1) - 1) : FALSE
    OBVIOUS
  <2> QED
    BY <2>1, <2>2, <2>3
<1>11. CASE DeliverFromFile(c)
  BY <1>10, <1>11, PassedByFile
<1>12. CASE DeliverFromMemory(c)
  BY <1>10, <1>12, PassedByMemory
<1>13. CASE DeliverNothing(c)
  <2> DEFINE q == IF s.file_queue = None /\ s.buffer_queue = None THEN s.seq ELSE end_seq
             t == [s EXCEPT !.file_queue = None, !.readfd = None, !.buffer_queue = None,
                            !.ready = FALSE, !.seq = q,
                            !.active = s.realtime, !.eod = ~s.realtime]
  <2>1. CanDeliver(c) /\ UNCHANGED <<rec, lo, files, obs>> /\ sx'[c] = t
    BY <1>1, <1>13 DEF DeliverNothing, store, ClientTypes
  <2>2. q \in Int /\ (q = s.seq \/ q = end_seq)
    BY <1>1, FieldTypes, Numbers DEF end_seq
  <2>3. s.active
    BY <1>1, <2>1, ServedIsActive
  <2> HIDE DEF q
  <2>4. t.sel = s.sel /\ PlaceOf(t, seq_long) = seq_long
    BY <1>1, <2>2, <2>3, NothingDelivered
  <2> HIDE DEF t
  <2>5. seq_long' = seq_long /\ DiskLo' = DiskLo /\ rec' = rec /\ obs'[c] = obs[c]
    BY <2>1 DEF seq_long, DiskLo
  <2>6. \A j \in d .. (seq_long - 1) : j < DiskLo \/ rec[j + 1] \notin s.sel
    BY <1>13, PassedAtEnd DEF Matches
  <2> QED
    BY <2>1, <2>4, <2>5, <2>6
<1> QED
  BY <1>4, <1>5, <1>6, <1>7, <1>8, <1>9, <1>11, <1>12, <1>13 DEF ClientCase

LEMMA StepMissed ==
  ASSUME DiskLargeEnough, NumbersFresh, MissedInv, [Next]_vars
  PROVE  MissedInv'
<1>1. TurnInv /\ IInv /\ ClientTypes /\ NotUp
  BY DEF MissedInv, TurnInv, ClientInv
<1>2. TurnInv'
  BY <1>1, StepTurnInv
<1>3. \A c \in Client : ClientCase(c)
  BY <1>1, StepCases
<1>4. \A c \in Client : NoneMissed(sx[c], obs[c].due, DiskLo, seq_long)'
  BY <1>3, CaseMissed DEF NoneMissed, Matches, PlaceOf
<1> QED
  BY <1>2, <1>4 DEF MissedInv, ClientsMissNothing

LEMMA InitMissed == Init => MissedInv
<1> SUFFICES ASSUME Init PROVE MissedInv
  OBVIOUS
<1>1. \A c \in Client : ~sx[c].active
  BY DEF Init, IdleSX
<1> QED
  BY <1>1, InitTurnInv DEF MissedInv, ClientsMissNothing, NoneMissed

LEMMA MissedAlways ==
  ASSUME DiskLargeEnough
  PROVE  Spec /\ []NumbersFresh => []MissedInv
<1>1. NumbersFresh /\ MissedInv /\ [Next]_vars => MissedInv'
  BY StepMissed
<1> QED
  BY <1>1, InitMissed, PTL DEF Spec

\* A step that gives a client a packet is the delivery of a record.
LEMMA DeliversOne ==
  ASSUME NumbersFresh, MissedInv, NEW c \in Client, ClientCase(c), Delivered(c)
  PROVE  /\ obs'[c].due > obs[c].due
         /\ \A j \in obs[c].due .. (obs'[c].due - 2) : j < DiskLo \/ ~Matches(sx[c], j)
<1>1. obs[c].due \in Nat /\ ClientTypes
  BY MissedFacts
<1>2. obs'[c] # obs[c] /\ obs'[c].label # Uninit
  BY DEF Delivered
<1>3. ASSUME NEW i \in Nat, NEW t, NEW q, Sent(c, t, i, q), obs[c].due <= i,
             \A j \in obs[c].due .. (i - 1) : j < DiskLo \/ ~Matches(sx[c], j)
      PROVE  /\ obs'[c].due > obs[c].due
             /\ \A j \in obs[c].due .. (obs'[c].due - 2) : j < DiskLo \/ ~Matches(sx[c], j)
  <2>1. obs'[c].due = i + 1
    <3>1. obs'[c] = [due |-> i + 1, label |-> q]
      BY <1>1, <1>3, SentIs
    <3> QED
      BY <3>1
  <2>2. (i + 1) - 2 = i - 1 /\ i + 1 > obs[c].due
    BY <1>1, <1>3
  <2> QED
    BY <1>3, <2>1, <2>2
<1>4. CASE DeliverFromFile(c)
  BY <1>3, <1>4, PassedByFile
<1>5. CASE DeliverFromMemory(c)
  BY <1>3, <1>5, PassedByMemory
<1>6. ~Untouched(c) /\ ~LosesBuffer(c) /\ ~\E k \in Kind : GetsRecord(c, k)
  BY <1>2 DEF Untouched, LosesBuffer, GetsRecord
<1>7. ~DeliverNothing(c)
  BY <1>2 DEF DeliverNothing
<1>8. ~Idled(c) /\ ~Forgets(c)
  BY <1>2 DEF Idled, Forgets, IdleObs
<1>9. ~Subscribes(c)
  BY <1>2 DEF Subscribes
<1> QED
  BY <1>4, <1>5, <1>6, <1>7, <1>8, <1>9 DEF ClientCase

\* A record is sent after those that were sent before it, and what is passed over
\* the client does not select or it is no longer on disk, as long as the
\* numbers have not come round.  When they have, it may fail: a client whose
\* file has been deleted keeps the number of a record of that file, and when
\* the buffer it is queued for has got that number again, do_deliver takes it to
\* memory and past the records that are still in the files.
THEOREM SkipsNothing ==
  ASSUME DiskLargeEnough
  PROVE  Spec /\ []NumbersFresh => NoneSkipped
<1>1. ASSUME NumbersFresh, MissedInv, [Next]_vars
      PROVE  [\A c \in Client : Delivered(c) =>
                /\ obs'[c].due > obs[c].due
                /\ \A i \in obs[c].due .. (obs'[c].due - 2) :
                     i < DiskLo \/ ~Matches(sx[c], i)]_vars
  <2>1. \A c \in Client : ClientCase(c)
    BY <1>1, StepCases DEF MissedInv, TurnInv, ClientInv
  <2> QED
    BY <1>1, <2>1, DeliversOne
<1> QED
  BY <1>1, MissedAlways, PTL DEF Spec, NoneSkipped

\* Only when nothing is left does a client get its "END".
LEMMA EndsOnce ==
  ASSUME NumbersFresh, MissedInv, NEW c \in Client, ClientCase(c), ~sx[c].eod, sx'[c].eod
  PROVE  \A i \in obs[c].due .. (seq_long - 1) : i < DiskLo \/ ~Matches(sx[c], i)
<1>1. IInv /\ ClientTypes /\ ClientsFit /\ sx[c] \in SX /\ seq_long \in Nat
      /\ Fits(sx[c], files, lo, seq_long)
  BY MissedFacts
<1>2. FilesTypeOK /\ FilesInv
  BY <1>1, Types DEF IInv
<1>3. CASE DeliverNothing(c)
  BY <1>3, PassedAtEnd
<1>4. ASSUME NEW t, NEW i, NEW q, Sent(c, t, i, q), t.eod = sx[c].eod PROVE FALSE
  <2>1. sx'[c] = t
    BY <1>1, <1>4, SentIs
  <2> QED
    BY <1>4, <2>1
<1>5. ~DeliverFromFile(c)
  <2> SUFFICES ASSUME DeliverFromFile(c) PROVE FALSE
    OBVIOUS
  <2> QED
    BY <1>4, PassedByFile
<1>6. ~DeliverFromMemory(c)
  <2> SUFFICES ASSUME DeliverFromMemory(c) PROVE FALSE
    OBVIOUS
  <2> QED
    BY <1>4, PassedByMemory
<1>7. ~Untouched(c) /\ ~Idled(c) /\ ~Forgets(c) /\ ~Subscribes(c)
  BY DEF Untouched, Idled, IdleSX, Forgets, Subscribes
<1>8. ~LosesBuffer(c)
  <2> DEFINE u == DeleteOldestBuffer(sx[c])
  <2>1. u.eod = sx[c].eod
    BY <1>1, <1>2, BufferDeleted, Types DEF Same
  <2> QED
    BY <2>1 DEF LosesBuffer
<1>9. ASSUME NEW k \in Kind, GetsRecord(c, k) PROVE FALSE
  <2> DEFINE u == DeleteOldestSegment(sx[c])
             hs == cx[c].handshaking_done
  <2>1. u.eod = sx[c].eod
    BY <1>1, <1>2, SegmentDeleted DEF Same
  <2>2. u \in SX
    BY <1>1, SegmentGoesFits DEF Fits
  <2>3. hs \in BOOLEAN
    BY <1>1 DEF ClientTypes, CX
  <2>4. sx'[c] = Arrive(u, k, hs)
    BY <1>9 DEF GetsRecord
  <2> HIDE DEF u, hs
  <2> DEFINE t == Arrive(u, k, hs)
  <2>5. t.eod = u.eod
    BY <1>1, <2>2, <2>3, Arrived
  <2> HIDE DEF t
  <2> QED
    BY <2>1, <2>4, <2>5 DEF t
<1> QED
  BY <1>3, <1>5, <1>6, <1>7, <1>8, <1>9 DEF ClientCase

\* When a dial-up client gets its "END", every record that it selects and that is
\* still on disk has been sent to it, with the same proviso as in
\* SkipsNothing.
THEOREM EndIsTheEnd ==
  ASSUME DiskLargeEnough
  PROVE  Spec /\ []NumbersFresh => EndMeansAll
<1>1. ASSUME NumbersFresh, MissedInv, [Next]_vars
      PROVE  [\A c \in Client :
                (~sx[c].eod /\ sx'[c].eod) =>
                  \A i \in obs[c].due .. (seq_long - 1) :
                    i < DiskLo \/ ~Matches(sx[c], i)]_vars
  <2>1. \A c \in Client : ClientCase(c)
    BY <1>1, StepCases DEF MissedInv, TurnInv, ClientInv
  <2> QED
    BY <1>1, <2>1, EndsOnce
<1> QED
  BY <1>1, MissedAlways, PTL DEF Spec, EndMeansAll

-----------------------------------------------------------------------------
(* No number is used again.                                                *)

\* The blank records of a recovery can stand in for what a crash loses, and a
\* crash leaves something by which the recovery sees that the station is not new.
BlanksSuffice == MaxLost <= BlankBufs /\ MinSurvive >= 1

\* How far what has been delivered is ahead of what is stored: not at all while the
\* server is up, by the blank records still to come during a recovery, and by what
\* a crash may lose while the server is down.
Ahead ==
  /\ durable <= seq_long
  /\ xml => phase = "down" /\ issued <= seq_long
  /\ phase = "up" => issued <= seq_long
  /\ phase = "restoring" => issued <= seq_long + blanks /\ issued <= durable + MaxLost
  /\ phase = "down" => issued <= seq_long + MaxLost
  /\ issued > seq_long => seq_long > 0

LEMMA Bounds ==
  ASSUME ClientInv
  PROVE  /\ phase \in {"down", "restoring", "up"} /\ xml \in BOOLEAN
         /\ blanks \in Nat /\ blanks <= BlankBufs /\ BlankBufs \in Nat /\ durable \in Nat
         /\ seq_long \in Nat /\ issued \in Nat /\ MaxLost \in Nat /\ MinSurvive \in Nat
         /\ phase = "restoring" => blanks > 0
<1>1. BlankBufs \in Nat /\ MaxLost \in Nat /\ MinSurvive \in Nat
  BY StationAssumption
<1>2. IInv /\ issued \in Nat
  BY DEF ClientInv, ClientTypes
<1>3. /\ phase \in {"down", "restoring", "up"} /\ xml \in BOOLEAN
      /\ blanks \in 0 .. BlankBufs /\ durable \in Nat
      /\ phase = "restoring" => blanks > 0
  BY <1>2 DEF IInv, StoreTypeOK, WindowInv
<1> QED
  BY <1>1, <1>2, <1>3, Types

\* The handlers of an established connection deliver only what is stored.
LEMMA ServingKeepsStore ==
  ASSUME ClientInv, NEW c \in Client,
         Disconnect(c) \/ Command(c) \/ SendResponse(c) \/ Deliver(c)
  PROVE  /\ phase = "up" /\ UNCHANGED <<phase, xml, blanks, durable, rec>>
         /\ issued' = issued \/ issued' <= seq_long
<1> DEFINE s == sx[c]
<1>1. IInv /\ ClientTypes /\ ClientsFit /\ Fits(s, files, lo, seq_long) /\ s \in SX
      /\ seq_long \in Nat
  BY Types DEF ClientInv, ClientsFit, ClientTypes
<1> DEFINE Quiet == phase = "up" /\ UNCHANGED <<phase, xml, blanks, durable, rec, issued>>
<1>2. ASSUME NEW t, NEW i \in Nat, i < seq_long, NEW q, Sent(c, t, i, q)
      PROVE  UNCHANGED <<phase, xml, blanks, durable, rec>>
             /\ (issued' = issued \/ issued' <= seq_long)
  <2>1. issued' = (IF i + 1 > issued THEN i + 1 ELSE issued)
        /\ UNCHANGED <<phase, xml, blanks, durable, rec>>
    BY <1>2 DEF Sent, server, store
  <2> QED
    BY <1>1, <1>2, <2>1
<1>3. CASE DeliverFromFile(c)
  <2>1. CanDeliver(c) /\ s.file_queue # None
    BY <1>3 DEF DeliverFromFile
  <2>2. PICK i \in Place(s) .. (seq_long - 1) :
          Sent(c, [s EXCEPT !.file_queue = FileOf(i), !.readfd = i + 1,
                            !.seq = SeqOf(SeqRead(s, i) + 1)], i, SeqRead(s, i))
    BY <1>3 DEF DeliverFromFile
  <2>3. i \in Nat /\ i < seq_long
    BY <1>1, <2>2, PlaceIs, PlaceInStores
  <2> QED
    BY <1>2, <2>1, <2>2, <2>3 DEF CanDeliver
<1>4. CASE DeliverFromMemory(c)
  <2>1. CanDeliver(c) /\ s.buffer_queue # None
    BY <1>4 DEF DeliverFromMemory
  <2>2. PICK i \in s.buffer_queue .. (seq_long - 1) :
          Sent(c, [s EXCEPT !.file_queue = None, !.readfd = None,
                            !.buffer_queue = NextBuffer(i), !.seq = SeqOf(i + 1)],
               i, SeqOf(i))
    BY <1>4 DEF DeliverFromMemory
  <2>3. i \in Nat /\ i < seq_long
    BY <1>1, <2>1, <2>2, PlaceInStores
  <2> QED
    BY <1>2, <2>1, <2>2, <2>3 DEF CanDeliver
<1>5. CASE DeliverNothing(c)
  BY <1>5 DEF DeliverNothing, CanDeliver, server, store
<1>6. CASE Disconnect(c)
  BY <1>6 DEF Disconnect, server, store
<1>7. CASE SendResponse(c)
  BY <1>7 DEF SendResponse, server, store
<1>8. CASE Command(c)
  <2>1. ASSUME NEW S, Select(c, S) PROVE Quiet
    BY <2>1 DEF Select, server, store
  <2>2. ASSUME NEW rt, BadData(c, rt) PROVE Quiet
    BY <2>2 DEF BadData, server, store
  <2>3. ASSUME NEW t, NEW rt, NEW r, Subscribe(c, t, rt, r) PROVE Quiet
    BY <2>3 DEF Subscribe, server, store
  <2>4. ASSUME End(c) PROVE Quiet
    BY <2>4 DEF End, server, store
  <2>5. Quiet
    BY <1>8, <2>1, <2>2, <2>3, <2>4 DEF Command, DataNext, DataAll, DataFrom
  <2> QED
    BY <2>5
<1> QED
  BY <1>3, <1>4, <1>5, <1>6, <1>7, <1>8 DEF Deliver

\* How much a crash leaves.
LEMMA CrashLeaves ==
  ASSUME IInv, Crash
  PROVE  /\ phase # "down" /\ phase' = "down" /\ UNCHANGED <<xml, durable, issued>>
         /\ seq_long' \in Nat
         /\ \/ seq_long' = seq_long
            \/ /\ seq_long' >= seq_long - MaxLost /\ seq_long' >= durable
               /\ seq_long' >= MinSurvive
<1>1. phase # "down" /\ phase' = "down" /\ UNCHANGED <<xml, durable, issued>>
  BY DEF Crash, Stops
<1>2. CASE UNCHANGED <<rec, files, lo>>
  BY <1>1, <1>2, Types DEF seq_long
<1>3. ASSUME NEW m \in 1 .. MaxFiles, NEW n \in 0 .. FileSize, CrashUpTo(m, n)
      PROVE  /\ seq_long' \in Nat
             /\ seq_long' >= seq_long - MaxLost /\ seq_long' >= durable
             /\ seq_long' >= MinSurvive
  <2>1. seq_long' = lo' /\ lo' \in Nat
    BY <1>3, CrashCuts
  <2>2. lo' >= seq_long - MaxLost /\ lo' >= durable /\ lo' >= MinSurvive
    BY <1>3 DEF CrashUpTo
  <2> QED
    BY <2>1, <2>2
<1> QED
  BY <1>1, <1>2, <1>3 DEF Crash

LEMMA StepAhead ==
  ASSUME BlanksSuffice, ClientInv, Ahead, [Next]_vars
  PROVE  Ahead'
<1>1. /\ phase \in {"down", "restoring", "up"} /\ xml \in BOOLEAN
      /\ blanks \in Nat /\ blanks <= BlankBufs /\ BlankBufs \in Nat /\ durable \in Nat
      /\ seq_long \in Nat /\ issued \in Nat /\ MaxLost \in Nat /\ MinSurvive \in Nat
      /\ phase = "restoring" => blanks > 0
      /\ IInv
  BY Bounds DEF ClientInv
<1>2. MaxLost <= BlankBufs /\ MinSurvive >= 1
  BY DEF BlanksSuffice
<1>3. CASE UNCHANGED vars
  BY <1>3 DEF vars, server, store, Ahead, seq_long
<1>4. CASE GetBuffer
  BY <1>4 DEF GetBuffer, server, Ahead, seq_long
<1>5. ASSUME NEW k \in Kind, QueueBuffer(k) PROVE Ahead'
  <2>1. seq_long' = seq_long + 1
    BY <1>1, <1>5, NewBufferStores, ContentOfRecords DEF QueueBuffer
  <2>2. phase = "up" /\ UNCHANGED <<phase, xml, blanks, durable, issued>>
    BY <1>5 DEF QueueBuffer, server
  <2> QED
    BY <1>1, <2>1, <2>2 DEF Ahead
<1>6. ASSUME NEW c, NEW m, Connect(c, m) PROVE Ahead'
  BY <1>6 DEF Connect, server, store, Ahead, seq_long
<1>7. ASSUME NEW c \in Client, Disconnect(c) \/ Command(c) \/ SendResponse(c) \/ Deliver(c)
      PROVE  Ahead'
  <2>1. /\ phase = "up" /\ UNCHANGED <<phase, xml, blanks, durable>>
        /\ issued' = issued \/ issued' <= seq_long
        /\ seq_long' = seq_long
    BY <1>7, ServingKeepsStore DEF seq_long
  <2>2. issued <= seq_long /\ issued' <= seq_long /\ ~xml /\ durable <= seq_long
    BY <1>1, <2>1 DEF Ahead
  <2>3. ~(issued' > seq_long)
    <3>1. CASE issued' = issued
      BY <1>1, <2>2, <3>1
    <3>2. CASE issued' # issued
      <4>1. issued' \in Nat
        BY <1>1, <1>7, StepClientInv DEF Next, ClientInv, ClientTypes
      <4> QED
        BY <1>1, <2>2, <4>1
    <3> QED
      BY <3>1, <3>2
  <2> QED
    BY <1>1, <2>1, <2>2, <2>3 DEF Ahead
<1>8. CASE Terminate
  <2>1. phase = "up" /\ phase' = "down" /\ UNCHANGED <<rec, durable, issued>>
    BY <1>8 DEF Terminate, Stops
  <2>2. seq_long' = seq_long
    BY <2>1 DEF seq_long
  <2> QED
    BY <1>1, <2>1, <2>2 DEF Ahead
<1>9. CASE Crash
  <2>1. /\ phase # "down" /\ phase' = "down" /\ UNCHANGED <<xml, durable, issued>>
        /\ seq_long' \in Nat
        /\ \/ seq_long' = seq_long
           \/ /\ seq_long' >= seq_long - MaxLost /\ seq_long' >= durable
              /\ seq_long' >= MinSurvive
    BY <1>1, <1>9, CrashLeaves
  <2> DEFINE n == seq_long
             m == seq_long'
  <2>2. /\ durable <= n /\ ~xml
        /\ phase = "up" => issued <= n
        /\ phase = "restoring" => issued <= durable + MaxLost
        /\ issued > n => n > 0
        /\ phase = "up" \/ phase = "restoring"
    BY <1>1, <2>1 DEF Ahead
  <2>3. m = n \/ (m >= n - MaxLost /\ m >= durable /\ m >= MinSurvive)
    BY <1>1, <2>1
  <2>4. n \in Nat /\ m \in Nat
    BY <1>1, <2>1
  <2> HIDE DEF n, m
  <2>5. durable <= m /\ issued <= m + MaxLost /\ (issued > m => m > 0)
    BY <1>1, <1>2, <2>2, <2>3, <2>4
  <2> QED
    BY <2>1, <2>2, <2>5 DEF Ahead, n, m
<1>10. CASE Restart
  <2>1. /\ phase = "down" /\ durable' = seq_long /\ ~xml' /\ UNCHANGED <<rec, issued>>
    BY <1>10 DEF Restart
  <2>2. PICK recover \in Recovers :
          /\ phase' = IF recover /\ BlankBufs > 0 THEN "restoring" ELSE "up"
          /\ blanks' = IF recover THEN BlankBufs ELSE 0
    BY <1>10 DEF Restart
  <2>3. seq_long' = seq_long
    BY <2>1 DEF seq_long
  <2>4. issued <= seq_long + MaxLost /\ (issued > seq_long => seq_long > 0)
        /\ (xml => issued <= seq_long)
    BY <2>1 DEF Ahead
  <2>5. CASE xml
    <3>1. issued <= seq_long
      BY <2>4, <2>5
    <3> DEFINE b == blanks'
    <3>2. (phase' = "restoring" \/ phase' = "up") /\ b \in Nat
      BY <1>1, <2>2
    <3> HIDE DEF b
    <3>3. issued <= seq_long + b /\ issued <= seq_long + MaxLost
      BY <1>1, <3>1, <3>2
    <3>4. /\ phase' = "up" => issued' <= seq_long'
          /\ phase' = "restoring" => issued' <= seq_long' + b /\ issued' <= durable' + MaxLost
          /\ phase' # "down" /\ ~(issued' > seq_long') /\ durable' <= seq_long'
      BY <1>1, <2>1, <2>3, <3>1, <3>2, <3>3
    <3> QED
      BY <2>1, <3>4, Zenon DEF Ahead, b
  <2>6. CASE ~xml /\ seq_long = 0
    <3>1. ~recover
      BY <2>2, <2>6 DEF Recovers
    <3>2. phase' = "up" /\ issued <= seq_long
      BY <1>1, <2>2, <2>4, <2>6, <3>1
    <3> QED
      BY <1>1, <2>1, <2>3, <2>4, <3>2 DEF Ahead
  <2>7. CASE ~xml /\ seq_long # 0 /\ BlankBufs > 0
    <3>1. recover
      BY <2>2, <2>7 DEF Recovers
    <3>2. phase' = "restoring" /\ blanks' = BlankBufs
      BY <2>2, <2>7, <3>1
    <3>3. issued <= seq_long + BlankBufs
      BY <1>1, <1>2, <2>4
    <3> QED
      BY <1>1, <2>1, <2>3, <2>4, <3>2, <3>3 DEF Ahead
  <2>8. CASE ~xml /\ seq_long # 0 /\ ~(BlankBufs > 0)
    <3>1. phase' = "up"
      BY <2>2, <2>8
    <3>2. issued <= seq_long
      BY <1>1, <1>2, <2>4, <2>8
    <3> QED
      BY <1>1, <2>1, <2>3, <2>4, <3>1, <3>2 DEF Ahead
  <2> QED
    BY <2>5, <2>6, <2>7, <2>8
<1>11. CASE CreateBlank
  <2>1. /\ phase = "restoring" /\ blanks' = blanks - 1 /\ UNCHANGED <<xml, durable, issued>>
        /\ phase' = IF blanks = 1 THEN "up" ELSE "restoring"
    BY <1>11 DEF CreateBlank
  <2>2. seq_long' = seq_long + 1
    BY <1>1, <1>11, NewBufferStores, ContentOfRecords DEF CreateBlank
  <2>3. durable <= seq_long /\ ~xml /\ issued <= seq_long + blanks /\ issued <= durable + MaxLost
    BY <2>1 DEF Ahead
  <2>4. CASE blanks = 1
    BY <1>1, <2>1, <2>2, <2>3, <2>4 DEF Ahead
  <2>5. CASE blanks # 1
    BY <1>1, <2>1, <2>2, <2>3, <2>5 DEF Ahead
  <2> QED
    BY <2>4, <2>5
<1> QED
  BY <1>3, <1>4, <1>5, <1>6, <1>7, <1>8, <1>9, <1>10, <1>11 DEF Next

\* When a server that was killed is up again, no record it stores takes the
\* number of one that a client has received: the blank records of the recovery
\* have taken the numbers of those that were lost.  This needs as many blank
\* records as a crash can lose, and one record that survives it.
THEOREM NumbersStayNew ==
  ASSUME BlanksSuffice
  PROVE  Spec => []NumbersNotReused
<1>1. Init => Ahead
  <2> SUFFICES ASSUME Init PROVE Ahead
    OBVIOUS
  <2>1. phase = "up" /\ xml = FALSE /\ durable = 0 /\ issued = 0 /\ seq_long = 0
    BY EmptySeq DEF Init, seq_long
  <2> QED
    BY <2>1 DEF Ahead
<1>2. ClientInv /\ Ahead /\ [Next]_vars => Ahead'
  BY StepAhead
<1>3. Ahead => NumbersNotReused
  BY DEF Ahead, NumbersNotReused
<1> QED
  BY <1>1, <1>2, <1>3, ClientInvAlways, PTL DEF Spec

=============================================================================
