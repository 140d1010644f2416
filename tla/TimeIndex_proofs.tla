-------------------------- MODULE TimeIndex_proofs --------------------------
(***************************************************************************)
(* Proofs about TimeIndex: TIME leads a client to the disk, and to a place *)
(* before all that it wants, for any streams, files and numbers.           *)
(*                                                                         *)
(* The index names places by numbers modulo SeqSize.  The invariant says   *)
(* that each number stands for a place, a position in the history, and     *)
(* how these places lie among the records on disk.  As places are less     *)
(* than SeqSize apart, numbers can be compared by their distances.         *)
(***************************************************************************)
EXTENDS TimeIndex, SequenceTheorems, FiniteSetTheorems, WellFoundedInduction, TLAPS

\* a and b have the same number.
Same(a, b) == a % SeqSize = b % SeqSize

RecordType  == {Blank} \cup [stream : Stream, begin : Nat, end : Nat]
SegmentType == [end_time : Nat, end_seq : Nat]
StreamType  == [begin_time : Nat, begin_seq : Nat, segments : Seq(SegmentType)]
MapType     == UNION {[T -> StreamType] : T \in SUBSET Stream}
MonitorType == [begin_seq : Nat, end_seq : Nat, segment_count : Nat, stream_map : MapType]
FileType    == [seq : Nat, records : Seq(RecordType)]
PlacedType  == [at : Nat, rec : RecordType]

Capacity == MaxFiles * FileSize

-----------------------------------------------------------------------------
(* What the index says of a stream, in terms of places.  The stream has    *)
(* segments 1 .. n, the last ones of the N files, with the bounds B; its   *)
(* records on disk are D.  The place p[j] is where segment j ends, p[0]    *)
(* where the stream begins, and t[j] is the time there.                    *)

Rising(f, n) == \A i, j \in 0 .. n : i <= j => f[i] <= f[j]

\* A record lies before the place of its file and of all later ones, and the
\* times of the places are between those of the records.
Divides(p, t, n, D, B, N) ==
  \A d \in D :
    /\ p[0] <= d.at
    /\ \A j \in 0 .. n :
         /\ d.at < B[N - n + j] => d.at < p[j]
         /\ d.at < p[j] => d.rec.end <= t[j]
         /\ d.at >= p[j] => d.rec.begin >= t[j]

\* A place is after a record of the stream, unless no record is before it.
After(p, t, n, D) ==
  \A j \in 1 .. n : p[j] = p[0] \/ \E d \in D : d.at + 1 = p[j] /\ d.rec.end = t[j]

\* The oldest record left is not far from where the stream begins.
Near(p, D) == \E d \in D : d.at < p[0] + Capacity

Fits(p, t, n, D, B, N) ==
  /\ n \in 1 .. N /\ p \in [0 .. n -> Nat] /\ t \in [0 .. n -> Nat]
  /\ Rising(p, n) /\ Rising(t, n) /\ p[0] < p[n]
  /\ \A j \in 1 .. n : p[j] <= B[N - n + j]
  /\ Divides(p, t, n, D, B, N) /\ After(p, t, n, D) /\ Near(p, D)

\* The stream sm in the index has these places and times.
Says(sm, p, t, n) ==
  /\ Len(sm.segments) = n
  /\ sm.begin_time = t[0] /\ Same(sm.begin_seq, p[0])
  /\ \A j \in 1 .. n : /\ sm.segments[j].end_time = t[j]
                       /\ sm.segments[j].end_seq = NumberOf(p[j])

Known(sm, D, B, N) == \E n \in Nat : \E p, t \in [0 .. n -> Nat] :
                        Says(sm, p, t, n) /\ Fits(p, t, n, D, B, N)

Of(s, D) == {d \in D : d.rec.stream = s}

\* N files with the bounds B, and the records D in them.
Disk(D, B, N) ==
  /\ N \in Nat \ {0} /\ B \in [0 .. N -> Nat] /\ Rising(B, N)
  /\ D \subseteq PlacedType /\ \A d \in D : B[0] <= d.at /\ d.at < B[N]

Index(m, D, B, N) ==
  /\ m \in MonitorType /\ m.segment_count = N
  /\ \A d \in D : d.rec.stream \in DOMAIN m.stream_map \cup {None}
  /\ \A s \in DOMAIN m.stream_map : Known(m.stream_map[s], Of(s, D), B, N)

-----------------------------------------------------------------------------
(* The files.                                                              *)

Count(F) == IF F = <<>> THEN 1 ELSE Len(F)

\* Where the k-th file ends and the next one begins.
Bound(F, k) == IF F = <<>> THEN 0 ELSE IF k < Len(F) THEN F[k + 1].seq ELSE EndOf(F)

Bounds(F) == [k \in 0 .. Count(F) |-> Bound(F, k)]

\* The records of a file, with their positions.
RecordsOf(f) == {[at |-> f.seq + (i - 1), rec |-> f.records[i]] : i \in 1 .. Len(f.records)}

DiskOf(F) == UNION {RecordsOf(F[k]) : k \in 1 .. Len(F)}

\* Files follow one another; all but the last one are full.
Layout(F) ==
  /\ F \in Seq(FileType) /\ Len(F) <= MaxFiles
  /\ \A k \in 1 .. Len(F) : Len(F[k].records) <= FileSize
  /\ \A k \in 1 .. (Len(F) - 1) : /\ Len(F[k].records) = FileSize
                                  /\ F[k + 1].seq = F[k].seq + FileSize

\* The records of a stream come in the order of time, and have ended by u.
InTime(F, u) ==
  \A d \in DiskOf(F) : d.rec.stream # None =>
    /\ d.rec.begin <= d.rec.end /\ d.rec.end <= u[d.rec.stream]
    /\ \A e \in DiskOf(F) : d.rec.stream = e.rec.stream /\ d.at < e.at
                              => d.rec.end <= e.rec.begin

IndexOf(m, F) == Index(m, DiskOf(F), Bounds(F), Count(F))

\* The ends of the range of numbers.
Ends(m, F) == /\ m.begin_seq = NumberOf(Bound(F, 0))
              /\ m.end_seq = NumberOf(EndOf(F))

Inv ==
  /\ Layout(files) /\ upto \in [Stream -> Nat] /\ InTime(files, upto)
  /\ up \in BOOLEAN /\ xml \subseteq {monitor} /\ (up => xml = {})
  /\ up \/ xml # {} => IndexOf(monitor, files) /\ Ends(monitor, files)

-----------------------------------------------------------------------------
(* Types.                                                                  *)

LEMMA CapacityNat == Capacity \in Nat \ {0}
BY IndexAssumption DEF Capacity

LEMMA PlacedFields ==
  ASSUME NEW d \in PlacedType
  PROVE  /\ d.at \in Nat /\ d.rec \in RecordType /\ d.rec.begin \in Nat /\ d.rec.end \in Nat
         /\ d.rec.stream \in Stream \cup {None}
BY DEF PlacedType, RecordType, Blank

-----------------------------------------------------------------------------
(* The places of a stream when files come and go.                          *)

Shift(f, n) == [j \in 0 .. (n - 1) |-> f[j + 1]]

Kept(D, b) == {d \in D : d.at >= b}

\* The oldest file is deleted, in which the stream has a segment, and the
\* stream does not end there.
LEMMA FitsShift ==
  ASSUME NEW N \in Nat, N >= 2, NEW D, NEW B, Disk(D, B, N), B[N] <= B[0] + Capacity,
         NEW X \in SUBSET D, NEW p, NEW t, Fits(p, t, N, X, B, N), p[1] < p[N]
  PROVE  Fits(Shift(p, N), Shift(t, N), N - 1, Kept(X, B[1]), Shift(B, N), N - 1)
<1> DEFINE P == Shift(p, N)
           T == Shift(t, N)
           C == Shift(B, N)
           Y == Kept(X, B[1])
           M == N - 1
<1>1. /\ p \in [0 .. N -> Nat] /\ t \in [0 .. N -> Nat] /\ B \in [0 .. N -> Nat]
      /\ Rising(p, N) /\ Rising(t, N) /\ Rising(B, N) /\ M \in Nat
  BY SMTT(30) DEF Fits, Disk
<1>2. P \in [0 .. M -> Nat] /\ T \in [0 .. M -> Nat] /\ C \in [0 .. M -> Nat]
  BY <1>1 DEF Shift
<1>3. ASSUME NEW j \in 0 .. M
      PROVE  /\ j + 1 \in 1 .. N /\ j + 1 \in 0 .. N
             /\ P[j] = p[j + 1] /\ T[j] = t[j + 1] /\ C[j] = B[j + 1]
             /\ (M - M) + j = j /\ (N - N) + (j + 1) = j + 1
  BY <1>1 DEF Shift
<1>4. /\ 0 \in 0 .. M /\ M \in 0 .. M /\ 0 + 1 = 1 /\ M + 1 = N
      /\ 1 \in 1 .. N /\ 1 \in 0 .. N /\ 0 \in 0 .. N /\ N \in 1 .. N /\ N \in 0 .. N
      /\ (N - N) + 1 = 1 /\ (N - N) + 0 = 0 /\ 0 <= 1
  BY <1>1
<1>5. P[0] = p[1]
  BY <1>3, <1>4
<1>6. X \subseteq PlacedType /\ \A d \in X : B[0] <= d.at /\ d.at < B[N]
  BY DEF Disk
<1>7. /\ p[0] \in Nat /\ p[1] \in Nat /\ p[N] \in Nat /\ p[0] <= p[1] /\ p[0] < p[N]
      /\ p[1] <= B[1] /\ B[0] \in Nat /\ B[1] \in Nat /\ B[N] \in Nat /\ Capacity \in Nat
  BY <1>1, <1>4, CapacityNat DEF Fits, Rising
<1>8. \A d \in X : d.at >= p[1] => d \in Y
  <2> TAKE d \in X
  <2>1. d.at < B[1] => d.at < p[1]
    BY <1>4 DEF Fits, Divides
  <2>2. d.at \in Nat
    BY <1>6, PlacedFields
  <2> QED
    BY <1>7, <2>1, <2>2 DEF Kept
<1> HIDE DEF P, T, C, Y, M
<1>9. Rising(P, M) /\ Rising(T, M)
  <2> SUFFICES ASSUME NEW i \in 0 .. M, NEW j \in 0 .. M, i <= j
               PROVE  P[i] <= P[j] /\ T[i] <= T[j]
    BY DEF Rising
  <2>1. i + 1 <= j + 1
    BY <1>1
  <2> QED
    BY <1>1, <1>3, <2>1 DEF Rising
<1>10. P[0] < P[M]
  BY <1>3, <1>4, <1>5
<1>11. \A j \in 1 .. M : P[j] <= C[(M - M) + j]
  <2> TAKE j \in 1 .. M
  <2>1. j \in 0 .. M
    BY <1>1
  <2>2. p[j + 1] <= B[(N - N) + (j + 1)]
    BY <1>3, <2>1 DEF Fits
  <2> QED
    BY <1>3, <2>1, <2>2
<1>12. Divides(P, T, M, Y, C, M)
  <2> SUFFICES ASSUME NEW d \in Y
               PROVE  /\ P[0] <= d.at
                      /\ \A j \in 0 .. M :
                           /\ d.at < C[(M - M) + j] => d.at < P[j]
                           /\ d.at < P[j] => d.rec.end <= T[j]
                           /\ d.at >= P[j] => d.rec.begin >= T[j]
    BY DEF Divides
  <2>1. d \in X /\ d.at >= B[1]
    BY DEF Kept, Y
  <2>2. d.at \in Nat
    BY <1>6, <2>1, PlacedFields
  <2>3. P[0] <= d.at
    BY <1>5, <1>7, <2>1, <2>2
  <2>4. ASSUME NEW j \in 0 .. M
        PROVE  /\ d.at < C[(M - M) + j] => d.at < P[j]
               /\ d.at < P[j] => d.rec.end <= T[j]
               /\ d.at >= P[j] => d.rec.begin >= T[j]
    <3>1. /\ d.at < B[(N - N) + (j + 1)] => d.at < p[j + 1]
          /\ d.at < p[j + 1] => d.rec.end <= t[j + 1]
          /\ d.at >= p[j + 1] => d.rec.begin >= t[j + 1]
      BY <1>3, <2>1 DEF Fits, Divides
    <3> QED
      BY <1>3, <3>1
  <2> QED
    BY <2>3, <2>4
<1>13. After(P, T, M, Y)
  <2> SUFFICES ASSUME NEW j \in 1 .. M, P[j] # P[0]
               PROVE  \E d \in Y : d.at + 1 = P[j] /\ d.rec.end = T[j]
    BY DEF After
  <2>1. j \in 0 .. M
    BY <1>1
  <2>2. p[j + 1] # p[1] /\ p[j + 1] \in Nat /\ p[1] <= p[j + 1]
    <3>1. 1 <= j + 1
      BY <2>1
    <3> QED
      BY <1>1, <1>3, <1>4, <1>5, <2>1, <3>1 DEF Rising
  <2>3. p[j + 1] # p[0]
    BY <1>7, <2>2
  <2>4. PICK d \in X : d.at + 1 = p[j + 1] /\ d.rec.end = t[j + 1]
    BY <1>3, <2>1, <2>3 DEF Fits, After
  <2>5. d.at \in Nat
    BY <1>6, PlacedFields
  <2>6. d \in Y
    BY <1>7, <1>8, <2>2, <2>4, <2>5
  <2> QED
    BY <1>3, <2>1, <2>4, <2>6
<1>14. Near(P, Y)
  <2>1. CASE p[1] = p[0]
    <3>1. PICK d \in X : d.at < p[0] + Capacity
      BY DEF Fits, Near
    <3>2. p[0] <= d.at
      BY DEF Fits, Divides
    <3> QED
      BY <1>5, <1>8, <2>1, <3>1, <3>2 DEF Near
  <2>2. CASE p[1] # p[0]
    <3>1. PICK e \in X : e.at + 1 = p[1]
      BY <1>4, <2>2 DEF Fits, After
    <3>2. PICK d \in X : d.at + 1 = p[N]
      BY <1>4, <1>7, SMTT(30) DEF Fits, After
    <3>3. e.at \in Nat /\ d.at \in Nat /\ B[0] <= e.at /\ d.at < B[N]
      BY <1>6, PlacedFields
    <3>4. d.at >= p[1] /\ d.at < p[1] + Capacity
      BY <1>7, <3>1, <3>2, <3>3
    <3> QED
      BY <1>5, <1>8, <3>4 DEF Near
  <2> QED
    BY <2>1, <2>2
<1>15. M \in 1 .. M
  BY DEF M
<1> QED
  BY <1>2, <1>9, <1>10, <1>11, <1>12, <1>13, <1>14, <1>15 DEF Fits, P, T, C, Y, M

\* The oldest file is deleted, and the stream began in a later one: its records
\* are all kept.
LEMMA FitsLater ==
  ASSUME NEW N \in Nat, N >= 2, NEW D, NEW B, Disk(D, B, N),
         NEW X \in SUBSET D, NEW n \in Nat, n < N, NEW p, NEW t, Fits(p, t, n, X, B, N)
  PROVE  Kept(X, B[1]) = X /\ Fits(p, t, n, X, Shift(B, N), N - 1)
<1> DEFINE C == Shift(B, N)
           M == N - 1
<1>1. /\ p \in [0 .. n -> Nat] /\ B \in [0 .. N -> Nat] /\ Rising(B, N) /\ M \in Nat
      /\ n \in 1 .. N
  BY DEF Fits, Disk
<1>2. ASSUME NEW j \in 0 .. n
      PROVE  C[(M - n) + j] = B[(N - n) + j]
  <2>1. (M - n) + j \in 0 .. M /\ ((M - n) + j) + 1 = (N - n) + j
    BY <1>1
  <2> QED
    BY <2>1 DEF Shift
<1>3. Kept(X, B[1]) = X
  <2> SUFFICES ASSUME NEW d \in X PROVE d.at >= B[1]
    BY DEF Kept
  <2>1. 0 \in 0 .. n /\ (N - n) + 0 \in 0 .. N /\ 1 <= (N - n) + 0 /\ 1 \in 0 .. N
    BY <1>1
  <2>2. B[1] <= B[(N - n) + 0] /\ B[1] \in Nat /\ B[(N - n) + 0] \in Nat /\ p[0] \in Nat
    BY <1>1, <2>1 DEF Rising
  <2>3. p[0] <= d.at /\ (d.at < B[(N - n) + 0] => d.at < p[0])
    BY <2>1 DEF Fits, Divides
  <2>4. d.at \in Nat
    BY PlacedFields DEF Disk
  <2> QED
    BY <2>2, <2>3, <2>4
<1> HIDE DEF C
<1>4. \A j \in 1 .. n : p[j] <= C[(M - n) + j]
  BY <1>2 DEF Fits
<1>5. Divides(p, t, n, X, C, M)
  <2> SUFFICES ASSUME NEW d \in X, NEW j \in 0 .. n
               PROVE  /\ p[0] <= d.at
                      /\ d.at < C[(M - n) + j] => d.at < p[j]
                      /\ d.at < p[j] => d.rec.end <= t[j]
                      /\ d.at >= p[j] => d.rec.begin >= t[j]
    BY <1>1 DEF Divides
  <2> QED
    BY <1>2 DEF Fits, Divides
<1>6. n \in 1 .. M
  BY <1>1
<1> QED
  BY <1>3, <1>4, <1>5, <1>6 DEF Fits, C

Extend(f, n, x) == [j \in 0 .. (n + 1) |-> IF j = n + 1 THEN x ELSE f[j]]

LEMMA ExtendRises ==
  ASSUME NEW n \in Nat, NEW f \in [0 .. n -> Nat], Rising(f, n)
  PROVE  Extend(f, n, f[n]) \in [0 .. (n + 1) -> Nat] /\ Rising(Extend(f, n, f[n]), n + 1)
<1> DEFINE g == Extend(f, n, f[n])
<1>1. n \in 0 .. n
  OBVIOUS
<1>2. g \in [0 .. (n + 1) -> Nat]
  BY <1>1 DEF Extend
<1>3. ASSUME NEW j \in 0 .. (n + 1)
      PROVE  \/ j = n + 1 /\ g[j] = f[n]
             \/ j \in 0 .. n /\ g[j] = f[j]
  BY DEF Extend
<1> HIDE DEF g
<1>4. ASSUME NEW i \in 0 .. (n + 1), NEW j \in 0 .. (n + 1), i <= j
      PROVE  g[i] <= g[j]
  <2>1. CASE i = n + 1
    BY <1>4, <1>1, <1>2, <2>1
  <2>2. CASE i \in 0 .. n /\ g[i] = f[i]
    BY <1>1, <1>3, <1>4, <2>2 DEF Rising
  <2> QED
    BY <1>3, <2>1, <2>2
<1> QED
  BY <1>2, <1>4 DEF Rising, g

\* A new file is begun: the stream ends in it where it ended before.
LEMMA FitsExtend ==
  ASSUME NEW N \in Nat, NEW B \in [0 .. N -> Nat],
         NEW X, NEW n \in Nat, NEW p, NEW t, Fits(p, t, n, X, B, N)
  PROVE  Fits(Extend(p, n, p[n]), Extend(t, n, t[n]), n + 1, X, Extend(B, N, B[N]), N + 1)
<1> DEFINE P == Extend(p, n, p[n])
           T == Extend(t, n, t[n])
           C == Extend(B, N, B[N])
           m == n + 1
           M == N + 1
<1>1. /\ p \in [0 .. n -> Nat] /\ t \in [0 .. n -> Nat] /\ n \in 1 .. N
      /\ Rising(p, n) /\ Rising(t, n) /\ p[0] < p[n]
  BY DEF Fits
<1>2. P \in [0 .. m -> Nat] /\ T \in [0 .. m -> Nat] /\ Rising(P, m) /\ Rising(T, m)
  BY <1>1, ExtendRises
<1>3. ASSUME NEW j \in 0 .. m
      PROVE  \E k \in 0 .. n : /\ P[j] = p[k] /\ T[j] = t[k] /\ C[(M - m) + j] = B[(N - n) + k]
                               /\ j # 0 => k # 0
                               /\ j = 0 => k = 0
  <2>1. CASE j = m
    <3>1. (M - m) + j = N + 1 /\ (N - n) + n = N /\ N + 1 \in 0 .. (N + 1) /\ n \in 0 .. n /\ n # 0
      BY <1>1, <2>1
    <3>2. P[j] = p[n] /\ T[j] = t[n] /\ C[(M - m) + j] = B[(N - n) + n]
      BY <2>1, <3>1 DEF Extend
    <3> QED
      BY <2>1, <3>1, <3>2
  <2>2. CASE j \in 0 .. n
    <3>1. (M - m) + j = (N - n) + j /\ (N - n) + j \in 0 .. (N + 1) /\ (N - n) + j # N + 1 /\ j # n + 1
      BY <1>1, <2>2
    <3>2. P[j] = p[j] /\ T[j] = t[j] /\ C[(M - m) + j] = B[(N - n) + j]
      BY <2>2, <3>1 DEF Extend
    <3> QED
      BY <2>2, <3>2
  <2> QED
    BY <2>1, <2>2
<1>4. P[0] = p[0] /\ P[m] = p[n]
  <2>1. 0 \in 0 .. (n + 1) /\ 0 # n + 1 /\ n + 1 \in 0 .. (n + 1)
    OBVIOUS
  <2> QED
    BY <2>1 DEF Extend
<1>5. m \in 1 .. M /\ \A j \in 1 .. m : j \in 0 .. m /\ j # 0
  BY <1>1
<1> HIDE DEF P, T, C, m, M
<1>6. \A j \in 1 .. m : P[j] <= C[(M - m) + j]
  <2> TAKE j \in 1 .. m
  <2>1. PICK k \in 0 .. n : P[j] = p[k] /\ C[(M - m) + j] = B[(N - n) + k] /\ k # 0
    BY <1>3, <1>5
  <2>2. k \in 1 .. n
    BY <2>1
  <2> QED
    BY <2>1, <2>2 DEF Fits
<1>7. Divides(P, T, m, X, C, M)
  <2> SUFFICES ASSUME NEW d \in X
               PROVE  /\ P[0] <= d.at
                      /\ \A j \in 0 .. m :
                           /\ d.at < C[(M - m) + j] => d.at < P[j]
                           /\ d.at < P[j] => d.rec.end <= T[j]
                           /\ d.at >= P[j] => d.rec.begin >= T[j]
    BY DEF Divides
  <2>1. P[0] <= d.at
    BY <1>4 DEF Fits, Divides
  <2>2. ASSUME NEW j \in 0 .. m
        PROVE  /\ d.at < C[(M - m) + j] => d.at < P[j]
               /\ d.at < P[j] => d.rec.end <= T[j]
               /\ d.at >= P[j] => d.rec.begin >= T[j]
    <3>1. PICK k \in 0 .. n : P[j] = p[k] /\ T[j] = t[k] /\ C[(M - m) + j] = B[(N - n) + k]
      BY <1>3
    <3>2. /\ d.at < B[(N - n) + k] => d.at < p[k]
          /\ d.at < p[k] => d.rec.end <= t[k]
          /\ d.at >= p[k] => d.rec.begin >= t[k]
      BY DEF Fits, Divides
    <3> QED
      BY <3>1, <3>2
  <2> QED
    BY <2>1, <2>2
<1>8. After(P, T, m, X)
  <2> SUFFICES ASSUME NEW j \in 1 .. m, P[j] # P[0]
               PROVE  \E d \in X : d.at + 1 = P[j] /\ d.rec.end = T[j]
    BY DEF After
  <2>1. PICK k \in 0 .. n : P[j] = p[k] /\ T[j] = t[k] /\ k # 0
    BY <1>3, <1>5
  <2>2. k \in 1 .. n /\ p[k] # p[0]
    BY <1>4, <2>1
  <2> QED
    BY <2>1, <2>2 DEF Fits, After
<1>9. Near(P, X)
  BY <1>4 DEF Fits, Near
<1> QED
  BY <1>1, <1>2, <1>4, <1>5, <1>6, <1>7, <1>8, <1>9 DEF Fits, P, T, C, m, M

\* The last file grows by a record.
Grown(B, N) == [k \in 0 .. N |-> IF k = N THEN B[N] + 1 ELSE B[k]]

\* The record of another stream.
LEMMA FitsOther ==
  ASSUME NEW N \in Nat, NEW D, NEW B, Disk(D, B, N),
         NEW X \in SUBSET D, NEW n \in Nat, NEW p, NEW t, Fits(p, t, n, X, B, N)
  PROVE  Fits(p, t, n, X, Grown(B, N), N)
<1> DEFINE C == Grown(B, N)
<1>1. B \in [0 .. N -> Nat] /\ n \in 1 .. N /\ p \in [0 .. n -> Nat]
  BY DEF Fits, Disk
<1>2. ASSUME NEW j \in 0 .. n
      PROVE  \/ j = n /\ C[(N - n) + j] = B[(N - n) + j] + 1 /\ (N - n) + j = N
             \/ j # n /\ C[(N - n) + j] = B[(N - n) + j]
  <2>1. (N - n) + j \in 0 .. N /\ ((N - n) + j = N <=> j = n)
    BY <1>1
  <2> QED
    BY <2>1 DEF Grown
<1>3. \A j \in 0 .. n : B[(N - n) + j] \in Nat
  <2> TAKE j \in 0 .. n
  <2>1. (N - n) + j \in 0 .. N
    BY <1>1
  <2> QED
    BY <1>1, <2>1
<1> HIDE DEF C
<1>4. \A j \in 1 .. n : p[j] <= C[(N - n) + j]
  <2> TAKE j \in 1 .. n
  <2>1. j \in 0 .. n /\ p[j] <= B[(N - n) + j] /\ p[j] \in Nat
    BY <1>1 DEF Fits
  <2> QED
    BY <1>2, <1>3, <2>1
<1>5. Divides(p, t, n, X, C, N)
  <2> SUFFICES ASSUME NEW d \in X
               PROVE  /\ p[0] <= d.at
                      /\ \A j \in 0 .. n :
                           /\ d.at < C[(N - n) + j] => d.at < p[j]
                           /\ d.at < p[j] => d.rec.end <= t[j]
                           /\ d.at >= p[j] => d.rec.begin >= t[j]
    BY DEF Divides
  <2>1. p[0] <= d.at
    BY DEF Fits, Divides
  <2>2. ASSUME NEW j \in 0 .. n
        PROVE  /\ d.at < C[(N - n) + j] => d.at < p[j]
               /\ d.at < p[j] => d.rec.end <= t[j]
               /\ d.at >= p[j] => d.rec.begin >= t[j]
    <3>1. /\ d.at < B[(N - n) + j] => d.at < p[j]
          /\ d.at < p[j] => d.rec.end <= t[j]
          /\ d.at >= p[j] => d.rec.begin >= t[j]
      BY DEF Fits, Divides
    <3>2. d.at < B[N] /\ d.at \in Nat
      BY PlacedFields DEF Disk
    <3> QED
      BY <1>2, <3>1, <3>2
  <2> QED
    BY <2>1, <2>2
<1> QED
  BY <1>4, <1>5 DEF Fits, C

\* The function f with the value x at n.
With(f, n, x) == [j \in 0 .. n |-> IF j = n THEN x ELSE f[j]]

LEMMA WithRises ==
  ASSUME NEW n \in Nat, NEW f \in [0 .. n -> Nat], Rising(f, n), NEW x \in Nat, x >= f[n]
  PROVE  With(f, n, x) \in [0 .. n -> Nat] /\ Rising(With(f, n, x), n)
<1>1. ASSUME NEW i \in 0 .. n, NEW j \in 0 .. n, i <= j
      PROVE  With(f, n, x)[i] <= With(f, n, x)[j]
  <2>1. f[i] <= f[j] /\ f[j] <= f[n] /\ f[i] <= f[n]
    BY <1>1 DEF Rising
  <2> QED
    BY <1>1, <2>1 DEF With
<1> QED
  BY <1>1 DEF Rising, With

New(B, N, r) == [at |-> B[N], rec |-> r]

\* A record of the stream, which is later than all that are there.
LEMMA FitsOwn ==
  ASSUME NEW N \in Nat, NEW D, NEW B, Disk(D, B, N),
         NEW X \in SUBSET D, NEW n \in Nat, NEW p, NEW t, Fits(p, t, n, X, B, N),
         NEW r \in RecordType, r.begin <= r.end, \A d \in X : d.rec.end <= r.begin
  PROVE  Fits(With(p, n, B[N] + 1), With(t, n, r.end), n, X \cup {New(B, N, r)},
              Grown(B, N), N)
<1> DEFINE e == New(B, N, r)
           P == With(p, n, B[N] + 1)
           T == With(t, n, r.end)
           C == Grown(B, N)
           Y == X \cup {e}
<1>1. /\ p \in [0 .. n -> Nat] /\ t \in [0 .. n -> Nat] /\ n \in 1 .. N /\ N \in Nat \ {0}
      /\ Rising(p, n) /\ Rising(t, n) /\ p[0] < p[n] /\ B \in [0 .. N -> Nat] /\ Rising(B, N)
  BY DEF Fits, Disk
<1>2. n \in 0 .. n /\ n \in 1 .. n /\ 0 \in 0 .. n /\ n # 0 /\ N \in 0 .. N /\ (N - n) + n = N
  BY <1>1
<1>3. /\ p[n] \in Nat /\ t[n] \in Nat /\ B[N] \in Nat /\ p[0] \in Nat /\ r.begin \in Nat
      /\ r.end \in Nat /\ p[n] <= B[N]
  <2>1. p[n] <= B[(N - n) + n]
    BY <1>2 DEF Fits
  <2>2. r.begin \in Nat /\ r.end \in Nat
    BY DEF RecordType, Blank
  <2> QED
    BY <1>1, <1>2, <2>1, <2>2
<1>4. t[n] <= r.begin
  <2>1. PICK d \in X : d.rec.end = t[n]
    <3>1. p[n] # p[0]
      BY <1>1, <1>3
    <3> QED
      BY <1>2, <3>1 DEF Fits, After
  <2> QED
    BY <2>1
<1>5. e.at = B[N] /\ e.rec = r
  BY DEF New
<1>6. P \in [0 .. n -> Nat] /\ T \in [0 .. n -> Nat] /\ Rising(P, n) /\ Rising(T, n)
  <2>1. B[N] + 1 \in Nat /\ B[N] + 1 >= p[n] /\ r.end >= t[n]
    BY <1>3, <1>4
  <2> QED
    BY <1>1, <1>3, <2>1, WithRises
<1>7. ASSUME NEW j \in 0 .. n
      PROVE  \/ /\ j = n /\ P[j] = B[N] + 1 /\ T[j] = r.end /\ C[(N - n) + j] = B[N] + 1
             \/ /\ j # n /\ P[j] = p[j] /\ T[j] = t[j] /\ C[(N - n) + j] = B[(N - n) + j]
                /\ B[(N - n) + j] <= B[N] /\ B[(N - n) + j] \in Nat
  <2>1. (N - n) + j \in 0 .. N /\ ((N - n) + j = N <=> j = n) /\ (N - n) + j <= N
    BY <1>1
  <2>2. B[(N - n) + j] <= B[N] /\ B[(N - n) + j] \in Nat
    BY <1>1, <1>2, <2>1 DEF Rising
  <2> QED
    BY <2>1, <2>2 DEF Grown, With
<1>8. P[0] = p[0] /\ P[n] = B[N] + 1
  BY <1>2, <1>7
<1> HIDE DEF e, P, T, C, Y
<1>9. ASSUME NEW d \in X
      PROVE  d.at \in Nat /\ d.at < B[N] /\ d.rec.end <= r.begin /\ d.rec.end \in Nat /\ d.at < p[n]
  <2>1. d.at \in Nat /\ d.at < B[N] /\ d.rec.end \in Nat
    BY PlacedFields DEF Disk
  <2>2. d.at < B[(N - n) + n] => d.at < p[n]
    BY <1>2 DEF Fits, Divides
  <2> QED
    BY <1>2, <2>1, <2>2
<1>10. \A j \in 1 .. n : P[j] <= C[(N - n) + j]
  <2> TAKE j \in 1 .. n
  <2>1. j \in 0 .. n /\ p[j] <= B[(N - n) + j]
    BY DEF Fits
  <2> QED
    BY <1>3, <1>7, <2>1
<1>11. Divides(P, T, n, Y, C, N)
  <2> SUFFICES ASSUME NEW d \in Y
               PROVE  /\ P[0] <= d.at
                      /\ \A j \in 0 .. n :
                           /\ d.at < C[(N - n) + j] => d.at < P[j]
                           /\ d.at < P[j] => d.rec.end <= T[j]
                           /\ d.at >= P[j] => d.rec.begin >= T[j]
    BY DEF Divides
  <2>1. CASE d \in X
    <3>1. P[0] <= d.at
      BY <1>8, <2>1 DEF Fits, Divides
    <3>2. ASSUME NEW j \in 0 .. n
          PROVE  /\ d.at < C[(N - n) + j] => d.at < P[j]
                 /\ d.at < P[j] => d.rec.end <= T[j]
                 /\ d.at >= P[j] => d.rec.begin >= T[j]
      <4>1. CASE j = n
        BY <1>3, <1>7, <1>9, <2>1, <4>1
      <4>2. CASE j # n
        <5>1. /\ d.at < B[(N - n) + j] => d.at < p[j]
              /\ d.at < p[j] => d.rec.end <= t[j]
              /\ d.at >= p[j] => d.rec.begin >= t[j]
          BY <2>1 DEF Fits, Divides
        <5> QED
          BY <1>7, <4>2, <5>1
      <4> QED
        BY <4>1, <4>2
    <3> QED
      BY <3>1, <3>2
  <2>2. CASE d = e
    <3>1. P[0] <= d.at
      BY <1>1, <1>3, <1>5, <1>8, <2>2
    <3>2. ASSUME NEW j \in 0 .. n
          PROVE  /\ d.at < C[(N - n) + j] => d.at < P[j]
                 /\ d.at < P[j] => d.rec.end <= T[j]
                 /\ d.at >= P[j] => d.rec.begin >= T[j]
      <4>1. d.at = B[N] /\ d.rec = r
        BY <1>5, <2>2
      <4>2. CASE j = n
        BY <1>3, <1>7, <4>1, <4>2
      <4>3. CASE j # n
        <5>1. p[j] <= p[n] /\ t[j] <= t[n] /\ p[j] \in Nat /\ t[j] \in Nat
          BY <1>1, <1>2 DEF Rising
        <5> QED
          BY <1>3, <1>4, <1>7, <4>1, <4>3, <5>1
      <4> QED
        BY <4>2, <4>3
    <3> QED
      BY <3>1, <3>2
  <2> QED
    BY <2>1, <2>2 DEF Y
<1>12. After(P, T, n, Y)
  <2> SUFFICES ASSUME NEW j \in 1 .. n, P[j] # P[0]
               PROVE  \E d \in Y : d.at + 1 = P[j] /\ d.rec.end = T[j]
    BY DEF After
  <2>1. j \in 0 .. n
    OBVIOUS
  <2>2. CASE j = n
    <3>1. e \in Y /\ e.at + 1 = P[j] /\ e.rec.end = T[j]
      BY <1>5, <1>7, <2>1, <2>2 DEF Y
    <3> QED
      BY <3>1
  <2>3. CASE j # n
    <3>1. P[j] = p[j] /\ T[j] = t[j] /\ p[j] # p[0]
      BY <1>7, <1>8, <2>1, <2>3
    <3>2. PICK d \in X : d.at + 1 = p[j] /\ d.rec.end = t[j]
      BY <3>1 DEF Fits, After
    <3> QED
      BY <3>1, <3>2 DEF Y
  <2> QED
    BY <2>2, <2>3
<1>13. Near(P, Y)
  BY <1>8 DEF Fits, Near, Y
<1>14. P[0] < P[n]
  BY <1>1, <1>3, <1>8
<1> QED
  BY <1>1, <1>6, <1>10, <1>11, <1>12, <1>13, <1>14 DEF Fits, P, T, C, Y, e

\* The first record of a stream, of which there is none on disk.
LEMMA FitsFirst ==
  ASSUME NEW N \in Nat, NEW D, NEW B, Disk(D, B, N),
         NEW r \in RecordType, r.begin <= r.end
  PROVE  Fits([j \in 0 .. 1 |-> B[N] + j], [j \in 0 .. 1 |-> IF j = 0 THEN r.begin ELSE r.end],
              1, {New(B, N, r)}, Grown(B, N), N)
<1> DEFINE e == New(B, N, r)
           P == [j \in 0 .. 1 |-> B[N] + j]
           T == [j \in 0 .. 1 |-> IF j = 0 THEN r.begin ELSE r.end]
           C == Grown(B, N)
<1>1. N \in Nat \ {0} /\ B \in [0 .. N -> Nat] /\ Rising(B, N)
  BY DEF Disk
<1>2. /\ B[N] \in Nat /\ B[N - 1] \in Nat /\ B[N - 1] <= B[N] /\ r.begin \in Nat /\ r.end \in Nat
      /\ Capacity \in Nat \ {0}
  <2>1. N \in 0 .. N /\ N - 1 \in 0 .. N /\ N - 1 <= N
    BY <1>1
  <2> QED
    BY <1>1, <2>1, CapacityNat DEF Rising, RecordType, Blank
<1>3. e.at = B[N] /\ e.rec = r
  BY DEF New
<1>4. (N - 1) + 0 = N - 1 /\ (N - 1) + 1 = N /\ N - 1 \in 0 .. N /\ N \in 0 .. N /\ N - 1 # N
  BY <1>1
<1>5. C[(N - 1) + 0] = B[N - 1] /\ C[(N - 1) + 1] = B[N] + 1
  BY <1>4 DEF Grown
<1>6. /\ P \in [0 .. 1 -> Nat] /\ T \in [0 .. 1 -> Nat]
      /\ P[0] = B[N] /\ P[1] = B[N] + 1 /\ T[0] = r.begin /\ T[1] = r.end
  BY <1>2
<1> HIDE DEF P, T, C, e
<1>7. Rising(P, 1) /\ Rising(T, 1) /\ P[0] < P[1]
  BY <1>2, <1>6 DEF Rising
<1>8. \A j \in 1 .. 1 : P[j] <= C[(N - 1) + j]
  BY <1>2, <1>5, <1>6
<1>9. Divides(P, T, 1, {e}, C, N)
  BY <1>2, <1>3, <1>5, <1>6 DEF Divides
<1>10. After(P, T, 1, {e}) /\ Near(P, {e})
  BY <1>2, <1>3, <1>6 DEF After, Near
<1>11. 1 \in 1 .. N
  BY <1>1
<1> QED
  BY <1>6, <1>7, <1>8, <1>9, <1>10, <1>11 DEF Fits, P, T, C, e

-----------------------------------------------------------------------------
(* Numbers are equal modulo SeqSize.                                       *)

LEMMA SizeNat == SeqSize \in Nat /\ SeqSize > 0 /\ SeqSize > 2 * Capacity
<1>1. 2 * MaxFiles * FileSize = 2 * Capacity
  BY IndexAssumption DEF Capacity
<1> QED
  BY <1>1, CapacityNat, IndexAssumption

LEMMA DivMod ==
  ASSUME NEW M \in Nat, M > 0, NEW a \in Int
  PROVE  a \div M \in Int /\ a % M \in 0 .. M - 1 /\ a = M * (a \div M) + (a % M)
BY SMT

LEMMA ProductAtLeast ==
  ASSUME NEW M \in Nat, M > 0, NEW x \in Int, x >= 1
  PROVE  M * x >= M
BY SMT

\* A multiple of M that is less than M is zero.
LEMMA SmallMultiple ==
  ASSUME NEW M \in Nat, M > 0, NEW k \in Int, M * k < M, M * (0 - k) < M
  PROVE  k = 0
<1>1. ~(k >= 1)
  BY ProductAtLeast
<1>2. ~(0 - k >= 1)
  <2>1. 0 - k \in Int
    OBVIOUS
  <2> QED
    BY <2>1, ProductAtLeast
<1> QED
  BY <1>1, <1>2

LEMMA ModOfMultiple ==
  ASSUME NEW M \in Nat, M > 0, NEW a \in Int, NEW b \in Int, NEW k \in Int, a = b + M * k
  PROVE  a % M = b % M
<1> DEFINE x == a \div M
           y == b \div M
           u == a % M
           v == b % M
           z == k + y - x
<1>1. /\ x \in Int /\ u \in 0 .. M - 1 /\ a = M * x + u
      /\ y \in Int /\ v \in 0 .. M - 1 /\ b = M * y + v
  BY DivMod
<1>2. z \in Int /\ u - v = M * z /\ v - u = M * (0 - z)
  BY <1>1
<1>3. z = 0
  <2> HIDE DEF x, y, u, v, z
  <2>1. M * z < M /\ M * (0 - z) < M
    BY <1>1, <1>2
  <2> QED
    BY <1>2, <2>1, SmallMultiple
<1>4. u - v = 0
  BY <1>2, <1>3
<1> QED
  BY <1>1, <1>4

LEMMA ModQuotient ==
  ASSUME NEW M \in Nat, M > 0, NEW a \in Int, NEW b \in Int, a % M = b % M
  PROVE  \E k \in Int : a = b + M * k
<1> DEFINE x == a \div M
           y == b \div M
           u == b % M
<1>1. x \in Int /\ a = M * x + u /\ y \in Int /\ b = M * y + u /\ u \in Int
  BY DivMod
<1>2. a = b + M * (x - y) /\ x - y \in Int
  BY <1>1
<1> QED
  BY <1>2

LEMMA SameIff ==
  ASSUME NEW a \in Int, NEW b \in Int
  PROVE  Same(a, b) <=> \E k \in Int : a = b + SeqSize * k
<1>1. SeqSize \in Nat /\ SeqSize > 0
  BY SizeNat
<1>2. Same(a, b) => \E k \in Int : a = b + SeqSize * k
  BY <1>1, ModQuotient DEF Same
<1>3. ASSUME NEW k \in Int, a = b + SeqSize * k PROVE Same(a, b)
  BY <1>1, <1>3, ModOfMultiple, Zenon DEF Same
<1> QED
  BY <1>2, <1>3

LEMMA SamePlus ==
  ASSUME NEW a \in Int, NEW b \in Int, Same(a, b), NEW z \in Int
  PROVE  Same(a + z, b + z)
<1>1. PICK k \in Int : a = b + SeqSize * k
  BY SameIff
<1>2. a + z \in Int /\ b + z \in Int /\ a + z = (b + z) + SeqSize * k
  BY <1>1, SizeNat
<1> HIDE DEF Same
<1> QED
  BY <1>2, SameIff

LEMMA SameMinus ==
  ASSUME NEW a \in Int, NEW b \in Int, Same(a, b), NEW c \in Int, NEW d \in Int, Same(c, d)
  PROVE  Same(a - c, b - d)
<1>1. PICK k \in Int : a = b + SeqSize * k
  BY SameIff
<1>2. PICK l \in Int : c = d + SeqSize * l
  BY SameIff
<1>3. /\ a - c \in Int /\ b - d \in Int /\ k - l \in Int
      /\ a - c = (b - d) + SeqSize * (k - l)
  BY <1>1, <1>2, SizeNat
<1> QED
  BY <1>3, SameIff

LEMMA ModSmall ==
  ASSUME NEW M \in Nat, M > 0, NEW a \in Int
  PROVE  /\ a \in 0 .. M - 1 => a % M = a
         /\ a < 0 /\ -a < M => a % M = a + M
BY SMT

LEMMA NumberIs ==
  ASSUME NEW a \in Int
  PROVE  /\ NumberOf(a) \in 0 .. SeqSize - 1 /\ NumberOf(a) \in Nat
         /\ NumberOf(NumberOf(a)) = NumberOf(a) /\ Same(NumberOf(a), a)
<1>1. a % SeqSize \in 0 .. SeqSize - 1 /\ a % SeqSize \in Int
  BY SizeNat, DivMod
<1>2. (a % SeqSize) % SeqSize = a % SeqSize
  BY <1>1, SizeNat, ModSmall
<1> QED
  BY <1>1, <1>2 DEF NumberOf, Same

LEMMA SameNumber ==
  ASSUME NEW a \in Int, NEW b \in Int
  PROVE  Same(a, b) <=> NumberOf(a) = NumberOf(b)
BY DEF Same, NumberOf

\* Places that are less than SeqSize apart have different numbers.
LEMMA SameClose ==
  ASSUME NEW a \in Int, NEW b \in Int, Same(a, b), a - b < SeqSize, b - a < SeqSize
  PROVE  a = b
<1>1. PICK k \in Int : a = b + SeqSize * k
  BY SameIff
<1>2. SeqSize * k < SeqSize /\ SeqSize * (0 - k) < SeqSize
  BY <1>1, SizeNat
<1>3. k = 0
  BY <1>2, SizeNat, SmallMultiple
<1> QED
  BY <1>1, <1>3, SizeNat

-----------------------------------------------------------------------------
(* The streams of the index.                                               *)

\* The places of a stream are less than SeqSize apart.
LEMMA FitsSpan ==
  ASSUME NEW N \in Nat, NEW D, NEW B, Disk(D, B, N), B[N] <= B[0] + Capacity,
         NEW X \in SUBSET D, NEW n \in Nat, NEW p, NEW t, Fits(p, t, n, X, B, N)
  PROVE  \A j \in 0 .. n : /\ p[j] \in Nat /\ p[j] <= B[N] /\ B[N] \in Nat /\ B[0] \in Nat
                           /\ B[0] - Capacity < p[j] /\ B[N] - p[j] < SeqSize
<1>1. /\ p \in [0 .. n -> Nat] /\ n \in 1 .. N /\ Rising(p, n) /\ B \in [0 .. N -> Nat]
      /\ N \in Nat \ {0}
  BY DEF Fits, Disk
<1>2. n \in 1 .. n /\ 0 \in 0 .. n /\ n \in 0 .. n /\ (N - n) + n = N /\ N \in 0 .. N /\ 0 \in 0 .. N
  BY <1>1
<1>3. p[n] <= B[N] /\ p[n] \in Nat /\ p[0] \in Nat /\ B[N] \in Nat /\ B[0] \in Nat
  <2>1. p[n] <= B[(N - n) + n]
    BY <1>2 DEF Fits
  <2> QED
    BY <1>1, <1>2, <2>1
<1>4. PICK d \in X : d.at < p[0] + Capacity
  BY DEF Fits, Near
<1>5. d.at \in Nat /\ B[0] <= d.at
  BY PlacedFields DEF Disk
<1> TAKE j \in 0 .. n
<1>6. p[j] \in Nat /\ p[0] <= p[j] /\ p[j] <= p[n]
  BY <1>1, <1>2 DEF Rising
<1> QED
  BY <1>3, <1>4, <1>5, <1>6, CapacityNat, SizeNat

LEMMA StreamFields ==
  ASSUME NEW sm \in StreamType
  PROVE  /\ sm.begin_time \in Nat /\ sm.begin_seq \in Nat /\ sm.segments \in Seq(SegmentType)
         /\ Len(sm.segments) \in Nat
         /\ \A j \in 1 .. Len(sm.segments) : sm.segments[j] \in SegmentType
BY DEF StreamType

\* delete_oldest_segment for a stream with a segment in the oldest file: it is
\* forgotten just when it has no record left.
LEMMA WithoutOldestKnown ==
  ASSUME NEW N \in Nat, N >= 2, NEW D, NEW B, Disk(D, B, N), B[N] <= B[0] + Capacity,
         NEW X \in SUBSET D, NEW sm \in StreamType, Known(sm, X, B, N), Len(sm.segments) = N
  PROVE  LET sn == WithoutOldest(sm) IN
         /\ sn \in StreamType
         /\ Empty(sn) => Kept(X, B[1]) = {}
         /\ ~Empty(sn) => Known(sn, Kept(X, B[1]), Shift(B, N), N - 1)
<1> DEFINE sn == WithoutOldest(sm)
           M == N - 1
<1>1. PICK n \in Nat : \E p, t \in [0 .. n -> Nat] : Says(sm, p, t, n) /\ Fits(p, t, n, X, B, N)
  BY DEF Known
<1>2. n = N
  BY <1>1 DEF Says
<1>3. PICK p \in [0 .. N -> Nat], t \in [0 .. N -> Nat] : Says(sm, p, t, N) /\ Fits(p, t, N, X, B, N)
  BY <1>1, <1>2
<1>4. sm.segments \in Seq(SegmentType) /\ sm.segments # <<>> /\ Len(sm.segments) = N
  BY StreamFields
<1>5. /\ Head(sm.segments) = sm.segments[1] /\ sm.segments[1] \in SegmentType
      /\ Tail(sm.segments) \in Seq(SegmentType) /\ Len(Tail(sm.segments)) = M
      /\ \A j \in 1 .. M : Tail(sm.segments)[j] = sm.segments[j + 1]
  BY <1>4, HeadTailProperties
<1>6. /\ sn.begin_time = sm.segments[1].end_time /\ sn.begin_seq = sm.segments[1].end_seq
      /\ sn.segments = Tail(sm.segments)
  BY <1>5 DEF WithoutOldest
<1>7. sn \in StreamType
  BY <1>5 DEF WithoutOldest, StreamType, SegmentType
<1>8. M \in 1 .. M /\ M + 1 = N /\ 1 \in 1 .. N /\ N \in 1 .. N /\ 1 \in 0 .. N /\ N \in 0 .. N /\ 1 <= N
  OBVIOUS
<1>9. sn.begin_seq = NumberOf(p[1]) /\ Last(sn.segments).end_seq = NumberOf(p[N])
  BY <1>3, <1>5, <1>6, <1>8 DEF Says, Last
<1>10. /\ p[1] \in Nat /\ p[N] \in Nat /\ p[1] <= p[N] /\ p[N] - p[1] < SeqSize
       /\ p[N] <= B[N] /\ p[1] <= B[1] /\ B[1] \in Nat /\ B[N] \in Nat
  <2>1. p[1] <= p[N]
    BY <1>3, <1>8 DEF Fits, Rising
  <2>2. p[N] <= B[N] /\ p[1] \in Nat /\ p[N] \in Nat /\ B[N] \in Nat /\ B[N] - p[1] < SeqSize
    BY <1>3, <1>8, FitsSpan
  <2>3. p[1] <= B[1] /\ B[1] \in Nat
    <3>1. (N - N) + 1 = 1
      OBVIOUS
    <3>2. p[1] <= B[(N - N) + 1]
      BY <1>3, <1>8 DEF Fits
    <3> QED
      BY <1>8, <3>1, <3>2 DEF Disk
  <2> QED
    BY <2>1, <2>2, <2>3, SizeNat
<1>11. Empty(sn) <=> p[1] = p[N]
  <2>1. Empty(sn) <=> NumberOf(p[1]) = NumberOf(p[N])
    BY <1>9 DEF Empty
  <2>2. NumberOf(p[1]) = NumberOf(p[N]) => p[1] = p[N]
    <3>1. p[1] \in Int /\ p[N] \in Int /\ p[1] - p[N] < SeqSize /\ p[N] - p[1] < SeqSize
      BY <1>10, SizeNat
    <3> QED
      BY <3>1, SameNumber, SameClose
  <2> QED
    BY <2>1, <2>2
<1>12. Empty(sn) => Kept(X, B[1]) = {}
  <2> SUFFICES ASSUME p[1] = p[N], NEW d \in X, d.at >= B[1]
               PROVE  FALSE
    BY <1>11 DEF Kept
  <2>1. d.at < B[N] /\ d.at \in Nat
    BY PlacedFields DEF Disk
  <2>2. (N - N) + N = N
    OBVIOUS
  <2>3. d.at < p[N]
    BY <1>3, <1>8, <2>1, <2>2 DEF Fits, Divides
  <2> QED
    BY <1>10, <2>1, <2>3
<1>13. ASSUME ~Empty(sn)
       PROVE  Known(sn, Kept(X, B[1]), Shift(B, N), M)
  <2>1. p[1] < p[N]
    BY <1>10, <1>11, <1>13
  <2> DEFINE P == Shift(p, N)
             T == Shift(t, N)
  <2>2. Fits(P, T, M, Kept(X, B[1]), Shift(B, N), M)
    BY <1>3, <2>1, FitsShift
  <2>3. ASSUME NEW j \in 0 .. M
        PROVE  P[j] = p[j + 1] /\ T[j] = t[j + 1] /\ j + 1 \in 1 .. N
    BY DEF Shift
  <2>4. 0 \in 0 .. M /\ 0 + 1 = 1
    BY <1>8
  <2>5. Same(sn.begin_seq, P[0])
    BY <1>9, <1>10, <2>3, <2>4, NumberIs
  <2>6. sn.begin_time = T[0]
    BY <1>3, <1>6, <1>8, <2>3, <2>4 DEF Says
  <2>7. ASSUME NEW j \in 1 .. M
        PROVE  sn.segments[j].end_time = T[j] /\ sn.segments[j].end_seq = NumberOf(P[j])
    <3>1. j \in 0 .. M
      OBVIOUS
    <3>2. sn.segments[j] = sm.segments[j + 1]
      BY <1>5, <1>6
    <3> QED
      BY <1>3, <2>3, <3>1, <3>2 DEF Says
  <2>8. Says(sn, P, T, M)
    BY <1>5, <1>6, <2>5, <2>6, <2>7 DEF Says
  <2>9. P \in [0 .. M -> Nat] /\ T \in [0 .. M -> Nat]
    BY <2>2, Zenon DEF Fits
  <2>10. M \in Nat
    OBVIOUS
  <2> HIDE DEF P, T, M, sn
  <2> QED
    BY <2>2, <2>8, <2>9, <2>10 DEF Known
<1> QED
  BY <1>7, <1>12, <1>13

\* For a stream that began in a later file nothing changes.
LEMMA LaterKnown ==
  ASSUME NEW N \in Nat, N >= 2, NEW D, NEW B, Disk(D, B, N), B[N] <= B[0] + Capacity,
         NEW X \in SUBSET D, NEW sm \in StreamType, Known(sm, X, B, N), Len(sm.segments) < N
  PROVE  ~Empty(sm) /\ Known(sm, Kept(X, B[1]), Shift(B, N), N - 1)
<1>1. PICK n \in Nat : \E p, t \in [0 .. n -> Nat] : Says(sm, p, t, n) /\ Fits(p, t, n, X, B, N)
  BY DEF Known
<1>2. PICK p \in [0 .. n -> Nat], t \in [0 .. n -> Nat] : Says(sm, p, t, n) /\ Fits(p, t, n, X, B, N)
  BY <1>1
<1>3. Len(sm.segments) = n /\ n < N /\ n \in 1 .. N
  BY <1>2 DEF Says, Fits
<1>4. Kept(X, B[1]) = X /\ Fits(p, t, n, X, Shift(B, N), N - 1)
  BY <1>2, <1>3, FitsLater
<1>5. Known(sm, Kept(X, B[1]), Shift(B, N), N - 1)
  BY <1>2, <1>4, Zenon DEF Known
<1>6. ~Empty(sm)
  <2> SUFFICES ASSUME Empty(sm) PROVE FALSE
    OBVIOUS
  <2>1. n \in 1 .. n /\ n \in 0 .. n /\ 0 \in 0 .. n
    BY <1>3
  <2>2. sm.begin_seq = NumberOf(p[n])
    BY <1>2, <1>3, <2>1 DEF Empty, Last, Says
  <2>3. /\ p[0] \in Nat /\ p[n] \in Nat /\ p[0] < p[n] /\ p[n] - p[0] < SeqSize
    <3>1. p[0] < p[n]
      BY <1>2 DEF Fits
    <3>2. p[0] \in Nat /\ p[n] \in Nat /\ p[n] <= B[N] /\ B[N] \in Nat /\ B[N] - p[0] < SeqSize
      BY <1>2, <2>1, FitsSpan
    <3> QED
      BY <3>1, <3>2, SizeNat
  <2>4. Same(p[n], p[0])
    <3>1. Same(sm.begin_seq, p[0]) /\ sm.begin_seq \in Int
      BY <1>2, StreamFields DEF Says
    <3>2. Same(NumberOf(p[n]), p[n])
      BY <2>3, NumberIs
    <3> QED
      BY <2>2, <3>1, <3>2 DEF Same
  <2>5. p[0] - p[n] < SeqSize /\ p[0] \in Int /\ p[n] \in Int
    BY <2>3, SizeNat
  <2>6. p[n] = p[0]
    BY <2>3, <2>4, <2>5, SameClose
  <2> QED
    BY <2>3, <2>6
<1> QED
  BY <1>5, <1>6

\* new_segment
LEMMA ContinuedKnown ==
  ASSUME NEW N \in Nat, NEW D, NEW B, Disk(D, B, N),
         NEW X \in SUBSET D, NEW sm \in StreamType, Known(sm, X, B, N)
  PROVE  Continued(sm) \in StreamType /\ Known(Continued(sm), X, Extend(B, N, B[N]), N + 1)
<1> DEFINE sn == Continued(sm)
<1>1. PICK n \in Nat : \E p, t \in [0 .. n -> Nat] : Says(sm, p, t, n) /\ Fits(p, t, n, X, B, N)
  BY DEF Known
<1>2. PICK p \in [0 .. n -> Nat], t \in [0 .. n -> Nat] : Says(sm, p, t, n) /\ Fits(p, t, n, X, B, N)
  BY <1>1
<1>3. Len(sm.segments) = n /\ n \in 1 .. n /\ n + 1 \in Nat
  BY <1>2 DEF Says, Fits
<1> DEFINE l == sm.segments[n]
           m == n + 1
           P == Extend(p, n, p[n])
           T == Extend(t, n, t[n])
<1>4. sm.segments \in Seq(SegmentType) /\ l \in SegmentType /\ Last(sm.segments) = l
  BY <1>3, StreamFields DEF Last
<1>5. /\ Append(sm.segments, l) \in Seq(SegmentType) /\ Len(Append(sm.segments, l)) = m
      /\ \A j \in 1 .. n : Append(sm.segments, l)[j] = sm.segments[j]
      /\ Append(sm.segments, l)[m] = l
  BY <1>3, <1>4, AppendProperties
<1>6. /\ sn.segments = Append(sm.segments, l) /\ sn.begin_time = sm.begin_time
      /\ sn.begin_seq = sm.begin_seq
  BY <1>4 DEF Continued, StreamType
<1>7. sn \in StreamType
  <2>1. sn = [sm EXCEPT !.segments = Append(sm.segments, l)]
    BY <1>4 DEF Continued
  <2> HIDE DEF l
  <2> QED
    BY <1>5, <2>1 DEF StreamType
<1>8. Fits(P, T, m, X, Extend(B, N, B[N]), N + 1)
  BY <1>2, FitsExtend DEF Disk
<1>9. Says(sn, P, T, m)
  <2>1. P[0] = p[0] /\ T[0] = t[0] /\ P[m] = p[n] /\ T[m] = t[n]
    BY <1>3 DEF Extend
  <2>2. ASSUME NEW j \in 1 .. m
        PROVE  sn.segments[j].end_time = T[j] /\ sn.segments[j].end_seq = NumberOf(P[j])
    <3>1. CASE j = m
      <4>1. sn.segments[j] = sm.segments[n]
        BY <1>5, <1>6, <3>1
      <4> QED
        BY <1>2, <1>3, <2>1, <3>1, <4>1 DEF Says
    <3>2. CASE j # m
      <4>1. j \in 1 .. n
        BY <3>2
      <4>2. sn.segments[j] = sm.segments[j] /\ P[j] = p[j] /\ T[j] = t[j]
        BY <1>5, <1>6, <4>1, <3>2 DEF Extend
      <4> QED
        BY <1>2, <4>1, <4>2 DEF Says
    <3> QED
      BY <3>1, <3>2
  <2>3. Len(sn.segments) = m
    BY <1>5, <1>6
  <2>4. sn.begin_time = T[0] /\ Same(sn.begin_seq, P[0])
    BY <1>2, <1>6, <2>1 DEF Says
  <2> HIDE DEF sn, P, T, m
  <2> QED
    BY <2>2, <2>3, <2>4 DEF Says
<1>10. P \in [0 .. m -> Nat] /\ T \in [0 .. m -> Nat]
  BY <1>8, Zenon DEF Fits
<1>11. Known(sn, X, Extend(B, N, B[N]), N + 1)
  <2> HIDE DEF sn, P, T
  <2> QED
    BY <1>3, <1>8, <1>9, <1>10 DEF Known
<1> QED
  BY <1>7, <1>11

\* Where the index puts a record of stream s that has the number q.
Here(q, r) == [end_time |-> r.end, end_seq |-> NumberOf(q + 1)]

\* add_packet for the first record of a stream.
LEMMA FirstKnown ==
  ASSUME NEW N \in Nat, NEW D, NEW B, Disk(D, B, N),
         NEW r \in RecordType, r.begin <= r.end, NEW q \in Nat, Same(q, B[N])
  PROVE  LET sn == [begin_time |-> r.begin, begin_seq |-> q, segments |-> <<Here(q, r)>>]
         IN  sn \in StreamType /\ Known(sn, {New(B, N, r)}, Grown(B, N), N)
<1> DEFINE sn == [begin_time |-> r.begin, begin_seq |-> q, segments |-> <<Here(q, r)>>]
           P == [j \in 0 .. 1 |-> B[N] + j]
           T == [j \in 0 .. 1 |-> IF j = 0 THEN r.begin ELSE r.end]
<1>1. B[N] \in Nat /\ r.begin \in Nat /\ r.end \in Nat
  BY DEF Disk, RecordType, Blank
<1>2. NumberOf(q + 1) \in Nat /\ NumberOf(q + 1) = NumberOf(B[N] + 1)
  <2>1. Same(q + 1, B[N] + 1)
    BY <1>1, SamePlus
  <2>2. q + 1 \in Int /\ B[N] + 1 \in Int
    BY <1>1
  <2> QED
    BY <2>1, <2>2, NumberIs, SameNumber
<1>3. Here(q, r) \in SegmentType
  BY <1>1, <1>2 DEF Here, SegmentType
<1>4. sn \in StreamType
  BY <1>1, <1>3 DEF StreamType
<1>5. Fits(P, T, 1, {New(B, N, r)}, Grown(B, N), N)
  BY FitsFirst
<1>6. Says(sn, P, T, 1)
  <2>1. P[0] = B[N] /\ P[1] = B[N] + 1 /\ T[0] = r.begin /\ T[1] = r.end
    BY <1>1
  <2>2. Len(<<Here(q, r)>>) = 1 /\ <<Here(q, r)>>[1] = Here(q, r)
    OBVIOUS
  <2> HIDE DEF P, T
  <2> QED
    BY <1>2, <2>1, <2>2 DEF Says, Here
<1>7. P \in [0 .. 1 -> Nat] /\ T \in [0 .. 1 -> Nat]
  BY <1>1
<1>8. Known(sn, {New(B, N, r)}, Grown(B, N), N)
  <2> HIDE DEF sn, P, T
  <2> QED
    BY <1>5, <1>6, <1>7 DEF Known
<1> QED
  BY <1>4, <1>8

LEMMA FrontIs ==
  ASSUME NEW S, NEW q \in Seq(S), q # <<>>
  PROVE  /\ Front(q) \in Seq(S) /\ Len(Front(q)) = Len(q) - 1
         /\ \A j \in 1 .. (Len(q) - 1) : Front(q)[j] = q[j]
<1> DEFINE n == Len(q) - 1
<1>1. n \in Nat /\ 1 \in Int /\ n \in Int /\ \A i \in 1 .. n : q[i] \in S
  BY ElementOfSeq
<1> HIDE DEF n
<1>2. /\ SubSeq(q, 1, n) \in Seq(S)
      /\ Len(SubSeq(q, 1, n)) = IF 1 <= n THEN n - 1 + 1 ELSE 0
      /\ \A i \in 1 .. (n - 1 + 1) : SubSeq(q, 1, n)[i] = q[1 + i - 1]
  BY <1>1, SubSeqProperties
<1>3. Len(SubSeq(q, 1, n)) = n
  BY <1>1, <1>2
<1>4. \A i \in 1 .. n : SubSeq(q, 1, n)[i] = q[i]
  <2> TAKE i \in 1 .. n
  <2>1. i \in 1 .. (n - 1 + 1) /\ 1 + i - 1 = i
    BY <1>1
  <2> QED
    BY <1>2, <2>1
<1> QED
  BY <1>2, <1>3, <1>4 DEF Front, n

\* add_packet for a stream that is known.
LEMMA NextKnown ==
  ASSUME NEW N \in Nat, NEW D, NEW B, Disk(D, B, N),
         NEW X \in SUBSET D, NEW sm \in StreamType, Known(sm, X, B, N),
         NEW r \in RecordType, r.begin <= r.end, \A d \in X : d.rec.end <= r.begin,
         NEW q \in Nat, Same(q, B[N])
  PROVE  LET sn == [sm EXCEPT !.segments = Append(Front(sm.segments), Here(q, r))]
         IN  sn \in StreamType /\ Known(sn, X \cup {New(B, N, r)}, Grown(B, N), N)
<1>1. PICK n \in Nat : \E p, t \in [0 .. n -> Nat] : Says(sm, p, t, n) /\ Fits(p, t, n, X, B, N)
  BY DEF Known
<1>2. PICK p \in [0 .. n -> Nat], t \in [0 .. n -> Nat] : Says(sm, p, t, n) /\ Fits(p, t, n, X, B, N)
  BY <1>1
<1> DEFINE h == Here(q, r)
           f == Front(sm.segments)
           new == Append(f, h)
           sn == [sm EXCEPT !.segments = new]
           P == With(p, n, B[N] + 1)
           T == With(t, n, r.end)
<1>3. /\ Len(sm.segments) = n /\ n \in 1 .. n /\ n - 1 \in Nat /\ sm.segments \in Seq(SegmentType)
      /\ n \in 0 .. n /\ 0 \in 0 .. n /\ n # 0
  BY <1>2, StreamFields DEF Says, Fits
<1>4. B[N] \in Nat /\ r.begin \in Nat /\ r.end \in Nat
  BY DEF Disk, RecordType, Blank
<1>5. NumberOf(q + 1) \in Nat /\ NumberOf(q + 1) = NumberOf(B[N] + 1)
  <2>1. Same(q + 1, B[N] + 1)
    <3>1. q \in Int /\ B[N] \in Int /\ 1 \in Int
      BY <1>4
    <3> QED
      BY <3>1, SamePlus, Zenon
  <2>2. q + 1 \in Int /\ B[N] + 1 \in Int
    BY <1>4
  <2> QED
    BY <2>1, <2>2, NumberIs, SameNumber
<1>6. h \in SegmentType
  BY <1>4, <1>5 DEF Here, SegmentType
<1>7. /\ f \in Seq(SegmentType) /\ Len(f) = n - 1
      /\ \A j \in 1 .. (n - 1) : f[j] = sm.segments[j]
  <2>1. sm.segments # <<>>
    BY <1>3
  <2> QED
    BY <1>3, <2>1, FrontIs
<1>8. /\ new \in Seq(SegmentType) /\ Len(new) = n /\ new[n] = h
      /\ \A j \in 1 .. (n - 1) : new[j] = sm.segments[j]
  <2> HIDE DEF f, h
  <2>1. (n - 1) + 1 = n
    BY <1>3
  <2> QED
    BY <1>6, <1>7, <2>1, AppendProperties
<1> HIDE DEF h, f, new
<1>9. sn \in StreamType
  BY <1>8 DEF StreamType
<1>10. /\ sn.segments = new /\ sn.begin_time = sm.begin_time /\ sn.begin_seq = sm.begin_seq
  BY DEF StreamType
<1>11. Fits(P, T, n, X \cup {New(B, N, r)}, Grown(B, N), N)
  BY <1>2, FitsOwn
<1>12. Says(sn, P, T, n)
  <2>1. P[0] = p[0] /\ T[0] = t[0] /\ P[n] = B[N] + 1 /\ T[n] = r.end
    BY <1>3 DEF With
  <2>2. ASSUME NEW j \in 1 .. n
        PROVE  sn.segments[j].end_time = T[j] /\ sn.segments[j].end_seq = NumberOf(P[j])
    <3>1. CASE j = n
      BY <1>5, <1>8, <1>10, <2>1, <3>1 DEF h, Here
    <3>2. CASE j # n
      <4>1. j \in 1 .. (n - 1) /\ P[j] = p[j] /\ T[j] = t[j]
        BY <3>2 DEF With
      <4> QED
        BY <1>2, <1>8, <1>10, <4>1 DEF Says
    <3> QED
      BY <3>1, <3>2
  <2> HIDE DEF sn, P, T
  <2> QED
    BY <1>2, <1>8, <1>10, <2>1, <2>2 DEF Says
<1>13. P \in [0 .. n -> Nat] /\ T \in [0 .. n -> Nat]
  BY <1>11, Zenon DEF Fits
<1>14. Known(sn, X \cup {New(B, N, r)}, Grown(B, N), N)
  <2> HIDE DEF sn, P, T
  <2> QED
    BY <1>11, <1>12, <1>13 DEF Known
<1> QED
  BY <1>9, <1>14 DEF sn, new, f, h

\* The record of another stream.
LEMMA OtherKnown ==
  ASSUME NEW N \in Nat, NEW D, NEW B, Disk(D, B, N), NEW X \in SUBSET D,
         NEW sm, Known(sm, X, B, N)
  PROVE  Known(sm, X, Grown(B, N), N)
<1>1. PICK n \in Nat : \E p, t \in [0 .. n -> Nat] : Says(sm, p, t, n) /\ Fits(p, t, n, X, B, N)
  BY DEF Known
<1>2. PICK p \in [0 .. n -> Nat], t \in [0 .. n -> Nat] : Says(sm, p, t, n) /\ Fits(p, t, n, X, B, N)
  BY <1>1
<1>3. Fits(p, t, n, X, Grown(B, N), N)
  BY <1>2, FitsOther
<1> QED
  BY <1>2, <1>3 DEF Known

-----------------------------------------------------------------------------
(* The index of the station.                                               *)

LEMMA MonitorFields ==
  ASSUME NEW m \in MonitorType
  PROVE  /\ m.begin_seq \in Nat /\ m.end_seq \in Nat /\ m.segment_count \in Nat
         /\ m.stream_map \in MapType
         /\ DOMAIN m.stream_map \subseteq Stream
         /\ \A s \in DOMAIN m.stream_map : m.stream_map[s] \in StreamType
<1>1. /\ m.begin_seq \in Nat /\ m.end_seq \in Nat /\ m.segment_count \in Nat
      /\ m.stream_map \in MapType
  BY DEF MonitorType
<1>2. PICK T \in SUBSET Stream : m.stream_map \in [T -> StreamType]
  BY <1>1 DEF MapType
<1> QED
  BY <1>1, <1>2

LEMMA MapIs ==
  ASSUME NEW T \in SUBSET Stream, NEW f \in [T -> StreamType]
  PROVE  f \in MapType
BY DEF MapType

LEMMA KnownLength ==
  ASSUME NEW N \in Nat, NEW sm, NEW X, NEW B, Known(sm, X, B, N)
  PROVE  Len(sm.segments) \in 1 .. N
BY DEF Known, Says, Fits

LEMMA DeletedIndex ==
  ASSUME NEW N \in Nat, N >= 2, NEW D, NEW B, Disk(D, B, N), B[N] <= B[0] + Capacity,
         NEW m, Index(m, D, B, N)
  PROVE  Index(DeleteOldestSegment(m), Kept(D, B[1]), Shift(B, N), N - 1)
<1> DEFINE map == m.stream_map
           left == [s \in DOMAIN map |-> IF BeganLater(map[s], m) THEN map[s]
                                         ELSE WithoutOldest(map[s])]
           T == {s \in DOMAIN left : ~Empty(left[s])}
           f == Restrict(left, T)
           M == N - 1
           C == Shift(B, N)
           Y == Kept(D, B[1])
<1>1. m \in MonitorType /\ m.segment_count = N /\ M \in Nat
  BY DEF Index
<1>2. DOMAIN left = DOMAIN map /\ T \subseteq DOMAIN map /\ DOMAIN map \subseteq Stream
  BY <1>1, MonitorFields
<1>3. ASSUME NEW s \in DOMAIN map
      PROVE  /\ left[s] \in StreamType
             /\ Empty(left[s]) => Kept(Of(s, D), B[1]) = {}
             /\ ~Empty(left[s]) => Known(left[s], Kept(Of(s, D), B[1]), C, M)
  <2> DEFINE sm == map[s]
             X == Of(s, D)
  <2>1. sm \in StreamType /\ Known(sm, X, B, N) /\ X \in SUBSET D
    BY <1>1, MonitorFields DEF Index, Of
  <2>2. Len(sm.segments) \in 1 .. N
    BY <2>1, KnownLength
  <2>3. CASE BeganLater(sm, m)
    <3>1. Len(sm.segments) < N /\ left[s] = sm
      BY <1>1, <2>2, <2>3 DEF BeganLater
    <3> HIDE DEF sm, X, left, C, M
    <3>2. ~Empty(sm) /\ Known(sm, Kept(X, B[1]), Shift(B, N), N - 1)
      BY <2>1, <3>1, LaterKnown
    <3> QED
      BY <2>1, <3>1, <3>2 DEF X, C, M
  <2>4. CASE ~BeganLater(sm, m)
    <3>1. Len(sm.segments) = N /\ left[s] = WithoutOldest(sm)
      BY <1>1, <2>2, <2>4 DEF BeganLater
    <3> HIDE DEF sm, X, left, C, M
    <3>2. /\ WithoutOldest(sm) \in StreamType
          /\ Empty(WithoutOldest(sm)) => Kept(X, B[1]) = {}
          /\ ~Empty(WithoutOldest(sm)) => Known(WithoutOldest(sm), Kept(X, B[1]), Shift(B, N), N - 1)
      BY <2>1, <3>1, WithoutOldestKnown
    <3> QED
      BY <3>1, <3>2 DEF X, C, M
  <2> QED
    BY <2>3, <2>4
<1>4. f \in [T -> StreamType] /\ \A s \in T : f[s] = left[s]
  <2> HIDE DEF left, map
  <2> QED
    BY <1>2, <1>3 DEF Restrict
<1> HIDE DEF left, T, f, C
<1>5. f \in MapType /\ DOMAIN f = T
  BY <1>2, <1>4, MapIs
<1> DEFINE k == [m EXCEPT !.segment_count = M, !.stream_map = f]
<1>6. DeleteOldestSegment(m) = k
  BY <1>1 DEF DeleteOldestSegment, f, T, left
<1>7. k \in MonitorType /\ k.segment_count = M /\ k.stream_map = f
  <2>1. k = [m EXCEPT !.segment_count = M, !.stream_map = f]
    OBVIOUS
  <2> HIDE DEF k, M
  <2> QED
    BY <1>1, <1>5, <2>1 DEF MonitorType
<1>8. \A s : Of(s, Y) = Kept(Of(s, D), B[1])
  BY DEF Of, Kept
<1> HIDE DEF k, M
<1>9. \A s \in T : Known(f[s], Of(s, Y), C, M)
  <2> TAKE s \in T
  <2>1. s \in DOMAIN map /\ ~Empty(left[s])
    BY <1>2 DEF T
  <2> QED
    BY <1>3, <1>4, <1>8, <2>1
<1>10. \A d \in Y : d.rec.stream \in T \cup {None}
  <2> SUFFICES ASSUME NEW d \in Y, d.rec.stream # None
               PROVE  d.rec.stream \in T
    OBVIOUS
  <2> DEFINE s == d.rec.stream
  <2>1. d \in D /\ d.at >= B[1]
    BY DEF Kept
  <2>2. s \in DOMAIN map
    BY <2>1 DEF Index
  <2>3. d \in Kept(Of(s, D), B[1])
    BY <2>1 DEF Kept, Of
  <2>4. ~Empty(left[s])
    BY <1>3, <2>2, <2>3
  <2> QED
    BY <1>2, <2>2, <2>4 DEF T
<1> QED
  BY <1>5, <1>6, <1>7, <1>9, <1>10 DEF Index, M, C

LEMMA NewSegmentIndex ==
  ASSUME NEW N \in Nat, NEW D, NEW B, Disk(D, B, N), NEW m, Index(m, D, B, N)
  PROVE  Index(NewSegment(m), D, Extend(B, N, B[N]), N + 1)
<1> DEFINE map == m.stream_map
           f == [s \in DOMAIN map |-> Continued(map[s])]
           M == N + 1
           k == [m EXCEPT !.segment_count = M, !.stream_map = f]
<1>1. m \in MonitorType /\ m.segment_count = N /\ M \in Nat
  BY DEF Index
<1>2. DOMAIN map \subseteq Stream
  BY <1>1, MonitorFields
<1>3. ASSUME NEW s \in DOMAIN map
      PROVE  Continued(map[s]) \in StreamType /\ Known(Continued(map[s]), Of(s, D), Extend(B, N, B[N]), N + 1)
  <2>1. map[s] \in StreamType /\ Known(map[s], Of(s, D), B, N) /\ Of(s, D) \in SUBSET D
    BY <1>1, MonitorFields DEF Index, Of
  <2> QED
    BY <2>1, ContinuedKnown
<1>4. f \in [DOMAIN map -> StreamType]
  BY <1>3
<1>5. f \in MapType
  <2> HIDE DEF f
  <2> QED
    BY <1>2, <1>4, MapIs
<1>6. NewSegment(m) = k
  BY <1>1 DEF NewSegment
<1>7. k \in MonitorType /\ k.segment_count = M /\ k.stream_map = f
  <2>1. k = [m EXCEPT !.segment_count = M, !.stream_map = f]
    OBVIOUS
  <2> HIDE DEF k, f, M
  <2> QED
    BY <1>1, <1>5, <2>1 DEF MonitorType
<1> HIDE DEF k
<1> QED
  BY <1>3, <1>6, <1>7 DEF Index

\* f is map with record r at the end of its stream.
Receives(f, T, map, q, r) ==
  /\ DOMAIN f = T \cup {r.stream} /\ f = [s \in DOMAIN f |-> f[s]]
  /\ \A s \in T \ {r.stream} : f[s] = map[s]
  /\ f[r.stream] =
       IF r.stream \in T
       THEN [map[r.stream] EXCEPT !.segments = Append(Front(map[r.stream].segments), Here(q, r))]
       ELSE [begin_time |-> r.begin, begin_seq |-> q, segments |-> <<Here(q, r)>>]

LEMMA WithPacketIs ==
  ASSUME NEW T \in SUBSET Stream, NEW map \in [T -> StreamType], NEW q \in Nat,
         NEW r \in RecordType, r.stream \in Stream
  PROVE  Receives(WithPacket(map, q, r), T, map, q, r)
<1> DEFINE u == r.stream
           sm == IF u \in T
                 THEN [map[u] EXCEPT !.segments = Append(Front(map[u].segments), Here(q, r))]
                 ELSE [begin_time |-> r.begin, begin_seq |-> q, segments |-> <<Here(q, r)>>]
<1>1. WithPacket(map, q, r) = [s \in T \cup {u} |-> IF s = u THEN sm ELSE map[s]]
  BY DEF WithPacket, Here
<1>2. WithPacket(map, q, r)[u] = sm
  <2> HIDE DEF sm, u
  <2> QED
    BY <1>1
<1> HIDE DEF sm
<1>3. /\ DOMAIN WithPacket(map, q, r) = T \cup {u}
      /\ WithPacket(map, q, r) = [s \in T \cup {u} |-> WithPacket(map, q, r)[s]]
      /\ \A s \in T \ {u} : WithPacket(map, q, r)[s] = map[s]
  BY <1>1
<1> QED
  BY <1>2, <1>3 DEF sm, Receives

LEMMA AddPacketIndex ==
  ASSUME NEW N \in Nat, NEW D, NEW B, Disk(D, B, N), NEW m, Index(m, D, B, N),
         NEW q \in Nat, Same(q, B[N]),
         NEW r \in RecordType, r.begin <= r.end,
         \A d \in D : d.rec.stream = r.stream /\ r.stream # None => d.rec.end <= r.begin
  PROVE  /\ Index(AddPacket(m, q, r), D \cup {New(B, N, r)}, Grown(B, N), N)
         /\ AddPacket(m, q, r).begin_seq = m.begin_seq
         /\ AddPacket(m, q, r).end_seq = NumberOf(B[N] + 1)
<1> DEFINE map == m.stream_map
           e == New(B, N, r)
           E == D \cup {e}
           C == Grown(B, N)
           f == IF r = Blank THEN map ELSE WithPacket(map, q, r)
           c == NumberOf(q + 1)
           k == [m EXCEPT !.end_seq = c, !.stream_map = f]
           T == DOMAIN map
<1>1. m \in MonitorType /\ m.segment_count = N
  BY DEF Index
<1>2. T \in SUBSET Stream /\ map \in [T -> StreamType] /\ map \in MapType
  <2>1. map \in MapType
    BY <1>1, MonitorFields
  <2>2. PICK S \in SUBSET Stream : map \in [S -> StreamType]
    BY <2>1 DEF MapType
  <2> QED
    BY <2>1, <2>2
<1>3. c \in Nat /\ c = NumberOf(B[N] + 1)
  <2>1. B[N] \in Nat
    BY DEF Disk
  <2>2. Same(q + 1, B[N] + 1)
    <3>1. q \in Int /\ B[N] \in Int /\ 1 \in Int
      BY <2>1
    <3> QED
      BY <3>1, SamePlus, Zenon
  <2>3. q + 1 \in Int /\ B[N] + 1 \in Int
    BY <2>1
  <2> QED
    BY <2>2, <2>3, NumberIs, SameNumber
<1>4. e.rec = r
  BY DEF New
<1>5. ASSUME NEW s \in T PROVE Known(map[s], Of(s, D), C, N) /\ Of(s, D) \in SUBSET D
  <2>1. Known(map[s], Of(s, D), B, N) /\ Of(s, D) \in SUBSET D
    BY DEF Index, Of
  <2> QED
    BY <2>1, OtherKnown
<1>6. AddPacket(m, q, r) = k
  BY DEF AddPacket
<1>7. \A s : Of(s, E) = IF s = r.stream THEN Of(s, D) \cup {e} ELSE Of(s, D)
  BY <1>4 DEF Of
<1>8. \A d \in D : d.rec.stream \in T \cup {None}
  BY DEF Index
<1>9. /\ f \in MapType /\ T \subseteq DOMAIN f /\ \A d \in E : d.rec.stream \in DOMAIN f \cup {None}
      /\ \A s \in DOMAIN f : Known(f[s], Of(s, E), C, N)
  <2>1. CASE r = Blank
    <3>1. f = map /\ r.stream = None
      BY <2>1 DEF Blank
    <3>2. \A s \in T : Of(s, E) = Of(s, D)
      BY <1>2, <1>7, <3>1, IndexAssumption
    <3> HIDE DEF f, map, E, C
    <3>3. \A d \in E : d.rec.stream \in T \cup {None}
      BY <1>4, <1>8, <3>1 DEF E
    <3> QED
      BY <1>2, <1>5, <3>1, <3>2, <3>3
  <2>2. CASE r # Blank
    <3>1. r.stream \in Stream /\ r.stream # None /\ f = WithPacket(map, q, r)
      BY <2>2, IndexAssumption DEF RecordType
    <3> DEFINE u == r.stream
    <3>2. /\ DOMAIN f = T \cup {u} /\ f = [s \in DOMAIN f |-> f[s]]
          /\ \A s \in T \ {u} : f[s] = map[s]
          /\ f[u] =
               IF u \in T
               THEN [map[u] EXCEPT !.segments = Append(Front(map[u].segments), Here(q, r))]
               ELSE [begin_time |-> r.begin, begin_seq |-> q, segments |-> <<Here(q, r)>>]
      <4>1. Receives(WithPacket(map, q, r), T, map, q, r)
        <5> HIDE DEF map, T, f
        <5> QED
          BY <1>2, <3>1, WithPacketIs
      <4> QED
        BY <3>1, <4>1 DEF Receives
    <3> HIDE DEF f
    <3>3. f[u] \in StreamType /\ Known(f[u], Of(u, E), C, N)
      <4>1. CASE u \in T
        <5>1. map[u] \in StreamType /\ Known(map[u], Of(u, D), B, N) /\ Of(u, D) \in SUBSET D
          BY <1>2, <4>1 DEF Index, Of
        <5>2. \A d \in Of(u, D) : d.rec.end <= r.begin
          BY <3>1 DEF Of
        <5> DEFINE sn == [map[u] EXCEPT !.segments = Append(Front(map[u].segments), Here(q, r))]
        <5>3. sn \in StreamType /\ Known(sn, Of(u, D) \cup {New(B, N, r)}, Grown(B, N), N)
          <6> HIDE DEF map, u
          <6> QED
            BY <5>1, <5>2, NextKnown
        <5>4. f[u] = sn
          BY <3>2, <4>1
        <5> HIDE DEF sn
        <5> QED
          BY <1>7, <5>3, <5>4
      <4>2. CASE u \notin T
        <5>1. Of(u, D) = {}
          BY <1>8, <3>1, <4>2 DEF Of
        <5> DEFINE sn == [begin_time |-> r.begin, begin_seq |-> q, segments |-> <<Here(q, r)>>]
        <5>2. sn \in StreamType /\ Known(sn, {New(B, N, r)}, Grown(B, N), N)
          BY FirstKnown
        <5>3. f[u] = sn
          BY <3>2, <4>2
        <5> HIDE DEF sn
        <5>4. Of(u, E) = {e}
          BY <1>7, <5>1
        <5> QED
          BY <5>2, <5>3, <5>4
      <4> QED
        BY <4>1, <4>2
    <3>4. ASSUME NEW s \in T, s # u PROVE f[s] \in StreamType /\ Known(f[s], Of(s, E), C, N)
      BY <1>2, <1>5, <1>7, <3>2, <3>4
    <3>5. f \in [T \cup {u} -> StreamType] /\ T \cup {u} \in SUBSET Stream
      <4>1. \A s \in T \cup {u} : f[s] \in StreamType
        BY <3>3, <3>4
      <4>2. f = [s \in T \cup {u} |-> f[s]]
        BY <3>2
      <4> QED
        BY <1>2, <3>1, <4>1, <4>2
    <3>6. f \in MapType
      BY <3>5, MapIs
    <3>7. \A d \in E : d.rec.stream \in DOMAIN f \cup {None}
      BY <1>4, <1>8, <3>2
    <3>8. \A s \in DOMAIN f : Known(f[s], Of(s, E), C, N)
      BY <3>2, <3>3, <3>4
    <3> QED
      BY <3>2, <3>6, <3>7, <3>8
  <2> QED
    BY <2>1, <2>2
<1>10. /\ k \in MonitorType /\ k.end_seq = c /\ k.stream_map = f
       /\ k.segment_count = m.segment_count /\ k.begin_seq = m.begin_seq
  <2>1. k = [m EXCEPT !.end_seq = c, !.stream_map = f]
    OBVIOUS
  <2> HIDE DEF k, f, c
  <2> QED
    BY <1>1, <1>3, <1>9, <2>1 DEF MonitorType
<1> HIDE DEF k, f, c, E, C
<1> QED
  BY <1>1, <1>3, <1>6, <1>9, <1>10 DEF Index, E, C

-----------------------------------------------------------------------------
(* Induction over numbers, for a set instead of a predicate.               *)

LEMMA LeastNat ==
  ASSUME NEW S, S \subseteq Nat, S # {}
  PROVE  \E n \in S : \A m \in S : n <= m
<1> DEFINE R == OpToRel(<, Nat)
<1>1. IsWellFoundedOn(R, Nat)
  BY NatLessThanWellFounded
<1>2. \A x, y \in Nat : x < y => <<x, y>> \in R
  BY DEF OpToRel
<1> HIDE DEF R
<1>3. PICK n \in S : \A m \in S : <<m, n>> \notin R
  BY <1>1, WFMin
<1>4. ASSUME NEW m \in S PROVE n <= m
  <2>1. m \in Nat /\ n \in Nat
    OBVIOUS
  <2>2. ~(m < n)
    BY <1>2, <1>3, <2>1, Zenon
  <2> QED
    BY <2>1, <2>2
<1> QED
  BY <1>4

LEMMA UpTo ==
  ASSUME NEW n \in Nat, NEW S, 0 \in S,
         \A k \in 0 .. (n - 1) : k \in S => k + 1 \in S
  PROVE  \A k \in 0 .. n : k \in S
<1> DEFINE T == {k \in 0 .. n : k \notin S}
<1> SUFFICES ASSUME T # {} PROVE FALSE
  OBVIOUS
<1>1. T \subseteq Nat
  OBVIOUS
<1>2. PICK k \in T : \A m \in T : k <= m
  <2> HIDE DEF T
  <2> QED
    BY <1>1, LeastNat
<1>3. k \in 0 .. n /\ k \notin S /\ k # 0
  OBVIOUS
<1>4. k - 1 \in 0 .. (n - 1) /\ ~(k <= k - 1) /\ (k - 1) + 1 = k /\ k - 1 \in 0 .. n
  BY <1>3
<1>5. k - 1 \in S
  BY <1>2, <1>4
<1>6. (k - 1) + 1 \in S
  <2> HIDE DEF T
  <2> QED
    BY <1>4, <1>5
<1> QED
  BY <1>3, <1>4, <1>6, Zenon


\* f takes n steps from a.
Goes(f, n, a, step) == f[0] = a /\ \A k \in 1 .. n : f[k] = step[<<k, f[k - 1]>>]

\* After k steps, it is in T[k].
CanGo(n, a, step, T, U) ==
  \E f \in [0 .. n -> U] : Goes(f, n, a, step) /\ \A k \in 0 .. n : f[k] \in T[k]

LEMMA Iterates ==
  ASSUME NEW n \in Nat, NEW U, NEW T \in [0 .. n -> SUBSET U], NEW a \in T[0], NEW step,
         \A k \in 1 .. n : \A x \in T[k - 1] : step[<<k, x>>] \in T[k]
  PROVE  CanGo(n, a, step, T, U)
<1> DEFINE S == {m \in 0 .. n : CanGo(m, a, step, T, U)}
<1>1. 0 \in S
  <2> DEFINE f == [k \in 0 .. 0 |-> a]
  <2>1. f \in [0 .. 0 -> U] /\ f[0] = a
    OBVIOUS
  <2>2. Goes(f, 0, a, step) /\ \A k \in 0 .. 0 : f[k] \in T[k]
    BY DEF Goes
  <2> QED
    BY <2>1, <2>2 DEF CanGo
<1>2. ASSUME NEW m \in 0 .. (n - 1), m \in S PROVE m + 1 \in S
  <2>1. PICK f \in [0 .. m -> U] : Goes(f, m, a, step) /\ \A k \in 0 .. m : f[k] \in T[k]
    BY <1>2 DEF CanGo
  <2> DEFINE y == step[<<m + 1, f[m]>>]
             g == [k \in 0 .. (m + 1) |-> IF k = m + 1 THEN y ELSE f[k]]
  <2>2. y \in T[m + 1]
    <3>1. m + 1 \in 1 .. n /\ (m + 1) - 1 = m /\ m \in 0 .. m
      OBVIOUS
    <3> QED
      BY <2>1, <3>1
  <2>3. y \in U
    <3>1. m + 1 \in 0 .. n
      OBVIOUS
    <3> QED
      BY <2>2, <3>1
  <2> HIDE DEF y
  <2>4. g \in [0 .. (m + 1) -> U]
    BY <2>3
  <2>5. g[m + 1] = y /\ \A k \in 0 .. m : g[k] = f[k]
    OBVIOUS
  <2> HIDE DEF g
  <2>6. \A k \in 0 .. (m + 1) : g[k] \in T[k]
    <3> TAKE k \in 0 .. (m + 1)
    <3>1. k = m + 1 \/ k \in 0 .. m
      OBVIOUS
    <3> QED
      BY <2>1, <2>2, <2>5, <3>1
  <2>7. g[0] = a
    BY <2>1, <2>5 DEF Goes
  <2>8. ASSUME NEW k \in 1 .. (m + 1) PROVE g[k] = step[<<k, g[k - 1]>>]
    <3>1. CASE k = m + 1
      <4>1. k - 1 = m /\ m \in 0 .. m
        BY <3>1
      <4> QED
        BY <2>5, <3>1, <4>1 DEF y
    <3>2. CASE k # m + 1
      <4>1. k \in 1 .. m /\ k \in 0 .. m /\ k - 1 \in 0 .. m
        BY <3>2
      <4>2. f[k] = step[<<k, f[k - 1]>>]
        BY <2>1, <4>1 DEF Goes
      <4> QED
        BY <2>5, <4>1, <4>2
    <3> QED
      BY <3>1, <3>2
  <2>9. CanGo(m + 1, a, step, T, U)
    BY <2>4, <2>6, <2>7, <2>8 DEF CanGo, Goes
  <2>10. m + 1 \in 0 .. n
    OBVIOUS
  <2> QED
    BY <2>9, <2>10
<1>3. \A m \in 0 .. n : m \in S
  <2> HIDE DEF S
  <2> QED
    BY <1>1, <1>2, UpTo
<1> QED
  BY <1>3

Leads(step, n, T) == \A k \in 1 .. n : \A x \in T[k - 1] : step[<<k, x>>] \in T[k]

Takes(v, step, n, T) ==
  \A k \in 1 .. n : v[k - 1] \in T[k - 1] => v[k] = step[<<k, v[k - 1]>>]

\* What is defined by recursion takes the steps, and comes to T[n].
LEMMA Arrives ==
  ASSUME NEW n \in Nat, NEW T, NEW step, Leads(step, n, T),
         NEW v, v[0] \in T[0], Takes(v, step, n, T)
  PROVE  v[n] \in T[n]
<1> DEFINE S == {k \in 0 .. n : v[k] \in T[k]}
<1>1. 0 \in S
  OBVIOUS
<1>2. ASSUME NEW k \in 0 .. (n - 1), k \in S PROVE k + 1 \in S
  <2>1. k + 1 \in 1 .. n /\ (k + 1) - 1 = k /\ k + 1 \in 0 .. n
    OBVIOUS
  <2>2. v[(k + 1) - 1] \in T[(k + 1) - 1]
    BY <1>2, <2>1
  <2>3. v[k + 1] = step[<<k + 1, v[(k + 1) - 1]>>]
    BY <2>1, <2>2 DEF Takes
  <2>4. v[k + 1] \in T[k + 1]
    BY <2>1, <2>2, <2>3 DEF Leads
  <2> QED
    BY <2>1, <2>4
<1>3. \A k \in 0 .. n : k \in S
  <2> HIDE DEF S
  <2> QED
    BY <1>1, <1>2, UpTo
<1> QED
  BY <1>3

LEMMA StepsRise ==
  ASSUME NEW n \in Nat, NEW f \in [0 .. n -> Nat], \A k \in 0 .. (n - 1) : f[k] <= f[k + 1]
  PROVE  Rising(f, n)
<1> SUFFICES ASSUME NEW i \in 0 .. n
             PROVE  \A j \in 0 .. n : i <= j => f[i] <= f[j]
  BY DEF Rising
<1> DEFINE S == {j \in 0 .. n : i <= j => f[i] <= f[j]}
<1>1. 0 \in S
  OBVIOUS
<1>2. ASSUME NEW k \in 0 .. (n - 1), k \in S PROVE k + 1 \in S
  <2>1. k \in 0 .. n /\ k + 1 \in 0 .. n /\ f[k] <= f[k + 1]
    OBVIOUS
  <2>2. f[i] \in Nat /\ f[k] \in Nat /\ f[k + 1] \in Nat
    BY <2>1
  <2>3. i <= k + 1 => i <= k \/ i = k + 1
    OBVIOUS
  <2> QED
    BY <1>2, <2>1, <2>2, <2>3
<1>3. \A j \in 0 .. n : j \in S
  <2> HIDE DEF S
  <2> QED
    BY <1>1, <1>2, UpTo
<1> QED
  BY <1>3

-----------------------------------------------------------------------------
(* The layout of the files.                                                *)

LEMMA FileFields ==
  ASSUME NEW F, Layout(F), NEW k \in 1 .. Len(F)
  PROVE  /\ F[k] \in FileType /\ F[k].seq \in Nat /\ F[k].records \in Seq(RecordType)
         /\ Len(F[k].records) \in Nat /\ Len(F[k].records) <= FileSize
<1>1. F[k] \in FileType
  BY ElementOfSeq DEF Layout
<1>2. F[k].seq \in Nat /\ F[k].records \in Seq(RecordType)
  BY <1>1 DEF FileType
<1>3. Len(F[k].records) <= FileSize
  BY DEF Layout
<1> QED
  BY <1>1, <1>2, <1>3

LEMMA FilePlaces ==
  ASSUME NEW f \in FileType, NEW d \in RecordsOf(f)
  PROVE  d \in PlacedType /\ f.seq <= d.at /\ d.at < f.seq + Len(f.records)
<1>1. f.seq \in Nat /\ f.records \in Seq(RecordType)
  BY DEF FileType
<1>2. PICK i \in 1 .. Len(f.records) : d = [at |-> f.seq + (i - 1), rec |-> f.records[i]]
  BY DEF RecordsOf
<1>3. d.at = f.seq + (i - 1) /\ d.rec = f.records[i] /\ Len(f.records) \in Nat
  BY <1>1, <1>2
<1>4. d.rec \in RecordType
  BY <1>1, <1>3, ElementOfSeq
<1>5. f.seq + (i - 1) \in Nat
  BY <1>1
<1>6. d \in PlacedType
  BY <1>2, <1>3, <1>4, <1>5 DEF PlacedType
<1> QED
  BY <1>1, <1>3, <1>6

LEMMA LayoutSeqs ==
  ASSUME NEW F, Layout(F), F # <<>>
  PROVE  \A k \in 0 .. (Len(F) - 1) : F[k + 1].seq = F[1].seq + k * FileSize
<1> DEFINE n == Len(F) - 1
           S == {k \in 0 .. n : F[k + 1].seq = F[1].seq + k * FileSize}
<1>1. n \in Nat /\ FileSize \in Nat
  BY IndexAssumption DEF Layout
<1>2. 1 \in 1 .. Len(F)
  BY <1>1
<1>3. F[1].seq \in Nat
  BY <1>2, FileFields
<1>4. 0 \in S
  BY <1>1, <1>3
<1>5. ASSUME NEW k \in 0 .. (n - 1), k \in S PROVE k + 1 \in S
  <2>1. k + 1 \in 1 .. (Len(F) - 1) /\ k + 1 \in 0 .. n
    BY <1>1
  <2>2. F[(k + 1) + 1].seq = F[k + 1].seq + FileSize
    BY <2>1 DEF Layout
  <2>3. F[k + 1].seq = F[1].seq + k * FileSize
    BY <1>5
  <2>4. (k + 1) * FileSize = k * FileSize + FileSize /\ k * FileSize \in Nat
    BY <1>1
  <2> DEFINE x == k * FileSize
             y == (k + 1) * FileSize
  <2>5. F[(k + 1) + 1].seq = F[1].seq + y
    <3>1. F[k + 1].seq = F[1].seq + x /\ y = x + FileSize /\ x \in Nat
      BY <2>3, <2>4
    <3> HIDE DEF x, y
    <3> QED
      BY <1>1, <1>3, <2>2, <3>1
  <2> QED
    BY <2>1, <2>5
<1>6. \A k \in 0 .. n : k \in S
  <2> HIDE DEF S
  <2> QED
    BY <1>1, <1>4, <1>5, UpTo
<1> QED
  BY <1>6

LEMMA BoundIs ==
  ASSUME NEW F, Layout(F), F # <<>>
  PROVE  /\ Len(F) \in Nat \ {0} /\ Count(F) = Len(F)
         /\ EndOf(F) = F[Len(F)].seq + Len(F[Len(F)].records) /\ EndOf(F) \in Nat
         /\ Bound(F, Len(F)) = EndOf(F)
         /\ \A k \in 0 .. (Len(F) - 1) : Bound(F, k) = F[k + 1].seq
         /\ \A k \in 1 .. Len(F) : Bound(F, k) = F[k].seq + Len(F[k].records)
<1>1. Len(F) \in Nat \ {0} /\ Count(F) = Len(F)
  BY DEF Layout, Count
<1>2. Len(F) \in 1 .. Len(F)
  BY <1>1
<1>3. F[Len(F)].seq \in Nat /\ Len(F[Len(F)].records) \in Nat
  BY <1>2, FileFields
<1>4. EndOf(F) = F[Len(F)].seq + Len(F[Len(F)].records) /\ EndOf(F) \in Nat
  BY <1>3 DEF EndOf, Last
<1>5. Bound(F, Len(F)) = EndOf(F)
  BY <1>1 DEF Bound
<1>6. \A k \in 0 .. (Len(F) - 1) : Bound(F, k) = F[k + 1].seq
  BY <1>1 DEF Bound
<1>7. \A k \in 1 .. Len(F) : Bound(F, k) = F[k].seq + Len(F[k].records)
  <2> TAKE k \in 1 .. Len(F)
  <2>1. CASE k = Len(F)
    BY <1>4, <1>5, <2>1
  <2>2. CASE k # Len(F)
    <3>1. k \in 1 .. (Len(F) - 1) /\ k \in 0 .. (Len(F) - 1)
      BY <1>1, <2>2
    <3>2. F[k + 1].seq = F[k].seq + FileSize /\ Len(F[k].records) = FileSize
      BY <3>1 DEF Layout
    <3> QED
      BY <1>6, <3>1, <3>2
  <2> QED
    BY <2>1, <2>2
<1> QED
  BY <1>1, <1>4, <1>5, <1>6, <1>7

LEMMA LayoutDisk ==
  ASSUME NEW F, Layout(F)
  PROVE  /\ Disk(DiskOf(F), Bounds(F), Count(F))
         /\ Bounds(F)[Count(F)] <= Bounds(F)[0] + Capacity
<1> DEFINE N == Count(F)
           B == Bounds(F)
<1>1. CASE F = <<>>
  <2>1. N = 1 /\ DiskOf(F) = {}
    <3>1. Len(<<>>) = 0
      OBVIOUS
    <3> QED
      BY <1>1, <3>1 DEF Count, DiskOf
  <2>2. B \in [0 .. 1 -> Nat] /\ \A k \in 0 .. 1 : B[k] = 0
    BY <1>1, <2>1 DEF Bounds, Bound
  <2> HIDE DEF B, N
  <2> QED
    BY <2>1, <2>2, CapacityNat DEF Disk, Rising, N, B
<1>2. CASE F # <<>>
  <2>1. /\ N = Len(F) /\ N \in Nat \ {0} /\ EndOf(F) \in Nat /\ Bound(F, N) = EndOf(F)
        /\ \A k \in 0 .. (N - 1) : Bound(F, k) = F[k + 1].seq
        /\ \A k \in 1 .. N : Bound(F, k) = F[k].seq + Len(F[k].records)
    BY <1>2, BoundIs
  <2>2. \A k \in 0 .. N : B[k] = Bound(F, k)
    BY <2>1 DEF Bounds
  <2>3. \A k \in 0 .. N : Bound(F, k) \in Nat
    <3> TAKE k \in 0 .. N
    <3>1. CASE k = N
      BY <2>1, <3>1
    <3>2. CASE k # N
      <4>1. k \in 0 .. (N - 1) /\ k + 1 \in 1 .. Len(F)
        BY <2>1, <3>2
      <4> QED
        BY <2>1, <4>1, FileFields
    <3> QED
      BY <3>1, <3>2
  <2>4. B \in [0 .. N -> Nat]
    BY <2>3 DEF Bounds
  <2> HIDE DEF B, N
  <2>5. ASSUME NEW k \in 0 .. (N - 1) PROVE B[k] <= B[k + 1]
    <3>1. k + 1 \in 1 .. N /\ k \in 0 .. N /\ k + 1 \in 0 .. N
      BY <2>1
    <3>2. F[k + 1].seq \in Nat /\ Len(F[k + 1].records) \in Nat
      BY <2>1, <3>1, FileFields
    <3>3. B[k] = F[k + 1].seq /\ B[k + 1] = F[k + 1].seq + Len(F[k + 1].records)
      BY <2>1, <2>2, <3>1
    <3> QED
      BY <3>2, <3>3
  <2>6. Rising(B, N)
    BY <2>1, <2>4, <2>5, StepsRise
  <2>7. ASSUME NEW d \in DiskOf(F)
        PROVE  d \in PlacedType /\ B[0] <= d.at /\ d.at < B[N]
    <3>1. PICK k \in 1 .. N : d \in RecordsOf(F[k])
      BY <2>1 DEF DiskOf
    <3>2. d \in PlacedType /\ F[k].seq <= d.at /\ d.at < F[k].seq + Len(F[k].records)
      BY <2>1, <3>1, FileFields, FilePlaces
    <3>3. k - 1 \in 0 .. (N - 1) /\ (k - 1) + 1 = k /\ k - 1 \in 0 .. N /\ k \in 0 .. N /\ 0 \in 0 .. N
          /\ N \in 0 .. N /\ 0 <= k - 1 /\ k <= N
      BY <2>1
    <3>4. B[k - 1] = F[k].seq /\ B[k] = F[k].seq + Len(F[k].records)
      BY <2>1, <2>2, <3>3
    <3>5. B[0] <= B[k - 1] /\ B[k] <= B[N]
      BY <2>6, <3>3 DEF Rising
    <3>6. d.at \in Nat /\ B[0] \in Nat /\ B[k - 1] \in Nat /\ B[k] \in Nat /\ B[N] \in Nat
      BY <2>4, <3>2, <3>3, PlacedFields
    <3> QED
      BY <3>2, <3>4, <3>5, <3>6
  <2>8. B[N] <= B[0] + Capacity
    <3>1. N - 1 \in 0 .. (Len(F) - 1) /\ (N - 1) + 1 = N /\ N \in 1 .. Len(F) /\ 0 \in 0 .. (N - 1)
          /\ 0 + 1 = 1 /\ 0 \in 0 .. N /\ N \in 0 .. N /\ 1 \in 1 .. Len(F)
      BY <2>1
    <3>2. F[N].seq = F[1].seq + (N - 1) * FileSize
      BY <1>2, <3>1, LayoutSeqs
    <3>3. B[0] = F[1].seq /\ B[N] = F[N].seq + Len(F[N].records)
      BY <2>1, <2>2, <3>1
    <3>4. Len(F[N].records) <= FileSize /\ Len(F[N].records) \in Nat /\ F[1].seq \in Nat
      BY <3>1, FileFields
    <3>5. FileSize \in Nat /\ MaxFiles \in Nat /\ N <= MaxFiles
      BY <2>1, IndexAssumption DEF Layout
    <3>6. (N - 1) * FileSize + FileSize = N * FileSize /\ (N - 1) * FileSize \in Nat
      BY <2>1, <3>5
    <3>7. N * FileSize <= MaxFiles * FileSize
      <4>1. \A a, b, c \in Nat : a <= b => a * c <= b * c
        OBVIOUS
      <4> QED
        BY <2>1, <3>5, <4>1
    <3> QED
      BY <3>2, <3>3, <3>4, <3>5, <3>6, <3>7 DEF Capacity
  <2> QED
    BY <2>1, <2>4, <2>6, <2>7, <2>8 DEF Disk, N, B
<1> QED
  BY <1>1, <1>2

-----------------------------------------------------------------------------
(* The oldest file is deleted.                                             *)

LEMMA TailIs ==
  ASSUME NEW F, Layout(F), Len(F) >= 2
  PROVE  /\ Tail(F) \in Seq(FileType) /\ Tail(F) # <<>> /\ Len(Tail(F)) = Len(F) - 1 /\ F # <<>>
         /\ \A k \in 1 .. (Len(F) - 1) : Tail(F)[k] = F[k + 1]
<1>1. F \in Seq(FileType) /\ F # <<>> /\ Len(F) \in Nat
  BY DEF Layout
<1>2. Tail(F) \in Seq(FileType) /\ Len(Tail(F)) = Len(F) - 1
      /\ \A k \in 1 .. Len(Tail(F)) : Tail(F)[k] = F[k + 1]
  BY <1>1, HeadTailProperties
<1>3. Len(Tail(F)) # 0
  BY <1>1, <1>2
<1>4. Len(<<>>) = 0
  OBVIOUS
<1>5. Tail(F) # <<>>
  BY <1>3, <1>4, Zenon
<1> QED
  BY <1>1, <1>2, <1>5

LEMMA TailLayout ==
  ASSUME NEW F, Layout(F), Len(F) >= 2
  PROVE  Layout(Tail(F))
<1> DEFINE G == Tail(F)
           n == Len(F) - 1
<1>1. /\ F \in Seq(FileType) /\ Len(F) \in Nat /\ MaxFiles \in Nat /\ Len(F) <= MaxFiles
      /\ \A k \in 1 .. Len(F) : Len(F[k].records) <= FileSize
      /\ \A k \in 1 .. (Len(F) - 1) : /\ Len(F[k].records) = FileSize
                                      /\ F[k + 1].seq = F[k].seq + FileSize
  BY IndexAssumption DEF Layout
<1>2. G \in Seq(FileType) /\ Len(G) = n /\ \A k \in 1 .. n : G[k] = F[k + 1]
  BY TailIs
<1>3. n <= MaxFiles
  BY <1>1
<1>4. \A k \in 1 .. n : k + 1 \in 1 .. Len(F)
  BY <1>1
<1>5. \A k \in 1 .. (n - 1) : k \in 1 .. n /\ k + 1 \in 1 .. n /\ k + 1 \in 1 .. (Len(F) - 1)
  BY <1>1
<1> HIDE DEF G, n
<1>6. \A k \in 1 .. n : Len(G[k].records) <= FileSize
  BY <1>1, <1>2, <1>4
<1>7. ASSUME NEW k \in 1 .. (n - 1)
      PROVE  Len(G[k].records) = FileSize /\ G[k + 1].seq = G[k].seq + FileSize
  <2>1. G[k] = F[k + 1] /\ G[k + 1] = F[(k + 1) + 1]
    BY <1>2, <1>5
  <2> QED
    BY <1>1, <1>5, <2>1
<1> QED
  BY <1>2, <1>3, <1>6, <1>7 DEF Layout, G

LEMMA TailBounds ==
  ASSUME NEW F, Layout(F), Len(F) >= 2
  PROVE  /\ Count(Tail(F)) = Len(F) - 1 /\ EndOf(Tail(F)) = EndOf(F)
         /\ Bounds(Tail(F)) = Shift(Bounds(F), Len(F))
         /\ Bounds(F)[1] = F[2].seq /\ Bound(Tail(F), 0) = F[2].seq
<1> DEFINE G == Tail(F)
           N == Len(F)
           n == N - 1
<1>1. G # <<>> /\ Len(G) = n /\ F # <<>> /\ \A k \in 1 .. n : G[k] = F[k + 1]
  BY TailIs
<1>2. Layout(G)
  BY TailLayout
<1>3. /\ Len(F) \in Nat \ {0} /\ Count(F) = N
      /\ EndOf(F) = F[N].seq + Len(F[N].records) /\ Bound(F, N) = EndOf(F)
      /\ \A k \in 0 .. (N - 1) : Bound(F, k) = F[k + 1].seq
  BY <1>1, BoundIs
<1>4. /\ Count(G) = n /\ EndOf(G) = G[n].seq + Len(G[n].records) /\ Bound(G, n) = EndOf(G)
      /\ \A k \in 0 .. (n - 1) : Bound(G, k) = G[k + 1].seq
  <2> HIDE DEF G, n
  <2> QED
    BY <1>1, <1>2, BoundIs
<1>5. n \in 1 .. n /\ n + 1 = N /\ n \in Nat /\ N >= 2 /\ N \in Nat /\ N - 1 = n
  BY <1>3
<1> HIDE DEF G, n, N
<1>6. G[n] = F[N]
  BY <1>1, <1>5
<1>7. EndOf(G) = EndOf(F)
  BY <1>3, <1>4, <1>6
<1>8. ASSUME NEW k \in 0 .. n PROVE Bound(G, k) = Bound(F, k + 1)
  <2>1. CASE k = n
    BY <1>3, <1>4, <1>5, <1>7, <2>1
  <2>2. CASE k # n
    <3>1. k \in 0 .. (n - 1) /\ k + 1 \in 0 .. (N - 1) /\ k + 1 \in 1 .. n
      BY <1>5, <2>2
    <3>2. Bound(G, k) = G[k + 1].seq /\ G[k + 1] = F[(k + 1) + 1]
      BY <1>1, <1>4, <3>1
    <3>3. Bound(F, k + 1) = F[(k + 1) + 1].seq
      BY <1>3, <3>1
    <3> QED
      BY <3>2, <3>3
  <2> QED
    BY <2>1, <2>2
<1>9. \A k \in 0 .. n : Bounds(G)[k] = Shift(Bounds(F), N)[k]
  <2> TAKE k \in 0 .. n
  <2>1. k + 1 \in 0 .. N
    BY <1>5
  <2>2. Bounds(G)[k] = Bound(G, k)
    BY <1>4 DEF Bounds
  <2>3. Bounds(F)[k + 1] = Bound(F, k + 1)
    BY <1>3, <2>1 DEF Bounds
  <2> QED
    BY <1>5, <1>8, <2>2, <2>3 DEF Shift
<1>10. Bounds(G) = Shift(Bounds(F), N)
  <2>1. Bounds(G) = [k \in 0 .. n |-> Bounds(G)[k]]
    BY <1>4 DEF Bounds
  <2>2. Shift(Bounds(F), N) = [k \in 0 .. n |-> Shift(Bounds(F), N)[k]]
    BY <1>5 DEF Shift
  <2> QED
    BY <1>9, <2>1, <2>2
<1>11. Bounds(F)[1] = F[2].seq /\ Bound(G, 0) = F[2].seq
  <2>1. 1 \in 0 .. N /\ 1 \in 0 .. (N - 1) /\ 1 + 1 = 2 /\ 0 \in 0 .. n /\ 0 + 1 = 1
    BY <1>5
  <2>2. Bounds(F)[1] = Bound(F, 1)
    BY <1>3, <2>1 DEF Bounds
  <2>3. Bound(F, 1) = F[2].seq
    BY <1>3, <2>1
  <2>4. Bound(G, 0) = Bound(F, 1)
    BY <1>8, <2>1
  <2> QED
    BY <2>2, <2>3, <2>4
<1> QED
  BY <1>4, <1>7, <1>10, <1>11 DEF G, n, N

LEMMA TailDisk ==
  ASSUME NEW F, Layout(F), Len(F) >= 2
  PROVE  DiskOf(Tail(F)) = Kept(DiskOf(F), Bounds(F)[1])
<1> DEFINE G == Tail(F)
           N == Len(F)
           b == F[2].seq
<1>1. F # <<>> /\ Len(G) = N - 1 /\ \A k \in 1 .. (N - 1) : G[k] = F[k + 1]
  BY TailIs
<1>2. Bounds(F)[1] = b
  BY TailBounds
<1>3. N \in Nat /\ N >= 2
  BY DEF Layout
<1>4. ASSUME NEW k \in 1 .. N, NEW d \in RecordsOf(F[k])
      PROVE  d.at >= b <=> k # 1
  <2>1. d \in PlacedType /\ F[k].seq <= d.at /\ d.at < F[k].seq + Len(F[k].records)
    BY FileFields, FilePlaces
  <2>2. d.at \in Nat /\ F[k].seq \in Nat /\ Len(F[k].records) \in Nat /\ F[2].seq \in Nat
    <3>1. 2 \in 1 .. Len(F)
      BY <1>3
    <3> QED
      BY <2>1, <3>1, PlacedFields, FileFields
  <2>3. CASE k = 1
    <3>1. 1 \in 1 .. (Len(F) - 1) /\ 1 + 1 = 2
      BY <1>3
    <3>2. Len(F[1].records) = FileSize /\ F[2].seq = F[1].seq + FileSize
      BY <3>1 DEF Layout
    <3> QED
      BY <2>1, <2>2, <2>3, <3>2
  <2>4. CASE k # 1
    <3> DEFINE B == Bounds(F)
    <3>1. Disk(DiskOf(F), B, Count(F)) /\ Count(F) = N
      BY <1>1, LayoutDisk, BoundIs
    <3>2. k - 1 \in 0 .. N /\ 1 \in 0 .. N /\ 1 <= k - 1 /\ k - 1 \in 0 .. (N - 1) /\ (k - 1) + 1 = k
      BY <1>3, <2>4
    <3>3. B[1] <= B[k - 1]
      BY <3>1, <3>2 DEF Disk, Rising
    <3>4. B[k - 1] = F[k].seq
      <4>1. B[k - 1] = Bound(F, k - 1)
        BY <3>1, <3>2 DEF Bounds
      <4>2. Bound(F, k - 1) = F[(k - 1) + 1].seq
        BY <1>1, <3>2, BoundIs
      <4> QED
        BY <3>2, <4>1, <4>2
    <3> QED
      BY <1>2, <2>1, <2>2, <2>4, <3>3, <3>4
  <2> QED
    BY <2>3, <2>4
<1> HIDE DEF G, N, b
<1>5. ASSUME NEW d \in DiskOf(G) PROVE d \in Kept(DiskOf(F), b)
  <2>1. PICK k \in 1 .. (N - 1) : d \in RecordsOf(G[k])
    BY <1>1 DEF DiskOf
  <2>2. k + 1 \in 1 .. N /\ k + 1 # 1
    BY <1>3
  <2>3. d \in RecordsOf(F[k + 1])
    BY <1>1, <2>1
  <2>4. d \in DiskOf(F)
    BY <2>2, <2>3 DEF DiskOf, N
  <2> QED
    BY <1>4, <2>2, <2>3, <2>4 DEF Kept
<1>6. ASSUME NEW d \in Kept(DiskOf(F), b) PROVE d \in DiskOf(G)
  <2>1. d \in DiskOf(F) /\ d.at >= b
    BY DEF Kept
  <2>2. PICK k \in 1 .. N : d \in RecordsOf(F[k])
    BY <2>1 DEF DiskOf, N
  <2>3. k # 1
    BY <1>4, <2>1, <2>2
  <2>4. k - 1 \in 1 .. (N - 1) /\ (k - 1) + 1 = k
    BY <1>3, <2>3
  <2>5. d \in RecordsOf(G[k - 1])
    BY <1>1, <2>2, <2>4
  <2> QED
    BY <1>1, <2>4, <2>5 DEF DiskOf
<1>7. DiskOf(G) = Kept(DiskOf(F), b)
  BY <1>5, <1>6 DEF Kept
<1> QED
  BY <1>2, <1>7 DEF G

LEMMA TailIndex ==
  ASSUME NEW F, Layout(F), Len(F) >= 2, NEW m, IndexOf(m, F)
  PROVE  IndexOf(DeleteOldestSegment(m), Tail(F))
<1> DEFINE N == Len(F)
           D == DiskOf(F)
           B == Bounds(F)
<1>1. N \in Nat /\ F # <<>> /\ Count(F) = N
  BY TailIs, BoundIs DEF Layout
<1>2. Disk(D, B, N) /\ B[N] <= B[0] + Capacity
  BY <1>1, LayoutDisk
<1>3. Index(m, D, B, N)
  BY <1>1 DEF IndexOf
<1> HIDE DEF N, D, B
<1>4. Index(DeleteOldestSegment(m), Kept(D, B[1]), Shift(B, N), N - 1)
  BY <1>1, <1>2, <1>3, DeletedIndex DEF N
<1> QED
  BY <1>4, TailBounds, TailDisk DEF IndexOf, N, D, B

-----------------------------------------------------------------------------
(* A record is stored.                                                     *)

\* A new file after the others, and a record in the last file.
Opened(F) == Append(F, [seq |-> EndOf(F), records |-> <<>>])
Put(F, r) == Append(Front(F), [Last(F) EXCEPT !.records = Append(@, r)])

Room(F) == F # <<>> /\ Len(Last(F).records) < FileSize
Full(F) == F # <<>> /\ Len(Last(F).records) >= FileSize

LEMMA OpenedIs ==
  ASSUME NEW F, Layout(F)
  PROVE  /\ Opened(F) \in Seq(FileType) /\ Opened(F) # <<>> /\ Len(Opened(F)) = Len(F) + 1
         /\ \A k \in 1 .. Len(F) : Opened(F)[k] = F[k]
         /\ Opened(F)[Len(F) + 1].seq = EndOf(F) /\ Opened(F)[Len(F) + 1].records = <<>>
         /\ EndOf(F) \in Nat
<1> DEFINE f == [seq |-> EndOf(F), records |-> <<>>]
<1>1. F \in Seq(FileType) /\ Len(F) \in Nat
  BY DEF Layout
<1>2. EndOf(F) \in Nat
  <2>1. CASE F = <<>>
    BY <2>1 DEF EndOf
  <2>2. CASE F # <<>>
    BY <2>2, BoundIs
  <2> QED
    BY <2>1, <2>2
<1>3. <<>> \in Seq(RecordType)
  OBVIOUS
<1>4. f \in FileType /\ f.seq = EndOf(F) /\ f.records = <<>>
  BY <1>2, <1>3 DEF FileType
<1> HIDE DEF f
<1>5. /\ Append(F, f) \in Seq(FileType) /\ Len(Append(F, f)) = Len(F) + 1
      /\ \A k \in 1 .. Len(F) : Append(F, f)[k] = F[k]
      /\ Append(F, f)[Len(F) + 1] = f
  BY <1>1, <1>4
<1>6. Opened(F) = Append(F, f)
  BY DEF Opened, f
<1>7. Len(Opened(F)) # 0 /\ Len(<<>>) = 0
  BY <1>1, <1>5, <1>6
<1>8. Opened(F) # <<>>
  BY <1>7, Zenon
<1> QED
  BY <1>2, <1>4, <1>5, <1>6, <1>8

LEMMA OpenedLayout ==
  ASSUME NEW F, Layout(F), Full(F), Len(F) < MaxFiles
  PROVE  Layout(Opened(F))
<1> DEFINE G == Opened(F)
           N == Len(F)
<1>1. /\ F \in Seq(FileType) /\ N \in Nat /\ MaxFiles \in Nat /\ N < MaxFiles /\ FileSize \in Nat
      /\ \A k \in 1 .. N : Len(F[k].records) <= FileSize
      /\ \A k \in 1 .. (N - 1) : /\ Len(F[k].records) = FileSize
                                 /\ F[k + 1].seq = F[k].seq + FileSize
  BY IndexAssumption DEF Layout
<1>2. /\ G \in Seq(FileType) /\ Len(G) = N + 1 /\ \A k \in 1 .. N : G[k] = F[k]
      /\ G[N + 1].seq = EndOf(F) /\ G[N + 1].records = <<>>
  BY OpenedIs
<1>3. N \in 1 .. N /\ F[N].seq \in Nat /\ Len(F[N].records) = FileSize
      /\ EndOf(F) = F[N].seq + FileSize
  <2>1. N \in 1 .. N
    BY <1>1, BoundIs DEF Full
  <2>2. F[N].seq \in Nat /\ Len(F[N].records) \in Nat /\ Len(F[N].records) <= FileSize
    BY <2>1, FileFields
  <2>3. Len(F[N].records) >= FileSize
    BY DEF Full, Last
  <2>4. EndOf(F) = F[N].seq + Len(F[N].records)
    BY BoundIs DEF Full
  <2> QED
    BY <1>1, <2>1, <2>2, <2>3, <2>4
<1> HIDE DEF G, N
<1>4. \A k \in 1 .. (N + 1) : Len(G[k].records) <= FileSize
  <2> TAKE k \in 1 .. (N + 1)
  <2>1. k = N + 1 \/ k \in 1 .. N
    BY <1>1
  <2>2. Len(<<>>) = 0
    OBVIOUS
  <2> QED
    BY <1>1, <1>2, <2>1, <2>2
<1>5. ASSUME NEW k \in 1 .. ((N + 1) - 1)
      PROVE  Len(G[k].records) = FileSize /\ G[k + 1].seq = G[k].seq + FileSize
  <2>1. k \in 1 .. N
    BY <1>1
  <2>2. CASE k = N
    BY <1>2, <1>3, <2>2
  <2>3. CASE k # N
    <3>1. k \in 1 .. (N - 1) /\ k + 1 \in 1 .. N
      BY <1>1, <2>1, <2>3
    <3> QED
      BY <1>1, <1>2, <2>1, <3>1
  <2> QED
    BY <2>2, <2>3
<1>6. N + 1 <= MaxFiles
  BY <1>1
<1> QED
  BY <1>2, <1>4, <1>5, <1>6 DEF Layout, G

LEMMA OpenedBounds ==
  ASSUME NEW F, Layout(F), Full(F), Len(F) < MaxFiles
  PROVE  /\ Count(F) = Len(F) /\ Count(Opened(F)) = Len(F) + 1 /\ EndOf(Opened(F)) = EndOf(F)
         /\ Bounds(Opened(F)) = Extend(Bounds(F), Len(F), Bounds(F)[Len(F)])
         /\ Bound(Opened(F), 0) = Bound(F, 0) /\ Room(Opened(F))
<1> DEFINE G == Opened(F)
           N == Len(F)
<1>1. /\ N \in Nat \ {0} /\ Count(F) = N /\ Bound(F, N) = EndOf(F) /\ EndOf(F) \in Nat
      /\ \A k \in 0 .. (N - 1) : Bound(F, k) = F[k + 1].seq
  BY BoundIs DEF Full
<1>2. /\ G # <<>> /\ Len(G) = N + 1 /\ \A k \in 1 .. N : G[k] = F[k]
      /\ G[N + 1].seq = EndOf(F) /\ G[N + 1].records = <<>>
  BY OpenedIs
<1>3. Layout(G)
  BY OpenedLayout
<1> HIDE DEF G
<1>4. /\ Count(G) = N + 1 /\ Bound(G, N + 1) = EndOf(G)
      /\ EndOf(G) = G[N + 1].seq + Len(G[N + 1].records)
      /\ \A k \in 0 .. ((N + 1) - 1) : Bound(G, k) = G[k + 1].seq
  <2> HIDE DEF N
  <2> QED
    BY <1>2, <1>3, BoundIs
<1> HIDE DEF N
<1>5. Len(<<>>) = 0
  OBVIOUS
<1>6. EndOf(G) = EndOf(F)
  BY <1>1, <1>2, <1>4, <1>5
<1>7. ASSUME NEW k \in 0 .. N PROVE Bound(G, k) = Bound(F, k)
  <2>1. k \in 0 .. ((N + 1) - 1)
    BY <1>1
  <2>2. CASE k = N
    BY <1>1, <1>2, <1>4, <2>1, <2>2
  <2>3. CASE k # N
    <3>1. k \in 0 .. (N - 1) /\ k + 1 \in 1 .. N
      BY <1>1, <2>3
    <3> QED
      BY <1>1, <1>2, <1>4, <2>1, <3>1
  <2> QED
    BY <2>2, <2>3
<1>8. Bounds(G) = Extend(Bounds(F), N, Bounds(F)[N])
  <2> DEFINE E == Extend(Bounds(F), N, Bounds(F)[N])
  <2>1. Bounds(G) = [k \in 0 .. (N + 1) |-> Bound(G, k)]
    BY <1>4 DEF Bounds
  <2>2. \A k \in 0 .. N : Bounds(F)[k] = Bound(F, k)
    BY <1>1 DEF Bounds
  <2>3. E = [k \in 0 .. (N + 1) |-> IF k = N + 1 THEN Bounds(F)[N] ELSE Bounds(F)[k]]
    BY DEF Extend
  <2>4. ASSUME NEW k \in 0 .. (N + 1)
        PROVE  Bound(G, k) = IF k = N + 1 THEN Bounds(F)[N] ELSE Bounds(F)[k]
    <3>1. N \in 0 .. N /\ (k = N + 1 \/ (k # N + 1 /\ k \in 0 .. N))
      BY <1>1
    <3> QED
      BY <1>1, <1>4, <1>6, <1>7, <2>2, <3>1
  <2> QED
    BY <2>1, <2>3, <2>4
<1>9. Room(G)
  BY <1>2, <1>5, IndexAssumption DEF Room, Last
<1>10. 0 \in 0 .. N
  BY <1>1
<1> QED
  BY <1>1, <1>4, <1>6, <1>7, <1>8, <1>9, <1>10 DEF G, N

LEMMA OpenedDisk ==
  ASSUME NEW F, Layout(F)
  PROVE  DiskOf(Opened(F)) = DiskOf(F)
<1> DEFINE G == Opened(F)
           N == Len(F)
<1>1. /\ Len(G) = N + 1 /\ \A k \in 1 .. N : G[k] = F[k] /\ G[N + 1].records = <<>>
      /\ G[N + 1].records = <<>> /\ N \in Nat
  BY OpenedIs DEF Layout
<1>2. RecordsOf(G[N + 1]) = {}
  <2>1. Len(<<>>) = 0
    OBVIOUS
  <2> QED
    BY <1>1, <2>1 DEF RecordsOf
<1> HIDE DEF G, N
<1>3. \A k \in 1 .. (N + 1) : k \in 1 .. N \/ k = N + 1
  BY <1>1
<1>4. \A k \in 1 .. N : k \in 1 .. (N + 1)
  BY <1>1
<1>5. DiskOf(G) = UNION {RecordsOf(G[k]) : k \in 1 .. (N + 1)}
  BY <1>1 DEF DiskOf
<1>6. DiskOf(F) = UNION {RecordsOf(F[k]) : k \in 1 .. N}
  BY DEF DiskOf, N
<1>7. ASSUME NEW d \in DiskOf(G) PROVE d \in DiskOf(F)
  BY <1>1, <1>2, <1>3, <1>5, <1>6
<1>8. ASSUME NEW d \in DiskOf(F) PROVE d \in DiskOf(G)
  BY <1>1, <1>4, <1>5, <1>6
<1> QED
  BY <1>7, <1>8 DEF G

LEMMA OpenedIndex ==
  ASSUME NEW F, Layout(F), Full(F), Len(F) < MaxFiles, NEW m, IndexOf(m, F)
  PROVE  IndexOf(NewSegment(m), Opened(F))
<1> DEFINE N == Len(F)
           D == DiskOf(F)
           B == Bounds(F)
<1>1. N \in Nat /\ Count(F) = N
  BY OpenedBounds DEF Layout
<1>2. Disk(D, B, N)
  BY <1>1, LayoutDisk
<1>3. Index(m, D, B, N)
  BY <1>1 DEF IndexOf
<1> HIDE DEF N, D, B
<1>4. Index(NewSegment(m), D, Extend(B, N, B[N]), N + 1)
  BY <1>1, <1>2, <1>3, NewSegmentIndex
<1> QED
  BY <1>4, OpenedBounds, OpenedDisk DEF IndexOf, N, D, B

\* The first file of all, for which the index needs no new segment.
LEMMA OpenedFirst ==
  /\ Layout(<<>>) /\ Layout(Opened(<<>>)) /\ Room(Opened(<<>>))
  /\ EndOf(<<>>) = 0 /\ EndOf(Opened(<<>>)) = 0
  /\ Bound(<<>>, 0) = 0 /\ Bound(Opened(<<>>), 0) = 0
  /\ \A m : IndexOf(m, <<>>) => IndexOf(m, Opened(<<>>))
<1> DEFINE F == <<>>
           G == Opened(F)
<1>1. Len(F) = 0 /\ F \in Seq(FileType)
  OBVIOUS
<1>2. Layout(F)
  BY <1>1, IndexAssumption DEF Layout
<1>3. EndOf(F) = 0 /\ Count(F) = 1 /\ \A k \in 0 .. 1 : Bound(F, k) = 0
  BY DEF EndOf, Count, Bound
<1> HIDE DEF F
<1>4. /\ G \in Seq(FileType) /\ G # <<>> /\ Len(G) = 1 /\ G[1].seq = 0 /\ G[1].records = <<>>
  <2>1. /\ G \in Seq(FileType) /\ G # <<>> /\ Len(G) = Len(F) + 1
        /\ G[Len(F) + 1].seq = EndOf(F) /\ G[Len(F) + 1].records = <<>>
    BY <1>2, OpenedIs
  <2>2. Len(F) + 1 = 1
    BY <1>1
  <2> QED
    BY <1>3, <2>1, <2>2
<1>5. DiskOf(G) = DiskOf(F)
  BY <1>2, OpenedDisk
<1> HIDE DEF G
<1>6. Len(<<>>) = 0 /\ FileSize \in Nat /\ FileSize > 0 /\ 1 <= MaxFiles
  BY IndexAssumption
<1>7. Layout(G) /\ Room(G)
  <2>1. \A k \in 1 .. 1 : k = 1
    OBVIOUS
  <2>2. \A k \in 1 .. (1 - 1) : FALSE
    OBVIOUS
  <2>3. Layout(G)
    BY <1>4, <1>6, <2>1, <2>2 DEF Layout
  <2>4. Room(G)
    BY <1>4, <1>6 DEF Room, Last
  <2> QED
    BY <2>3, <2>4
<1>8. EndOf(G) = 0 /\ Count(G) = 1 /\ \A k \in 0 .. 1 : Bound(G, k) = 0
  BY <1>4, <1>6 DEF EndOf, Count, Bound, Last
<1>9. Bounds(G) = Bounds(F)
  BY <1>3, <1>8 DEF Bounds
<1>10. ASSUME NEW m, IndexOf(m, F) PROVE IndexOf(m, G)
  BY <1>3, <1>5, <1>8, <1>9, <1>10 DEF IndexOf
<1> QED
  BY <1>2, <1>3, <1>7, <1>8, <1>10 DEF F, G

LEMMA PutIs ==
  ASSUME NEW G, Layout(G), Room(G), NEW r \in RecordType
  PROVE  /\ Put(G, r) \in Seq(FileType) /\ Put(G, r) # <<>> /\ Len(Put(G, r)) = Len(G)
         /\ \A k \in 1 .. (Len(G) - 1) : Put(G, r)[k] = G[k]
         /\ Put(G, r)[Len(G)].seq = G[Len(G)].seq
         /\ Put(G, r)[Len(G)].records = Append(G[Len(G)].records, r)
<1> DEFINE N == Len(G)
           f == [G[N] EXCEPT !.records = Append(@, r)]
<1>1. G \in Seq(FileType) /\ G # <<>> /\ N \in Nat \ {0} /\ N \in 1 .. N
  BY BoundIs DEF Layout, Room
<1>2. G[N] \in FileType /\ G[N].records \in Seq(RecordType)
  BY <1>1, FileFields
<1>3. Append(G[N].records, r) \in Seq(RecordType)
  BY <1>2
<1>4. f \in FileType /\ f.seq = G[N].seq /\ f.records = Append(G[N].records, r)
  BY <1>2, <1>3 DEF FileType
<1>5. Front(G) \in Seq(FileType) /\ Len(Front(G)) = N - 1
      /\ \A k \in 1 .. (N - 1) : Front(G)[k] = G[k]
  BY <1>1, FrontIs
<1>6. Put(G, r) = Append(Front(G), f)
  BY DEF Put, Last
<1> HIDE DEF f
<1>7. /\ Append(Front(G), f) \in Seq(FileType) /\ Len(Append(Front(G), f)) = Len(Front(G)) + 1
      /\ \A k \in 1 .. Len(Front(G)) : Append(Front(G), f)[k] = Front(G)[k]
      /\ Append(Front(G), f)[Len(Front(G)) + 1] = f
  BY <1>4, <1>5
<1>8. (N - 1) + 1 = N
  BY <1>1
<1>9. Len(Put(G, r)) # 0 /\ Len(<<>>) = 0
  BY <1>1, <1>5, <1>6, <1>7, <1>8
<1>10. Put(G, r) # <<>>
  BY <1>9, Zenon
<1> QED
  BY <1>4, <1>5, <1>6, <1>7, <1>8, <1>10

LEMMA PutLayout ==
  ASSUME NEW G, Layout(G), Room(G), NEW r \in RecordType
  PROVE  Layout(Put(G, r))
<1> DEFINE N == Len(G)
           P == Put(G, r)
<1>1. /\ N \in Nat \ {0} /\ N \in 1 .. N /\ N <= MaxFiles /\ FileSize \in Nat
      /\ \A k \in 1 .. N : Len(G[k].records) <= FileSize
      /\ \A k \in 1 .. (N - 1) : /\ Len(G[k].records) = FileSize
                                 /\ G[k + 1].seq = G[k].seq + FileSize
      /\ Len(G[N].records) < FileSize
  BY BoundIs, IndexAssumption DEF Layout, Room, Last
<1>2. /\ P \in Seq(FileType) /\ Len(P) = N /\ \A k \in 1 .. (N - 1) : P[k] = G[k]
      /\ P[N].seq = G[N].seq /\ P[N].records = Append(G[N].records, r)
  BY PutIs
<1>3. Len(P[N].records) = Len(G[N].records) + 1 /\ Len(G[N].records) \in Nat
  BY <1>1, <1>2, FileFields
<1> HIDE DEF N, P
<1>4. ASSUME NEW k \in 1 .. N PROVE Len(P[k].records) <= FileSize /\ P[k].seq = G[k].seq
  <2>1. k = N \/ k \in 1 .. (N - 1)
    BY <1>1
  <2> QED
    BY <1>1, <1>2, <1>3, <2>1
<1>5. ASSUME NEW k \in 1 .. (N - 1)
      PROVE  Len(P[k].records) = FileSize /\ P[k + 1].seq = P[k].seq + FileSize
  <2>1. k \in 1 .. N /\ k + 1 \in 1 .. N
    BY <1>1
  <2> QED
    BY <1>1, <1>2, <1>4, <2>1
<1> QED
  BY <1>1, <1>2, <1>4, <1>5 DEF Layout, P

LEMMA PutBounds ==
  ASSUME NEW G, Layout(G), Room(G), NEW r \in RecordType
  PROVE  /\ Count(Put(G, r)) = Count(G) /\ EndOf(Put(G, r)) = EndOf(G) + 1
         /\ EndOf(G) = Bounds(G)[Count(G)]
         /\ Bounds(Put(G, r)) = Grown(Bounds(G), Count(G))
         /\ Bound(Put(G, r), 0) = Bound(G, 0)
<1> DEFINE N == Len(G)
           P == Put(G, r)
<1>1. /\ N \in Nat \ {0} /\ Count(G) = N /\ Bound(G, N) = EndOf(G) /\ EndOf(G) \in Nat
      /\ EndOf(G) = G[N].seq + Len(G[N].records)
      /\ \A k \in 0 .. (N - 1) : Bound(G, k) = G[k + 1].seq
  BY BoundIs DEF Room
<1>2. /\ P # <<>> /\ Len(P) = N /\ \A k \in 1 .. (N - 1) : P[k] = G[k]
      /\ P[N].seq = G[N].seq /\ P[N].records = Append(G[N].records, r)
  BY PutIs
<1>3. Layout(P)
  BY PutLayout
<1>4. N \in 1 .. N
  BY <1>1
<1>5. /\ Len(P[N].records) = Len(G[N].records) + 1 /\ Len(G[N].records) \in Nat
      /\ G[N].seq \in Nat
  BY <1>2, <1>4, FileFields
<1> HIDE DEF P
<1>6. /\ Count(P) = N /\ Bound(P, N) = EndOf(P)
      /\ EndOf(P) = P[N].seq + Len(P[N].records)
      /\ \A k \in 0 .. (N - 1) : Bound(P, k) = P[k + 1].seq
  BY <1>2, <1>3, BoundIs
<1> HIDE DEF N
<1>7. EndOf(P) = EndOf(G) + 1
  <2>1. EndOf(P) = G[N].seq + (Len(G[N].records) + 1)
    BY <1>2, <1>5, <1>6, Zenon
  <2>2. EndOf(G) = G[N].seq + Len(G[N].records)
    BY <1>1
  <2> QED
    BY <1>5, <2>1, <2>2
<1>8. ASSUME NEW k \in 0 .. (N - 1) PROVE Bound(P, k) = Bound(G, k)
  <2>1. k + 1 = N \/ k + 1 \in 1 .. (N - 1)
    BY <1>1
  <2>2. P[k + 1].seq = G[k + 1].seq
    BY <1>2, <2>1
  <2> QED
    BY <1>1, <1>6, <2>2
<1>9. \A k \in 0 .. N : Bounds(G)[k] = Bound(G, k)
  BY <1>1 DEF Bounds
<1>10. Bounds(P) = Grown(Bounds(G), N)
  <2>1. Bounds(P) = [k \in 0 .. N |-> Bound(P, k)]
    BY <1>6 DEF Bounds
  <2>2. ASSUME NEW k \in 0 .. N
        PROVE  Bound(P, k) = IF k = N THEN Bounds(G)[N] + 1 ELSE Bounds(G)[k]
    <3>1. N \in 0 .. N /\ (k = N \/ (k # N /\ k \in 0 .. (N - 1)))
      BY <1>1
    <3> QED
      BY <1>1, <1>6, <1>7, <1>8, <1>9, <3>1
  <2> QED
    BY <2>1, <2>2 DEF Grown
<1>11. N \in 0 .. N /\ 0 \in 0 .. (N - 1)
  BY <1>1
<1> QED
  BY <1>1, <1>6, <1>7, <1>8, <1>9, <1>10, <1>11 DEF P, N

LEMMA PutDisk ==
  ASSUME NEW G, Layout(G), Room(G), NEW r \in RecordType
  PROVE  DiskOf(Put(G, r)) = DiskOf(G) \cup {New(Bounds(G), Count(G), r)}
<1> DEFINE N == Len(G)
           P == Put(G, r)
           e == New(Bounds(G), Count(G), r)
           n == Len(G[N].records)
<1>1. /\ N \in Nat \ {0} /\ EndOf(G) = G[N].seq + n
  BY BoundIs DEF Room
<1>2. /\ Len(P) = N /\ \A k \in 1 .. (N - 1) : P[k] = G[k]
      /\ P[N].seq = G[N].seq /\ P[N].records = Append(G[N].records, r)
  BY PutIs
<1>3. N \in 1 .. N
  BY <1>1
<1>4. G[N].seq \in Nat /\ G[N].records \in Seq(RecordType) /\ n \in Nat
  BY <1>3, FileFields
<1>5. e = [at |-> G[N].seq + n, rec |-> r]
  BY <1>1, PutBounds DEF New
<1> HIDE DEF P, e
<1>6. RecordsOf(P[N]) = RecordsOf(G[N]) \cup {e}
  <2> DEFINE q == G[N].records
             z == Append(q, r)
  <2>1. Len(z) = n + 1 /\ z[n + 1] = r /\ \A i \in 1 .. n : z[i] = q[i]
    BY <1>4
  <2>2. RecordsOf(P[N]) = {[at |-> G[N].seq + (i - 1), rec |-> z[i]] : i \in 1 .. (n + 1)}
    BY <1>2, <2>1 DEF RecordsOf
  <2>3. RecordsOf(G[N]) = {[at |-> G[N].seq + (i - 1), rec |-> q[i]] : i \in 1 .. n}
    BY DEF RecordsOf
  <2> HIDE DEF q, z, n
  <2>4. \A i \in 1 .. (n + 1) : i = n + 1 \/ i \in 1 .. n
    BY <1>4
  <2>5. n + 1 \in 1 .. (n + 1) /\ (n + 1) - 1 = n /\ \A i \in 1 .. n : i \in 1 .. (n + 1)
    BY <1>4
  <2>6. [at |-> G[N].seq + ((n + 1) - 1), rec |-> z[n + 1]] = e
    BY <1>5, <2>1, <2>5
  <2>7. ASSUME NEW d \in RecordsOf(P[N]) PROVE d \in RecordsOf(G[N]) \cup {e}
    <3>1. PICK i \in 1 .. (n + 1) : d = [at |-> G[N].seq + (i - 1), rec |-> z[i]]
      BY <2>2
    <3>2. CASE i = n + 1
      BY <2>6, <3>1, <3>2
    <3>3. CASE i \in 1 .. n
      BY <2>1, <2>3, <3>1, <3>3
    <3> QED
      BY <2>4, <3>2, <3>3
  <2>8. ASSUME NEW d \in RecordsOf(G[N]) PROVE d \in RecordsOf(P[N])
    <3>1. PICK i \in 1 .. n : d = [at |-> G[N].seq + (i - 1), rec |-> q[i]]
      BY <2>3
    <3> QED
      BY <2>1, <2>2, <2>5, <3>1
  <2>9. e \in RecordsOf(P[N])
    BY <2>2, <2>5, <2>6
  <2> QED
    BY <2>7, <2>8, <2>9
<1> HIDE DEF N, n
<1>7. \A k \in 1 .. N : k = N \/ k \in 1 .. (N - 1)
  BY <1>1
<1>8. \A k \in 1 .. N : RecordsOf(G[k]) \subseteq RecordsOf(P[k])
                        /\ RecordsOf(P[k]) \subseteq RecordsOf(G[k]) \cup {e}
  BY <1>2, <1>6, <1>7
<1>9. DiskOf(P) = UNION {RecordsOf(P[k]) : k \in 1 .. N}
  BY <1>2 DEF DiskOf
<1>10. DiskOf(G) = UNION {RecordsOf(G[k]) : k \in 1 .. N}
  BY DEF DiskOf, N
<1>11. e \in DiskOf(P)
  BY <1>3, <1>6, <1>9
<1>12. ASSUME NEW d \in DiskOf(P) PROVE d \in DiskOf(G) \cup {e}
  BY <1>8, <1>9, <1>10
<1>13. ASSUME NEW d \in DiskOf(G) PROVE d \in DiskOf(P)
  BY <1>8, <1>9, <1>10
<1> QED
  BY <1>11, <1>12, <1>13 DEF P, e

\* What the record r must be like for the index.
Follows(r, D) ==
  /\ r \in RecordType /\ r.begin <= r.end
  /\ \A d \in D : d.rec.stream = r.stream /\ r.stream # None => d.rec.end <= r.begin

LEMMA PutIndex ==
  ASSUME NEW G, Layout(G), Room(G), NEW r, Follows(r, DiskOf(G)),
         NEW m, IndexOf(m, G), NEW q \in Nat, Same(q, EndOf(G))
  PROVE  /\ IndexOf(AddPacket(m, q, r), Put(G, r))
         /\ AddPacket(m, q, r).begin_seq = m.begin_seq
         /\ AddPacket(m, q, r).end_seq = NumberOf(EndOf(Put(G, r)))
<1> DEFINE N == Count(G)
           D == DiskOf(G)
           B == Bounds(G)
<1>1. r \in RecordType /\ r.begin <= r.end
      /\ \A d \in D : d.rec.stream = r.stream /\ r.stream # None => d.rec.end <= r.begin
  BY DEF Follows
<1>2. Disk(D, B, N) /\ N \in Nat
  BY LayoutDisk DEF Disk
<1>3. Index(m, D, B, N)
  BY DEF IndexOf
<1>4. B[N] = EndOf(G)
  BY <1>1, PutBounds
<1> HIDE DEF N, D, B
<1>5. /\ Index(AddPacket(m, q, r), D \cup {New(B, N, r)}, Grown(B, N), N)
      /\ AddPacket(m, q, r).begin_seq = m.begin_seq
      /\ AddPacket(m, q, r).end_seq = NumberOf(B[N] + 1)
  BY <1>1, <1>2, <1>3, <1>4, AddPacketIndex
<1>6. /\ Count(Put(G, r)) = N /\ Bounds(Put(G, r)) = Grown(B, N)
      /\ DiskOf(Put(G, r)) = D \cup {New(B, N, r)} /\ EndOf(Put(G, r)) = B[N] + 1
  BY <1>1, <1>4, PutBounds, PutDisk DEF N, D, B
<1> QED
  BY <1>5, <1>6 DEF IndexOf

LEMMA StoredFirst ==
  ASSUME NEW d, d.files = <<>>, NEW r
  PROVE  /\ Stored(d, r).files = Put(Opened(<<>>), r)
         /\ Stored(d, r).monitor = AddPacket(d.monitor, NumberOf(EndOf(<<>>)), r)
<1>1. ~(Len(Opened(<<>>)) > MaxFiles)
  <2> DEFINE G == Opened(<<>>)
  <2>1. Layout(G)
    BY OpenedFirst
  <2> HIDE DEF G
  <2>2. ~(Len(G) > MaxFiles)
    BY <2>1, IndexAssumption DEF Layout
  <2> QED
    BY <2>2 DEF G
<1> QED
  BY <1>1 DEF Stored, Put, Opened

LEMMA StoredRoom ==
  ASSUME NEW d, Layout(d.files), Room(d.files), NEW r
  PROVE  /\ Stored(d, r).files = Put(d.files, r)
         /\ Stored(d, r).monitor = AddPacket(d.monitor, NumberOf(EndOf(d.files)), r)
<1>1. d.files # <<>> /\ ~(Len(Last(d.files).records) >= FileSize)
  <2>1. Len(d.files) \in 1 .. Len(d.files)
    BY BoundIs DEF Room
  <2>2. Len(Last(d.files).records) \in Nat /\ FileSize \in Nat
    BY <2>1, FileFields, IndexAssumption DEF Last
  <2> QED
    BY <2>2 DEF Room
<1>2. ~(Len(d.files) > MaxFiles)
  BY IndexAssumption DEF Layout
<1> QED
  BY <1>1, <1>2 DEF Stored, Put

LEMMA StoredFull ==
  ASSUME NEW d, Layout(d.files), Full(d.files), Len(d.files) < MaxFiles, NEW r
  PROVE  /\ Stored(d, r).files = Put(Opened(d.files), r)
         /\ Stored(d, r).monitor = AddPacket(NewSegment(d.monitor), NumberOf(EndOf(d.files)), r)
<1>1. d.files # <<>> /\ Len(Last(d.files).records) >= FileSize
  BY DEF Full
<1>2. ~(Len(Opened(d.files)) > MaxFiles)
  BY OpenedIs, IndexAssumption, SMTT(30) DEF Layout
<1> QED
  BY <1>1, <1>2 DEF Stored, Put, Opened

\* The index after the oldest file is deleted.
Dropped(m, F) == [DeleteOldestSegment(m) EXCEPT !.begin_seq = NumberOf(F[2].seq)]

LEMMA StoredDrop ==
  ASSUME NEW d, Layout(d.files), Full(d.files), Len(d.files) = MaxFiles, NEW r
  PROVE  /\ Stored(d, r).files = Put(Opened(Tail(d.files)), r)
         /\ Stored(d, r).monitor =
              AddPacket(NewSegment(Dropped(d.monitor, d.files)), NumberOf(EndOf(d.files)), r)
<1> DEFINE F == d.files
<1>1. F # <<>> /\ Len(Last(F).records) >= FileSize
  BY DEF Full
<1>2. MaxFiles \in Nat /\ MaxFiles >= 2 /\ Len(F) >= 2 /\ F \in Seq(FileType)
  BY IndexAssumption DEF Layout
<1>3. Len(Opened(F)) = Len(F) + 1 /\ \A k \in 1 .. Len(F) : Opened(F)[k] = F[k]
  BY OpenedIs
<1>4. Len(Opened(F)) > MaxFiles
  BY <1>2, <1>3
<1>5. Opened(F)[2] = F[2]
  BY <1>2, <1>3
<1>6. Tail(Opened(F)) = Opened(Tail(F))
  <2> DEFINE f == [seq |-> EndOf(F), records |-> <<>>]
  <2>1. EndOf(Tail(F)) = EndOf(F)
    BY <1>2, TailBounds
  <2>2. Tail(F) \in Seq(FileType) /\ Len(Tail(F)) = Len(F) - 1
        /\ \A k \in 1 .. (Len(F) - 1) : Tail(F)[k] = F[k + 1]
    BY <1>2, TailIs
  <2>3. Opened(F) = Append(F, f) /\ Opened(Tail(F)) = Append(Tail(F), f)
    BY <2>1 DEF Opened
  <2>4. f \in FileType
    <3>1. <<>> \in Seq(RecordType)
      OBVIOUS
    <3>2. EndOf(F) \in Nat
      BY OpenedIs
    <3> QED
      BY <3>1, <3>2 DEF FileType
  <2> HIDE DEF f
  <2>5. Tail(Append(F, f)) = Append(Tail(F), f)
    BY <1>1, <1>2, <2>2, <2>4
  <2> QED
    BY <2>3, <2>5
<1> QED
  BY <1>1, <1>4, <1>5, <1>6 DEF Stored, Put, Opened, Dropped

LEMMA SetBegin ==
  ASSUME NEW F, NEW m, IndexOf(m, F), NEW x \in Nat
  PROVE  IndexOf([m EXCEPT !.begin_seq = x], F)
BY DEF IndexOf, Index, MonitorType

\* The index knows the files of a store, and the records kept are those of
\* before and the new one.
Keeps(e, d, r) ==
  /\ Layout(e.files) /\ IndexOf(e.monitor, e.files)
  /\ e.monitor.end_seq = NumberOf(EndOf(e.files))
  /\ \E D \in SUBSET DiskOf(d.files) :
       DiskOf(e.files) = D \cup {[at |-> EndOf(d.files), rec |-> r]}

Begins(d) == d.monitor.begin_seq = NumberOf(Bound(d.files, 0))

LEMMA NewIs ==
  ASSUME NEW G, Layout(G), Room(G), NEW r \in RecordType
  PROVE  New(Bounds(G), Count(G), r) = [at |-> EndOf(G), rec |-> r]
BY PutBounds DEF New

LEMMA StoredKeeps ==
  ASSUME NEW d, Layout(d.files), IndexOf(d.monitor, d.files), NEW r, Follows(r, DiskOf(d.files))
  PROVE  Keeps(Stored(d, r), d, r) /\ (Begins(d) => Begins(Stored(d, r)))
<1> DEFINE F == d.files
           m == d.monitor
           e == Stored(d, r)
           q == NumberOf(EndOf(F))
<1>1. r \in RecordType
  BY DEF Follows
<1>2. EndOf(F) \in Nat
  BY OpenedIs
<1>3. q \in Nat /\ Same(q, EndOf(F))
  BY <1>2, NumberIs
<1>4. ASSUME NEW G, Layout(G), Room(G), DiskOf(G) \subseteq DiskOf(F), EndOf(G) = EndOf(F),
             NEW k, IndexOf(k, G), Begins(d) => k.begin_seq = NumberOf(Bound(G, 0)),
             e.files = Put(G, r), e.monitor = AddPacket(k, q, r)
      PROVE  Keeps(e, d, r) /\ (Begins(d) => Begins(e))
  <2>1. Follows(r, DiskOf(G))
    BY <1>4 DEF Follows
  <2> HIDE DEF F, m, e, q
  <2>2. Layout(e.files)
    BY <1>1, <1>4, PutLayout
  <2>3. /\ IndexOf(e.monitor, e.files) /\ e.monitor.begin_seq = k.begin_seq
        /\ e.monitor.end_seq = NumberOf(EndOf(e.files))
    BY <1>3, <1>4, <2>1, PutIndex
  <2>4. DiskOf(e.files) = DiskOf(G) \cup {[at |-> EndOf(F), rec |-> r]}
    BY <1>1, <1>4, PutDisk, NewIs
  <2>5. Bound(e.files, 0) = Bound(G, 0)
    BY <1>1, <1>4, PutBounds
  <2>6. Keeps(e, d, r)
    BY <1>4, <2>2, <2>3, <2>4 DEF Keeps, F
  <2>7. Begins(d) => Begins(e)
    BY <1>4, <2>3, <2>5 DEF Begins
  <2> QED
    BY <2>6, <2>7
<1>5. CASE F = <<>>
  <2> DEFINE G == Opened(<<>>)
  <2>1. /\ Layout(G) /\ Room(G) /\ EndOf(G) = EndOf(F) /\ Bound(G, 0) = Bound(F, 0)
        /\ IndexOf(m, G)
    BY <1>5, OpenedFirst
  <2>2. DiskOf(G) = DiskOf(F)
    BY <1>5, OpenedFirst, OpenedDisk
  <2>3. e.files = Put(G, r) /\ e.monitor = AddPacket(m, q, r)
    BY <1>5, StoredFirst
  <2>4. Begins(d) => m.begin_seq = NumberOf(Bound(G, 0))
    BY <2>1 DEF Begins
  <2> HIDE DEF G, F, m, e, q
  <2> QED
    BY <1>4, <2>1, <2>2, <2>3, <2>4 DEF e
<1>6. CASE Room(F)
  <2>1. e.files = Put(F, r) /\ e.monitor = AddPacket(m, q, r)
    BY <1>6, StoredRoom
  <2>2. Begins(d) => m.begin_seq = NumberOf(Bound(F, 0))
    BY DEF Begins
  <2>3. Layout(F) /\ IndexOf(m, F)
    OBVIOUS
  <2> HIDE DEF F, m, e, q
  <2> QED
    BY <1>4, <1>6, <2>1, <2>2, <2>3 DEF e
<1>7. CASE Full(F) /\ Len(F) < MaxFiles
  <2> DEFINE G == Opened(F)
             k == NewSegment(m)
  <2>1. /\ Layout(G) /\ Room(G) /\ EndOf(G) = EndOf(F) /\ Bound(G, 0) = Bound(F, 0)
    BY <1>7, OpenedLayout, OpenedBounds
  <2>2. IndexOf(k, G)
    BY <1>7, OpenedIndex
  <2>3. DiskOf(G) = DiskOf(F)
    BY OpenedDisk
  <2>4. e.files = Put(G, r) /\ e.monitor = AddPacket(k, q, r)
    BY <1>7, StoredFull
  <2>5. k.begin_seq = m.begin_seq
    BY DEF NewSegment, IndexOf, Index, MonitorType
  <2>6. Begins(d) => k.begin_seq = NumberOf(Bound(G, 0))
    BY <2>1, <2>5 DEF Begins
  <2> HIDE DEF G, F, m, e, q, k
  <2> QED
    BY <1>4, <2>1, <2>2, <2>3, <2>4, <2>6 DEF e
<1>8. CASE Full(F) /\ Len(F) = MaxFiles
  <2> DEFINE H == Tail(F)
             G == Opened(H)
             j == Dropped(m, F)
             k == NewSegment(j)
  <2>1. MaxFiles \in Nat /\ MaxFiles >= 2 /\ Len(F) >= 2
    BY <1>8, IndexAssumption
  <2>2. Layout(H)
    BY <2>1, TailLayout
  <2>3. /\ EndOf(H) = EndOf(F) /\ Bound(H, 0) = F[2].seq
    BY <2>1, TailBounds
  <2>4. DiskOf(H) \subseteq DiskOf(F)
    BY <2>1, TailDisk DEF Kept
  <2>5. IndexOf(DeleteOldestSegment(m), H)
    BY <2>1, TailIndex
  <2>6. F[2].seq \in Nat
    <3>1. 2 \in 1 .. Len(F)
      BY <1>8, <2>1
    <3> QED
      BY <3>1, FileFields
  <2>7. NumberOf(F[2].seq) \in Nat
    BY <2>6, NumberIs
  <2>8. IndexOf(j, H)
    BY <2>5, <2>7, SetBegin DEF Dropped
  <2>9. j.begin_seq = NumberOf(F[2].seq)
    BY <2>5 DEF Dropped, IndexOf, Index, MonitorType
  <2>10. Full(H) /\ Len(H) < MaxFiles
    <3>1. H # <<>> /\ Len(H) = Len(F) - 1 /\ \A i \in 1 .. (Len(F) - 1) : H[i] = F[i + 1]
      BY <2>1, TailIs
    <3>2. Len(F) - 1 \in 1 .. (Len(F) - 1) /\ (Len(F) - 1) + 1 = Len(F) /\ Len(F) - 1 < MaxFiles
      BY <1>8, <2>1
    <3>3. H[Len(H)] = F[Len(F)]
      BY <3>1, <3>2
    <3>4. Len(F[Len(F)].records) >= FileSize
      BY <1>8 DEF Full, Last
    <3> QED
      BY <3>1, <3>2, <3>3, <3>4 DEF Full, Last
  <2>11. e.files = Put(G, r) /\ e.monitor = AddPacket(k, q, r)
    BY <1>8, StoredDrop
  <2>12. k.begin_seq = j.begin_seq
    BY <2>8 DEF NewSegment, IndexOf, Index, MonitorType
  <2> HIDE DEF H, j, F, m, e, q
  <2>13. /\ Layout(G) /\ Room(G) /\ EndOf(G) = EndOf(H) /\ Bound(G, 0) = Bound(H, 0)
    BY <2>2, <2>10, OpenedLayout, OpenedBounds
  <2>14. IndexOf(k, G)
    BY <2>2, <2>8, <2>10, OpenedIndex
  <2>15. DiskOf(G) = DiskOf(H)
    BY <2>2, OpenedDisk
  <2> HIDE DEF G, k
  <2>16. Begins(d) => k.begin_seq = NumberOf(Bound(G, 0))
    BY <2>3, <2>9, <2>12, <2>13
  <2> QED
    BY <1>4, <2>3, <2>4, <2>11, <2>13, <2>14, <2>15, <2>16 DEF e
<1>9. F = <<>> \/ Room(F) \/ (Full(F) /\ Len(F) < MaxFiles) \/ (Full(F) /\ Len(F) = MaxFiles)
  <2>1. CASE F # <<>>
    <3>1. Len(F) \in 1 .. Len(F)
      BY <2>1, BoundIs
    <3>2. Len(F[Len(F)].records) \in Nat /\ FileSize \in Nat /\ MaxFiles \in Nat
          /\ Len(F) \in Nat /\ Len(F) <= MaxFiles
      BY <3>1, FileFields, IndexAssumption DEF Layout
    <3> QED
      BY <2>1, <3>2 DEF Room, Full, Last
  <2> QED
    BY <2>1
<1> QED
  BY <1>5, <1>6, <1>7, <1>8, <1>9

-----------------------------------------------------------------------------
(* The records of a stream come in the order of time.                      *)

LEMMA BeforeEnd ==
  ASSUME NEW F, Layout(F), NEW d \in DiskOf(F)
  PROVE  d \in PlacedType /\ d.at \in Nat /\ d.at < EndOf(F) /\ d.at >= Bound(F, 0)
<1> DEFINE B == Bounds(F)
           N == Count(F)
<1>1. Disk(DiskOf(F), B, N)
  BY LayoutDisk
<1>2. B[N] = EndOf(F) /\ B[0] = Bound(F, 0)
  <2>1. N \in Nat \ {0} /\ Bound(F, N) = EndOf(F)
    <3>1. CASE F = <<>>
      BY <3>1 DEF Count, Bound, EndOf
    <3>2. CASE F # <<>>
      BY <3>2, BoundIs
    <3> QED
      BY <3>1, <3>2
  <2>2. N \in 0 .. N /\ 0 \in 0 .. N
    BY <2>1
  <2> QED
    BY <2>1, <2>2 DEF Bounds
<1> HIDE DEF B, N
<1>3. d \in PlacedType /\ B[0] <= d.at /\ d.at < B[N]
  BY <1>1 DEF Disk
<1>4. d.at \in Nat
  BY <1>3, PlacedFields
<1>5. B[0] \in Nat
  <2>1. 0 \in 0 .. N
    BY <1>1 DEF Disk
  <2> QED
    BY <1>1, <2>1 DEF Disk
<1> QED
  BY <1>2, <1>3, <1>4, <1>5

LEMMA SubsetInTime ==
  ASSUME NEW F, NEW u, InTime(F, u), NEW G, DiskOf(G) \subseteq DiskOf(F)
  PROVE  InTime(G, u)
BY DEF InTime

LEMMA KeepsInTime ==
  ASSUME NEW d, Layout(d.files), NEW u \in [Stream -> Nat], InTime(d.files, u),
         NEW v \in [Stream -> Nat], \A s \in Stream : u[s] <= v[s],
         NEW r, Follows(r, DiskOf(d.files)), r.stream # None => r.end <= v[r.stream],
         NEW e, Keeps(e, d, r)
  PROVE  InTime(e.files, v)
<1> DEFINE F == d.files
           w == [at |-> EndOf(F), rec |-> r]
<1>1. PICK D \in SUBSET DiskOf(F) : DiskOf(e.files) = D \cup {w}
  BY DEF Keeps
<1>2. w.at = EndOf(F) /\ w.rec = r /\ EndOf(F) \in Nat
  BY OpenedIs
<1>3. r \in RecordType /\ r.begin <= r.end
      /\ \A x \in DiskOf(F) : x.rec.stream = r.stream /\ r.stream # None => x.rec.end <= r.begin
  BY DEF Follows
<1>4. ASSUME NEW x \in D
      PROVE  x.rec.stream \in Stream \cup {None} /\ x.rec.end \in Nat /\ x.at < w.at /\ x.at \in Nat
  <2>1. x \in DiskOf(F)
    BY <1>1
  <2>2. x \in PlacedType /\ x.at < EndOf(F)
    BY <2>1, BeforeEnd
  <2> QED
    BY <1>2, <2>2, PlacedFields
<1> HIDE DEF w
<1>5. ASSUME NEW x \in DiskOf(e.files), x.rec.stream # None
      PROVE  x.rec.begin <= x.rec.end /\ x.rec.end <= v[x.rec.stream]
  <2>1. CASE x \in D
    <3>1. x.rec.begin <= x.rec.end /\ x.rec.end <= u[x.rec.stream]
      BY <1>1, <1>5, <2>1 DEF InTime
    <3>2. x.rec.stream \in Stream /\ x.rec.end \in Nat
      BY <1>4, <1>5, <2>1
    <3>3. u[x.rec.stream] \in Nat /\ v[x.rec.stream] \in Nat /\ u[x.rec.stream] <= v[x.rec.stream]
      BY <3>2
    <3> QED
      BY <3>1, <3>2, <3>3
  <2>2. CASE x = w
    BY <1>2, <1>3, <1>5, <2>2
  <2> QED
    BY <1>1, <2>1, <2>2
<1>6. ASSUME NEW x \in DiskOf(e.files), NEW y \in DiskOf(e.files), x.rec.stream # None,
             x.rec.stream = y.rec.stream, x.at < y.at
      PROVE  x.rec.end <= y.rec.begin
  <2>1. x \in D
    <3>1. CASE x = w /\ y \in D
      BY <1>2, <1>4, <1>6, <3>1
    <3>2. CASE x = w /\ y = w
      BY <1>2, <1>6, <3>2
    <3> QED
      BY <1>1, <3>1, <3>2
  <2>2. CASE y \in D
    BY <1>1, <1>6, <2>1, <2>2 DEF InTime
  <2>3. CASE y = w
    BY <1>1, <1>2, <1>3, <1>6, <2>1, <2>3
  <2> QED
    BY <1>1, <2>2, <2>3
<1> QED
  BY <1>5, <1>6 DEF InTime

-----------------------------------------------------------------------------
(* Blank records are made.                                                 *)

StoreType == [files : Seq(FileType), monitor : MonitorType]

Sound(d, u) == Layout(d.files) /\ IndexOf(d.monitor, d.files) /\ InTime(d.files, u)

\* What stays so.
Heir(e, d) == /\ Ends(d.monitor, d.files) => Ends(e.monitor, e.files)
              /\ d.files # <<>> => e.files # <<>>

LEMMA BlankFollows ==
  ASSUME NEW D
  PROVE  Follows(Blank, D) /\ Blank.stream = None
BY DEF Follows, Blank, RecordType

LEMMA StoredIsStore ==
  ASSUME NEW d, NEW r, Keeps(Stored(d, r), d, r)
  PROVE  Stored(d, r) \in StoreType /\ Stored(d, r).files # <<>>
<1> DEFINE e == Stored(d, r)
<1>1. e.files \in Seq(FileType) /\ e.monitor \in MonitorType
  BY DEF Keeps, Layout, IndexOf, Index
<1>2. e = [files |-> e.files, monitor |-> e.monitor]
  BY DEF Stored
<1>3. DiskOf(e.files) # {}
  BY DEF Keeps
<1> HIDE DEF e
<1>4. e.files # <<>>
  <2>1. Len(<<>>) = 0
    OBVIOUS
  <2> QED
    BY <1>3, <2>1 DEF DiskOf
<1>5. e \in StoreType
  BY <1>1, <1>2 DEF StoreType
<1> QED
  BY <1>4, <1>5 DEF e

LEMMA StoredBlank ==
  ASSUME NEW u \in [Stream -> Nat], NEW d, Sound(d, u)
  PROVE  LET e == Stored(d, Blank) IN e \in StoreType /\ Sound(e, u) /\ Heir(e, d)
<1> DEFINE e == Stored(d, Blank)
<1>1. Keeps(e, d, Blank) /\ (Begins(d) => Begins(e))
  BY BlankFollows, StoredKeeps DEF Sound
<1>2. e \in StoreType /\ e.files # <<>>
  BY <1>1, StoredIsStore
<1> HIDE DEF e
<1>3. \A s \in Stream : u[s] <= u[s]
  OBVIOUS
<1>4. InTime(e.files, u)
  BY <1>1, <1>3, BlankFollows, KeepsInTime DEF Sound
<1>5. Heir(e, d)
  BY <1>1, <1>2 DEF Heir, Ends, Begins, Keeps
<1> QED
  BY <1>1, <1>2, <1>4, <1>5 DEF Sound, Keeps, e

LEMMA BlanksSound ==
  ASSUME NEW n \in Nat, NEW u \in [Stream -> Nat], NEW d \in StoreType, Sound(d, u)
  PROVE  LET e == WithBlanks(d, n) IN e \in StoreType /\ Sound(e, u) /\ Heir(e, d)
<1> DEFINE U == {x \in StoreType : Sound(x, u) /\ Heir(x, d)}
           T == [k \in 0 .. n |-> U]
           step == [q \in (1 .. n) \X U |-> Stored(q[2], Blank)]
           F(g) == [k \in 0 .. n |-> IF k = 0 THEN d ELSE Stored(g[k - 1], Blank)]
           v == CHOOSE g : g = F(g)
<1>1. d \in U
  BY DEF Heir
<1>2. ASSUME NEW x \in U PROVE Stored(x, Blank) \in U
  BY StoredBlank DEF Heir
<1>3. ASSUME NEW k \in 1 .. n, NEW x \in U PROVE step[<<k, x>>] = Stored(x, Blank)
  OBVIOUS
<1>4. \A k \in 0 .. n : T[k] = U
  OBVIOUS
<1>5. \A k \in 1 .. n : k - 1 \in 0 .. n /\ k \in 0 .. n /\ k # 0
  OBVIOUS
<1>6. T \in [0 .. n -> SUBSET U] /\ d \in T[0]
  BY <1>1
<1> HIDE DEF T, step, U
<1>7. \A k \in 1 .. n : \A x \in T[k - 1] : step[<<k, x>>] \in T[k]
  <2> TAKE k \in 1 .. n
  <2>1. T[k - 1] = U /\ T[k] = U
    BY <1>4, <1>5
  <2> QED
    BY <1>2, <1>3, <2>1
<1>8. PICK f \in [0 .. n -> U] : Goes(f, n, d, step)
  BY <1>6, <1>7, Iterates DEF CanGo
<1>9. ASSUME NEW k \in 0 .. n
      PROVE  f[k] = IF k = 0 THEN d ELSE Stored(f[k - 1], Blank)
  <2>1. k # 0 => k \in 1 .. n /\ k - 1 \in 0 .. n
    OBVIOUS
  <2> QED
    BY <1>3, <1>8, <2>1 DEF Goes
<1>10. f = F(f)
  <2>1. f = [k \in 0 .. n |-> f[k]]
    OBVIOUS
  <2> QED
    BY <1>9, <2>1
<1>11. v = F(v)
  BY <1>10
<1> HIDE DEF v
<1>12. \A k \in 1 .. n : v[k] = Stored(v[k - 1], Blank)
  BY <1>5, <1>11
<1>13. v[0] = d
  BY <1>11
<1>14. \A k \in 1 .. n : v[k - 1] \in T[k - 1] => v[k] = step[<<k, v[k - 1]>>]
  BY <1>3, <1>4, <1>5, <1>12
<1>15. v[n] \in T[n]
  <2>1. Leads(step, n, T) /\ Takes(v, step, n, T) /\ v[0] \in T[0]
    BY <1>6, <1>7, <1>13, <1>14 DEF Leads, Takes
  <2> QED
    BY <2>1, Arrives
<1>16. v[n] \in U
  BY <1>4, <1>15
<1>17. WithBlanks(d, n) = v[n]
  BY DEF WithBlanks, v
<1> QED
  BY <1>16, <1>17 DEF U

-----------------------------------------------------------------------------
(* The files up to a record.                                               *)

\* The files up to the k-th record of the j-th.
Cut(F, j, k) == Append(SubSeq(F, 1, j - 1), [F[j] EXCEPT !.records = SubSeq(@, 1, k)])

LEMMA SameFile ==
  ASSUME NEW f \in FileType, NEW g \in FileType, f.seq = g.seq, f.records = g.records
  PROVE  f = g
BY DEF FileType

LEMMA PrefixIs ==
  ASSUME NEW S, NEW s \in Seq(S), NEW k \in 0 .. Len(s)
  PROVE  /\ SubSeq(s, 1, k) \in Seq(S) /\ Len(SubSeq(s, 1, k)) = k
         /\ \A i \in 1 .. k : SubSeq(s, 1, k)[i] = s[i]
<1>1. \A i \in 1 .. k : s[i] \in S
  BY ElementOfSeq
<1>2. /\ SubSeq(s, 1, k) \in Seq(S) /\ Len(SubSeq(s, 1, k)) = IF 1 <= k THEN k - 1 + 1 ELSE 0
      /\ \A i \in 1 .. k - 1 + 1 : SubSeq(s, 1, k)[i] = s[1 + i - 1]
  BY <1>1, SubSeqProperties
<1> QED
  BY <1>2

LEMMA CutIs ==
  ASSUME NEW F, Layout(F), NEW j \in 1 .. Len(F), NEW k \in 0 .. Len(F[j].records)
  PROVE  /\ Cut(F, j, k) \in Seq(FileType) /\ Cut(F, j, k) # <<>> /\ Len(Cut(F, j, k)) = j
         /\ \A i \in 1 .. (j - 1) : Cut(F, j, k)[i] = F[i]
         /\ Cut(F, j, k)[j].seq = F[j].seq
         /\ Cut(F, j, k)[j].records = SubSeq(F[j].records, 1, k)
         /\ Len(SubSeq(F[j].records, 1, k)) = k
         /\ \A i \in 1 .. k : SubSeq(F[j].records, 1, k)[i] = F[j].records[i]
<1> DEFINE x == SubSeq(F[j].records, 1, k)
           f == [F[j] EXCEPT !.records = x]
           P == SubSeq(F, 1, j - 1)
<1>1. F \in Seq(FileType) /\ Len(F) \in Nat
  BY DEF Layout
<1>2. F[j] \in FileType /\ F[j].records \in Seq(RecordType)
  BY FileFields
<1>3. /\ x \in Seq(RecordType) /\ Len(x) = k /\ \A i \in 1 .. k : x[i] = F[j].records[i]
  BY <1>2, PrefixIs
<1>4. f \in FileType /\ f.seq = F[j].seq /\ f.records = x
  BY <1>2, <1>3 DEF FileType
<1>5. j - 1 \in 0 .. Len(F) /\ j \in Nat /\ (j - 1) + 1 = j
  BY <1>1
<1>6. /\ P \in Seq(FileType) /\ Len(P) = j - 1 /\ \A i \in 1 .. (j - 1) : P[i] = F[i]
  BY <1>1, <1>5, PrefixIs
<1>7. Cut(F, j, k) = Append(P, f)
  BY DEF Cut
<1> HIDE DEF x, f, P
<1>8. /\ Append(P, f) \in Seq(FileType) /\ Len(Append(P, f)) = Len(P) + 1
      /\ \A i \in 1 .. Len(P) : Append(P, f)[i] = P[i]
      /\ Append(P, f)[Len(P) + 1] = f
  BY <1>4, <1>6
<1>9. Len(Cut(F, j, k)) # 0 /\ Len(<<>>) = 0
  BY <1>5, <1>6, <1>7, <1>8
<1>10. Cut(F, j, k) # <<>>
  BY <1>9, Zenon
<1> QED
  BY <1>3, <1>4, <1>5, <1>6, <1>7, <1>8, <1>10 DEF x

LEMMA CutLayout ==
  ASSUME NEW F, Layout(F), NEW j \in 1 .. Len(F), NEW k \in 0 .. Len(F[j].records)
  PROVE  Layout(Cut(F, j, k)) /\ EndOf(Cut(F, j, k)) = F[j].seq + k
<1> DEFINE P == Cut(F, j, k)
<1>1. /\ F \in Seq(FileType) /\ Len(F) \in Nat /\ Len(F) <= MaxFiles /\ FileSize \in Nat
      /\ MaxFiles \in Nat
      /\ \A i \in 1 .. Len(F) : Len(F[i].records) <= FileSize
      /\ \A i \in 1 .. (Len(F) - 1) : /\ Len(F[i].records) = FileSize
                                      /\ F[i + 1].seq = F[i].seq + FileSize
  BY IndexAssumption DEF Layout
<1>2. /\ P \in Seq(FileType) /\ P # <<>> /\ Len(P) = j /\ \A i \in 1 .. (j - 1) : P[i] = F[i]
      /\ P[j].seq = F[j].seq /\ Len(P[j].records) = k
  BY CutIs
<1>3. Len(F[j].records) \in Nat /\ Len(F[j].records) <= FileSize
  BY FileFields
<1> HIDE DEF P
<1>4. ASSUME NEW i \in 1 .. j PROVE Len(P[i].records) <= FileSize /\ P[i].seq = F[i].seq
  <2>1. i = j \/ i \in 1 .. (j - 1)
    OBVIOUS
  <2>2. i \in 1 .. Len(F)
    BY <1>1
  <2> QED
    BY <1>1, <1>2, <1>3, <2>1, <2>2
<1>5. ASSUME NEW i \in 1 .. (j - 1)
      PROVE  Len(P[i].records) = FileSize /\ P[i + 1].seq = P[i].seq + FileSize
  <2>1. i \in 1 .. j /\ i + 1 \in 1 .. j /\ i \in 1 .. (Len(F) - 1)
    BY <1>1
  <2> QED
    BY <1>1, <1>2, <1>4, <2>1
<1>6. j <= MaxFiles
  BY <1>1
<1>7. EndOf(P) = F[j].seq + k
  BY <1>2 DEF EndOf, Last
<1> QED
  BY <1>2, <1>4, <1>5, <1>6, <1>7 DEF Layout, P

LEMMA CutDisk ==
  ASSUME NEW F, Layout(F), NEW j \in 1 .. Len(F), NEW k \in 0 .. Len(F[j].records)
  PROVE  DiskOf(Cut(F, j, k)) \subseteq DiskOf(F)
<1> DEFINE P == Cut(F, j, k)
<1>1. /\ Len(P) = j /\ \A i \in 1 .. (j - 1) : P[i] = F[i]
      /\ P[j].seq = F[j].seq /\ Len(P[j].records) = k
      /\ \A i \in 1 .. k : P[j].records[i] = F[j].records[i]
  BY CutIs
<1>2. Len(F) \in Nat /\ Len(F[j].records) \in Nat
  BY FileFields DEF Layout
<1> HIDE DEF P
<1>3. RecordsOf(P[j]) \subseteq RecordsOf(F[j])
  <2>1. \A i \in 1 .. k : i \in 1 .. Len(F[j].records)
    BY <1>2
  <2> QED
    BY <1>1, <2>1 DEF RecordsOf
<1>4. ASSUME NEW i \in 1 .. j PROVE i \in 1 .. Len(F) /\ RecordsOf(P[i]) \subseteq RecordsOf(F[i])
  <2>1. i = j \/ i \in 1 .. (j - 1)
    OBVIOUS
  <2>2. i \in 1 .. Len(F)
    BY <1>2
  <2> QED
    BY <1>1, <1>3, <2>1, <2>2
<1>5. DiskOf(P) = UNION {RecordsOf(P[i]) : i \in 1 .. j}
  BY <1>1 DEF DiskOf
<1> QED
  BY <1>4, <1>5 DEF DiskOf, P

LEMMA CutAll ==
  ASSUME NEW F, Layout(F), NEW j \in 1 .. Len(F)
  PROVE  Len(F[j].records) \in 0 .. Len(F[j].records)
         /\ Cut(F, j, Len(F[j].records)) = SubSeq(F, 1, j)
<1> DEFINE k == Len(F[j].records)
           P == Cut(F, j, k)
           Q == SubSeq(F, 1, j)
<1>1. F \in Seq(FileType) /\ F[j] \in FileType /\ F[j].records \in Seq(RecordType) /\ k \in Nat
      /\ Len(F) \in Nat
  BY FileFields DEF Layout
<1>2. k \in 0 .. k /\ j \in 0 .. Len(F)
  BY <1>1
<1>3. /\ P \in Seq(FileType) /\ Len(P) = j /\ \A i \in 1 .. (j - 1) : P[i] = F[i]
      /\ P[j].seq = F[j].seq /\ P[j].records = SubSeq(F[j].records, 1, k)
  BY <1>2, CutIs
<1>4. Q \in Seq(FileType) /\ Len(Q) = j /\ \A i \in 1 .. j : Q[i] = F[i]
  BY <1>1, <1>2, PrefixIs
<1>5. P[j] = F[j]
  <2>1. SubSeq(F[j].records, 1, k) = F[j].records
    BY <1>1, SubSeqFull
  <2>2. P[j] \in FileType
    BY <1>3, ElementOfSeq
  <2> QED
    <3>1. P[j].seq = F[j].seq /\ P[j].records = F[j].records
      BY <1>3, <2>1
    <3> HIDE DEF P
    <3> QED
      BY <1>1, <2>2, <3>1, SameFile
<1> HIDE DEF P, Q, k
<1>6. \A i \in 1 .. j : P[i] = Q[i]
  <2> TAKE i \in 1 .. j
  <2>1. i = j \/ i \in 1 .. (j - 1)
    OBVIOUS
  <2> QED
    BY <1>3, <1>4, <1>5, <2>1
<1> QED
  BY <1>2, <1>3, <1>4, <1>6, SeqEqual DEF P, Q, k

\* The next record.
LEMMA CutNext ==
  ASSUME NEW F, Layout(F), NEW j \in 1 .. Len(F), NEW k \in 1 .. Len(F[j].records)
  PROVE  /\ k - 1 \in 0 .. Len(F[j].records) /\ k \in 0 .. Len(F[j].records)
         /\ F[j].records[k] \in RecordType
         /\ Room(Cut(F, j, k - 1)) /\ Cut(F, j, k) = Put(Cut(F, j, k - 1), F[j].records[k])
<1> DEFINE n == Len(F[j].records)
           r == F[j].records[k]
           P == Cut(F, j, k - 1)
           Q == Cut(F, j, k)
           R == Put(P, r)
<1>1. F[j] \in FileType /\ F[j].records \in Seq(RecordType) /\ n \in Nat /\ n <= FileSize
  BY FileFields
<1>2. k - 1 \in 0 .. n /\ k \in 0 .. n /\ FileSize \in Nat
  BY <1>1, IndexAssumption
<1>3. r \in RecordType
  BY <1>1, ElementOfSeq
<1>4. /\ P # <<>> /\ Len(P) = j /\ \A i \in 1 .. (j - 1) : P[i] = F[i]
      /\ P[j].seq = F[j].seq /\ P[j].records = SubSeq(F[j].records, 1, k - 1)
      /\ Len(P[j].records) = k - 1
  BY <1>2, CutIs
<1>5. /\ Q \in Seq(FileType) /\ Len(Q) = j /\ \A i \in 1 .. (j - 1) : Q[i] = F[i]
      /\ Q[j].seq = F[j].seq /\ Q[j].records = SubSeq(F[j].records, 1, k)
  BY <1>2, CutIs
<1>6. Layout(P)
  BY <1>2, CutLayout
<1> HIDE DEF P, Q
<1>7. Room(P)
  BY <1>1, <1>2, <1>4 DEF Room, Last
<1>8. /\ R \in Seq(FileType) /\ Len(R) = j /\ \A i \in 1 .. (j - 1) : R[i] = P[i]
      /\ R[j].seq = P[j].seq /\ R[j].records = Append(P[j].records, r)
  BY <1>3, <1>4, <1>6, <1>7, PutIs
<1>9. SubSeq(F[j].records, 1, k) = Append(SubSeq(F[j].records, 1, k - 1), r)
  <2> DEFINE s == F[j].records
             a == SubSeq(s, 1, k - 1)
  <2>1. a \in Seq(RecordType) /\ SubSeq(s, 1, k) \in Seq(RecordType)
    BY <1>1, <1>2, PrefixIs
  <2>2. SubSeq(s, 1, k) = SubSeq(s, 1, k - 1) \o <<s[k]>>
    <3>1. 1 \in 1 .. Len(s) /\ k \in 1 .. Len(s)
      BY <1>1
    <3> QED
      BY <1>1, <3>1, SubSeqRecursiveSecond
  <2> HIDE DEF a
  <2>3. a \o <<r>> = Append(a, r)
    BY <1>3, <2>1
  <2> QED
    BY <2>2, <2>3 DEF a
<1> HIDE DEF R
<1>10. Q[j] = R[j]
  <2>1. Q[j] \in FileType /\ R[j] \in FileType
    BY <1>5, <1>8, ElementOfSeq
  <2>2. Q[j].seq = R[j].seq /\ Q[j].records = R[j].records
    BY <1>4, <1>5, <1>8, <1>9
  <2> QED
    BY <2>1, <2>2 DEF FileType
<1>11. \A i \in 1 .. j : Q[i] = R[i]
  <2> TAKE i \in 1 .. j
  <2>1. i = j \/ i \in 1 .. (j - 1)
    OBVIOUS
  <2> QED
    BY <1>4, <1>5, <1>8, <1>10, <2>1
<1>12. Q = R
  BY <1>5, <1>8, <1>11, SeqEqual
<1> QED
  BY <1>2, <1>3, <1>7, <1>12 DEF P, Q, R

\* The next file.
LEMMA CutOpens ==
  ASSUME NEW F, Layout(F), NEW j \in 2 .. Len(F)
  PROVE  LET P == SubSeq(F, 1, j - 1) IN
         Layout(P) /\ Full(P) /\ Len(P) < MaxFiles /\ Cut(F, j, 0) = Opened(P)
<1> DEFINE P == SubSeq(F, 1, j - 1)
           Q == Cut(F, j, 0)
           R == Opened(P)
           i == j - 1
           n == Len(F[i].records)
<1>1. i \in 1 .. Len(F) /\ j \in 1 .. Len(F) /\ i + 1 = j /\ Len(F) \in Nat /\ i \in 1 .. (Len(F) - 1)
  BY DEF Layout
<1>2. n \in 0 .. n /\ Cut(F, i, n) = P
  BY <1>1, CutAll
<1>3. Layout(P) /\ EndOf(P) = F[i].seq + n
  BY <1>1, <1>2, CutLayout
<1>4. n = FileSize /\ F[j].seq = F[i].seq + FileSize
  BY <1>1 DEF Layout
<1>5. P # <<>> /\ Len(P) = i /\ Len(P[i].records) = n
  <2> DEFINE C == Cut(F, i, n)
  <2>1. C # <<>> /\ Len(C) = i /\ C[i].records = SubSeq(F[i].records, 1, n)
        /\ Len(SubSeq(F[i].records, 1, n)) = n
    <3>1. i \in 1 .. Len(F) /\ n \in 0 .. Len(F[i].records)
      BY <1>1, <1>2
    <3> HIDE DEF i, n
    <3> QED
      BY <3>1, CutIs
  <2>2. C = P
    BY <1>2
  <2> HIDE DEF C
  <2> QED
    BY <2>1, <2>2
<1>6. F[j] \in FileType /\ F[j].records \in Seq(RecordType) /\ Len(F[j].records) \in Nat
  BY <1>1, FileFields
<1>7. Len(F) <= MaxFiles /\ MaxFiles \in Nat /\ FileSize \in Nat
  BY IndexAssumption DEF Layout
<1>8. [F[j] EXCEPT !.records = SubSeq(@, 1, 0)] = [seq |-> EndOf(P), records |-> <<>>]
  <2>1. SubSeq(F[j].records, 1, 0) = <<>>
    BY SubSeqEmpty
  <2>2. EndOf(P) = F[j].seq
    BY <1>3, <1>4
  <2> QED
    BY <1>6, <2>1, <2>2 DEF FileType
<1>9. Q = R
  BY <1>8 DEF Cut, Opened
<1> HIDE DEF P, Q, R
<1>10. Full(P)
  BY <1>4, <1>5, <1>7 DEF Full, Last
<1>11. Len(P) < MaxFiles
  BY <1>1, <1>5, <1>7
<1> QED
  BY <1>3, <1>9, <1>10, <1>11 DEF P, Q, R

-----------------------------------------------------------------------------
(* The headers of the records are read.                                    *)

LEMMA CutFollows ==
  ASSUME NEW F, Layout(F), NEW u, InTime(F, u),
         NEW j \in 1 .. Len(F), NEW k \in 1 .. Len(F[j].records)
  PROVE  Follows(F[j].records[k], DiskOf(Cut(F, j, k - 1)))
<1> DEFINE r == F[j].records[k]
           w == [at |-> F[j].seq + (k - 1), rec |-> r]
           P == Cut(F, j, k - 1)
<1>1. r \in RecordType /\ k - 1 \in 0 .. Len(F[j].records)
  BY CutNext
<1>2. w \in DiskOf(F)
  <2>1. w \in RecordsOf(F[j])
    BY DEF RecordsOf
  <2> HIDE DEF w
  <2> QED
    BY <2>1 DEF DiskOf
<1>3. DiskOf(P) \subseteq DiskOf(F) /\ Layout(P) /\ EndOf(P) = F[j].seq + (k - 1)
  BY <1>1, CutDisk, CutLayout
<1>4. w.rec = r /\ w.at = F[j].seq + (k - 1)
  OBVIOUS
<1> HIDE DEF w, P, r
<1>5. r.begin <= r.end
  <2>1. CASE r.stream = None
    <3>1. r = Blank
      BY <1>1, <2>1, IndexAssumption DEF RecordType
    <3> QED
      BY <3>1 DEF Blank
  <2>2. CASE r.stream # None
    BY <1>2, <1>4, <2>2 DEF InTime
  <2> QED
    BY <2>1, <2>2
<1>6. ASSUME NEW x \in DiskOf(P), x.rec.stream = r.stream, r.stream # None
      PROVE  x.rec.end <= r.begin
  <2>1. x.at < w.at
    BY <1>3, <1>4, BeforeEnd
  <2>2. x \in DiskOf(F)
    BY <1>3
  <2> QED
    BY <1>2, <1>4, <1>6, <2>1, <2>2 DEF InTime
<1> QED
  BY <1>1, <1>5, <1>6 DEF Follows, P, r

LEMMA ScannedIndex ==
  ASSUME NEW F, Layout(F), NEW u, InTime(F, u), NEW j \in 1 .. Len(F),
         NEW m, IndexOf(m, Cut(F, j, 0))
  PROVE  IndexOf(Scanned(m, F[j]), SubSeq(F, 1, j))
<1> DEFINE n == Len(F[j].records)
           r(k) == F[j].records[k]
           q(k) == NumberOf(F[j].seq) + k - 1
           T == [k \in 0 .. n |-> {x \in MonitorType : IndexOf(x, Cut(F, j, k))}]
           U == MonitorType
           step == [z \in (1 .. n) \X U |-> AddPacket(z[2], q(z[1]), r(z[1]))]
           G(g) == [k \in 0 .. n |-> IF k = 0 THEN m ELSE AddPacket(g[k - 1], q(k), r(k))]
           v == CHOOSE g : g = G(g)
<1>1. F[j].seq \in Nat /\ n \in Nat
  BY FileFields
<1>2. ASSUME NEW k \in 1 .. n, NEW x \in U, IndexOf(x, Cut(F, j, k - 1))
      PROVE  AddPacket(x, q(k), r(k)) \in U /\ IndexOf(AddPacket(x, q(k), r(k)), Cut(F, j, k))
  <2> DEFINE P == Cut(F, j, k - 1)
  <2>1. /\ k - 1 \in 0 .. n /\ r(k) \in RecordType /\ Room(P) /\ Cut(F, j, k) = Put(P, r(k))
    BY CutNext
  <2>2. Layout(P) /\ EndOf(P) = F[j].seq + (k - 1)
    BY <2>1, CutLayout
  <2>3. Follows(r(k), DiskOf(P))
    BY CutFollows
  <2>4. q(k) \in Nat /\ Same(q(k), EndOf(P))
    <3>1. Same(NumberOf(F[j].seq), F[j].seq) /\ NumberOf(F[j].seq) \in Nat
      BY <1>1, NumberIs
    <3>2. Same(NumberOf(F[j].seq) + (k - 1), F[j].seq + (k - 1))
      <4> DEFINE a == NumberOf(F[j].seq)
                 b == F[j].seq
                 c == k - 1
      <4>1. Same(a, b) /\ a \in Int /\ b \in Int /\ c \in Int
        BY <1>1, <3>1
      <4> HIDE DEF a, b, c
      <4>2. Same(a + c, b + c)
        BY <4>1, SamePlus
      <4> QED
        BY <4>2 DEF a, b, c
    <3>3. q(k) = NumberOf(F[j].seq) + (k - 1) /\ q(k) \in Nat
      BY <3>1
    <3> QED
      BY <2>2, <3>2, <3>3
  <2> HIDE DEF P, q, r
  <2>5. IndexOf(AddPacket(x, q(k), r(k)), Put(P, r(k)))
    BY <1>2, <2>1, <2>2, <2>3, <2>4, PutIndex DEF P
  <2>6. AddPacket(x, q(k), r(k)) \in MonitorType
    BY <2>5 DEF IndexOf, Index
  <2> QED
    BY <2>1, <2>5, <2>6
<1>3. ASSUME NEW k \in 1 .. n, NEW x \in U PROVE step[<<k, x>>] = AddPacket(x, q(k), r(k))
  OBVIOUS
<1>4. \A k \in 0 .. n : T[k] = {x \in U : IndexOf(x, Cut(F, j, k))}
  OBVIOUS
<1>5. \A k \in 1 .. n : k - 1 \in 0 .. n /\ k \in 0 .. n /\ k # 0
  BY <1>1
<1>6. T \in [0 .. n -> SUBSET U] /\ m \in T[0]
  <2>1. m \in U
    BY DEF IndexOf, Index
  <2> QED
    BY <1>1, <2>1
<1> HIDE DEF T, step, U, n, q, r
<1>7. Leads(step, n, T)
  <2> SUFFICES ASSUME NEW k \in 1 .. n, NEW x \in T[k - 1]
               PROVE  step[<<k, x>>] \in T[k]
    BY DEF Leads
  <2>1. x \in U /\ IndexOf(x, Cut(F, j, k - 1))
    BY <1>4, <1>5
  <2>2. AddPacket(x, q(k), r(k)) \in T[k]
    BY <1>2, <1>4, <1>5, <2>1
  <2> QED
    BY <1>3, <2>1, <2>2
<1>8. PICK f \in [0 .. n -> U] : Goes(f, n, m, step)
  BY <1>1, <1>6, <1>7, Iterates DEF CanGo, Leads
<1>9. ASSUME NEW k \in 0 .. n
      PROVE  f[k] = IF k = 0 THEN m ELSE AddPacket(f[k - 1], q(k), r(k))
  <2>1. k # 0 => k \in 1 .. n /\ k - 1 \in 0 .. n
    BY <1>1
  <2> QED
    BY <1>3, <1>8, <2>1 DEF Goes
<1>10. f = G(f)
  <2>1. f = [k \in 0 .. n |-> f[k]]
    OBVIOUS
  <2> QED
    BY <1>9, <2>1
<1>11. v = G(v)
  BY <1>10
<1> HIDE DEF v
<1>12. \A k \in 1 .. n : v[k] = AddPacket(v[k - 1], q(k), r(k))
  BY <1>5, <1>11
<1>13. v[0] = m
  BY <1>1, <1>11
<1>14. Takes(v, step, n, T)
  <2> SUFFICES ASSUME NEW k \in 1 .. n, v[k - 1] \in T[k - 1]
               PROVE  v[k] = step[<<k, v[k - 1]>>]
    BY DEF Takes
  <2>1. v[k - 1] \in U
    BY <1>4, <1>5
  <2> QED
    BY <1>3, <1>12, <2>1
<1>15. v[n] \in T[n]
  BY <1>1, <1>6, <1>7, <1>13, <1>14, Arrives
<1>16. IndexOf(v[n], Cut(F, j, n))
  <2>1. n \in 0 .. n
    BY <1>1
  <2> QED
    BY <1>4, <1>15, <2>1
<1>17. Scanned(m, F[j]) = v[n]
  BY DEF Scanned, v, n, q, r
<1> QED
  BY <1>16, <1>17, CutAll DEF n

LEMMA FreshType == Fresh \in MonitorType
<1>1. <<>> \in [{} -> StreamType] /\ {} \in SUBSET Stream
  OBVIOUS
<1>2. <<>> \in MapType
  BY <1>1, MapIs
<1> QED
  BY <1>2 DEF Fresh, MonitorType

\* The first file, before its first record.
LEMMA FreshIndex ==
  ASSUME NEW F, Layout(F), Len(F) >= 1
  PROVE  IndexOf(Fresh, Cut(F, 1, 0))
<1> DEFINE P == Cut(F, 1, 0)
<1>1. 1 \in 1 .. Len(F) /\ Len(F[1].records) \in Nat
  <2>1. 1 \in 1 .. Len(F)
    BY DEF Layout
  <2> QED
    BY <2>1, FileFields
<1>2. 0 \in 0 .. Len(F[1].records)
  BY <1>1
<1>3. P # <<>> /\ Len(P) = 1 /\ Len(P[1].records) = 0
  <2>1. ASSUME NEW j \in 1 .. Len(F), NEW k \in 0 .. Len(F[j].records)
        PROVE  Cut(F, j, k) # <<>> /\ Len(Cut(F, j, k)) = j /\ Len(Cut(F, j, k)[j].records) = k
    BY CutIs
  <2> QED
    BY <1>1, <1>2, <2>1
<1> HIDE DEF P
<1>4. DiskOf(P) = {}
  <2>1. \A i \in 1 .. Len(P) : RecordsOf(P[i]) = {}
    BY <1>3 DEF RecordsOf
  <2> QED
    BY <2>1 DEF DiskOf
<1>5. Count(P) = 1
  BY <1>3 DEF Count
<1>6. DOMAIN <<>> = {}
  OBVIOUS
<1>7. Fresh \in MonitorType
  BY FreshType
<1> QED
  BY <1>4, <1>5, <1>6, <1>7 DEF IndexOf, Index, Fresh, P

LEMMA LoadedIndex ==
  ASSUME NEW F, Layout(F), F # <<>>, NEW u, InTime(F, u)
  PROVE  IndexOf(LoadHeaders(F), F)
<1> DEFINE n == Len(F)
           U == MonitorType
           Load(x, k) == Scanned(IF k = 1 THEN x ELSE NewSegment(x), F[k])
           T == [k \in 0 .. n |-> IF k = 0 THEN {Fresh} ELSE {x \in U : IndexOf(x, SubSeq(F, 1, k))}]
           step == [z \in (1 .. n) \X U |-> Load(z[2], z[1])]
           G(g) == [k \in 0 .. n |->
                      IF k = 0 THEN Fresh
                      ELSE Scanned(IF k = 1 THEN g[0] ELSE NewSegment(g[k - 1]), F[k])]
           v == CHOOSE g : g = G(g)
<1>1. n \in Nat \ {0}
  BY BoundIs
<1>2. ASSUME NEW k \in 1 .. n, NEW x, k = 1 => x = Fresh,
             k # 1 => IndexOf(x, SubSeq(F, 1, k - 1))
      PROVE  Load(x, k) \in U /\ IndexOf(Load(x, k), SubSeq(F, 1, k))
  <2> DEFINE m == IF k = 1 THEN x ELSE NewSegment(x)
  <2>1. IndexOf(m, Cut(F, k, 0))
    <3>1. CASE k = 1
      BY <1>1, <1>2, <3>1, FreshIndex
    <3>2. CASE k # 1
      <4>1. k \in 2 .. Len(F)
        BY <1>1, <3>2
      <4> DEFINE P == SubSeq(F, 1, k - 1)
      <4>2. Layout(P) /\ Full(P) /\ Len(P) < MaxFiles /\ Cut(F, k, 0) = Opened(P)
        BY <4>1, CutOpens
      <4> HIDE DEF P
      <4>3. IndexOf(NewSegment(x), Opened(P))
        BY <1>2, <3>2, <4>2, OpenedIndex DEF P
      <4> QED
        BY <3>2, <4>2, <4>3
    <3> QED
      BY <3>1, <3>2
  <2> HIDE DEF m
  <2>2. IndexOf(Scanned(m, F[k]), SubSeq(F, 1, k))
    BY <2>1, ScannedIndex
  <2>3. Scanned(m, F[k]) \in MonitorType
    BY <2>2 DEF IndexOf, Index
  <2> QED
    BY <2>2, <2>3 DEF m
<1>3. ASSUME NEW k \in 1 .. n, NEW x \in U PROVE step[<<k, x>>] = Load(x, k)
  OBVIOUS
<1>4. \A k \in 1 .. n : T[k] = {x \in U : IndexOf(x, SubSeq(F, 1, k))}
  OBVIOUS
<1>5. T[0] = {Fresh}
  BY <1>1
<1>6. \A k \in 1 .. n : k - 1 \in 0 .. n /\ k \in 0 .. n /\ k # 0 /\ (k = 1 \/ k - 1 \in 1 .. n)
                        /\ (k = 1 => k - 1 = 0)
  BY <1>1
<1>7. T \in [0 .. n -> SUBSET U]
  BY FreshType
<1> HIDE DEF T, step, U
<1>8. ASSUME NEW k \in 1 .. n, NEW x \in T[k - 1]
      PROVE  x \in U /\ (k = 1 => x = Fresh) /\ (k # 1 => IndexOf(x, SubSeq(F, 1, k - 1)))
  <2>1. CASE k = 1
    BY <1>5, <1>6, <2>1, FreshType DEF U
  <2>2. CASE k # 1
    BY <1>4, <1>6, <2>2
  <2> QED
    BY <2>1, <2>2
<1> HIDE DEF n, Load
<1>9. Leads(step, n, T)
  <2> SUFFICES ASSUME NEW k \in 1 .. n, NEW x \in T[k - 1]
               PROVE  step[<<k, x>>] \in T[k]
    BY DEF Leads
  <2>1. x \in U /\ (k = 1 => x = Fresh) /\ (k # 1 => IndexOf(x, SubSeq(F, 1, k - 1)))
    BY <1>8
  <2>2. Load(x, k) \in T[k]
    BY <1>2, <1>4, <2>1
  <2> QED
    BY <1>3, <2>1, <2>2
<1>10. PICK f \in [0 .. n -> U] : Goes(f, n, Fresh, step)
  BY <1>1, <1>5, <1>7, <1>9, Iterates DEF CanGo, Leads
<1>11. ASSUME NEW k \in 0 .. n
       PROVE  f[k] = IF k = 0 THEN Fresh
                     ELSE Scanned(IF k = 1 THEN f[0] ELSE NewSegment(f[k - 1]), F[k])
  <2>1. k # 0 => k \in 1 .. n /\ k - 1 \in 0 .. n
    BY <1>1
  <2>2. k # 0 => f[k] = Load(f[k - 1], k)
    BY <1>3, <1>10, <2>1 DEF Goes
  <2>3. f[0] = Fresh
    BY <1>10 DEF Goes
  <2>4. k = 1 => k - 1 = 0
    OBVIOUS
  <2> QED
    BY <2>2, <2>3, <2>4 DEF Load
<1>12. f = G(f)
  <2>1. f = [k \in 0 .. n |-> f[k]]
    OBVIOUS
  <2> QED
    BY <1>11, <2>1
<1>13. v = G(v)
  BY <1>12
<1> HIDE DEF v
<1>14. \A k \in 1 .. n : v[k] = Load(v[k - 1], k)
  BY <1>6, <1>13 DEF Load
<1>15. v[0] = Fresh
  BY <1>1, <1>13
<1>16. Takes(v, step, n, T)
  <2> SUFFICES ASSUME NEW k \in 1 .. n, v[k - 1] \in T[k - 1]
               PROVE  v[k] = step[<<k, v[k - 1]>>]
    BY DEF Takes
  <2>1. v[k - 1] \in U
    BY <1>8
  <2> QED
    BY <1>3, <1>14, <2>1
<1>17. v[n] \in T[n]
  <2>1. v[0] \in T[0] /\ n \in Nat
    BY <1>1, <1>5, <1>15
  <2> QED
    BY <1>9, <1>16, <2>1, Arrives
<1>18. IndexOf(v[n], SubSeq(F, 1, n))
  <2>1. n \in 1 .. n
    BY <1>1
  <2> QED
    BY <1>4, <1>17, <2>1
<1>19. SubSeq(F, 1, n) = F
  BY SubSeqFull DEF Layout, n
<1>20. LoadHeaders(F) = v[n]
  BY DEF LoadHeaders, v, n
<1> QED
  BY <1>18, <1>19, <1>20

LEMMA RecoveredSound ==
  ASSUME NEW F, Layout(F), F # <<>>, NEW u \in [Stream -> Nat], InTime(F, u)
  PROVE  LET e == Recovered(F) IN Sound(e, u) /\ Ends(e.monitor, e.files)
<1> DEFINE d == [files |-> F, monitor |-> LoadHeaders(F)]
           b == WithBlanks(d, BlankBufs)
           x == NumberOf(Head(b.files).seq)
           y == NumberOf(EndOf(b.files))
           e == Recovered(F)
<1>1. IndexOf(LoadHeaders(F), F)
  BY LoadedIndex
<1>2. d.files = F /\ d.monitor = LoadHeaders(F)
  OBVIOUS
<1>3. d \in StoreType /\ Sound(d, u)
  <2>1. LoadHeaders(F) \in MonitorType
    BY <1>1 DEF IndexOf, Index
  <2>2. F \in Seq(FileType)
    BY DEF Layout
  <2>3. d \in StoreType
    BY <2>1, <2>2 DEF StoreType
  <2> HIDE DEF d
  <2> QED
    BY <1>1, <1>2, <2>3 DEF Sound
<1>4. BlankBufs \in Nat
  BY IndexAssumption
<1>5. e = [files |-> b.files, monitor |-> [b.monitor EXCEPT !.begin_seq = x, !.end_seq = y]]
  BY DEF Recovered
<1> HIDE DEF d
<1>6. b \in StoreType /\ Sound(b, u) /\ Heir(b, d)
  BY <1>3, <1>4, BlanksSound
<1>7. b.files # <<>>
  BY <1>2, <1>6 DEF Heir
<1> HIDE DEF b, e
<1>8. Layout(b.files) /\ IndexOf(b.monitor, b.files) /\ InTime(b.files, u)
  BY <1>6 DEF Sound
<1>9. Head(b.files).seq = Bound(b.files, 0)
  <2>1. Head(b.files) = b.files[1]
    BY <1>7, <1>8 DEF Layout
  <2>2. 0 \in 0 .. (Len(b.files) - 1) /\ 0 + 1 = 1
    BY <1>7, <1>8, BoundIs
  <2>3. Bound(b.files, 0) = b.files[0 + 1].seq
    BY <1>7, <1>8, <2>2, BoundIs
  <2> QED
    BY <2>1, <2>2, <2>3
<1>10. Head(b.files).seq \in Nat /\ EndOf(b.files) \in Nat
  <2>1. 1 \in 1 .. Len(b.files)
    BY <1>7, <1>8, BoundIs
  <2>2. b.files[1].seq \in Nat
    BY <1>8, <2>1, FileFields
  <2>3. Head(b.files) = b.files[1]
    BY <1>7, <1>8 DEF Layout
  <2> QED
    BY <1>8, <2>2, <2>3, OpenedIs
<1>11. x \in Nat /\ y \in Nat
  BY <1>10, NumberIs
<1>12. e.files = b.files /\ e.monitor = [b.monitor EXCEPT !.begin_seq = x, !.end_seq = y]
  BY <1>5
<1> HIDE DEF x, y
<1>13. IndexOf(e.monitor, b.files) /\ e.monitor.begin_seq = x /\ e.monitor.end_seq = y
  BY <1>8, <1>11, <1>12 DEF IndexOf, Index, MonitorType
<1> QED
  BY <1>8, <1>9, <1>12, <1>13 DEF Sound, Ends, x, y, e

-----------------------------------------------------------------------------
(* The invariant.                                                          *)

LEMMA ZeroNumber == NumberOf(0) = 0
<1>1. 0 \in 0 .. SeqSize - 1
  BY SizeNat
<1> QED
  BY <1>1, SizeNat, ModSmall DEF NumberOf

\* A disk without a record that was ever written.
LEMMA FreshEmpty ==
  ASSUME NEW F, Layout(F), EndOf(F) = 0
  PROVE  IndexOf(Fresh, F) /\ Ends(Fresh, F) /\ DiskOf(F) = {}
<1>1. DiskOf(F) = {}
  <2> SUFFICES ASSUME NEW d \in DiskOf(F) PROVE FALSE
    OBVIOUS
  <2>1. d.at \in Nat /\ d.at < 0
    BY BeforeEnd
  <2> QED
    BY <2>1
<1>2. Count(F) = 1 /\ Bound(F, 0) = 0
  <2>1. CASE F = <<>>
    BY <2>1 DEF Count, Bound, EndOf
  <2>2. CASE F # <<>>
    <3> DEFINE n == Len(F)
    <3>1. n \in Nat \ {0} /\ Count(F) = n /\ EndOf(F) = F[n].seq + Len(F[n].records)
          /\ \A k \in 0 .. (n - 1) : Bound(F, k) = F[k + 1].seq
      BY <2>2, BoundIs
    <3>2. n \in 1 .. n /\ n - 1 \in 0 .. (n - 1) /\ (n - 1) + 1 = n
      BY <3>1
    <3>3. F[n].seq = 0
      <4>1. F[n].seq \in Nat /\ Len(F[n].records) \in Nat
        BY <3>2, FileFields
      <4> QED
        BY <3>1, <4>1
    <3>4. n = 1
      <4> SUFFICES ASSUME n # 1 PROVE FALSE
        OBVIOUS
      <4>1. n - 1 \in 1 .. (n - 1) /\ n - 1 \in 1 .. n
        BY <3>1
      <4>2. F[(n - 1) + 1].seq = F[n - 1].seq + FileSize
        BY <4>1 DEF Layout
      <4>3. F[n - 1].seq \in Nat /\ FileSize \in Nat /\ FileSize > 0
        BY <4>1, FileFields, IndexAssumption
      <4> QED
        BY <3>2, <3>3, <4>2, <4>3
    <3>5. Bound(F, n - 1) = F[n].seq
      BY <3>1, <3>2
    <3> HIDE DEF n
    <3>6. n - 1 = 0
      BY <3>4
    <3> QED
      BY <3>1, <3>3, <3>4, <3>5, <3>6
  <2> QED
    BY <2>1, <2>2
<1>3. DOMAIN <<>> = {}
  OBVIOUS
<1>4. IndexOf(Fresh, F)
  BY <1>1, <1>2, <1>3, FreshType DEF IndexOf, Index, Fresh
<1>5. Ends(Fresh, F)
  BY <1>2, ZeroNumber DEF Ends, Fresh
<1> QED
  BY <1>1, <1>4, <1>5

THEOREM InitInv == Init => Inv
<1> SUFFICES ASSUME Init PROVE Inv
  OBVIOUS
<1> DEFINE d == [files |-> <<>>, monitor |-> Fresh]
<1>1. PICK n \in Before : LET e == WithBlanks(d, n)
                          IN  files = e.files /\ monitor = e.monitor
  BY DEF Init
<1> DEFINE e == WithBlanks(d, n)
<1>2. n \in Nat
  BY IndexAssumption
<1>3. upto = [s \in Stream |-> 0] /\ upto \in [Stream -> Nat] /\ xml = {} /\ up = TRUE
  BY DEF Init
<1>4. d.files = <<>> /\ d.monitor = Fresh
  OBVIOUS
<1>5. Layout(<<>>) /\ EndOf(<<>>) = 0
  BY OpenedFirst
<1>6. d \in StoreType
  <2>1. <<>> \in Seq(FileType)
    OBVIOUS
  <2> QED
    BY <2>1, FreshType DEF StoreType
<1> HIDE DEF d
<1>7. InTime(<<>>, upto)
  BY <1>5, FreshEmpty DEF InTime
<1>8. Sound(d, upto) /\ Ends(d.monitor, d.files)
  BY <1>4, <1>5, <1>7, FreshEmpty DEF Sound
<1>9. Sound(e, upto) /\ Heir(e, d)
  BY <1>2, <1>3, <1>6, <1>8, BlanksSound
<1> QED
  BY <1>1, <1>3, <1>8, <1>9 DEF Inv, Sound, Heir

LEMMA ArriveInv ==
  ASSUME Inv, NEW s \in Stream, NEW gap \in Gaps, Arrive(s, gap)
  PROVE  Inv'
<1> DEFINE r == [stream |-> s, begin |-> upto[s] + gap, end |-> upto[s] + gap + Length[s]]
           d == [files |-> files, monitor |-> monitor]
           e == Stored(d, r)
<1>1. /\ up /\ files' = e.files /\ monitor' = e.monitor /\ upto' = [upto EXCEPT ![s] = r.end]
      /\ UNCHANGED <<xml, up>>
  BY DEF Arrive
<1>2. /\ Layout(files) /\ upto \in [Stream -> Nat] /\ InTime(files, upto) /\ xml = {}
      /\ up \in BOOLEAN /\ IndexOf(monitor, files) /\ Ends(monitor, files)
  BY <1>1 DEF Inv
<1>3. d.files = files /\ d.monitor = monitor
  OBVIOUS
<1>4. gap \in Nat /\ Length[s] \in Nat /\ upto[s] \in Nat /\ s # None
  BY <1>2, IndexAssumption
<1>5. r.stream = s /\ r.begin = upto[s] + gap /\ r.end = upto[s] + gap + Length[s]
  OBVIOUS
<1>6. r.begin \in Nat /\ r.end \in Nat /\ upto[s] <= r.begin /\ r.begin <= r.end
  BY <1>4, <1>5
<1>7. r \in RecordType
  BY <1>6 DEF RecordType
<1> HIDE DEF r, d
<1>8. Follows(r, DiskOf(files))
  <2> SUFFICES ASSUME NEW x \in DiskOf(files), x.rec.stream = s PROVE x.rec.end <= r.begin
    BY <1>5, <1>6, <1>7 DEF Follows
  <2>1. x.rec.end <= upto[s]
    BY <1>2, <1>4 DEF InTime
  <2>2. x.rec.end \in Nat
    BY <1>2, BeforeEnd, PlacedFields
  <2> QED
    BY <1>4, <1>6, <2>1, <2>2
<1>9. Keeps(e, d, r) /\ (Begins(d) => Begins(e))
  BY <1>2, <1>3, <1>8, StoredKeeps
<1>10. upto' \in [Stream -> Nat]
  BY <1>1, <1>2, <1>6
<1>11. \A z \in Stream : upto[z] <= upto'[z]
  <2> TAKE z \in Stream
  <2>1. upto[z] \in Nat /\ upto[s] <= r.end
    BY <1>2, <1>4, <1>6
  <2> QED
    BY <1>1, <1>2, <2>1
<1>12. r.end <= upto'[r.stream]
  BY <1>1, <1>2, <1>5, <1>6
<1> DEFINE v == upto'
<1>13. v \in [Stream -> Nat] /\ (\A z \in Stream : upto[z] <= v[z]) /\ r.end <= v[r.stream]
  BY <1>10, <1>11, <1>12
<1> HIDE DEF e, v
<1>14. InTime(e.files, v)
  BY <1>2, <1>3, <1>8, <1>9, <1>13, KeepsInTime
<1>15. Layout(e.files) /\ IndexOf(e.monitor, e.files)
  BY <1>9 DEF Keeps
<1>16. Ends(e.monitor, e.files)
  BY <1>2, <1>3, <1>9 DEF Ends, Begins, Keeps
<1>17. InTime(files', upto')
  BY <1>1, <1>14 DEF v
<1> QED
  BY <1>1, <1>2, <1>10, <1>15, <1>16, <1>17 DEF Inv

LEMMA TerminateInv == Inv /\ Terminate => Inv'
BY DEF Inv, Terminate, Stops

LEMMA CrashInv ==
  ASSUME Inv, NEW m, NEW n, Crash(m, n)
  PROVE  Inv'
<1>1. /\ up /\ up' = FALSE /\ m \in DOMAIN files /\ n \in 0 .. Len(files[m].records)
      /\ files' = Cut(files, m, n) /\ UNCHANGED <<monitor, xml, upto>>
  BY DEF Crash, Stops, Cut
<1>2. Layout(files) /\ upto \in [Stream -> Nat] /\ InTime(files, upto) /\ xml = {}
  BY <1>1 DEF Inv
<1>3. m \in 1 .. Len(files)
  BY <1>1, <1>2, LenProperties DEF Layout
<1> DEFINE P == Cut(files, m, n)
<1>4. Layout(P) /\ DiskOf(P) \subseteq DiskOf(files)
  BY <1>1, <1>2, <1>3, CutLayout, CutDisk
<1> HIDE DEF P
<1>5. InTime(P, upto)
  BY <1>2, <1>4, SubsetInTime
<1> QED
  BY <1>1, <1>2, <1>4, <1>5 DEF Inv, P

\* An index of nothing is readable.
LEMMA NothingReadable ==
  ASSUME NEW m, IndexOf(m, <<>>)
  PROVE  Readable(m)
<1>1. DiskOf(<<>>) = {}
  BY OpenedFirst, FreshEmpty
<1>2. \A s \in DOMAIN m.stream_map : FALSE
  BY <1>1 DEF IndexOf, Index, Known, Fits, Near, Of
<1> QED
  BY <1>2 DEF Readable

LEMMA RestartInv == Inv /\ Restart => Inv'
<1> SUFFICES ASSUME Inv, Restart PROVE Inv'
  OBVIOUS
<1> DEFINE saved   == {m \in xml : Readable(m)}
           recover == saved = {} /\ (xml # {} \/ EndOf(files) # 0)
<1>1. /\ up' = TRUE /\ xml' = {} /\ upto' = upto
      /\ \/ monitor' \in saved /\ UNCHANGED files
         \/ saved = {} /\ ~recover /\ monitor' = Fresh /\ UNCHANGED files
         \/ recover /\ files' = Recovered(files).files /\ monitor' = Recovered(files).monitor
  BY DEF Restart
<1>2. /\ Layout(files) /\ upto \in [Stream -> Nat] /\ InTime(files, upto) /\ xml \subseteq {monitor}
      /\ xml # {} => IndexOf(monitor, files) /\ Ends(monitor, files)
  BY DEF Inv
<1>3. CASE monitor' \in saved /\ UNCHANGED files
  <2>1. monitor' = monitor /\ xml # {}
    BY <1>2, <1>3
  <2> QED
    BY <1>1, <1>2, <1>3, <2>1 DEF Inv
<1>4. CASE saved = {} /\ ~recover /\ monitor' = Fresh /\ UNCHANGED files
  <2>1. EndOf(files) = 0
    BY <1>4
  <2>2. IndexOf(Fresh, files) /\ Ends(Fresh, files)
    BY <1>2, <2>1, FreshEmpty
  <2> QED
    BY <1>1, <1>2, <1>4, <2>2 DEF Inv
<1>5. CASE recover /\ files' = Recovered(files).files /\ monitor' = Recovered(files).monitor
  <2>1. files # <<>>
    <3> SUFFICES ASSUME files = <<>> PROVE FALSE
      OBVIOUS
    <3>1. xml # {}
      BY <1>5, OpenedFirst
    <3>2. monitor \in xml /\ IndexOf(monitor, <<>>)
      BY <1>2, <3>1
    <3>3. monitor \in saved
      BY <3>2, NothingReadable
    <3> QED
      BY <1>5, <3>3
  <2> DEFINE e == Recovered(files)
  <2>2. Sound(e, upto) /\ Ends(e.monitor, e.files)
    BY <1>2, <2>1, RecoveredSound
  <2> HIDE DEF e
  <2>3. files' = e.files /\ monitor' = e.monitor
    BY <1>5 DEF e
  <2> QED
    BY <1>1, <1>2, <2>2, <2>3 DEF Inv, Sound
<1> QED
  BY <1>1, <1>3, <1>4, <1>5

LEMMA NextInv == Inv /\ [Next]_vars => Inv'
<1> SUFFICES ASSUME Inv, [Next]_vars PROVE Inv'
  OBVIOUS
<1>1. CASE UNCHANGED vars
  BY <1>1 DEF Inv, vars
<1>2. ASSUME NEW s \in Stream, NEW gap \in Gaps, Arrive(s, gap) PROVE Inv'
  BY <1>2, ArriveInv
<1>3. CASE Terminate
  BY <1>3, TerminateInv
<1>4. CASE Restart
  BY <1>4, RestartInv
<1>5. ASSUME NEW m \in 1 .. MaxFiles, NEW n \in 0 .. FileSize, Crash(m, n) PROVE Inv'
  BY <1>5, CrashInv
<1> QED
  BY <1>1, <1>2, <1>3, <1>4, <1>5 DEF Next

\* The index knows what is on disk, in every state.
THEOREM Indexed == Spec => []Inv
BY InitInv, NextInv, PTL DEF Spec

-----------------------------------------------------------------------------
(* What a client is answered.                                              *)

LEMMA RangeIs ==
  ASSUME Inv, up
  PROVE  /\ Layout(files) /\ IndexOf(monitor, files) /\ Ends(monitor, files)
         /\ Bound(files, 0) \in Nat /\ EndOf(files) \in Nat /\ Bound(files, 0) <= EndOf(files)
         /\ EndOf(files) <= Bound(files, 0) + Capacity
         /\ Positions = Bound(files, 0) .. EndOf(files)
<1>1. Layout(files) /\ IndexOf(monitor, files) /\ Ends(monitor, files)
  BY DEF Inv
<1>2. CASE files = <<>>
  <2>1. Bound(files, 0) = 0 /\ EndOf(files) = 0
    BY <1>2 DEF Bound, EndOf
  <2>2. Positions = 0 .. 0
    BY <1>2 DEF Positions
  <2> QED
    BY <1>1, <2>1, <2>2, CapacityNat
<1>3. CASE files # <<>>
  <2> DEFINE B == Bounds(files)
             N == Count(files)
  <2>1. Disk(DiskOf(files), B, N) /\ B[N] <= B[0] + Capacity
    BY <1>1, LayoutDisk
  <2>2. /\ N \in Nat \ {0} /\ N = Len(files) /\ Bound(files, N) = EndOf(files)
        /\ \A k \in 0 .. (N - 1) : Bound(files, k) = files[k + 1].seq
    BY <1>1, <1>3, BoundIs
  <2>3. 0 \in 0 .. N /\ N \in 0 .. N /\ 0 \in 0 .. (N - 1) /\ 0 + 1 = 1 /\ 0 <= N
    BY <2>2
  <2>4. B[0] = Bound(files, 0) /\ B[N] = EndOf(files)
    BY <2>2, <2>3 DEF Bounds
  <2>5. B[0] \in Nat /\ B[N] \in Nat /\ B[0] <= B[N]
    BY <2>1, <2>3 DEF Disk, Rising
  <2>6. Head(files).seq = Bound(files, 0)
    <3>1. Head(files) = files[1]
      BY <1>1, <1>3 DEF Layout
    <3> QED
      BY <2>2, <2>3, <3>1
  <2>7. Positions = Bound(files, 0) .. EndOf(files)
    BY <1>3, <2>6 DEF Positions
  <2> QED
    BY <1>1, <2>1, <2>4, <2>5, <2>7
<1> QED
  BY <1>2, <1>3

LEMMA OnDiskIs ==
  ASSUME Inv, up, NEW filter \in SUBSET Stream, NEW r \in OnDisk(filter)
  PROVE  /\ r \in DiskOf(files) /\ r.rec.stream \in Matching(filter)
         /\ r \in Of(r.rec.stream, DiskOf(files))
         /\ r.at \in Nat /\ r.rec.begin \in Nat /\ r.rec.end \in Nat
         /\ Bound(files, 0) <= r.at /\ r.at < EndOf(files)
<1>1. Layout(files) /\ IndexOf(monitor, files)
  BY RangeIs
<1>2. PICK f \in Range(files) :
        \E k \in DOMAIN f.records : /\ f.records[k].stream \in filter
                                    /\ r = [at |-> f.seq + k - 1, rec |-> f.records[k]]
  BY DEF OnDisk
<1>3. PICK j \in 1 .. Len(files) : f = files[j]
  BY <1>1, <1>2, LenProperties DEF Range, Layout
<1>4. f.records \in Seq(RecordType) /\ f.seq \in Nat
  BY <1>1, <1>3, FileFields
<1>5. PICK k \in 1 .. Len(f.records) : /\ f.records[k].stream \in filter
                                       /\ r = [at |-> f.seq + k - 1, rec |-> f.records[k]]
  BY <1>2, <1>4, LenProperties
<1>6. r = [at |-> f.seq + (k - 1), rec |-> f.records[k]]
  BY <1>4, <1>5
<1>7. r \in DiskOf(files)
  <2>1. r \in RecordsOf(f)
    BY <1>6 DEF RecordsOf
  <2> QED
    BY <1>3, <2>1 DEF DiskOf
<1>8. r.rec.stream \in filter
  BY <1>5
<1>9. r.rec.stream \in DOMAIN monitor.stream_map \cup {None}
  BY <1>1, <1>7 DEF IndexOf, Index
<1>10. r.rec.stream # None
  BY <1>8, IndexAssumption
<1>11. /\ r \in PlacedType /\ r.at \in Nat /\ r.at < EndOf(files) /\ r.at >= Bound(files, 0)
  BY <1>1, <1>7, BeforeEnd
<1> QED
  BY <1>7, <1>8, <1>9, <1>10, <1>11, PlacedFields, RangeIs DEF Matching, Of

LEMMA FromBeginIs ==
  ASSUME Inv, up, NEW x \in Int, NEW p \in Int, Same(x, p),
         p <= EndOf(files), p > Bound(files, 0) - Capacity
  PROVE  /\ FromBegin(x) \in Nat
         /\ p >= Bound(files, 0) => FromBegin(x) = p - Bound(files, 0)
         /\ p < Bound(files, 0) => FromBegin(x) = (p - Bound(files, 0)) + SeqSize
<1> DEFINE b == Bound(files, 0)
           c == monitor.begin_seq
           a == x - c
           e == p - b
<1>1. b \in Nat /\ EndOf(files) \in Nat /\ EndOf(files) <= b + Capacity
      /\ c = NumberOf(b) /\ Capacity \in Nat /\ SeqSize \in Nat /\ SeqSize > 0
      /\ SeqSize > 2 * Capacity
  BY RangeIs, CapacityNat, SizeNat DEF Ends
<1>2. c \in Nat /\ Same(c, b)
  BY <1>1, NumberIs
<1> HIDE DEF b, c
<1>3. Same(a, e)
  BY <1>1, <1>2, SameMinus
<1>4. a \in Int /\ e \in Int /\ (e < 0 => -e < SeqSize) /\ (e >= 0 => e \in 0 .. SeqSize - 1)
  BY <1>1, <1>2 DEF b
<1> HIDE DEF a, e
<1>5. /\ e \in 0 .. SeqSize - 1 => e % SeqSize = e
      /\ e < 0 /\ -e < SeqSize => e % SeqSize = e + SeqSize
  BY <1>1, <1>4, ModSmall
<1>6. a % SeqSize = e % SeqSize
  BY <1>3 DEF Same
<1>7. FromBegin(x) = e % SeqSize
  BY <1>6 DEF FromBegin, a, c
<1> DEFINE y == e % SeqSize
<1>8. FromBegin(x) = y /\ (e \in 0 .. SeqSize - 1 => y = e)
      /\ (e < 0 /\ -e < SeqSize => y = e + SeqSize)
  BY <1>5, <1>7
<1> HIDE DEF y
<1>9. e = p - b
  BY DEF e
<1> QED
  BY <1>1, <1>4, <1>8, <1>9 DEF b

LEMMA ToEndIs ==
  ASSUME Inv, up, NEW x \in Int, NEW p \in Bound(files, 0) .. EndOf(files), Same(x, p)
  PROVE  ToEnd(x) = EndOf(files) - p
<1> DEFINE n == EndOf(files)
           c == monitor.end_seq
           a == c - x
           e == n - p
<1>1. n \in Nat /\ Bound(files, 0) \in Nat /\ n <= Bound(files, 0) + Capacity
      /\ c = NumberOf(n) /\ Capacity \in Nat /\ SeqSize \in Nat /\ SeqSize > 0
      /\ SeqSize > 2 * Capacity
  BY RangeIs, CapacityNat, SizeNat DEF Ends
<1>2. c \in Nat /\ Same(c, n) /\ p \in Int
  BY <1>1, NumberIs
<1>3. e \in 0 .. SeqSize - 1 /\ e \in Int
  BY <1>1
<1> HIDE DEF n, c
<1>4. Same(a, e)
  BY <1>1, <1>2, SameMinus
<1> HIDE DEF a, e
<1>5. e % SeqSize = e
  BY <1>1, <1>3, ModSmall
<1>6. a % SeqSize = e
  BY <1>4, <1>5 DEF Same
<1> QED
  BY <1>6 DEF ToEnd, a, c, e, n

\* Where a stream sends a client: what this one wants is not before it.
LEMMA StreamAnswers ==
  ASSUME Inv, up, NEW s \in DOMAIN monitor.stream_map, NEW it \in Nat
  PROVE  LET a == StreamTimeToSeq(monitor.stream_map[s], it) IN
         a \in Nat /\ \E p \in Nat :
           /\ Same(a, p) /\ p <= EndOf(files) /\ p > Bound(files, 0) - Capacity
           /\ \A d \in Of(s, DiskOf(files)) : d.rec.end > it => d.at >= p
<1> DEFINE sm == monitor.stream_map[s]
           D == DiskOf(files)
           B == Bounds(files)
           N == Count(files)
           X == Of(s, D)
<1>1. Layout(files) /\ Index(monitor, D, B, N)
  BY RangeIs DEF IndexOf
<1>2. Disk(D, B, N) /\ B[N] <= B[0] + Capacity
  BY <1>1, LayoutDisk
<1>3. sm \in StreamType /\ Known(sm, X, B, N)
  <2>1. monitor \in MonitorType
    BY <1>1 DEF Index
  <2> QED
    BY <1>1, <2>1, MonitorFields DEF Index
<1>4. B[0] = Bound(files, 0) /\ B[N] = EndOf(files)
  <2>1. N \in Nat \ {0} /\ Bound(files, N) = EndOf(files)
    <3>1. CASE files = <<>>
      BY <3>1 DEF Count, Bound, EndOf
    <3>2. CASE files # <<>>
      BY <1>1, <3>2, BoundIs
    <3> QED
      BY <3>1, <3>2
  <2>2. 0 \in 0 .. N /\ N \in 0 .. N
    BY <2>1
  <2> QED
    BY <2>1, <2>2 DEF Bounds
<1>5. X \in SUBSET D /\ N \in Nat
  BY <1>2 DEF Of, Disk
<1> HIDE DEF sm, D, B, N, X
<1>6. PICK n \in Nat : \E p, t \in [0 .. n -> Nat] : Says(sm, p, t, n) /\ Fits(p, t, n, X, B, N)
  BY <1>3 DEF Known
<1>7. PICK p \in [0 .. n -> Nat], t \in [0 .. n -> Nat] :
        Says(sm, p, t, n) /\ Fits(p, t, n, X, B, N)
  BY <1>6
<1>8. \A j \in 0 .. n : p[j] \in Nat /\ p[j] <= EndOf(files) /\ p[j] > Bound(files, 0) - Capacity
  <2>1. \A j \in 0 .. n : /\ p[j] \in Nat /\ p[j] <= B[N] /\ B[N] \in Nat /\ B[0] \in Nat
                          /\ B[0] - Capacity < p[j] /\ B[N] - p[j] < SeqSize
    BY <1>2, <1>5, <1>7, FitsSpan
  <2> QED
    BY <1>4, <2>1, CapacityNat
<1>9. \A d \in X : d.at \in Nat /\ d.rec.end \in Nat
  BY <1>2, <1>5, PlacedFields DEF Disk
<1>10. sm.segments \in Seq(SegmentType) /\ Len(sm.segments) = n /\ sm.begin_seq \in Nat
       /\ Same(sm.begin_seq, p[0])
  BY <1>3, <1>7, StreamFields DEF Says
<1> DEFINE ends  == [k \in DOMAIN sm.segments |-> sm.segments[k].end_time <= it]
           early == {k \in DOMAIN ends : \A j \in 1 .. k : ends[j]}
           a     == StreamTimeToSeq(sm, it)
<1>11. a = IF early = {} THEN sm.begin_seq ELSE sm.segments[Max(early)].end_seq
  BY DEF StreamTimeToSeq
<1>12. early \subseteq 1 .. n /\ \A k \in early : sm.segments[k].end_time <= it
  <2>1. DOMAIN sm.segments = 1 .. n
    BY <1>10, LenProperties
  <2>2. early \subseteq 1 .. n
    BY <2>1
  <2>3. ASSUME NEW k \in early PROVE sm.segments[k].end_time <= it
    <3>1. k \in 1 .. n /\ k \in 1 .. k
      BY <2>2
    <3>2. ends[k]
      BY <3>1
    <3> QED
      BY <2>1, <3>1, <3>2
  <2> QED
    BY <2>2, <2>3
<1> HIDE DEF ends, early, a
<1>13. CASE early = {}
  <2>1. a = sm.begin_seq /\ 0 \in 0 .. n
    BY <1>11, <1>13
  <2>2. \A d \in X : d.at >= p[0]
    BY <1>7 DEF Fits, Divides
  <2> QED
    BY <1>8, <1>10, <2>1, <2>2 DEF sm, X, D, a
<1>14. CASE early # {}
  <2> DEFINE j == Max(early)
  <2>1. j \in early
    <3> DEFINE S == {n - k : k \in early}
    <3>1. S \subseteq Nat /\ S # {}
      <4>1. ASSUME NEW k \in early PROVE n - k \in Nat
        <5>1. k \in 1 .. n
          BY <1>12
        <5> QED
          BY <5>1
      <4>2. PICK k : k \in early
        BY <1>14
      <4>3. n - k \in S
        BY <4>2
      <4> QED
        BY <4>1, <4>3
    <3>2. PICK x \in S : \A y \in S : x <= y
      <4> HIDE DEF S
      <4> QED
        BY <3>1, LeastNat
    <3>3. PICK k \in early : x = n - k
      OBVIOUS
    <3>4. \A l \in early : k >= l
      <4> TAKE l \in early
      <4>1. x <= n - l
        BY <3>2
      <4> QED
        BY <1>12, <3>3, <4>1
    <3> QED
      BY <3>4 DEF Max
  <2> HIDE DEF j
  <2>2. a = sm.segments[j].end_seq
    BY <1>11, <1>14 DEF j
  <2>3. j \in 1 .. n /\ j \in 0 .. n
    <3>1. j \in 1 .. n
      BY <1>12, <2>1
    <3> QED
      BY <3>1
  <2>4. a = NumberOf(p[j]) /\ t[j] <= it
    BY <1>7, <1>12, <2>1, <2>2, <2>3 DEF Says
  <2>5. a \in Nat /\ Same(a, p[j])
    BY <1>8, <2>3, <2>4, NumberIs
  <2>6. ASSUME NEW d \in X, d.rec.end > it PROVE d.at >= p[j]
    <3>1. d.at < p[j] => d.rec.end <= t[j]
      BY <1>7, <2>3 DEF Fits, Divides
    <3>2. t[j] \in Nat /\ p[j] \in Nat
      BY <2>3
    <3> QED
      BY <1>9, <2>4, <2>6, <3>1, <3>2
  <2> QED
    BY <1>8, <2>3, <2>5, <2>6 DEF sm, X, D, a
<1> QED
  BY <1>13, <1>14

\* What the verdict of a stream says of its records.
LEMMA StreamVerdict ==
  ASSUME Inv, up, NEW s \in DOMAIN monitor.stream_map, NEW it \in Nat
  PROVE  /\ StreamTimeCmp(monitor.stream_map[s], it) \in -1 .. 1
         /\ \A d \in Of(s, DiskOf(files)) :
              /\ StreamTimeCmp(monitor.stream_map[s], it) = -1 => d.rec.begin > it
              /\ StreamTimeCmp(monitor.stream_map[s], it) = 1 => d.rec.end <= it
<1> DEFINE sm == monitor.stream_map[s]
           D == DiskOf(files)
           B == Bounds(files)
           N == Count(files)
           X == Of(s, D)
           v == StreamTimeCmp(sm, it)
<1>1. Layout(files) /\ Index(monitor, D, B, N)
  BY RangeIs DEF IndexOf
<1>2. Disk(D, B, N)
  BY <1>1, LayoutDisk
<1>3. sm \in StreamType /\ Known(sm, X, B, N)
  <2>1. monitor \in MonitorType
    BY <1>1 DEF Index
  <2> QED
    BY <1>1, <2>1, MonitorFields DEF Index
<1>4. X \in SUBSET D /\ N \in Nat
  BY <1>2 DEF Of, Disk
<1> HIDE DEF sm, D, B, N, X
<1>5. PICK n \in Nat : \E p, t \in [0 .. n -> Nat] : Says(sm, p, t, n) /\ Fits(p, t, n, X, B, N)
  BY <1>3 DEF Known
<1>6. PICK p \in [0 .. n -> Nat], t \in [0 .. n -> Nat] :
        Says(sm, p, t, n) /\ Fits(p, t, n, X, B, N)
  BY <1>5
<1>7. n \in 1 .. N /\ n \in 1 .. n /\ n \in 0 .. n /\ 0 \in 0 .. n /\ (N - n) + n = N
  BY <1>4, <1>6 DEF Fits
<1>8. sm.begin_time = t[0] /\ Last(sm.segments).end_time = t[n] /\ t[0] \in Nat /\ t[n] \in Nat
  BY <1>6, <1>7 DEF Says, Last
<1>9. v = IF it < t[0] THEN -1 ELSE IF it > t[n] THEN 1 ELSE 0
  BY <1>8 DEF StreamTimeCmp
<1> HIDE DEF v
<1>10. ASSUME NEW d \in X
       PROVE  (v = -1 => d.rec.begin > it) /\ (v = 1 => d.rec.end <= it)
  <2>1. d.rec.begin \in Nat /\ d.rec.end \in Nat /\ d.at < B[N]
    BY <1>2, <1>4, PlacedFields DEF Disk
  <2>2. p[0] <= d.at /\ (d.at >= p[0] => d.rec.begin >= t[0])
    BY <1>6, <1>7 DEF Fits, Divides
  <2>3. d.rec.begin >= t[0]
    <3>1. d.at \in Nat /\ p[0] \in Nat
      BY <1>2, <1>4, <1>7, PlacedFields DEF Disk
    <3> QED
      BY <2>2, <3>1
  <2>4. (d.at < B[(N - n) + n] => d.at < p[n]) /\ (d.at < p[n] => d.rec.end <= t[n])
    BY <1>6, <1>7 DEF Fits, Divides
  <2>5. d.rec.end <= t[n]
    BY <1>7, <2>1, <2>4
  <2> QED
    BY <1>8, <1>9, <2>1, <2>3, <2>5
<1>11. v \in -1 .. 1
  BY <1>9
<1> QED
  BY <1>10, <1>11 DEF v, sm, X, D

\* A verdict that is not 0 is that of every stream.
LEMMA VerdictIs ==
  ASSUME Inv, up, NEW filter \in SUBSET Stream, NEW it \in Nat,
         TimeCmp(it, filter) # 0, NEW s \in Matching(filter)
  PROVE  TimeCmp(it, filter) = StreamTimeCmp(monitor.stream_map[s], it)
<1> DEFINE V == {StreamTimeCmp(monitor.stream_map[z], it) : z \in Matching(filter)}
<1>1. V \subseteq -1 .. 1
  BY StreamVerdict DEF Matching
<1>2. IsFiniteSet(V)
  <2>1. -1 \in Int /\ 1 \in Int
    OBVIOUS
  <2>2. IsFiniteSet(-1 .. 1)
    BY <2>1, FS_Interval
  <2> HIDE DEF V
  <2> QED
    BY <1>1, <2>2, FS_Subset
<1>3. TimeCmp(it, filter) = IF Cardinality(V) = 1 THEN CHOOSE v \in V : TRUE ELSE 0
  BY DEF TimeCmp
<1>4. StreamTimeCmp(monitor.stream_map[s], it) \in V
  OBVIOUS
<1> HIDE DEF V
<1>5. Cardinality(V) = 1
  BY <1>3
<1>6. PICK x : V = {x}
  BY <1>2, <1>5, FS_Singleton
<1> QED
  BY <1>3, <1>4, <1>5, <1>6

LEMMA TimesNat ==
  ASSUME Inv
  PROVE  Times \subseteq Nat
BY DEF Inv, Times

\* A request is over at once only when it wants nothing: the index's begin
\* times are before no record of the stream (monitor.cc:940-953).
THEOREM EndsWhenEmpty == Spec => []EndsOnlyEmpty
<1>1. ASSUME Inv PROVE EndsOnlyEmpty
  <2> SUFFICES ASSUME up, NEW filter \in SUBSET Stream, NEW it \in Nat, OverAtOnce(it, filter),
                      NEW r \in OnDisk(filter)
               PROVE  r.rec.begin > it
    BY <1>1, TimesNat DEF EndsOnlyEmpty
  <2> DEFINE s == r.rec.stream
             v == StreamTimeCmp(monitor.stream_map[s], it)
  <2>1. s \in Matching(filter) /\ r \in Of(s, DiskOf(files))
    BY <1>1, OnDiskIs
  <2>2. s \in DOMAIN monitor.stream_map
    BY <2>1 DEF Matching
  <2>3. TimeCmp(it, filter) < 0 /\ TimeCmp(it, filter) # 0
    BY DEF OverAtOnce
  <2> HIDE DEF s
  <2>4. TimeCmp(it, filter) = v
    BY <1>1, <2>1, <2>3, VerdictIs
  <2>5. v \in -1 .. 1 /\ (v = -1 => r.rec.begin > it)
    BY <1>1, <2>1, <2>2, StreamVerdict
  <2> QED
    BY <2>3, <2>4, <2>5
<1> QED
  BY <1>1, Indexed, PTL

\* The answer when the client has named no number: a place on disk, and all
\* that is wanted is there or after.
Answers(q, filter, it) ==
  /\ q \in Nat
  /\ \E p \in Positions :
       /\ Same(q, p)
       /\ \A r \in OnDisk(Heard(filter, it)) : r.rec.end > it => r.at >= p

LEMMA Answered ==
  ASSUME Inv, up, NEW filter \in SUBSET Stream, NEW it \in Nat
  PROVE  Answers(TimeToSeq(it, -1, filter), filter, it)
<1> DEFINE M == Matching(filter)
           H == Heard(filter, it)
           A(s) == StreamTimeToSeq(monitor.stream_map[s], it)
           seqs  == {A(s) : s \in M}
           close == {q \in seqs : FromBegin(q) < FromBegin(monitor.end_seq)}
           found == IF seqs = {} THEN monitor.end_seq
                    ELSE IF close = {} THEN monitor.begin_seq
                    ELSE CHOOSE q \in close : \A z \in close : FromBegin(q) <= FromBegin(z)
           b == Bound(files, 0)
           e == EndOf(files)
           D(s) == Of(s, DiskOf(files))
<1>1. TimeToSeq(it, -1, filter) = found
  BY DEF TimeToSeq
<1>2. /\ b \in Nat /\ e \in Nat /\ b <= e /\ Positions = b .. e /\ Capacity \in Nat
      /\ SeqSize \in Nat /\ SeqSize > 2 * Capacity /\ e <= b + Capacity
      /\ Capacity > 0
  BY RangeIs, CapacityNat, SizeNat
<1>3. M \subseteq DOMAIN monitor.stream_map /\ M \subseteq filter /\ H \in SUBSET Stream
      /\ H \subseteq filter
  BY DEF Matching, Heard
<1>4. ASSUME NEW r \in OnDisk(H)
      PROVE  /\ r.rec.stream \in M /\ r.rec.stream \in H /\ r \in D(r.rec.stream)
             /\ r.at \in Nat /\ b <= r.at /\ r.at < e
  <2>1. r.rec.stream \in Matching(H) /\ r \in D(r.rec.stream) /\ r.at \in Nat /\ b <= r.at /\ r.at < e
    BY <1>3, OnDiskIs
  <2> QED
    BY <1>3, <2>1 DEF Matching
<1>5. /\ monitor.end_seq \in Nat /\ Same(monitor.end_seq, e)
      /\ monitor.begin_seq \in Nat /\ Same(monitor.begin_seq, b)
  <2>1. monitor.end_seq = NumberOf(e) /\ monitor.begin_seq = NumberOf(b)
    BY RangeIs DEF Ends
  <2> QED
    BY <1>2, <2>1, NumberIs
<1>6. FromBegin(monitor.end_seq) = e - b
  <2>1. e > b - Capacity /\ e \in Int /\ monitor.end_seq \in Int /\ e <= e /\ e >= b
    BY <1>2, <1>5
  <2> QED
    BY <1>5, <2>1, FromBeginIs
<1>7. ASSUME NEW s \in M
      PROVE  /\ A(s) \in Nat
             /\ \E p \in Nat :
                  /\ Same(A(s), p) /\ p <= e /\ p > b - Capacity
                  /\ \A d \in D(s) : d.rec.end > it => d.at >= p
  BY <1>3, StreamAnswers
<1> HIDE DEF M, H, A, b, e, D
<1>8. ASSUME NEW s \in M, NEW p \in Nat, Same(A(s), p), p <= e, p > b - Capacity
      PROVE  /\ FromBegin(A(s)) \in Nat
             /\ p >= b => FromBegin(A(s)) = p - b
             /\ p < b => FromBegin(A(s)) = (p - b) + SeqSize
  <2>1. A(s) \in Int /\ p \in Int
    BY <1>7
  <2> QED
    BY <1>8, <2>1, FromBeginIs DEF b, e
<1>9. CASE seqs = {}
  <2>1. found = monitor.end_seq
    BY <1>9
  <2>2. \A r \in OnDisk(H) : FALSE
    BY <1>4, <1>9
  <2>3. e \in Positions
    BY <1>2
  <2> QED
    BY <1>1, <1>5, <2>1, <2>2, <2>3 DEF Answers, H
<1>10. CASE seqs # {} /\ close = {}
  <2>1. found = monitor.begin_seq
    BY <1>10
  <2>2. b \in Positions /\ \A r \in OnDisk(H) : r.at >= b
    BY <1>2, <1>4
  <2> QED
    BY <1>1, <1>5, <2>1, <2>2 DEF Answers, H
<1>11. CASE seqs # {} /\ close # {}
  <2>1. found = CHOOSE q \in close : \A z \in close : FromBegin(q) <= FromBegin(z)
    BY <1>11
  <2>2. ASSUME NEW q \in seqs PROVE FromBegin(q) \in Nat
    <3>1. PICK s \in M : q = A(s)
      OBVIOUS
    <3>2. PICK p \in Nat : Same(A(s), p) /\ p <= e /\ p > b - Capacity
      BY <1>7
    <3> QED
      BY <1>8, <3>1, <3>2
  <2> HIDE DEF found
  <2>3. found \in close /\ \A z \in close : FromBegin(found) <= FromBegin(z)
    <3> DEFINE S == {FromBegin(q) : q \in close}
    <3>1. S \subseteq Nat /\ S # {}
      BY <1>11, <2>2
    <3>2. PICK x \in S : \A y \in S : x <= y
      <4> HIDE DEF S
      <4> QED
        BY <3>1, LeastNat
    <3>3. PICK q \in close : x = FromBegin(q)
      OBVIOUS
    <3>4. \A z \in close : FromBegin(q) <= FromBegin(z)
      BY <3>2, <3>3
    <3> QED
      BY <2>1, <3>4
  <2>4. PICK z \in M : found = A(z)
    BY <2>3
  <2>5. PICK p \in Nat : Same(A(z), p) /\ p <= e /\ p > b - Capacity
    BY <1>7
  <2>6. FromBegin(found) < e - b
    BY <1>6, <2>3
  <2>7. p >= b /\ p < e /\ FromBegin(found) = p - b
    <3>1. ~(p < b)
      <4> SUFFICES ASSUME p < b PROVE FALSE
        OBVIOUS
      <4>1. FromBegin(found) = (p - b) + SeqSize
        BY <1>8, <2>4, <2>5
      <4> QED
        BY <1>2, <2>5, <2>6, <4>1
    <3>2. p >= b
      BY <1>2, <3>1
    <3>3. FromBegin(found) = p - b
      BY <1>8, <2>4, <2>5, <3>2
    <3> QED
      BY <1>2, <2>6, <3>2, <3>3
  <2>8. ~Behind(z, it)
    <3>1. Behind(z, it) <=> FromBegin(A(z)) > FromBegin(monitor.end_seq)
      BY DEF Behind, A
    <3>2. FromBegin(found) \in Nat /\ e - b \in Nat
      BY <1>2, <2>2, <2>3
    <3> QED
      BY <1>6, <2>4, <2>6, <3>1, <3>2
  <2>9. \A s \in H : ~Behind(s, it)
    BY <2>4, <2>8 DEF H, M, Heard
  <2>10. ASSUME NEW r \in OnDisk(H), r.rec.end > it PROVE r.at >= p
    <3> DEFINE s == r.rec.stream
    <3>1. s \in M /\ s \in H /\ r \in D(s) /\ r.at \in Nat /\ b <= r.at /\ r.at < e
      BY <1>4
    <3> HIDE DEF s
    <3>2. PICK x \in Nat : /\ Same(A(s), x) /\ x <= e /\ x > b - Capacity
                           /\ \A d \in D(s) : d.rec.end > it => d.at >= x
      BY <1>7, <3>1
    <3>3. r.at >= x
      BY <2>10, <3>1, <3>2
    <3>4. ~(FromBegin(A(s)) > e - b)
      BY <1>6, <2>9, <3>1 DEF Behind, A
    <3>5. x >= b
      <4> SUFFICES ASSUME x < b PROVE FALSE
        BY <1>2
      <4>1. FromBegin(A(s)) = (x - b) + SeqSize
        BY <1>8, <3>1, <3>2
      <4> QED
        BY <1>2, <3>2, <3>4, <4>1
    <3>6. FromBegin(A(s)) = x - b
      BY <1>8, <3>1, <3>2, <3>5
    <3>7. x < e
      BY <1>2, <3>1, <3>3
    <3>8. A(s) \in close
      <4>1. FromBegin(A(s)) < FromBegin(monitor.end_seq)
        BY <1>2, <1>6, <3>5, <3>6, <3>7
      <4>2. A(s) \in seqs
        BY <3>1
      <4> QED
        BY <4>1, <4>2
    <3>9. p - b <= x - b
      BY <2>3, <2>7, <3>6, <3>8
    <3> QED
      BY <1>2, <3>1, <3>3, <3>9
  <2>11. p \in Positions
    BY <1>2, <2>7
  <2>12. found \in Nat /\ Same(found, p)
    BY <1>7, <2>4, <2>5
  <2> QED
    BY <1>1, <2>10, <2>11, <2>12 DEF Answers, H
<1> QED
  BY <1>9, <1>10, <1>11

\* TIME leads a client to the disk, and to a place before all that it wants
\* from the streams that are heard, or the answer is no sequence number
\* (monitor.cc:910-930, 1780-1808).
THEOREM TimeLeads == Spec => []TimeFinds
<1>1. ASSUME Inv PROVE TimeFinds
  <2> SUFFICES ASSUME up, NEW filter \in SUBSET Stream, NEW it \in Nat,
                      NEW start \in Positions \cup {-1}
               PROVE  LET seq == BeginSeq(it, IF start = -1 THEN -1 ELSE NumberOf(start), filter)
                      IN  \/ seq >= SeqSize
                          \/ LeadsTo(seq, Wanted(OnDisk(Heard(filter, it)), it, start))
    BY <1>1, TimesNat DEF TimeFinds
  <2> DEFINE H == Heard(filter, it)
             n == IF start = -1 THEN -1 ELSE NumberOf(start)
             seq == BeginSeq(it, n, filter)
             R == Wanted(OnDisk(H), it, start)
             found == TimeToSeq(it, -1, filter)
  <2>1. R \subseteq OnDisk(H) /\ \A r \in R : r.rec.end > it /\ r.at >= start
    BY DEF Wanted
  <2>2. H \in SUBSET Stream /\ H \subseteq filter
    BY DEF Heard, Matching
  <2>3. /\ Bound(files, 0) \in Nat /\ EndOf(files) \in Nat
        /\ Positions = Bound(files, 0) .. EndOf(files)
    BY <1>1, RangeIs
  <2>4. CASE TimeCmp(it, filter) > 0
    <3>1. seq = -1
      BY <2>4 DEF BeginSeq
    <3>2. R = {}
      <4> SUFFICES ASSUME NEW r \in R PROVE FALSE
        OBVIOUS
      <4> DEFINE s == r.rec.stream
                 v == StreamTimeCmp(monitor.stream_map[s], it)
      <4>1. s \in Matching(H) /\ r \in Of(s, DiskOf(files)) /\ r.rec.end \in Nat
        BY <1>1, <2>1, <2>2, OnDiskIs
      <4>2. s \in Matching(filter) /\ s \in DOMAIN monitor.stream_map
        BY <2>2, <4>1 DEF Matching
      <4>3. r.rec.end > it
        BY <2>1
      <4> HIDE DEF s, R
      <4>4. TimeCmp(it, filter) # 0
        BY <2>4
      <4>5. TimeCmp(it, filter) = v
        BY <1>1, <4>2, <4>4, VerdictIs
      <4>6. v \in -1 .. 1 /\ (v = 1 => r.rec.end <= it)
        BY <1>1, <4>1, <4>2, StreamVerdict
      <4> QED
        BY <2>4, <4>1, <4>3, <4>5, <4>6
    <3> QED
      BY <3>1, <3>2 DEF LeadsTo
  <2>5. CASE ~(TimeCmp(it, filter) > 0)
    <3>1. Answers(found, filter, it)
      BY <1>1, Answered
    <3>2. PICK p \in Positions :
            Same(found, p) /\ \A r \in OnDisk(H) : r.rec.end > it => r.at >= p
      BY <3>1 DEF Answers
    <3>3. found \in Nat /\ p \in Int
      BY <2>3, <3>1, <3>2 DEF Answers
    <3>4. seq = TimeToSeq(it, n, filter)
      BY <2>5 DEF BeginSeq
    <3>5. seq = IF n >= 0 /\ ToEnd(n) < ToEnd(found) THEN n ELSE found
      BY <3>4 DEF TimeToSeq
    <3> HIDE DEF seq, found, R, H
    <3>6. CASE seq = found
      <4>1. found < SeqSize => NumberOf(p) = found
        <5> SUFFICES ASSUME found < SeqSize PROVE NumberOf(p) = found
          OBVIOUS
        <5>1. found \in 0 .. SeqSize - 1
          BY <3>3, SizeNat
        <5>2. NumberOf(found) = found
          BY <3>3, <5>1, SizeNat, ModSmall DEF NumberOf
        <5> QED
          BY <3>2, <3>3, <5>2, SameNumber
      <4>2. \A r \in R : r.at >= p
        BY <2>1, <3>2
      <4> QED
        BY <2>3, <3>3, <3>6, <4>1, <4>2, SizeNat DEF LeadsTo, seq, R, H
    <3>7. CASE seq # found
      <4>1. seq = n /\ n >= 0
        BY <3>5, <3>7
      <4>2. start \in Positions /\ n = NumberOf(start)
        BY <4>1
      <4>3. \A r \in R : r.at >= start
        BY <2>1
      <4>4. n # -1
        BY <4>1
      <4> QED
        BY <4>1, <4>2, <4>3, <4>4 DEF LeadsTo, seq, R, H
    <3> QED
      BY <3>6, <3>7
  <2> QED
    BY <2>4, <2>5
<1> QED
  BY <1>1, Indexed, PTL

=============================================================================
