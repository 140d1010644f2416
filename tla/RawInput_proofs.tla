--------------------------- MODULE RawInput_proofs ---------------------------
(***************************************************************************)
(* Proofs about RawInput.  A state of the encoder and of the backfilling   *)
(* buffer is a record, and the operators of the model work on such         *)
(* records: first it is shown what each of them returns, in its type and   *)
(* in what it does to the samples (EmitOf: those committed or in the       *)
(* encoder; WaitOf: those in the buffer), then that each keeps the         *)
(* invariants, and last that the steps do.                                 *)
(*                                                                         *)
(*   GoodInv       the types, of which a packet has samples and an encoder *)
(*                 of miniSEED records is empty;                           *)
(*   ConservedInv  the samples emitted and waiting are those given;        *)
(*   RightInv      a record that is begun is labelled, the samples in the  *)
(*                 encoder have no gap to flush at, and end at the clock;  *)
(*   OrderInv      the buffer is sorted, what waits comes after what was   *)
(*                 emitted, and what does not is excused.                  *)
(*                                                                         *)
(* SyncBuffer and Flushed commit packets until a condition holds: a set of *)
(* states that CommitFirst does not leave is not left by them either       *)
(* (SyncBufferIn, AllCommittedIn), and each invariant is put as such a set.*)
(***************************************************************************)
EXTENDS RawInput, SequenceTheorems, WellFoundedInduction, TLAPS

-----------------------------------------------------------------------------
(* Induction over numbers, for a set instead of a predicate, and what is   *)
(* defined by recursion.                                                   *)

LEMMA LeastNat ==
  ASSUME NEW S, S \subseteq Nat, S # {}
  PROVE  \E n \in S : \A m \in S : n <= m
<1> DEFINE R == OpToRel(<, Nat)
<1>1. IsWellFoundedOn(R, Nat)
  BY NatLessThanWellFounded
<1>2. \A x, y \in Nat : x < y => <<x, y>> \in R
  BY DEF OpToRel
<1> HIDE DEF R
<1>3. PICK n \in S : \A m \in S : <<m, n>> \notin R
  BY <1>1, WFMin
<1>4. ASSUME NEW m \in S PROVE n <= m
  <2>1. m \in Nat /\ n \in Nat
    OBVIOUS
  <2>2. ~(m < n)
    BY <1>2, <1>3, <2>1, Zenon
  <2> QED
    BY <2>1, <2>2
<1> QED
  BY <1>4

LEMMA UpTo ==
  ASSUME NEW n \in Nat, NEW S, 0 \in S,
         \A k \in 0 .. (n - 1) : k \in S => k + 1 \in S
  PROVE  \A k \in 0 .. n : k \in S
<1> DEFINE T == {k \in 0 .. n : k \notin S}
<1> SUFFICES ASSUME T # {} PROVE FALSE
  OBVIOUS
<1>1. T \subseteq Nat
  OBVIOUS
<1>2. PICK k \in T : \A m \in T : k <= m
  <2> HIDE DEF T
  <2> QED
    BY <1>1, LeastNat
<1>3. k \in 0 .. n /\ k \notin S /\ k # 0
  OBVIOUS
<1>4. k - 1 \in 0 .. (n - 1) /\ ~(k <= k - 1) /\ (k - 1) + 1 = k /\ k - 1 \in 0 .. n
  BY <1>3
<1>5. k - 1 \in S
  BY <1>2, <1>4
<1>6. (k - 1) + 1 \in S
  <2> HIDE DEF T
  <2> QED
    BY <1>4, <1>5
<1> QED
  BY <1>3, <1>4, <1>6, Zenon

\* f takes n steps from a.
Goes(f, n, a, step) ==
  f = [k \in 0 .. n |-> IF k = 0 THEN a ELSE step[<<k, f[k - 1]>>]]

CanGo(n, a, step, T) == \E f \in [0 .. n -> T] : Goes(f, n, a, step)

LEMMA Iterates ==
  ASSUME NEW n \in Nat, NEW T, NEW a \in T, NEW step \in [(1 .. n) \X T -> T]
  PROVE  CanGo(n, a, step, T)
<1> DEFINE S == {m \in 0 .. n : CanGo(m, a, step, T)}
<1>1. 0 \in S
  <2> DEFINE f == [k \in 0 .. 0 |-> a]
  <2>1. f \in [0 .. 0 -> T] /\ Goes(f, 0, a, step)
    BY DEF Goes
  <2> QED
    BY <2>1 DEF CanGo
<1>2. ASSUME NEW m \in 0 .. (n - 1), m \in S PROVE m + 1 \in S
  <2>1. PICK f \in [0 .. m -> T] : Goes(f, m, a, step)
    BY <1>2 DEF CanGo
  <2> DEFINE g == [k \in 0 .. (m + 1) |-> IF k <= m THEN f[k] ELSE step[<<m + 1, f[m]>>]]
  <2>2. step[<<m + 1, f[m]>>] \in T
    <3>1. <<m + 1, f[m]>> \in (1 .. n) \X T
      BY <1>2
    <3> QED
      BY <3>1
  <2>3. g \in [0 .. (m + 1) -> T]
    BY <2>2
  <2>4. ASSUME NEW k \in 0 .. (m + 1)
        PROVE  g[k] = IF k = 0 THEN a ELSE step[<<k, g[k - 1]>>]
    <3>1. CASE k <= m
      <4>1. k \in 0 .. m /\ g[k] = f[k]
        BY <3>1
      <4>2. f[k] = IF k = 0 THEN a ELSE step[<<k, f[k - 1]>>]
        BY <2>1, <4>1 DEF Goes
      <4>3. k # 0 => k - 1 \in 0 .. (m + 1) /\ k - 1 <= m
        BY <3>1
      <4>4. k # 0 => g[k - 1] = f[k - 1]
        BY <4>3
      <4> HIDE DEF g
      <4> QED
        BY <4>1, <4>2, <4>4, Zenon
    <3>2. CASE ~(k <= m)
      <4>1. k = m + 1 /\ k - 1 = m /\ m \in 0 .. (m + 1) /\ k # 0
        BY <3>2
      <4>2. g[k] = step[<<m + 1, f[m]>>] /\ g[m] = f[m]
        BY <3>2, <4>1
      <4> HIDE DEF g
      <4> QED
        BY <4>1, <4>2, Zenon
    <3> QED
      BY <3>1, <3>2
  <2>5. g = [k \in 0 .. (m + 1) |-> g[k]]
    OBVIOUS
  <2> HIDE DEF g
  <2>6. Goes(g, m + 1, a, step)
    BY <2>4, <2>5 DEF Goes
  <2>7. CanGo(m + 1, a, step, T)
    BY <2>3, <2>6 DEF CanGo
  <2> QED
    BY <2>7
<1>3. \A m \in 0 .. n : m \in S
  <2> HIDE DEF S
  <2> QED
    BY <1>1, <1>2, UpTo
<1> QED
  BY <1>3

-----------------------------------------------------------------------------
(* What Concat returns.                                                    *)

\* f collects the sequences in s from the first on.
Collects(f, s) ==
  /\ f[0] = <<>>
  /\ \A k \in 1 .. Len(s) : f[k] = f[k - 1] \o s[k]
  /\ Concat(s) = f[Len(s)]

Collected(s, S) == \E f \in [0 .. Len(s) -> Seq(S)] : Collects(f, s)

LEMMA ConcatUnfolds ==
  ASSUME NEW S, NEW s \in Seq(Seq(S))
  PROVE  Collected(s, S)
<1> DEFINE n == Len(s)
           step == [p \in (1 .. n) \X Seq(S) |-> p[2] \o s[p[1]]]
           F(g) == [k \in 0 .. n |-> IF k = 0 THEN <<>> ELSE g[k - 1] \o s[k]]
           v == CHOOSE g : g = F(g)
<1>1. n \in Nat /\ <<>> \in Seq(S) /\ step \in [(1 .. n) \X Seq(S) -> Seq(S)]
  <2>1. ASSUME NEW p \in (1 .. n) \X Seq(S) PROVE p[2] \o s[p[1]] \in Seq(S)
    <3>1. p[2] \in Seq(S) /\ s[p[1]] \in Seq(S)
      OBVIOUS
    <3> QED
      BY <3>1, ConcatProperties
  <2> QED
    BY <2>1
<1>2. PICK f \in [0 .. n -> Seq(S)] : Goes(f, n, <<>>, step)
  <2> HIDE DEF step, n
  <2> QED
    BY <1>1, Iterates DEF CanGo
<1>3. ASSUME NEW k \in 0 .. n PROVE f[k] = IF k = 0 THEN <<>> ELSE f[k - 1] \o s[k]
  <2>1. f[k] = IF k = 0 THEN <<>> ELSE step[<<k, f[k - 1]>>]
    BY <1>2 DEF Goes
  <2>2. k # 0 => <<k, f[k - 1]>> \in (1 .. n) \X Seq(S)
    <3>1. k # 0 => k \in 1 .. n /\ k - 1 \in 0 .. n
      BY <1>1
    <3> QED
      BY <3>1
  <2>3. k # 0 => step[<<k, f[k - 1]>>] = f[k - 1] \o s[k]
    BY <2>2
  <2> HIDE DEF step
  <2> QED
    BY <2>1, <2>3
<1>4. f = F(f)
  <2>1. f = [k \in 0 .. n |-> f[k]]
    OBVIOUS
  <2> QED
    BY <1>3, <2>1
<1>5. v = F(v)
  <2> HIDE DEF F
  <2> QED
    BY <1>4
<1>6. Concat(s) = v[n]
  BY DEF Concat
<1> HIDE DEF v, step
<1>7. ASSUME NEW k \in 0 .. n PROVE v[k] = IF k = 0 THEN <<>> ELSE v[k - 1] \o s[k]
  BY <1>5
<1> DEFINE E == {k \in 0 .. n : v[k] = f[k]}
<1>8. \A k \in 0 .. n : k \in E
  <2>1. 0 \in E
    <3>1. 0 \in 0 .. n
      BY <1>1
    <3>2. f[0] = <<>> /\ v[0] = <<>>
      BY <1>3, <1>7, <3>1
    <3> QED
      BY <3>1, <3>2
  <2>2. ASSUME NEW k \in 0 .. (n - 1), k \in E PROVE k + 1 \in E
    <3>1. k + 1 \in 0 .. n /\ k + 1 # 0 /\ (k + 1) - 1 = k
      BY <1>1
    <3>2. v[k + 1] = v[k] \o s[k + 1] /\ f[k + 1] = f[k] \o s[k + 1]
      BY <1>3, <1>7, <3>1
    <3> QED
      BY <2>2, <3>1, <3>2
  <2> HIDE DEF E
  <2> QED
    BY <1>1, <2>1, <2>2, UpTo
<1>9. Concat(s) = f[n]
  BY <1>1, <1>6, <1>8
<1>10. f[0] = <<>> /\ \A k \in 1 .. n : f[k] = f[k - 1] \o s[k]
  <2>1. 0 \in 0 .. n /\ \A k \in 1 .. n : k \in 0 .. n /\ k # 0
    BY <1>1
  <2> HIDE DEF n
  <2> QED
    BY <1>3, <2>1
<1> QED
  BY <1>9, <1>10 DEF Collected, Collects

LEMMA ConcatType ==
  ASSUME NEW S, NEW s \in Seq(Seq(S))
  PROVE  Concat(s) \in Seq(S)
<1>1. PICK f \in [0 .. Len(s) -> Seq(S)] : Collects(f, s)
  BY ConcatUnfolds DEF Collected
<1> QED
  BY <1>1 DEF Collects

LEMMA ConcatNone ==
  Concat(<<>>) = <<>>
<1>1. <<>> \in Seq(Seq({})) /\ Len(<<>>) = 0
  OBVIOUS
<1>2. PICK f \in [0 .. Len(<<>>) -> Seq({})] : Collects(f, <<>>)
  <2>1. Collected(<<>>, {})
    BY <1>1, ConcatUnfolds
  <2> QED
    BY <2>1 DEF Collected
<1> QED
  BY <1>1, <1>2 DEF Collects

\* What is collected from one sequence after another.
LEMMA ConcatSplit ==
  ASSUME NEW S, NEW s \in Seq(Seq(S)), NEW t \in Seq(Seq(S))
  PROVE  Concat(s \o t) = Concat(s) \o Concat(t)
<1> DEFINE u == s \o t
           m == Len(s)
           n == Len(t)
<1>1. /\ u \in Seq(Seq(S)) /\ Len(u) = m + n /\ m \in Nat /\ n \in Nat
      /\ \A k \in 1 .. m : u[k] = s[k]
      /\ \A k \in 1 .. n : u[m + k] = t[k]
  <2>1. \A k \in 1 .. n : k + m \in 1 .. (m + n) /\ k + m > m /\ (k + m) - m = k /\ k + m = m + k
    OBVIOUS
  <2> QED
    BY <2>1, ConcatProperties
<1>2. PICK f \in [0 .. m -> Seq(S)] : Collects(f, s)
  BY ConcatUnfolds DEF Collected
<1>3. PICK g \in [0 .. n -> Seq(S)] : Collects(g, t)
  BY ConcatUnfolds DEF Collected
<1>4. PICK h \in [0 .. (m + n) -> Seq(S)] : Collects(h, u)
  <2>1. Collected(u, S)
    <3> HIDE DEF u
    <3> QED
      BY <1>1, ConcatUnfolds
  <2> QED
    BY <1>1, <2>1 DEF Collected
<1> HIDE DEF u, m, n
<1> DEFINE A == {k \in 0 .. m : h[k] = f[k]}
<1>5. h[m] = f[m]
  <2>1. 0 \in A
    BY <1>1, <1>2, <1>4 DEF Collects
  <2>2. ASSUME NEW k \in 0 .. (m - 1), k \in A PROVE k + 1 \in A
    <3>1. k + 1 \in 1 .. m /\ k + 1 \in 1 .. Len(u) /\ (k + 1) - 1 = k
      BY <1>1
    <3>2. h[k + 1] = h[k] \o u[k + 1]
      BY <1>4, <3>1 DEF Collects
    <3>3. f[k + 1] = f[k] \o s[k + 1]
      BY <1>2, <3>1 DEF Collects, m
    <3>4. k + 1 \in 0 .. m /\ u[k + 1] = s[k + 1] /\ h[k] = f[k]
      BY <1>1, <2>2, <3>1
    <3>5. h[k + 1] = f[k + 1]
      BY <3>2, <3>3, <3>4, Zenon
    <3> QED
      BY <3>4, <3>5
  <2>3. \A k \in 0 .. m : k \in A
    <3> HIDE DEF A
    <3> QED
      BY <1>1, <2>1, <2>2, UpTo
  <2>4. m \in 0 .. m
    BY <1>1
  <2> QED
    BY <2>3, <2>4
<1> DEFINE B == {k \in 0 .. n : h[m + k] = f[m] \o g[k]}
<1>6. h[m + n] = f[m] \o g[n]
  <2>1. 0 \in B
    <3>1. f[m] \o <<>> = f[m]
      <4>1. f[m] \in Seq(S)
        BY <1>1
      <4> QED
        BY <4>1, ConcatEmptySeq
    <3>2. g[0] = <<>> /\ m + 0 = m /\ 0 \in 0 .. n
      BY <1>1, <1>3 DEF Collects
    <3> QED
      BY <1>5, <3>1, <3>2
  <2>2. ASSUME NEW k \in 0 .. (n - 1), k \in B PROVE k + 1 \in B
    <3>1. /\ k + 1 \in 1 .. n /\ m + (k + 1) \in 1 .. Len(u) /\ (k + 1) - 1 = k
          /\ (m + (k + 1)) - 1 = m + k
      BY <1>1
    <3>2. h[m + (k + 1)] = h[m + k] \o u[m + (k + 1)]
      BY <1>4, <3>1 DEF Collects
    <3>3. g[k + 1] = g[k] \o t[k + 1]
      BY <1>3, <3>1 DEF Collects, n
    <3>4. f[m] \in Seq(S) /\ g[k] \in Seq(S) /\ t[k + 1] \in Seq(S)
      <4>1. m \in 0 .. m /\ k \in 0 .. n
        BY <1>1
      <4>2. k + 1 \in 1 .. Len(t)
        BY <3>1 DEF n
      <4>3. t[k + 1] \in Seq(S)
        BY <4>2, ElementOfSeq
      <4> QED
        BY <4>1, <4>3
    <3>5. (f[m] \o g[k]) \o t[k + 1] = f[m] \o (g[k] \o t[k + 1])
      <4> DEFINE fm == f[m]
                 gk == g[k]
                 tk == t[k + 1]
      <4>1. fm \in Seq(S) /\ gk \in Seq(S) /\ tk \in Seq(S)
        BY <3>4
      <4> HIDE DEF fm, gk, tk
      <4>2. (fm \o gk) \o tk = fm \o (gk \o tk)
        BY <4>1, ConcatAssociative, SMTT(30)
      <4> QED
        BY <4>2 DEF fm, gk, tk
    <3>6. k + 1 \in 0 .. n /\ u[m + (k + 1)] = t[k + 1]
      BY <1>1, <3>1
    <3> QED
      BY <2>2, <3>2, <3>3, <3>5, <3>6
  <2>3. \A k \in 0 .. n : k \in B
    <3> HIDE DEF B
    <3> QED
      BY <1>1, <2>1, <2>2, UpTo
  <2>4. n \in 0 .. n
    BY <1>1
  <2> QED
    BY <2>3, <2>4
<1> QED
  BY <1>1, <1>2, <1>3, <1>4, <1>6 DEF Collects, u, m, n

LEMMA ConcatOne ==
  ASSUME NEW S, NEW x \in Seq(S)
  PROVE  Concat(<<x>>) = x
<1>1. <<x>> \in Seq(Seq(S)) /\ Len(<<x>>) = 1
  OBVIOUS
<1>2. PICK f \in [0 .. 1 -> Seq(S)] : Collects(f, <<x>>)
  <2>1. Collected(<<x>>, S)
    BY <1>1, ConcatUnfolds
  <2> QED
    BY <1>1, <2>1 DEF Collected
<1>3. f[1] = <<>> \o x
  <2>1. 1 \in 1 .. Len(<<x>>) /\ <<x>>[1] = x /\ 1 - 1 = 0
    BY <1>1
  <2> QED
    BY <1>2, <2>1 DEF Collects
<1>4. <<>> \o x = x
  BY ConcatEmptySeq
<1> QED
  BY <1>1, <1>2, <1>3, <1>4 DEF Collects

-----------------------------------------------------------------------------
(* Types.                                                                  *)

SampleType == Int \X Int

SamplesType == Seq(SampleType)

RecordType == [label : Int, samples : SamplesType]

PacketType == [id : Int, stime : Int, data : SamplesType \ {<<>>}, flush : BOOLEAN]

ClkType == [time : Int, gap : Int]

EncType == [pending : SamplesType, open : BOOLEAN, label : Int, data : SamplesType,
            words : Int]

BfType == [buffer : Seq(PacketType), current : Int, last : Int]

StateType == [clk : ClkType, enc : EncType, out : Seq(RecordType), bf : BfType]

LEMMA StateFields ==
  ASSUME NEW s \in StateType
  PROVE  /\ s.clk \in ClkType /\ s.enc \in EncType /\ s.out \in Seq(RecordType)
         /\ s.bf \in BfType
         /\ s.enc.pending \in SamplesType /\ s.enc.data \in SamplesType
         /\ s.enc.open \in BOOLEAN /\ s.enc.label \in Int /\ s.enc.words \in Int
         /\ s.clk.time \in Int /\ s.clk.gap \in Int
         /\ s.bf.buffer \in Seq(PacketType) /\ s.bf.current \in Int /\ s.bf.last \in Int
BY DEF StateType, ClkType, EncType, BfType

LEMMA PutEnc ==
  ASSUME NEW s \in StateType, NEW e \in EncType
  PROVE  LET c == [s EXCEPT !.enc = e]
         IN  c \in StateType /\ c.clk = s.clk /\ c.bf = s.bf /\ c.out = s.out /\ c.enc = e
BY DEF StateType

LEMMA PutOut ==
  ASSUME NEW s \in StateType, NEW o \in Seq(RecordType)
  PROVE  LET c == [s EXCEPT !.out = o]
         IN  c \in StateType /\ c.clk = s.clk /\ c.bf = s.bf /\ c.out = o /\ c.enc = s.enc
BY DEF StateType

LEMMA PutClk ==
  ASSUME NEW s \in StateType, NEW k \in ClkType
  PROVE  LET c == [s EXCEPT !.clk = k]
         IN  c \in StateType /\ c.clk = k /\ c.bf = s.bf /\ c.out = s.out /\ c.enc = s.enc
BY DEF StateType

LEMMA PutBf ==
  ASSUME NEW s \in StateType, NEW b \in BfType
  PROVE  LET c == [s EXCEPT !.bf = b]
         IN  c \in StateType /\ c.clk = s.clk /\ c.bf = b /\ c.out = s.out /\ c.enc = s.enc
BY DEF StateType

-----------------------------------------------------------------------------
(* The encoder.                                                            *)

LEMMA QueuedIs ==
  ASSUME NEW s \in StateType
  PROVE  LET c == Queued(s)
         IN  /\ c \in StateType /\ c.clk = s.clk /\ c.bf = s.bf
             /\ c.out = Append(s.out, [label |-> s.enc.label, samples |-> s.enc.data])
             /\ c.enc.pending = s.enc.pending /\ c.enc.data = <<>> /\ ~c.enc.open
<1> DEFINE o == Append(s.out, [label |-> s.enc.label, samples |-> s.enc.data])
           a == [s.enc EXCEPT !.open = FALSE]
           b == [a EXCEPT !.words = 0]
           e == [b EXCEPT !.data = <<>>]
           r == [s EXCEPT !.out = o]
<1>1. o \in Seq(RecordType)
  <2>1. [label |-> s.enc.label, samples |-> s.enc.data] \in RecordType
    BY StateFields DEF RecordType
  <2> QED
    BY <2>1, StateFields, AppendProperties
<1>2. a \in EncType /\ a.pending = s.enc.pending /\ ~a.open
  BY StateFields DEF EncType
<1> HIDE DEF a
<1>3. b \in EncType /\ b.pending = s.enc.pending /\ ~b.open
  BY <1>2 DEF EncType
<1> HIDE DEF b
<1>4. e \in EncType /\ e.pending = s.enc.pending /\ ~e.open /\ e.data = <<>>
  <2>1. <<>> \in SamplesType
    BY DEF SamplesType
  <2> QED
    BY <1>3, <2>1 DEF EncType
<1>5. Queued(s) = [r EXCEPT !.enc = e]
  <2>1. r.enc = s.enc
    BY StateFields DEF StateType
  <2> QED
    BY <2>1 DEF Queued, a, b
<1> HIDE DEF e, o, r
<1>6. /\ r \in StateType /\ r.clk = s.clk /\ r.bf = s.bf /\ r.out = o /\ r.enc = s.enc
  BY <1>1, PutOut DEF r
<1> QED
  BY <1>4, <1>5, <1>6, PutEnc DEF o

\* The label of the record that n samples go into when the clock shows t.
LabelFor(s, t, n) == IF s.enc.open THEN s.enc.label ELSE t - n

\* The samples d have gone into a record with the label l, which is full if the
\* encoder is closed.
Packed(s, c, d, l) ==
  /\ c.enc.pending = <<>>
  /\ \/ c.out = s.out /\ c.enc.open /\ c.enc.data = d /\ c.enc.label = l
     \/ /\ c.out = Append(s.out, [label |-> l, samples |-> d])
        /\ ~c.enc.open /\ c.enc.data = <<>>

LEMMA OpenedIs ==
  ASSUME NEW s \in StateType
  PROVE  LET c == Opened(s)
         IN  /\ c \in StateType /\ c.clk = s.clk /\ c.bf = s.bf /\ c.out = s.out
             /\ c.enc.pending = s.enc.pending /\ c.enc.data = s.enc.data /\ c.enc.open
             /\ c.enc.label = LabelFor(s, s.clk.time, Len(s.enc.pending))
<1>1. CASE s.enc.open
  BY <1>1, StateFields DEF Opened, LabelFor
<1>2. CASE ~s.enc.open
  <2> DEFINE l == s.clk.time - Len(s.enc.pending)
             a == [s.enc EXCEPT !.open = TRUE]
             e == [a EXCEPT !.label = l]
  <2>1. l \in Int
    BY StateFields DEF SamplesType
  <2>2. a \in EncType /\ a.pending = s.enc.pending /\ a.data = s.enc.data /\ a.open
    BY StateFields DEF EncType
  <2> HIDE DEF a
  <2>3. /\ e \in EncType /\ e.pending = s.enc.pending /\ e.data = s.enc.data
        /\ e.open /\ e.label = l
    BY <2>1, <2>2 DEF EncType
  <2>4. Opened(s) = [s EXCEPT !.enc = e]
    BY <1>2 DEF Opened, a
  <2> HIDE DEF e
  <2> QED
    BY <1>2, <2>3, <2>4, PutEnc DEF LabelFor
<1> QED
  BY <1>1, <1>2

LEMMA WordIs ==
  ASSUME NEW s \in StateType
  PROVE  LET c == Word(s)
         IN  /\ c \in StateType /\ c.clk = s.clk /\ c.bf = s.bf
             /\ Packed(s, c, s.enc.data \o s.enc.pending,
                       LabelFor(s, s.clk.time, Len(s.enc.pending)))
<1> DEFINE d == s.enc.data \o s.enc.pending
           l == LabelFor(s, s.clk.time, Len(s.enc.pending))
           o == Opened(s)
           p == o.enc.pending
           a == [o.enc EXCEPT !.data = @ \o p]
           b == [a EXCEPT !.pending = <<>>]
           e == [b EXCEPT !.words = o.enc.words + 1]
           w == [o EXCEPT !.enc = e]
<1>1. /\ o \in StateType /\ o.clk = s.clk /\ o.bf = s.bf /\ o.out = s.out
      /\ o.enc.pending = s.enc.pending /\ o.enc.data = s.enc.data /\ o.enc.open
      /\ o.enc.label = l
  BY OpenedIs
<1>2. Word(s) = IF Full(w.enc) THEN Queued(w) ELSE w
  <2> DEFINE q == [o.enc EXCEPT !.data = @ \o o.enc.pending, !.pending = <<>>,
                                !.words = @ + 1]
             v == [o EXCEPT !.enc = q]
  <2>1. Word(s) = IF Full(v.enc) THEN Queued(v) ELSE v
    BY DEF Word
  <2> HIDE DEF o
  <2>2. q = e
    <3>1. b.words = o.enc.words
      BY <1>1, StateFields DEF EncType
    <3> QED
      BY <3>1
  <2> HIDE DEF q, e
  <2>3. v = w
    BY <2>2
  <2> HIDE DEF v, w
  <2> QED
    BY <2>1, <2>3, Zenon
<1> HIDE DEF o, l
<1>3. d \in SamplesType /\ o.enc.data \o p = d
  <2>1. s.enc.pending \in SamplesType /\ s.enc.data \in SamplesType
    BY StateFields
  <2>2. d \in SamplesType
    BY <2>1, ConcatProperties DEF SamplesType
  <2> QED
    BY <1>1, <2>2
<1> HIDE DEF d
<1>4. a \in EncType /\ a.data = d /\ a.open /\ a.label = l
  BY <1>1, <1>3, StateFields DEF EncType
<1> HIDE DEF a, p
<1>5. b \in EncType /\ b.data = d /\ b.open /\ b.label = l /\ b.pending = <<>>
  <2>1. <<>> \in SamplesType
    BY DEF SamplesType
  <2> QED
    BY <1>4, <2>1 DEF EncType
<1> HIDE DEF b
<1>6. e \in EncType /\ e.data = d /\ e.open /\ e.label = l /\ e.pending = <<>>
  BY <1>1, <1>5, StateFields DEF EncType
<1> HIDE DEF e
<1>7. w \in StateType /\ w.clk = s.clk /\ w.bf = s.bf /\ w.out = s.out /\ w.enc = e
  BY <1>1, <1>6, PutEnc
<1> HIDE DEF w
<1>8. CASE Full(w.enc)
  <2>1. Word(s) = Queued(w)
    BY <1>2, <1>8
  <2> QED
    BY <1>6, <1>7, <2>1, QueuedIs, ZenonT(30) DEF Packed, d, l
<1>9. CASE ~Full(w.enc)
  <2>1. Word(s) = w
    BY <1>2, <1>9
  <2> QED
    BY <1>6, <1>7, <2>1 DEF Packed, d, l
<1> QED
  BY <1>8, <1>9

LEMMA SampleIs ==
  ASSUME NEW s \in StateType, NEW x \in SampleType
  PROVE  LET p == Append(s.enc.pending, x)
             c == Sample(s, x)
         IN  /\ c \in StateType /\ c.bf = s.bf
             /\ c.clk.time = s.clk.time + 1 /\ c.clk.gap = s.clk.gap
             /\ \/ /\ Len(p) # mode.spw /\ c.out = s.out /\ c.enc.pending = p
                   /\ c.enc.data = s.enc.data /\ c.enc.open = s.enc.open
                   /\ c.enc.label = s.enc.label
                \/ /\ Len(p) = mode.spw
                   /\ Packed(s, c, s.enc.data \o p, LabelFor(s, s.clk.time + 1, Len(p)))
<1> DEFINE p == Append(s.enc.pending, x)
           e == [s.enc EXCEPT !.pending = p]
           k == [s.clk EXCEPT !.time = @ + 1]
           a == [s EXCEPT !.enc = e]
           r == [a EXCEPT !.clk = k]
<1>1. p \in SamplesType
  BY StateFields, AppendProperties DEF SamplesType
<1> HIDE DEF p
<1>2. /\ e \in EncType /\ e.pending = p /\ e.data = s.enc.data
      /\ e.open = s.enc.open /\ e.label = s.enc.label
  BY <1>1, StateFields DEF EncType
<1>3. k \in ClkType /\ k.time = s.clk.time + 1 /\ k.gap = s.clk.gap
  BY StateFields DEF ClkType
<1>4. a.clk = s.clk
  BY DEF StateType
<1> DEFINE v == [s EXCEPT !.enc.pending = Append(@, x), !.clk.time = @ + 1]
<1>5. v = r
  BY <1>4 DEF p
<1>6. Sample(s, x) = IF Len(r.enc.pending) = mode.spw THEN Word(r) ELSE r
  <2>1. Sample(s, x) = IF Len(v.enc.pending) = mode.spw THEN Word(v) ELSE v
    BY DEF Sample
  <2> HIDE DEF r, v
  <2> QED
    BY <1>5, <2>1, Zenon
<1> HIDE DEF e, k
<1>7. a \in StateType /\ a.clk = s.clk /\ a.bf = s.bf /\ a.out = s.out /\ a.enc = e
  BY <1>2, PutEnc
<1> HIDE DEF a
<1>8. r \in StateType /\ r.clk = k /\ r.bf = s.bf /\ r.out = s.out /\ r.enc = e
  BY <1>3, <1>7, PutClk
<1> HIDE DEF r
<1>9. CASE Len(p) = mode.spw
  <2>1. Sample(s, x) = Word(r)
    BY <1>2, <1>6, <1>8, <1>9
  <2>2. LabelFor(r, r.clk.time, Len(r.enc.pending)) = LabelFor(s, s.clk.time + 1, Len(p))
    BY <1>2, <1>3, <1>8 DEF LabelFor
  <2>3. Packed(r, Word(r), r.enc.data \o r.enc.pending,
               LabelFor(r, r.clk.time, Len(r.enc.pending)))
    BY <1>8, WordIs
  <2>4. Packed(s, Word(r), s.enc.data \o p, LabelFor(s, s.clk.time + 1, Len(p)))
    BY <1>2, <1>8, <2>2, <2>3 DEF Packed
  <2>5. Word(r) \in StateType /\ Word(r).clk = r.clk /\ Word(r).bf = r.bf
    BY <1>8, WordIs
  <2> QED
    BY <1>3, <1>8, <1>9, <2>1, <2>4, <2>5 DEF p
<1>10. CASE Len(p) # mode.spw
  <2>1. Sample(s, x) = r
    BY <1>2, <1>6, <1>8, <1>10
  <2> QED
    BY <1>2, <1>3, <1>8, <1>10, <2>1 DEF p
<1> QED
  BY <1>9, <1>10

\* A flush ends the record, and puts the samples that wait into it.
LEMMA FlushIs ==
  ASSUME NEW s \in StateType
  PROVE  LET c == Flush(s)
             l == LabelFor(s, s.clk.time, Len(s.enc.pending))
         IN  /\ c \in StateType /\ c.clk = s.clk /\ c.bf = s.bf
             /\ c.enc.pending = <<>> /\ ~c.enc.open
             /\ \/ s.enc.pending = <<>> /\ ~s.enc.open /\ c = s
                \/ /\ s.enc.pending # <<>> \/ s.enc.open
                   /\ c.enc.data = <<>>
                   /\ c.out = Append(s.out, [label |-> l,
                                             samples |-> s.enc.data \o s.enc.pending])
<1> DEFINE d == s.enc.data \o s.enc.pending
           l == LabelFor(s, s.clk.time, Len(s.enc.pending))
           w == IF s.enc.pending # <<>> THEN Word(s) ELSE s
<1>1. Flush(s) = IF w.enc.open THEN Queued(w) ELSE w
  BY DEF Flush
<1>2. CASE s.enc.pending # <<>>
  <2>1. w = Word(s)
    BY <1>2
  <2>2. w \in StateType /\ w.clk = s.clk /\ w.bf = s.bf /\ Packed(s, w, d, l)
    BY <2>1, WordIs
  <2> HIDE DEF w, d, l
  <2>3. CASE w.enc.open
    <3>1. Flush(s) = Queued(w)
      BY <1>1, <2>3
    <3>2. /\ Queued(w) \in StateType /\ Queued(w).clk = w.clk /\ Queued(w).bf = w.bf
          /\ Queued(w).out = Append(w.out, [label |-> w.enc.label, samples |-> w.enc.data])
          /\ Queued(w).enc.pending = w.enc.pending /\ Queued(w).enc.data = <<>>
          /\ ~Queued(w).enc.open
      BY <2>2, QueuedIs
    <3>3. w.enc.pending = <<>> /\ w.out = s.out /\ w.enc.data = d /\ w.enc.label = l
      BY <2>2, <2>3 DEF Packed
    <3> QED
      BY <1>2, <2>2, <3>1, <3>2, <3>3 DEF d, l
  <2>4. CASE ~w.enc.open
    <3>1. Flush(s) = w
      BY <1>1, <2>4
    <3> QED
      BY <1>2, <2>2, <2>4, <3>1 DEF Packed, d, l
  <2> QED
    BY <2>3, <2>4
<1>3. CASE s.enc.pending = <<>> /\ s.enc.open
  <2>1. Flush(s) = Queued(s)
    BY <1>1, <1>3
  <2>2. d = s.enc.data
    BY <1>3, StateFields, ConcatEmptySeq DEF SamplesType
  <2>3. l = s.enc.label
    BY <1>3 DEF LabelFor
  <2> QED
    BY <1>3, <2>1, <2>2, <2>3, QueuedIs
<1>4. CASE s.enc.pending = <<>> /\ ~s.enc.open
  BY <1>1, <1>4
<1> QED
  BY <1>2, <1>3, <1>4

-----------------------------------------------------------------------------
(* The samples that have been committed or are in the encoder.             *)

SamplesOf(o) == [k \in DOMAIN o |-> o[k].samples]

EmitOf(s) == Concat(SamplesOf(s.out)) \o s.enc.data \o s.enc.pending

LEMMA Regroup ==
  ASSUME NEW a \in SamplesType, NEW b \in SamplesType, NEW c \in SamplesType
  PROVE  (a \o b) \o c = a \o (b \o c)
BY ConcatAssociative DEF SamplesType

LEMMA Joining ==
  ASSUME NEW a \in SamplesType, NEW b \in SamplesType
  PROVE  /\ a \o b \in SamplesType
         /\ a \o <<>> = a /\ <<>> \o a = a /\ <<>> \in SamplesType
<1>1. a \o b \in SamplesType
  BY ConcatProperties DEF SamplesType
<1>2. a \o <<>> = a /\ <<>> \o a = a
  BY ConcatEmptySeq DEF SamplesType
<1>3. <<>> \in SamplesType
  BY DEF SamplesType
<1> QED
  BY <1>1, <1>2, <1>3

LEMMA SamplesOfType ==
  ASSUME NEW o \in Seq(RecordType)
  PROVE  SamplesOf(o) \in Seq(SamplesType) /\ Concat(SamplesOf(o)) \in SamplesType
<1>1. SamplesOf(o) \in Seq(SamplesType)
  <2>1. ASSUME NEW k \in DOMAIN o PROVE o[k].samples \in SamplesType
    <3>1. k \in 1 .. Len(o)
      OBVIOUS
    <3>2. o[k] \in RecordType
      BY <3>1, ElementOfSeq
    <3> QED
      BY <3>2 DEF RecordType
  <2>2. DOMAIN o = 1 .. Len(o) /\ Len(o) \in Nat
    OBVIOUS
  <2>3. SamplesOf(o) = [k \in 1 .. Len(o) |-> o[k].samples]
    BY <2>2 DEF SamplesOf
  <2> QED
    BY <2>1, <2>2, <2>3, IsASeq
<1>2. Concat(SamplesOf(o)) \in SamplesType
  <2>1. SamplesOf(o) \in Seq(Seq(SampleType))
    BY <1>1 DEF SamplesType
  <2>2. Concat(SamplesOf(o)) \in Seq(SampleType)
    BY <2>1, ConcatType
  <2> QED
    BY <2>2 DEF SamplesType
<1> QED
  BY <1>1, <1>2

LEMMA OutGrows ==
  ASSUME NEW o \in Seq(RecordType), NEW r \in RecordType
  PROVE  /\ Append(o, r) \in Seq(RecordType)
         /\ Concat(SamplesOf(Append(o, r))) = Concat(SamplesOf(o)) \o r.samples
<1> DEFINE p == Append(o, r)
           x == r.samples
<1>1. x \in SamplesType
  BY DEF RecordType
<1>2. /\ p \in Seq(RecordType) /\ Len(p) = Len(o) + 1 /\ Len(o) \in Nat
      /\ \A k \in 1 .. Len(o) : p[k] = o[k]
      /\ p[Len(o) + 1] = r
  BY AppendProperties
<1> HIDE DEF p
<1>3. SamplesOf(p) = SamplesOf(o) \o <<x>>
  <2> DEFINE a == SamplesOf(p)
             b == SamplesOf(o)
             c == b \o <<x>>
  <2>1. a \in Seq(SamplesType) /\ b \in Seq(SamplesType) /\ <<x>> \in Seq(SamplesType)
    BY <1>1, <1>2, SamplesOfType
  <2>2. /\ Len(a) = Len(o) + 1 /\ Len(b) = Len(o)
        /\ \A k \in 1 .. (Len(o) + 1) : a[k] = p[k].samples
        /\ \A k \in 1 .. Len(o) : b[k] = o[k].samples
    <3>1. DOMAIN o = 1 .. Len(o) /\ DOMAIN p = 1 .. (Len(o) + 1)
      BY <1>2
    <3>2. /\ DOMAIN a = 1 .. (Len(o) + 1) /\ DOMAIN b = 1 .. Len(o)
          /\ \A k \in 1 .. (Len(o) + 1) : a[k] = p[k].samples
          /\ \A k \in 1 .. Len(o) : b[k] = o[k].samples
      BY <3>1 DEF SamplesOf
    <3> HIDE DEF a, b
    <3> QED
      BY <1>2, <2>1, <3>2
  <2> HIDE DEF a, b
  <2>3. /\ c \in Seq(SamplesType) /\ Len(c) = Len(o) + 1
        /\ \A k \in 1 .. Len(o) : c[k] = b[k]
        /\ c[Len(o) + 1] = x
    <3> DEFINE e == <<x>>
    <3>1. e \in Seq(SamplesType) /\ Len(e) = 1 /\ e[1] = x
      BY <2>1
    <3> HIDE DEF e
    <3>2. /\ b \o e \in Seq(SamplesType) /\ Len(b \o e) = Len(b) + Len(e)
          /\ \A i \in 1 .. (Len(b) + Len(e)) :
               (b \o e)[i] = IF i <= Len(b) THEN b[i] ELSE e[i - Len(b)]
      BY <2>1, <3>1, ConcatProperties
    <3>3. c = b \o e
      BY DEF e
    <3> HIDE DEF c
    <3> QED
      BY <1>2, <2>2, <3>1, <3>2, <3>3
  <2> HIDE DEF c
  <2>4. \A k \in 1 .. Len(a) : a[k] = c[k]
    BY <1>2, <2>2, <2>3
  <2>5. a = c
    BY <2>1, <2>2, <2>3, <2>4, SeqEqual
  <2> QED
    BY <2>5 DEF a, b, c
<1>4. SamplesOf(o) \in Seq(Seq(SampleType)) /\ <<x>> \in Seq(Seq(SampleType))
  BY <1>1, SamplesOfType DEF SamplesType
<1>5. Concat(SamplesOf(p)) = Concat(SamplesOf(o)) \o Concat(<<x>>)
  BY <1>3, <1>4, ConcatSplit
<1>6. Concat(<<x>>) = x
  BY <1>1, ConcatOne DEF SamplesType
<1> QED
  BY <1>2, <1>5, <1>6 DEF p

LEMMA EmitType ==
  ASSUME NEW s \in StateType
  PROVE  EmitOf(s) \in SamplesType
BY StateFields, SamplesOfType, Joining DEF EmitOf

LEMMA LabelForType ==
  ASSUME NEW s \in StateType, NEW t \in Int, NEW n \in Int
  PROVE  LabelFor(s, t, n) \in Int
BY StateFields DEF LabelFor

\* A sample is put behind the others.
LEMMA SampleEmits ==
  ASSUME NEW s \in StateType, NEW x \in SampleType
  PROVE  EmitOf(Sample(s, x)) = EmitOf(s) \o <<x>>
<1> DEFINE C == Concat(SamplesOf(s.out))
           d == s.enc.data
           q == s.enc.pending
           p == Append(q, x)
           l == LabelFor(s, s.clk.time + 1, Len(p))
           c == Sample(s, x)
<1>1. /\ c \in StateType
      /\ \/ c.out = s.out /\ c.enc.pending = p /\ c.enc.data = d
         \/ Packed(s, c, d \o p, l)
  BY SampleIs
<1>2. /\ C \in SamplesType /\ d \in SamplesType /\ q \in SamplesType
      /\ <<x>> \in SamplesType /\ s.out \in Seq(RecordType) /\ s.clk.time \in Int
  BY StateFields, SamplesOfType DEF SamplesType
<1>3. p \in SamplesType /\ p = q \o <<x>> /\ Len(p) \in Int
  BY <1>2, AppendProperties, AppendIsConcat DEF SamplesType
<1>4. l \in Int
  BY <1>2, <1>3, LabelForType
<1> HIDE DEF c, p, l
<1>5. EmitOf(s) \o <<x>> = C \o (d \o p)
  <2>0. EmitOf(s) = (C \o d) \o q
    BY DEF EmitOf
  <2> DEFINE y == <<x>>
  <2> HIDE DEF C, d, q, y
  <2>1. (C \o d) \o p = C \o (d \o p)
    BY <1>2, <1>3, Joining, Regroup, SMTT(30)
  <2>2. C \o d \in SamplesType
    BY <1>2, Joining
  <2>3. (C \o d) \o p = ((C \o d) \o q) \o y
    <3>1. y \in SamplesType /\ p = q \o y
      BY <1>2, <1>3 DEF y
    <3> QED
      BY <1>2, <2>2, <3>1, Regroup
  <2> QED
    BY <2>0, <2>1, <2>3 DEF y
<1>6. d \o p \in SamplesType
  BY <1>2, <1>3, Joining
<1>7. CASE c.out = s.out /\ c.enc.pending = p /\ c.enc.data = d
  <2>1. EmitOf(c) = (C \o d) \o p
    BY <1>7 DEF EmitOf
  <2>2. (C \o d) \o p = C \o (d \o p)
    <3> HIDE DEF C, d
    <3> QED
      BY <1>2, <1>3, Regroup, ZenonT(30)
  <2> QED
    BY <1>5, <2>1, <2>2 DEF c
<1>8. CASE Packed(s, c, d \o p, l) /\ c.out = s.out /\ c.enc.open
  <2>1. c.enc.data = d \o p /\ c.enc.pending = <<>>
    <3>1. c.out = s.out => c.out # Append(s.out, [label |-> l, samples |-> d \o p])
      BY <1>2, <1>4, <1>6, AppendProperties DEF RecordType
    <3> QED
      BY <1>8, <3>1 DEF Packed
  <2>2. EmitOf(c) = (C \o (d \o p)) \o <<>>
    BY <1>8, <2>1 DEF EmitOf
  <2>3. C \o (d \o p) \in SamplesType
    BY <1>2, <1>6, Joining
  <2> QED
    BY <1>5, <2>2, <2>3, Joining DEF c
<1>9. CASE Packed(s, c, d \o p, l) /\ ~c.enc.open
  <2>1. /\ c.enc.data = <<>> /\ c.enc.pending = <<>>
        /\ c.out = Append(s.out, [label |-> l, samples |-> d \o p])
    BY <1>9 DEF Packed
  <2>2. Concat(SamplesOf(c.out)) = C \o (d \o p)
    <3> DEFINE r == [label |-> l, samples |-> d \o p]
    <3>1. r \in RecordType /\ r.samples = d \o p
      BY <1>4, <1>6 DEF RecordType
    <3>2. c.out = Append(s.out, r)
      BY <2>1
    <3> HIDE DEF r
    <3> QED
      BY <1>2, <3>1, <3>2, OutGrows
  <2>3. C \o (d \o p) \in SamplesType
    BY <1>2, <1>6, Joining
  <2> QED
    BY <1>5, <2>1, <2>2, <2>3, Joining DEF EmitOf, c
<1>10. Packed(s, c, d \o p, l) => (c.out = s.out /\ c.enc.open) \/ ~c.enc.open
  BY DEF Packed
<1> QED
  BY <1>1, <1>7, <1>8, <1>9, <1>10

\* A flush loses no sample.
LEMMA FlushEmits ==
  ASSUME NEW s \in StateType
  PROVE  EmitOf(Flush(s)) = EmitOf(s)
<1> DEFINE C == Concat(SamplesOf(s.out))
           d == s.enc.data
           q == s.enc.pending
           l == LabelFor(s, s.clk.time, Len(q))
           c == Flush(s)
           r == [label |-> l, samples |-> d \o q]
<1>1. \/ c = s
      \/ c.enc.data = <<>> /\ c.enc.pending = <<>> /\ c.out = Append(s.out, r)
  BY FlushIs
<1>2. /\ C \in SamplesType /\ d \in SamplesType /\ q \in SamplesType
      /\ s.out \in Seq(RecordType) /\ s.clk.time \in Int /\ Len(q) \in Int
  BY StateFields, SamplesOfType DEF SamplesType
<1>3. r \in RecordType /\ r.samples = d \o q
  BY <1>2, LabelForType, Joining DEF RecordType
<1> HIDE DEF c, r
<1>4. CASE c.enc.data = <<>> /\ c.enc.pending = <<>> /\ c.out = Append(s.out, r)
  <2>1. Concat(SamplesOf(c.out)) = C \o (d \o q)
    BY <1>2, <1>3, <1>4, OutGrows
  <2>2. C \o (d \o q) = (C \o d) \o q /\ C \o (d \o q) \in SamplesType
    <3> HIDE DEF C, d, q
    <3> QED
      BY <1>2, Joining, Regroup
  <2> QED
    BY <1>4, <2>1, <2>2, Joining DEF EmitOf, c
<1> QED
  BY <1>1, <1>4 DEF c

-----------------------------------------------------------------------------
(* A packet on its way through the encoder.                                *)

\* f goes through the states of the encoder while it takes the samples in data.
Encodes(f, s, data) ==
  /\ f[0] = s
  /\ \A k \in 1 .. Len(data) : f[k] = Sample(f[k - 1], data[k])
  /\ Samples(s, data) = f[Len(data)]

IsEncoded(s, data) == \E f \in [0 .. Len(data) -> StateType] : Encodes(f, s, data)

LEMMA SamplesUnfolds ==
  ASSUME NEW s \in StateType, NEW data \in SamplesType
  PROVE  IsEncoded(s, data)
<1> DEFINE n == Len(data)
           D == (1 .. n) \X StateType
           step == [p \in D |-> Sample(p[2], data[p[1]])]
           F(g) == [k \in 0 .. n |-> IF k = 0 THEN s ELSE Sample(g[k - 1], data[k])]
           v == CHOOSE g : g = F(g)
<1>1. n \in Nat /\ \A k \in 1 .. n : data[k] \in SampleType
  BY ElementOfSeq DEF SamplesType
<1>2. step \in [D -> StateType]
  <2>1. ASSUME NEW p \in D PROVE Sample(p[2], data[p[1]]) \in StateType
    <3>1. p[2] \in StateType /\ data[p[1]] \in SampleType
      BY <1>1
    <3> QED
      BY <3>1, SampleIs
  <2> QED
    BY <2>1
<1>3. PICK f \in [0 .. n -> StateType] : Goes(f, n, s, step)
  <2> HIDE DEF step, n
  <2> QED
    BY <1>1, <1>2, Iterates DEF CanGo
<1>4. ASSUME NEW k \in 0 .. n PROVE f[k] = IF k = 0 THEN s ELSE Sample(f[k - 1], data[k])
  <2>1. f[k] = IF k = 0 THEN s ELSE step[<<k, f[k - 1]>>]
    BY <1>3 DEF Goes
  <2>2. k # 0 => <<k, f[k - 1]>> \in D
    <3>1. k # 0 => k \in 1 .. n /\ k - 1 \in 0 .. n
      BY <1>1
    <3> QED
      BY <3>1
  <2>3. k # 0 => step[<<k, f[k - 1]>>] = Sample(f[k - 1], data[k])
    BY <2>2
  <2> HIDE DEF step
  <2> QED
    BY <2>1, <2>3
<1>5. f = F(f)
  <2>1. f = [k \in 0 .. n |-> f[k]]
    OBVIOUS
  <2> QED
    BY <1>4, <2>1
<1>6. v = F(v)
  <2> HIDE DEF F
  <2> QED
    BY <1>5
<1>7. Samples(s, data) = v[n]
  BY DEF Samples
<1> HIDE DEF v, step
<1>8. ASSUME NEW k \in 0 .. n PROVE v[k] = IF k = 0 THEN s ELSE Sample(v[k - 1], data[k])
  BY <1>6
<1> DEFINE E == {k \in 0 .. n : v[k] = f[k]}
<1>9. \A k \in 0 .. n : k \in E
  <2>1. 0 \in E
    <3>1. 0 \in 0 .. n
      BY <1>1
    <3>2. f[0] = s /\ v[0] = s
      BY <1>4, <1>8, <3>1
    <3> QED
      BY <3>1, <3>2
  <2>2. ASSUME NEW k \in 0 .. (n - 1), k \in E PROVE k + 1 \in E
    <3>1. k + 1 \in 0 .. n /\ k + 1 # 0 /\ (k + 1) - 1 = k
      BY <1>1
    <3>2. v[k + 1] = Sample(v[k], data[k + 1]) /\ f[k + 1] = Sample(f[k], data[k + 1])
      BY <1>4, <1>8, <3>1
    <3> QED
      BY <2>2, <3>1, <3>2
  <2> HIDE DEF E
  <2> QED
    BY <1>1, <2>1, <2>2, UpTo
<1>10. Samples(s, data) = f[n]
  BY <1>1, <1>7, <1>9
<1>11. f[0] = s /\ \A k \in 1 .. n : f[k] = Sample(f[k - 1], data[k])
  <2>1. 0 \in 0 .. n /\ \A k \in 1 .. n : k \in 0 .. n /\ k # 0
    BY <1>1
  <2> HIDE DEF n
  <2> QED
    BY <1>4, <2>1
<1> QED
  BY <1>10, <1>11 DEF IsEncoded, Encodes

\* The samples of a packet are put behind the others, one after another.
LEMMA SamplesIs ==
  ASSUME NEW s \in StateType, NEW data \in SamplesType
  PROVE  LET c == Samples(s, data)
         IN  /\ c \in StateType /\ c.bf = s.bf
             /\ c.clk.time = s.clk.time + Len(data)
             /\ EmitOf(c) = EmitOf(s) \o data
<1> DEFINE n == Len(data)
           first(k) == SubSeq(data, 1, k)
<1>1. n \in Nat /\ data \in Seq(SampleType)
  BY DEF SamplesType
<1>2. PICK f \in [0 .. n -> StateType] : Encodes(f, s, data)
  BY SamplesUnfolds DEF IsEncoded
<1> DEFINE E == {k \in 0 .. n : /\ f[k].bf = s.bf /\ f[k].clk.time = s.clk.time + k
                                /\ EmitOf(f[k]) = EmitOf(s) \o first(k)}
<1>3. 0 \in E
  <2>1. first(0) = <<>>
    BY SubSeqEmpty
  <2>2. EmitOf(s) \o <<>> = EmitOf(s)
    BY EmitType, Joining
  <2>3. f[0] = s /\ s.clk.time = s.clk.time + 0
    BY <1>2, StateFields DEF Encodes
  <2> QED
    BY <1>1, <2>1, <2>2, <2>3
<1>4. ASSUME NEW k \in 0 .. (n - 1), k \in E PROVE k + 1 \in E
  <2> DEFINE x == data[k + 1]
             c == f[k]
  <2>1. k + 1 \in 1 .. n /\ k + 1 \in 0 .. n /\ (k + 1) - 1 = k /\ k \in 0 .. n
    BY <1>1
  <2>2. c \in StateType /\ x \in SampleType
    BY <1>1, <2>1, ElementOfSeq
  <2>3. f[k + 1] = Sample(c, x)
    BY <1>2, <2>1 DEF Encodes
  <2>4. first(k + 1) = first(k) \o <<x>>
    <3>1. SubSeq(data, 1, k + 1) = SubSeq(data, 1, (k + 1) - 1) \o <<data[k + 1]>>
      BY <1>1, <2>1, SubSeqRecursiveSecond
    <3> QED
      BY <2>1, <3>1
  <2>5. first(k) \in SamplesType
    <3>1. \A i \in 1 .. k : data[i] \in SampleType
      BY <1>1, <2>1, ElementOfSeq
    <3> QED
      BY <2>1, <3>1, SubSeqProperties DEF SamplesType
  <2>6. <<x>> \in SamplesType
    BY <2>2 DEF SamplesType
  <2>7. /\ c.bf = s.bf /\ c.clk.time = s.clk.time + k
        /\ EmitOf(c) = EmitOf(s) \o first(k)
    BY <1>4
  <2> HIDE DEF E, x, first, c
  <2>8. /\ f[k + 1].bf = s.bf
        /\ f[k + 1].clk.time = (s.clk.time + k) + 1
        /\ EmitOf(f[k + 1]) = (EmitOf(s) \o first(k)) \o <<x>>
    BY <2>2, <2>3, <2>7, SampleIs, SampleEmits, ZenonT(30)
  <2>9. (EmitOf(s) \o first(k)) \o <<x>> = EmitOf(s) \o (first(k) \o <<x>>)
    <3> DEFINE a == EmitOf(s)
               b == first(k)
               y == <<x>>
    <3>1. a \in SamplesType /\ b \in SamplesType /\ y \in SamplesType
      BY <2>5, <2>6, EmitType
    <3> HIDE DEF a, b, y
    <3>2. (a \o b) \o y = a \o (b \o y)
      BY <3>1, Regroup
    <3> QED
      BY <3>2 DEF a, b, y
  <2>10. (s.clk.time + k) + 1 = s.clk.time + (k + 1)
    <3>1. s.clk.time \in Int
      BY StateFields
    <3>2. k \in Int
      BY <1>1
    <3> QED
      BY <3>1, <3>2
  <2> QED
    BY <2>1, <2>4, <2>8, <2>9, <2>10 DEF E
<1>5. n \in E
  <2>1. \A k \in 0 .. n : k \in E
    <3> HIDE DEF E
    <3> QED
      BY <1>1, <1>3, <1>4, UpTo
  <2> QED
    BY <1>1, <2>1
<1>6. first(n) = data
  BY <1>1, SubSeqFull
<1>7. Samples(s, data) = f[n] /\ n \in 0 .. n
  BY <1>1, <1>2 DEF Encodes
<1> QED
  BY <1>5, <1>6, <1>7

LEMMA SetTimeIs ==
  ASSUME NEW s \in StateType, NEW t \in Int
  PROVE  LET c == SetTime(s, t)
         IN  /\ c \in StateType /\ c.bf = s.bf /\ c.out = s.out /\ c.enc = s.enc
             /\ c.clk.time = t
             /\ c.clk.gap = IF s.clk.time = None THEN 0 ELSE t - s.clk.time
             /\ EmitOf(c) = EmitOf(s)
<1> DEFINE k == [time |-> t, gap |-> IF s.clk.time = None THEN 0 ELSE t - s.clk.time]
<1>1. k \in ClkType
  BY StateFields DEF ClkType
<1>2. k.time = t /\ k.gap = IF s.clk.time = None THEN 0 ELSE t - s.clk.time
  OBVIOUS
<1>3. SetTime(s, t) = [s EXCEPT !.clk = k]
  BY DEF SetTime
<1> HIDE DEF k
<1> DEFINE c == [s EXCEPT !.clk = k]
<1>4. c \in StateType /\ c.clk = k /\ c.bf = s.bf /\ c.out = s.out /\ c.enc = s.enc
  BY <1>1, PutClk
<1> HIDE DEF c
<1>5. EmitOf(c) = EmitOf(s)
  BY <1>4 DEF EmitOf
<1> QED
  BY <1>2, <1>3, <1>4, <1>5 DEF c

LEMMA AddTicksIs ==
  ASSUME NEW s \in StateType, NEW n \in Int
  PROVE  LET c == AddTicks(s, n)
         IN  /\ c \in StateType /\ c.bf = s.bf /\ c.out = s.out /\ c.enc = s.enc
             /\ EmitOf(c) = EmitOf(s)
<1> DEFINE k == [time |-> s.clk.time + n, gap |-> n]
<1>1. k \in ClkType
  BY StateFields DEF ClkType
<1>2. AddTicks(s, n) = [s EXCEPT !.clk = k]
  BY DEF AddTicks
<1> HIDE DEF k
<1> DEFINE c == [s EXCEPT !.clk = k]
<1>3. c \in StateType /\ c.clk = k /\ c.bf = s.bf /\ c.out = s.out /\ c.enc = s.enc
  BY <1>1, PutClk
<1> HIDE DEF c
<1>4. EmitOf(c) = EmitOf(s)
  BY <1>3 DEF EmitOf
<1> QED
  BY <1>2, <1>3, <1>4 DEF c

LEMMA FlushAtGapIs ==
  ASSUME NEW s \in StateType
  PROVE  LET c == FlushAtGap(s)
         IN  /\ c \in StateType /\ c.bf = s.bf /\ c.clk = s.clk
             /\ EmitOf(c) = EmitOf(s)
<1>1. /\ Flush(s) \in StateType /\ Flush(s).bf = s.bf /\ Flush(s).clk = s.clk
      /\ EmitOf(Flush(s)) = EmitOf(s)
  BY FlushIs, FlushEmits
<1> QED
  BY <1>1 DEF FlushAtGap

\* What is committed comes behind all that was committed before.
LEMMA CommitDataIs ==
  ASSUME NEW s \in StateType, NEW t \in Int, NEW data \in SamplesType,
         mode.kind = "mseed" => s.enc.data = <<>> /\ s.enc.pending = <<>>
  PROVE  LET c == CommitData(s, t, data)
         IN  /\ c \in StateType /\ c.bf = s.bf
             /\ mode.kind = "mseed" => /\ c.enc = s.enc /\ c.clk = s.clk
                                       /\ c.out = Append(s.out, [label |-> t, samples |-> data])
             /\ EmitOf(c) = EmitOf(s) \o data
<1>1. CASE mode.kind = "mseed"
  <2> DEFINE r == [label |-> t, samples |-> data]
             o == Append(s.out, r)
             c == [s EXCEPT !.out = o]
  <2>1. r \in RecordType /\ r.samples = data
    BY DEF RecordType
  <2>2. CommitData(s, t, data) = c
    BY <1>1 DEF CommitData
  <2> HIDE DEF r
  <2>3. o \in Seq(RecordType) /\ Concat(SamplesOf(o)) = Concat(SamplesOf(s.out)) \o data
    BY <2>1, StateFields, OutGrows
  <2> HIDE DEF o
  <2>4. c \in StateType /\ c.bf = s.bf /\ c.enc = s.enc /\ c.clk = s.clk /\ c.out = o
    BY <2>3, PutOut
  <2> HIDE DEF c
  <2>5. EmitOf(c) = EmitOf(s) \o data
    <3> DEFINE C == Concat(SamplesOf(s.out))
    <3>1. C \in SamplesType /\ C \o data \in SamplesType
      BY StateFields, SamplesOfType, Joining
    <3>2. EmitOf(s) = C
      <4>1. EmitOf(s) = (C \o <<>>) \o <<>>
        BY <1>1 DEF EmitOf
      <4> QED
        BY <3>1, <4>1, Joining
    <3>3. EmitOf(c) = ((C \o data) \o <<>>) \o <<>>
      BY <1>1, <2>3, <2>4 DEF EmitOf
    <3> HIDE DEF C
    <3> QED
      BY <3>1, <3>2, <3>3, Joining
  <2> QED
    BY <2>2, <2>4, <2>5 DEF o, r
<1>2. CASE mode.kind # "mseed"
  <2> DEFINE a == SetTime(s, t)
             b == FlushAtGap(a)
  <2>1. a \in StateType /\ a.bf = s.bf /\ EmitOf(a) = EmitOf(s)
    BY SetTimeIs
  <2>2. CommitData(s, t, data) = Samples(b, data)
    BY <1>2 DEF CommitData
  <2> HIDE DEF a
  <2>3. b \in StateType /\ b.bf = s.bf /\ EmitOf(b) = EmitOf(s)
    BY <2>1, FlushAtGapIs
  <2> HIDE DEF b
  <2> QED
    BY <1>2, <2>2, <2>3, SamplesIs
<1> QED
  BY <1>1, <1>2

-----------------------------------------------------------------------------
(* The backfilling buffer.                                                 *)

\* A channel of miniSEED records has no use for the encoder.
GoodType ==
  {s \in StateType : mode.kind = "mseed" =>
     s.enc.data = <<>> /\ s.enc.pending = <<>> /\ ~s.enc.open}

DataOf(b) == [k \in DOMAIN b |-> b[k].data]

WaitOf(s) == Concat(DataOf(s.bf.buffer))

LEMMA EtimeType ==
  ASSUME NEW p \in PacketType
  PROVE  /\ etime(p) \in Int /\ p.stime \in Int /\ p.data \in SamplesType /\ p.data # <<>>
         /\ Len(p.data) \in Nat \ {0} /\ etime(p) = p.stime + Len(p.data)
<1>1. p.stime \in Int /\ p.data \in SamplesType /\ p.data # <<>>
  BY DEF PacketType
<1>2. Len(p.data) \in Nat \ {0}
  BY <1>1, EmptySeq DEF SamplesType
<1> QED
  BY <1>1, <1>2 DEF etime

LEMMA DataOfType ==
  ASSUME NEW b \in Seq(PacketType)
  PROVE  /\ DataOf(b) \in Seq(SamplesType) /\ Len(DataOf(b)) = Len(b)
         /\ \A k \in 1 .. Len(b) : DataOf(b)[k] = b[k].data
         /\ Concat(DataOf(b)) \in SamplesType
<1>1. DOMAIN b = 1 .. Len(b) /\ Len(b) \in Nat
  OBVIOUS
<1>2. DataOf(b) = [k \in 1 .. Len(b) |-> b[k].data]
  BY <1>1 DEF DataOf
<1>3. ASSUME NEW k \in 1 .. Len(b) PROVE b[k].data \in SamplesType
  <2>1. b[k] \in PacketType
    BY ElementOfSeq
  <2> QED
    BY <2>1, EtimeType
<1>4. DataOf(b) \in Seq(SamplesType)
  BY <1>1, <1>2, <1>3, IsASeq
<1>5. DOMAIN DataOf(b) = 1 .. Len(b) /\ \A k \in 1 .. Len(b) : DataOf(b)[k] = b[k].data
  BY <1>2
<1>6. Len(DataOf(b)) = Len(b)
  BY <1>1, <1>4, <1>5
<1>7. Concat(DataOf(b)) \in SamplesType
  BY <1>4, ConcatType DEF SamplesType
<1> QED
  BY <1>4, <1>5, <1>6, <1>7

\* What waits in one part of the buffer and in the next.
LEMMA WaitSplit ==
  ASSUME NEW a \in Seq(PacketType), NEW b \in Seq(PacketType)
  PROVE  Concat(DataOf(a \o b)) = Concat(DataOf(a)) \o Concat(DataOf(b))
<1> DEFINE u == a \o b
           x == DataOf(a)
           y == DataOf(b)
           z == DataOf(u)
           w == x \o y
<1>1. /\ u \in Seq(PacketType) /\ Len(u) = Len(a) + Len(b)
      /\ \A i \in 1 .. (Len(a) + Len(b)) :
           u[i] = IF i <= Len(a) THEN a[i] ELSE b[i - Len(a)]
  BY ConcatProperties
<1> HIDE DEF u
<1>2. /\ x \in Seq(SamplesType) /\ Len(x) = Len(a)
      /\ y \in Seq(SamplesType) /\ Len(y) = Len(b)
      /\ z \in Seq(SamplesType) /\ Len(z) = Len(a) + Len(b)
      /\ \A k \in 1 .. Len(a) : x[k] = a[k].data
      /\ \A k \in 1 .. Len(b) : y[k] = b[k].data
      /\ \A k \in 1 .. (Len(a) + Len(b)) : z[k] = u[k].data
  BY <1>1, DataOfType
<1> HIDE DEF x, y, z
<1>3. /\ w \in Seq(SamplesType) /\ Len(w) = Len(a) + Len(b)
      /\ \A i \in 1 .. (Len(a) + Len(b)) :
           w[i] = IF i <= Len(a) THEN x[i] ELSE y[i - Len(a)]
  <2>1. /\ w \in Seq(SamplesType) /\ Len(w) = Len(x) + Len(y)
        /\ \A i \in 1 .. (Len(x) + Len(y)) :
             w[i] = IF i <= Len(x) THEN x[i] ELSE y[i - Len(x)]
    <3>1. x \in Seq(SamplesType) /\ y \in Seq(SamplesType)
      BY <1>2
    <3> QED
      BY <3>1, ConcatProperties
  <2> HIDE DEF w
  <2> QED
    BY <1>2, <2>1
<1> HIDE DEF w
<1>4. \A i \in 1 .. Len(z) : z[i] = w[i]
  <2>1. Len(a) \in Nat /\ Len(b) \in Nat
    OBVIOUS
  <2>2. ASSUME NEW i \in 1 .. (Len(a) + Len(b)) PROVE z[i] = w[i]
    <3>1. CASE i <= Len(a)
      <4>1. i \in 1 .. Len(a)
        BY <2>1, <3>1
      <4>2. u[i] = a[i] /\ w[i] = x[i]
        BY <1>1, <1>3, <3>1
      <4> QED
        BY <1>2, <4>1, <4>2
    <3>2. CASE ~(i <= Len(a))
      <4>1. i - Len(a) \in 1 .. Len(b)
        BY <2>1, <3>2
      <4> QED
        BY <1>1, <1>2, <1>3, <3>2, <4>1
    <3> QED
      BY <3>1, <3>2
  <2> QED
    BY <1>2, <2>2
<1>5. z = w
  BY <1>2, <1>3, <1>4, SeqEqual
<1>6. Concat(x \o y) = Concat(x) \o Concat(y)
  BY <1>2, ConcatSplit DEF SamplesType
<1> QED
  BY <1>5, <1>6 DEF u, w, x, y, z

LEMMA WaitOne ==
  ASSUME NEW p \in PacketType
  PROVE  <<p>> \in Seq(PacketType) /\ Concat(DataOf(<<p>>)) = p.data
<1> DEFINE b == <<p>>
           x == DataOf(b)
           y == <<p.data>>
<1>1. b \in Seq(PacketType) /\ Len(b) = 1 /\ b[1] = p
  OBVIOUS
<1> HIDE DEF b
<1>2. x \in Seq(SamplesType) /\ Len(x) = 1 /\ x[1] = p.data
  BY <1>1, DataOfType
<1>3. p.data \in SamplesType
  BY EtimeType
<1>4. y \in Seq(SamplesType) /\ Len(y) = 1 /\ y[1] = p.data
  BY <1>3
<1> HIDE DEF x, y
<1>5. x = y
  <2>1. \A i \in 1 .. Len(x) : x[i] = y[i]
    BY <1>2, <1>4
  <2> QED
    BY <1>2, <1>4, <2>1, SeqEqual
<1>6. Concat(y) = p.data
  BY <1>3, ConcatOne DEF SamplesType, y
<1> QED
  BY <1>1, <1>5, <1>6 DEF b, x

LEMMA WaitNone ==
  ASSUME NEW s, s.bf.buffer = <<>>
  PROVE  WaitOf(s) = <<>>
<1>1. DataOf(<<>>) = <<>>
  BY DEF DataOf
<1> QED
  BY <1>1, ConcatNone DEF WaitOf

LEMMA HeadAndTail ==
  ASSUME NEW S, NEW b \in Seq(S), b # <<>>
  PROVE  b = <<Head(b)>> \o Tail(b)
<1>1. 1 \in 1 .. Len(b) /\ Len(b) \in 1 .. Len(b)
  BY EmptySeq
<1>2. SubSeq(b, 1, Len(b)) = <<b[1]>> \o SubSeq(b, 1 + 1, Len(b))
  BY <1>1, SubSeqRecursiveFirst
<1>3. SubSeq(b, 1, Len(b)) = b /\ Tail(b) = SubSeq(b, 2, Len(b)) /\ Head(b) = b[1]
  BY SubSeqFull, TailIsSubSeq
<1> QED
  BY <1>2, <1>3

\* The first packet goes out of the buffer and into the encoder.
LEMMA CommitFirstIs ==
  ASSUME NEW s \in GoodType, s.bf.buffer # <<>>
  PROVE  LET p == Head(s.bf.buffer)
             c == CommitFirst(s)
         IN  /\ p \in PacketType /\ c \in GoodType
             /\ c.bf.buffer = Tail(s.bf.buffer) /\ c.bf.last = etime(p)
             /\ c.bf.current = s.bf.current
             /\ EmitOf(c) = EmitOf(s) \o p.data
             /\ WaitOf(s) = p.data \o WaitOf(c)
<1> DEFINE b == s.bf.buffer
           p == Head(b)
           e == [s.bf EXCEPT !.last = etime(p)]
           a == [s EXCEPT !.bf = e]
           c == CommitData(a, p.stime, p.data)
           f == IF p.flush THEN Flush(c) ELSE c
           h == [f.bf EXCEPT !.buffer = Tail(b)]
           r == [f EXCEPT !.bf = h]
<1>1. s \in StateType /\ b \in Seq(PacketType) /\ s.bf \in BfType
  BY StateFields DEF GoodType
<1>2. p \in PacketType /\ Tail(b) \in Seq(PacketType)
  BY <1>1, HeadTailProperties
<1>3. /\ etime(p) \in Int /\ p.stime \in Int /\ p.data \in SamplesType /\ p.data # <<>>
  BY <1>2, EtimeType
<1>4. /\ e \in BfType /\ e.last = etime(p) /\ e.buffer = b /\ e.current = s.bf.current
  <2> HIDE DEF p
  <2> QED
    BY <1>1, <1>3 DEF BfType
<1>5. CommitFirst(s) = r
  <2>1. a = [s EXCEPT !.bf.last = etime(p)]
    OBVIOUS
  <2>2. f.bf.buffer = b
    <3> HIDE DEF p, e
    <3>1. a \in StateType /\ a.bf = e /\ a.enc = s.enc
      BY <1>1, <1>4, PutBf
    <3> HIDE DEF a
    <3>2. mode.kind = "mseed" => a.enc.data = <<>> /\ a.enc.pending = <<>>
      BY <3>1 DEF GoodType
    <3>3. c \in StateType /\ c.bf = a.bf
      BY <1>3, <3>1, <3>2, CommitDataIs
    <3> HIDE DEF c
    <3>4. Flush(c).bf = c.bf
      BY <3>3, FlushIs
    <3> QED
      BY <1>4, <3>1, <3>3, <3>4
  <2>3. CommitFirst(s) = [f EXCEPT !.bf.buffer = Tail(f.bf.buffer)]
    BY <2>1 DEF CommitFirst
  <2> HIDE DEF f, b
  <2> QED
    BY <2>2, <2>3
<1> HIDE DEF e, p
<1>6. a \in StateType /\ a.bf = e /\ a.enc = s.enc /\ a.out = s.out /\ EmitOf(a) = EmitOf(s)
  <2>1. a \in StateType /\ a.bf = e /\ a.enc = s.enc /\ a.out = s.out
    BY <1>1, <1>4, PutBf
  <2> HIDE DEF a
  <2> QED
    BY <2>1 DEF EmitOf
<1> HIDE DEF a
<1>7. /\ c \in StateType /\ c.bf = e /\ EmitOf(c) = EmitOf(s) \o p.data
      /\ mode.kind = "mseed" => c.enc = s.enc
  <2>1. mode.kind = "mseed" => a.enc.data = <<>> /\ a.enc.pending = <<>>
    BY <1>6 DEF GoodType
  <2> DEFINE t == p.stime
             d == p.data
  <2>2. t \in Int /\ d \in SamplesType /\ c = CommitData(a, t, d)
    BY <1>3
  <2> HIDE DEF c, t, d
  <2>3. /\ c \in StateType /\ c.bf = a.bf /\ EmitOf(c) = EmitOf(a) \o d
        /\ mode.kind = "mseed" => c.enc = a.enc
    BY <1>6, <2>1, <2>2, CommitDataIs
  <2> QED
    BY <1>6, <2>3 DEF d
<1> HIDE DEF c
<1>8. /\ f \in StateType /\ f.bf = e /\ EmitOf(f) = EmitOf(c)
      /\ mode.kind = "mseed" => f.enc = s.enc
  <2>1. /\ Flush(c) \in StateType /\ Flush(c).bf = c.bf /\ EmitOf(Flush(c)) = EmitOf(c)
    BY <1>7, FlushIs, FlushEmits
  <2>2. mode.kind = "mseed" => Flush(c) = c
    <3>1. mode.kind = "mseed" => c.enc.pending = <<>> /\ ~c.enc.open
      BY <1>7 DEF GoodType
    <3> QED
      BY <1>7, <3>1, FlushIs
  <2> QED
    BY <1>7, <2>1, <2>2
<1> HIDE DEF f
<1>9. /\ h \in BfType /\ h.buffer = Tail(b) /\ h.last = etime(p)
      /\ h.current = s.bf.current
  BY <1>2, <1>4, <1>8 DEF BfType
<1> HIDE DEF h
<1>10. /\ r \in StateType /\ r.bf = h /\ r.enc = f.enc /\ r.out = f.out
  BY <1>8, <1>9, PutBf
<1> HIDE DEF r
<1>11. r \in GoodType
  BY <1>8, <1>10 DEF GoodType
<1>12. EmitOf(r) = EmitOf(s) \o p.data
  <2>1. EmitOf(r) = EmitOf(f)
    BY <1>10 DEF EmitOf
  <2> QED
    BY <1>7, <1>8, <2>1
<1>13. WaitOf(s) = p.data \o WaitOf(r)
  <2> DEFINE t == Tail(b)
  <2>1. b = <<p>> \o t
    BY <1>1, HeadAndTail DEF p
  <2>2. <<p>> \in Seq(PacketType) /\ Concat(DataOf(<<p>>)) = p.data
    BY <1>2, WaitOne
  <2>3. WaitOf(s) = Concat(DataOf(b)) /\ WaitOf(r) = Concat(DataOf(t))
    BY <1>9, <1>10 DEF WaitOf
  <2> HIDE DEF b, t
  <2>4. t \in Seq(PacketType)
    BY <1>2 DEF t
  <2>5. Concat(DataOf(<<p>> \o t)) = Concat(DataOf(<<p>>)) \o Concat(DataOf(t))
    BY <2>2, <2>4, WaitSplit
  <2> QED
    BY <2>1, <2>2, <2>3, <2>5
<1> QED
  BY <1>2, <1>5, <1>9, <1>10, <1>11, <1>12, <1>13 DEF p

LEMMA CommitsIs ==
  ASSUME NEW s \in GoodType
  PROVE  LET n == Len(s.bf.buffer)
             f == Commits(s)
         IN  /\ n \in Nat /\ f[0] = s
             /\ \A k \in 0 .. n : f[k] \in GoodType /\ Len(f[k].bf.buffer) = n - k
             /\ \A k \in 1 .. n : f[k - 1].bf.buffer # <<>> /\ f[k] = CommitFirst(f[k - 1])
<1> DEFINE n == Len(s.bf.buffer)
           D == (1 .. n) \X GoodType
           Next1(x) == IF x.bf.buffer # <<>> THEN CommitFirst(x) ELSE x
           step == [p \in D |-> Next1(p[2])]
           F(g) == [k \in 0 .. n |-> IF k = 0 THEN s ELSE CommitFirst(g[k - 1])]
           v == CHOOSE g : g = F(g)
<1>1. /\ n \in Nat
      /\ \A x \in GoodType : /\ x.bf.buffer \in Seq(PacketType) /\ Len(x.bf.buffer) \in Nat
                             /\ x.bf.buffer # <<>> <=> Len(x.bf.buffer) # 0
  <2>1. ASSUME NEW x \in GoodType
        PROVE  /\ x.bf.buffer \in Seq(PacketType) /\ Len(x.bf.buffer) \in Nat
               /\ x.bf.buffer # <<>> <=> Len(x.bf.buffer) # 0
    <3>1. x.bf.buffer \in Seq(PacketType)
      BY StateFields DEF GoodType
    <3> QED
      BY <3>1, EmptySeq
  <2> QED
    BY <2>1
<1>2. ASSUME NEW x \in GoodType, x.bf.buffer # <<>>
      PROVE  /\ CommitFirst(x) \in GoodType
             /\ Len(CommitFirst(x).bf.buffer) = Len(x.bf.buffer) - 1
  <2>1. Len(Tail(x.bf.buffer)) = Len(x.bf.buffer) - 1
    BY <1>1, <1>2, HeadTailProperties
  <2> QED
    BY <1>2, <2>1, CommitFirstIs
<1>3. step \in [D -> GoodType]
  BY <1>2
<1>4. PICK f \in [0 .. n -> GoodType] : Goes(f, n, s, step)
  <2> HIDE DEF step, n
  <2> QED
    BY <1>1, <1>3, Iterates DEF CanGo
<1>5. ASSUME NEW k \in 0 .. n
      PROVE  f[k] = IF k = 0 THEN s ELSE Next1(f[k - 1])
  <2>1. f[k] = IF k = 0 THEN s ELSE step[<<k, f[k - 1]>>]
    BY <1>4 DEF Goes
  <2>2. k # 0 => <<k, f[k - 1]>> \in D
    <3>1. k # 0 => k \in 1 .. n /\ k - 1 \in 0 .. n
      BY <1>1
    <3> QED
      BY <3>1
  <2>3. k # 0 => step[<<k, f[k - 1]>>] = Next1(f[k - 1])
    BY <2>2
  <2> HIDE DEF step, Next1
  <2> QED
    BY <2>1, <2>3
<1> DEFINE L == {k \in 0 .. n : Len(f[k].bf.buffer) = n - k}
<1>6. \A k \in 0 .. n : Len(f[k].bf.buffer) = n - k
  <2>1. 0 \in L
    <3>1. 0 \in 0 .. n
      BY <1>1
    <3>2. f[0] = s
      BY <1>5, <3>1
    <3> QED
      BY <1>1, <3>1, <3>2
  <2>2. ASSUME NEW k \in 0 .. (n - 1), k \in L PROVE k + 1 \in L
    <3>1. k + 1 \in 0 .. n /\ k + 1 # 0 /\ (k + 1) - 1 = k /\ k \in 0 .. n /\ n - k # 0
      BY <1>1
    <3>2. f[k] \in GoodType /\ Len(f[k].bf.buffer) = n - k
      BY <2>2, <3>1
    <3>3. f[k].bf.buffer # <<>>
      BY <1>1, <3>1, <3>2
    <3>4. f[k + 1] = CommitFirst(f[k])
      BY <1>5, <3>1, <3>3
    <3>5. Len(f[k + 1].bf.buffer) = (n - k) - 1
      BY <1>2, <3>2, <3>3, <3>4
    <3>6. (n - k) - 1 = n - (k + 1)
      BY <1>1
    <3> QED
      BY <3>1, <3>5, <3>6
  <2>3. \A k \in 0 .. n : k \in L
    <3> HIDE DEF L
    <3> QED
      BY <1>1, <2>1, <2>2, UpTo
  <2> QED
    BY <2>3
<1>7. ASSUME NEW k \in 1 .. n
      PROVE  f[k - 1].bf.buffer # <<>> /\ f[k] = CommitFirst(f[k - 1])
  <2>1. k - 1 \in 0 .. n /\ k \in 0 .. n /\ k # 0 /\ n - (k - 1) # 0
    BY <1>1
  <2>2. f[k - 1].bf.buffer # <<>>
    BY <1>1, <1>6, <2>1
  <2> QED
    BY <1>5, <2>1, <2>2
<1>8. f = F(f)
  <2>1. f = [k \in 0 .. n |-> f[k]]
    OBVIOUS
  <2>2. ASSUME NEW k \in 0 .. n PROVE f[k] = IF k = 0 THEN s ELSE CommitFirst(f[k - 1])
    <3>1. k # 0 => k \in 1 .. n
      BY <1>1
    <3> HIDE DEF Next1
    <3> QED
      BY <1>5, <1>7, <3>1
  <2> QED
    BY <2>1, <2>2
<1>9. v = F(v)
  <2> HIDE DEF F
  <2> QED
    BY <1>8
<1>10. Commits(s) = v
  BY DEF Commits
<1> HIDE DEF v, step, Next1
<1>11. ASSUME NEW k \in 0 .. n PROVE v[k] = IF k = 0 THEN s ELSE CommitFirst(v[k - 1])
  BY <1>9
<1> DEFINE E == {k \in 0 .. n : v[k] = f[k]}
<1>12. \A k \in 0 .. n : k \in E
  <2>1. 0 \in E
    <3>1. 0 \in 0 .. n
      BY <1>1
    <3>2. f[0] = s /\ v[0] = s
      BY <1>5, <1>11, <3>1
    <3> QED
      BY <3>1, <3>2
  <2>2. ASSUME NEW k \in 0 .. (n - 1), k \in E PROVE k + 1 \in E
    <3>1. /\ k + 1 \in 0 .. n /\ k + 1 \in 1 .. n /\ k + 1 # 0 /\ (k + 1) - 1 = k
      BY <1>1
    <3>2. v[k + 1] = CommitFirst(v[k])
      BY <1>11, <3>1
    <3>3. f[k + 1] = CommitFirst(f[k])
      BY <1>7, <3>1
    <3> QED
      BY <2>2, <3>1, <3>2, <3>3
  <2> HIDE DEF E
  <2> QED
    BY <1>1, <2>1, <2>2, UpTo
<1>13. \A k \in 0 .. n : v[k] = f[k]
  BY <1>12
<1>14. v[0] = s
  BY <1>1, <1>11
<1>15. \A k \in 0 .. n : v[k] \in GoodType /\ Len(v[k].bf.buffer) = n - k
  BY <1>6, <1>13
<1>16. \A k \in 1 .. n : v[k - 1].bf.buffer # <<>> /\ v[k] = CommitFirst(v[k - 1])
  <2>1. \A k \in 1 .. n : k \in 0 .. n /\ k - 1 \in 0 .. n
    BY <1>1
  <2> QED
    BY <1>7, <1>13, <2>1
<1> QED
  BY <1>1, <1>10, <1>14, <1>15, <1>16

\* What holds of s, and goes on to hold while packets are committed, holds of what
\* becomes of s.
LEMMA CommitsIn ==
  ASSUME NEW s \in GoodType, NEW G, s \in G,
         \A x \in G \cap GoodType : x.bf.buffer # <<>> => CommitFirst(x) \in G
  PROVE  \A k \in 0 .. Len(s.bf.buffer) : Commits(s)[k] \in G
<1> DEFINE n == Len(s.bf.buffer)
           f == Commits(s)
           S == {k \in 0 .. n : f[k] \in G}
<1>1. /\ n \in Nat /\ f[0] = s
      /\ \A k \in 0 .. n : f[k] \in GoodType
      /\ \A k \in 1 .. n : f[k - 1].bf.buffer # <<>> /\ f[k] = CommitFirst(f[k - 1])
  BY CommitsIs
<1> HIDE DEF f, n
<1>2. 0 \in S
  BY <1>1
<1>3. ASSUME NEW k \in 0 .. (n - 1), k \in S PROVE k + 1 \in S
  <2>1. k + 1 \in 1 .. n /\ k + 1 \in 0 .. n /\ (k + 1) - 1 = k /\ k \in 0 .. n
    BY <1>1
  <2>2. f[k].bf.buffer # <<>> /\ f[k + 1] = CommitFirst(f[k]) /\ f[k] \in GoodType
    BY <1>1, <2>1
  <2> QED
    BY <1>3, <2>1, <2>2
<1>4. \A k \in 0 .. n : k \in S
  <2> HIDE DEF S
  <2> QED
    BY <1>1, <1>2, <1>3, UpTo
<1> QED
  BY <1>4 DEF f, n

LEMMA LeastUpTo ==
  ASSUME NEW n \in Nat, NEW S, n \in S
  PROVE  \E k \in 0 .. n : k \in S /\ \A j \in 0 .. (k - 1) : j \notin S
<1> DEFINE T == {k \in 0 .. n : k \in S}
<1>1. T \subseteq Nat /\ T # {}
  <2>1. n \in T
    OBVIOUS
  <2> QED
    BY <2>1
<1>2. PICK k \in T : \A m \in T : k <= m
  <2> HIDE DEF T
  <2> QED
    BY <1>1, LeastNat
<1>3. ASSUME NEW j \in 0 .. (k - 1) PROVE j \notin S
  <2>1. j \in 0 .. n /\ ~(k <= j)
    OBVIOUS
  <2> QED
    BY <1>2, <2>1
<1> QED
  BY <1>3

LEMMA TrimmedIs ==
  ASSUME NEW s \in GoodType
  PROVE  \E k \in 0 .. Len(s.bf.buffer) : Trimmed(s) = Commits(s)[k]
<1> DEFINE n == Len(s.bf.buffer)
           f == Commits(s)
           S == {k \in 0 .. n : ~OverCapacity(f[k].bf.buffer)}
           P(k) == /\ ~OverCapacity(f[k].bf.buffer)
                   /\ \A j \in 0 .. (k - 1) : OverCapacity(f[j].bf.buffer)
           c == CHOOSE k \in 0 .. n : P(k)
<1>1. n \in Nat /\ f[n] \in GoodType /\ Len(f[n].bf.buffer) = 0
  <2>1. n \in Nat /\ \A k \in 0 .. n : f[k] \in GoodType /\ Len(f[k].bf.buffer) = n - k
    BY CommitsIs
  <2>2. n \in 0 .. n /\ n - n = 0
    BY <2>1
  <2> HIDE DEF f, n
  <2> QED
    BY <2>1, <2>2
<1>2. f[n].bf.buffer = <<>>
  <2>1. f[n].bf.buffer \in Seq(PacketType)
    BY <1>1, StateFields DEF GoodType
  <2> QED
    BY <1>1, <2>1, EmptySeq
<1>3. Trimmed(s) = f[c]
  BY DEF Trimmed
<1> HIDE DEF f, n
<1>4. n \in S
  BY <1>1, <1>2 DEF OverCapacity
<1>5. \E k \in 0 .. n : k \in S /\ \A j \in 0 .. (k - 1) : j \notin S
  <2> HIDE DEF S
  <2> QED
    BY <1>1, <1>4, LeastUpTo
<1>6. \E k \in 0 .. n : P(k)
  <2>1. PICK k \in 0 .. n : k \in S /\ \A j \in 0 .. (k - 1) : j \notin S
    BY <1>5
  <2>2. \A j \in 0 .. (k - 1) : j \in 0 .. n
    BY <1>1
  <2> QED
    BY <2>1, <2>2
<1>7. c \in 0 .. n
  <2> HIDE DEF P
  <2> QED
    BY <1>6
<1> HIDE DEF c
<1> QED
  BY <1>3, <1>7 DEF f, n

LEMMA FilledIs ==
  ASSUME NEW s \in GoodType
  PROVE  \E k \in 0 .. Len(s.bf.buffer) :
           Filled(s) = Commits(s)[k] /\ ~Fits(Commits(s)[k])
<1> DEFINE n == Len(s.bf.buffer)
           f == Commits(s)
           S == {k \in 0 .. n : ~Fits(f[k])}
           P(k) == ~Fits(f[k]) /\ \A j \in 0 .. (k - 1) : Fits(f[j])
           c == CHOOSE k \in 0 .. n : P(k)
<1>1. n \in Nat /\ f[n] \in GoodType /\ Len(f[n].bf.buffer) = 0
  <2>1. n \in Nat /\ \A k \in 0 .. n : f[k] \in GoodType /\ Len(f[k].bf.buffer) = n - k
    BY CommitsIs
  <2>2. n \in 0 .. n /\ n - n = 0
    BY <2>1
  <2> HIDE DEF f, n
  <2> QED
    BY <2>1, <2>2
<1>2. f[n].bf.buffer = <<>>
  <2>1. f[n].bf.buffer \in Seq(PacketType)
    BY <1>1, StateFields DEF GoodType
  <2> QED
    BY <1>1, <2>1, EmptySeq
<1>3. Filled(s) = f[c]
  BY DEF Filled
<1> HIDE DEF f, n
<1>4. n \in S
  BY <1>1, <1>2 DEF Fits
<1>5. \E k \in 0 .. n : k \in S /\ \A j \in 0 .. (k - 1) : j \notin S
  <2> HIDE DEF S
  <2> QED
    BY <1>1, <1>4, LeastUpTo
<1>6. \E k \in 0 .. n : P(k)
  <2>1. PICK k \in 0 .. n : k \in S /\ \A j \in 0 .. (k - 1) : j \notin S
    BY <1>5
  <2>2. \A j \in 0 .. (k - 1) : j \in 0 .. n
    BY <1>1
  <2> QED
    BY <2>1, <2>2
<1>7. c \in 0 .. n /\ P(c)
  <2> HIDE DEF P
  <2> QED
    BY <1>6
<1>8. c \in 0 .. n /\ ~Fits(f[c])
  BY <1>7
<1> HIDE DEF c
<1> QED
  BY <1>3, <1>8 DEF f, n

LEMMA AllCommittedIn ==
  ASSUME NEW s \in GoodType, NEW G, s \in G,
         \A x \in G \cap GoodType : x.bf.buffer # <<>> => CommitFirst(x) \in G
  PROVE  LET c == AllCommitted(s)
         IN  c \in GoodType /\ c \in G /\ c.bf.buffer = <<>>
<1> DEFINE n == Len(s.bf.buffer)
           f == Commits(s)
<1>1. n \in Nat /\ n \in 0 .. n /\ n - n = 0
  <2>1. n \in Nat
    BY CommitsIs
  <2> QED
    BY <2>1
<1>2. f[n] \in G
  <2>1. \A k \in 0 .. n : f[k] \in G
    BY CommitsIn
  <2> QED
    BY <1>1, <2>1
<1>3. f[n] \in GoodType /\ Len(f[n].bf.buffer) = 0
  <2>1. \A k \in 0 .. n : f[k] \in GoodType /\ Len(f[k].bf.buffer) = n - k
    BY CommitsIs
  <2> HIDE DEF f, n
  <2> QED
    BY <1>1, <2>1
<1>4. f[n].bf.buffer = <<>>
  <2>1. f[n].bf.buffer \in Seq(PacketType)
    BY <1>3, StateFields DEF GoodType
  <2> QED
    BY <1>3, <2>1, EmptySeq
<1> QED
  BY <1>2, <1>3, <1>4 DEF AllCommitted

LEMMA SyncBufferIn ==
  ASSUME NEW s \in GoodType, NEW G, s \in G,
         \A x \in G \cap GoodType : x.bf.buffer # <<>> => CommitFirst(x) \in G
  PROVE  LET c == SyncBuffer(s)
         IN  c \in GoodType /\ c \in G /\ ~Fits(c)
<1> DEFINE t == Trimmed(s)
<1>1. t \in GoodType /\ t \in G
  <2>1. PICK k \in 0 .. Len(s.bf.buffer) : t = Commits(s)[k]
    BY TrimmedIs
  <2>2. Commits(s)[k] \in G
    BY CommitsIn
  <2>3. Commits(s)[k] \in GoodType
    BY CommitsIs
  <2> QED
    BY <2>1, <2>2, <2>3
<1> HIDE DEF t
<1>2. PICK k \in 0 .. Len(t.bf.buffer) :
        Filled(t) = Commits(t)[k] /\ ~Fits(Commits(t)[k])
  BY <1>1, FilledIs
<1>3. Commits(t)[k] \in G
  BY <1>1, CommitsIn
<1>4. Commits(t)[k] \in GoodType
  BY <1>1, CommitsIs
<1> QED
  BY <1>2, <1>3, <1>4 DEF SyncBuffer, t

-----------------------------------------------------------------------------
(* Packets, and where they go.                                             *)

LEMMA PacketOfIs ==
  ASSUME NEW t \in Int, NEW n \in Nat \ {0}, given \in Nat
  PROVE  LET d == Data(t, n)
             p == PacketOf(t, d)
         IN  /\ d \in SamplesType /\ Len(d) = n
             /\ \A k \in 1 .. n : d[k] = <<given + k, t + k - 1>>
             /\ p \in PacketType /\ p.stime = t /\ p.data = d /\ p.id = given + 1
             /\ p.flush = FALSE /\ etime(p) = t + n
<1> DEFINE d == Data(t, n)
<1>1. d \in SamplesType /\ Len(d) = n /\ \A k \in 1 .. n : d[k] = <<given + k, t + k - 1>>
  BY DEF Data, SamplesType, SampleType
<1>2. d[1] = <<given + 1, (t + 1) - 1>> /\ d # <<>>
  BY <1>1
<1>3. d[1][1] = given + 1
  BY <1>2
<1> HIDE DEF d
<1> DEFINE p == PacketOf(t, d)
<1>4. /\ p.stime = t /\ p.data = d /\ p.id = d[1][1] /\ p.flush = FALSE
      /\ p = [id |-> given + 1, stime |-> t, data |-> d, flush |-> FALSE]
  BY <1>3 DEF PacketOf
<1>5. p \in PacketType
  BY <1>1, <1>2, <1>4 DEF PacketType
<1>6. etime(p) = t + n
  BY <1>1, <1>4 DEF etime
<1> QED
  BY <1>1, <1>3, <1>4, <1>5, <1>6 DEF d

\* The new packet comes before the first one that ends later.
InsertedAt(b, p, r, k) ==
  /\ r = SubSeq(b, 1, k - 1) \o <<p>> \o SubSeq(b, k, Len(b))
  /\ k = Len(b) + 1 \/ etime(b[k]) > etime(p)
  /\ \A j \in 1 .. (k - 1) : etime(b[j]) <= etime(p)

LEMMA InsertIs ==
  ASSUME NEW b \in Seq(PacketType), NEW p \in PacketType
  PROVE  \E k \in 1 .. (Len(b) + 1) : InsertedAt(b, p, Insert(b, p), k)
<1> DEFINE n == Len(b)
           P(k) == /\ k = n + 1 \/ etime(b[k]) > etime(p)
                   /\ \A j \in 1 .. (k - 1) : etime(b[j]) <= etime(p)
           c == CHOOSE k \in 1 .. (n + 1) : P(k)
           S == {k \in 0 .. n : k = n \/ etime(b[k + 1]) > etime(p)}
<1>1. n \in Nat /\ n \in S
  OBVIOUS
<1>2. PICK k \in 0 .. n : k \in S /\ \A j \in 0 .. (k - 1) : j \notin S
  <2> HIDE DEF S, n
  <2> QED
    BY <1>1, LeastUpTo
<1>3. P(k + 1)
  <2>1. k + 1 = n + 1 \/ etime(b[k + 1]) > etime(p)
    BY <1>2
  <2>2. ASSUME NEW j \in 1 .. ((k + 1) - 1) PROVE etime(b[j]) <= etime(p)
    <3>1. j - 1 \in 0 .. (k - 1) /\ j - 1 \in 0 .. n /\ j - 1 # n /\ (j - 1) + 1 = j /\ j \in 1 .. n
      BY <1>1
    <3>2. ~(etime(b[j]) > etime(p))
      BY <1>2, <3>1
    <3>3. etime(b[j]) \in Int /\ etime(p) \in Int
      <4>1. b[j] \in PacketType
        BY <3>1, ElementOfSeq
      <4> QED
        BY <4>1, EtimeType
    <3> QED
      BY <3>2, <3>3
  <2> QED
    BY <2>1, <2>2
<1>4. k + 1 \in 1 .. (n + 1)
  BY <1>1
<1>5. c \in 1 .. (n + 1) /\ P(c)
  <2> HIDE DEF P
  <2> QED
    BY <1>3, <1>4
<1>6. Insert(b, p) = SubSeq(b, 1, c - 1) \o <<p>> \o SubSeq(b, c, n)
  BY DEF Insert, InsertAt
<1> HIDE DEF c
<1>7. InsertedAt(b, p, Insert(b, p), c)
  BY <1>5, <1>6 DEF InsertedAt
<1> QED
  BY <1>5, <1>7

\* The samples of p have come between those of the packets in b.
Around(b, r, p) ==
  \E u, w \in SamplesType : /\ Concat(DataOf(b)) = u \o w
                           /\ Concat(DataOf(r)) = (u \o p.data) \o w

\* The packets before and after the new one stay where they were.
LEMMA InsertedIs ==
  ASSUME NEW b \in Seq(PacketType), NEW p \in PacketType, NEW r,
         NEW k \in 1 .. (Len(b) + 1), InsertedAt(b, p, r, k)
  PROVE  /\ r \in Seq(PacketType) /\ Len(r) = Len(b) + 1 /\ r[k] = p
         /\ \A j \in 1 .. (k - 1) : r[j] = b[j]
         /\ \A j \in (k + 1) .. (Len(b) + 1) : r[j] = b[j - 1]
         /\ Around(b, r, p)
<1> DEFINE n == Len(b)
           x == SubSeq(b, 1, k - 1)
           y == <<p>>
           z == SubSeq(b, k, n)
           v == x \o y
<1>1. n \in Nat /\ k - 1 \in 0 .. n /\ k \in Int
  OBVIOUS
<1>2. /\ x \in Seq(PacketType) /\ Len(x) = k - 1 /\ \A i \in 1 .. (k - 1) : x[i] = b[i]
  <2>1. \A i \in 1 .. (k - 1) : b[i] \in PacketType
    BY <1>1, ElementOfSeq
  <2>2. /\ x \in Seq(PacketType)
        /\ Len(x) = IF 1 <= k - 1 THEN (k - 1) - 1 + 1 ELSE 0
        /\ \A i \in 1 .. ((k - 1) - 1 + 1) : x[i] = b[1 + i - 1]
    BY <1>1, <2>1, SubSeqProperties
  <2> HIDE DEF x
  <2> QED
    BY <1>1, <2>2
<1>3. /\ z \in Seq(PacketType) /\ Len(z) = n + 1 - k
      /\ \A i \in 1 .. (n + 1 - k) : z[i] = b[k + i - 1]
  <2>1. \A i \in k .. n : b[i] \in PacketType
    BY <1>1, ElementOfSeq
  <2>2. /\ z \in Seq(PacketType)
        /\ Len(z) = IF k <= n THEN n - k + 1 ELSE 0
        /\ \A i \in 1 .. (n - k + 1) : z[i] = b[k + i - 1]
    BY <1>1, <2>1, SubSeqProperties
  <2> HIDE DEF z
  <2> QED
    BY <1>1, <2>2
<1>4. y \in Seq(PacketType) /\ Len(y) = 1 /\ y[1] = p
  OBVIOUS
<1>5. r = v \o z
  BY DEF InsertedAt
<1> HIDE DEF x, y, z, n
<1>6. /\ v \in Seq(PacketType) /\ Len(v) = k
      /\ \A i \in 1 .. (k - 1) : v[i] = b[i]
      /\ v[k] = p
  <2>1. /\ v \in Seq(PacketType) /\ Len(v) = Len(x) + Len(y)
        /\ \A i \in 1 .. (Len(x) + Len(y)) :
             v[i] = IF i <= Len(x) THEN x[i] ELSE y[i - Len(x)]
    BY <1>2, <1>4, ConcatProperties
  <2> HIDE DEF v
  <2>2. (k - 1) + 1 = k /\ k - (k - 1) = 1 /\ k \in 1 .. k /\ ~(k <= k - 1)
    BY <1>1
  <2> QED
    BY <1>1, <1>2, <1>4, <2>1, <2>2
<1>7. /\ r \in Seq(PacketType) /\ Len(r) = Len(v) + Len(z)
      /\ \A i \in 1 .. (Len(v) + Len(z)) :
           r[i] = IF i <= Len(v) THEN v[i] ELSE z[i - Len(v)]
  <2> HIDE DEF v
  <2> QED
    BY <1>3, <1>5, <1>6, ConcatProperties
<1> HIDE DEF v
<1>8. Len(r) = n + 1
  BY <1>1, <1>3, <1>6, <1>7
<1>9. r[k] = p /\ \A j \in 1 .. (k - 1) : r[j] = b[j]
  BY <1>1, <1>3, <1>6, <1>7
<1>10. ASSUME NEW j \in (k + 1) .. (n + 1) PROVE r[j] = b[j - 1]
  <2>1. /\ j \in 1 .. (k + (n + 1 - k)) /\ ~(j <= k)
        /\ j - k \in 1 .. (n + 1 - k) /\ k + (j - k) - 1 = j - 1
    BY <1>1
  <2>2. r[j] = z[j - k]
    BY <1>3, <1>6, <1>7, <2>1
  <2> QED
    BY <1>3, <2>1, <2>2
<1>11. b = x \o z
  <2>1. /\ 1 \in 1 .. (Len(b) + 1) /\ k - 1 \in (1 - 1) .. Len(b)
        /\ Len(b) \in (k - 1) .. Len(b) /\ (k - 1) + 1 = k
    BY <1>1 DEF n
  <2>2. SubSeq(b, 1, k - 1) \o SubSeq(b, (k - 1) + 1, Len(b)) = SubSeq(b, 1, Len(b))
    BY <2>1, ConcatAdjacentSubSeq
  <2>3. SubSeq(b, 1, Len(b)) = b
    BY SubSeqFull
  <2> QED
    BY <2>1, <2>2, <2>3 DEF x, z, n
<1> DEFINE u == Concat(DataOf(x))
           w == Concat(DataOf(z))
<1>12. u \in SamplesType /\ w \in SamplesType
  BY <1>2, <1>3, DataOfType
<1>13. Concat(DataOf(b)) = u \o w
  BY <1>2, <1>3, <1>11, WaitSplit
<1>14. Concat(DataOf(v)) = u \o p.data
  <2>1. Concat(DataOf(x \o y)) = Concat(DataOf(x)) \o Concat(DataOf(y))
    BY <1>2, <1>4, WaitSplit
  <2>2. Concat(DataOf(y)) = p.data
    BY WaitOne DEF y
  <2> QED
    BY <2>1, <2>2 DEF v
<1>15. Concat(DataOf(r)) = (u \o p.data) \o w
  <2>1. Concat(DataOf(v \o z)) = Concat(DataOf(v)) \o Concat(DataOf(z))
    BY <1>3, <1>6, WaitSplit
  <2> QED
    BY <1>5, <1>14, <2>1
<1> HIDE DEF u, w
<1>16. Around(b, r, p)
  BY <1>12, <1>13, <1>15 DEF Around
<1> QED
  BY <1>7, <1>8, <1>9, <1>10, <1>16 DEF n

-----------------------------------------------------------------------------
(* Changes of the buffer alone.                                            *)

SameEncoder(s, c) ==
  c.clk = s.clk /\ c.enc = s.enc /\ c.out = s.out /\ EmitOf(c) = EmitOf(s)

LEMMA PutBfIn ==
  ASSUME NEW s \in GoodType, NEW e \in BfType
  PROVE  LET c == [s EXCEPT !.bf = e]
         IN  c \in GoodType /\ c.bf = e /\ SameEncoder(s, c)
<1> DEFINE c == [s EXCEPT !.bf = e]
<1>1. c \in StateType /\ c.clk = s.clk /\ c.enc = s.enc /\ c.out = s.out /\ c.bf = e
  BY PutBf DEF GoodType
<1> HIDE DEF c
<1>2. c \in GoodType
  BY <1>1 DEF GoodType
<1> QED
  BY <1>1, <1>2 DEF c, SameEncoder, EmitOf

LEMMA PutLast ==
  ASSUME NEW s \in GoodType, NEW n \in Int
  PROVE  LET c == [s EXCEPT !.bf.last = n]
         IN  /\ c \in GoodType /\ SameEncoder(s, c)
             /\ c.bf.buffer = s.bf.buffer /\ c.bf.current = s.bf.current /\ c.bf.last = n
<1> DEFINE e == [s.bf EXCEPT !.last = n]
           c == [s EXCEPT !.bf = e]
<1>1. e \in BfType /\ e.buffer = s.bf.buffer /\ e.current = s.bf.current /\ e.last = n
  BY StateFields DEF GoodType, BfType
<1>2. [s EXCEPT !.bf.last = n] = c
  OBVIOUS
<1> HIDE DEF e
<1>3. c \in GoodType /\ c.bf = e /\ SameEncoder(s, c)
  BY <1>1, PutBfIn
<1> HIDE DEF c
<1> QED
  BY <1>1, <1>2, <1>3

LEMMA PutCurrent ==
  ASSUME NEW s \in GoodType, NEW n \in Int
  PROVE  LET c == [s EXCEPT !.bf.current = n]
         IN  /\ c \in GoodType /\ SameEncoder(s, c)
             /\ c.bf.buffer = s.bf.buffer /\ c.bf.current = n /\ c.bf.last = s.bf.last
<1> DEFINE e == [s.bf EXCEPT !.current = n]
           c == [s EXCEPT !.bf = e]
<1>1. e \in BfType /\ e.buffer = s.bf.buffer /\ e.current = n /\ e.last = s.bf.last
  BY StateFields DEF GoodType, BfType
<1>2. [s EXCEPT !.bf.current = n] = c
  OBVIOUS
<1> HIDE DEF e
<1>3. c \in GoodType /\ c.bf = e /\ SameEncoder(s, c)
  BY <1>1, PutBfIn
<1> HIDE DEF c
<1> QED
  BY <1>1, <1>2, <1>3

LEMMA PutBuffer ==
  ASSUME NEW s \in GoodType, NEW b \in Seq(PacketType)
  PROVE  LET c == [s EXCEPT !.bf.buffer = b]
         IN  /\ c \in GoodType /\ SameEncoder(s, c)
             /\ c.bf.buffer = b /\ c.bf.current = s.bf.current /\ c.bf.last = s.bf.last
<1> DEFINE e == [s.bf EXCEPT !.buffer = b]
           c == [s EXCEPT !.bf = e]
<1>1. e \in BfType /\ e.buffer = b /\ e.current = s.bf.current /\ e.last = s.bf.last
  BY StateFields DEF GoodType, BfType
<1>2. [s EXCEPT !.bf.buffer = b] = c
  OBVIOUS
<1> HIDE DEF e
<1>3. c \in GoodType /\ c.bf = e /\ SameEncoder(s, c)
  BY <1>1, PutBfIn
<1> HIDE DEF c
<1> QED
  BY <1>1, <1>2, <1>3

\* A packet is put into the buffer, and is the one that samples may continue.
Placed(s, p) == [s EXCEPT !.bf.buffer = Insert(@, p), !.bf.current = p.id]

LEMMA PlacedIs ==
  ASSUME NEW s \in GoodType, NEW p \in PacketType
  PROVE  LET c == Placed(s, p)
         IN  /\ c \in GoodType /\ SameEncoder(s, c)
             /\ c.bf.buffer = Insert(s.bf.buffer, p) /\ c.bf.current = p.id
             /\ c.bf.last = s.bf.last
<1> DEFINE b == Insert(s.bf.buffer, p)
           i == p.id
           x == [s EXCEPT !.bf.buffer = b]
           c == [x EXCEPT !.bf.current = i]
<1>1. b \in Seq(PacketType) /\ i \in Int
  <2>1. s.bf.buffer \in Seq(PacketType)
    BY StateFields DEF GoodType
  <2>2. PICK k \in 1 .. (Len(s.bf.buffer) + 1) : InsertedAt(s.bf.buffer, p, b, k)
    BY <2>1, InsertIs
  <2>3. b \in Seq(PacketType)
    BY <2>1, <2>2, InsertedIs
  <2> QED
    BY <2>3 DEF PacketType
<1>2. Placed(s, p) = c
  BY DEF Placed
<1> HIDE DEF b, i
<1>3. /\ x \in GoodType /\ SameEncoder(s, x)
      /\ x.bf.buffer = b /\ x.bf.current = s.bf.current /\ x.bf.last = s.bf.last
  BY <1>1, PutBuffer
<1> HIDE DEF x
<1>4. /\ c \in GoodType /\ SameEncoder(x, c)
      /\ c.bf.buffer = x.bf.buffer /\ c.bf.current = i /\ c.bf.last = x.bf.last
  BY <1>1, <1>3, PutCurrent
<1> HIDE DEF c
<1> QED
  BY <1>2, <1>3, <1>4 DEF SameEncoder, b, i

LEMMA CommittedIs ==
  ASSUME NEW s \in GoodType, NEW p \in PacketType
  PROVE  LET c == Committed(s, p)
         IN  /\ c \in GoodType /\ EmitOf(c) = EmitOf(s) \o p.data
             /\ c.bf.buffer = s.bf.buffer /\ c.bf.current = s.bf.current
             /\ c.bf.last = etime(p)
<1> DEFINE e == etime(p)
           t == p.stime
           d == p.data
           a == [s EXCEPT !.bf.last = e]
           c == CommitData(a, t, d)
<1>1. e \in Int /\ t \in Int /\ d \in SamplesType
  BY EtimeType
<1>2. Committed(s, p) = c
  BY DEF Committed
<1> HIDE DEF e, t, d
<1>3. /\ a \in GoodType /\ SameEncoder(s, a)
      /\ a.bf.buffer = s.bf.buffer /\ a.bf.current = s.bf.current /\ a.bf.last = e
  BY <1>1, PutLast
<1> HIDE DEF a
<1>4. /\ c \in StateType /\ c.bf = a.bf /\ EmitOf(c) = EmitOf(a) \o d
      /\ mode.kind = "mseed" => c.enc = a.enc
  BY <1>1, <1>3, CommitDataIs DEF GoodType
<1> HIDE DEF c
<1>5. c \in GoodType
  BY <1>3, <1>4 DEF GoodType
<1> QED
  BY <1>2, <1>3, <1>4, <1>5 DEF SameEncoder, d, e

\* A packet is committed that is too old, or when there is no backfilling.
LEMMA CommitIn ==
  ASSUME NEW s \in GoodType, NEW t \in Int, NEW d \in SamplesType
  PROVE  LET c == CommitData(s, t, d)
         IN  c \in GoodType /\ c.bf = s.bf /\ EmitOf(c) = EmitOf(s) \o d
<1> DEFINE c == CommitData(s, t, d)
<1>1. /\ c \in StateType /\ c.bf = s.bf /\ EmitOf(c) = EmitOf(s) \o d
      /\ mode.kind = "mseed" => c.enc = s.enc
  BY CommitDataIs DEF GoodType
<1> HIDE DEF c
<1>2. c \in GoodType
  BY <1>1 DEF GoodType
<1> QED
  BY <1>1, <1>2 DEF c

\* The packets after a change of the current one.
Continued(b, c, data, flush) ==
  /\ Len(c) = Len(b)
  /\ \A k \in 1 .. Len(b) :
       /\ c[k].id = b[k].id /\ c[k].stime = b[k].stime
       /\ c[k].data = b[k].data \/ c[k].data = b[k].data \o data

LEMMA WithCurrentIs ==
  ASSUME NEW s \in GoodType, NEW data \in SamplesType, NEW flush \in BOOLEAN
  PROVE  LET c == WithCurrent(s, data, flush)
         IN  /\ c \in GoodType /\ SameEncoder(s, c)
             /\ c.bf.current = s.bf.current /\ c.bf.last = s.bf.last
             /\ Continued(s.bf.buffer, c.bf.buffer, data, flush)
<1> DEFINE b == s.bf.buffer
           q(k) == [b[k] EXCEPT !.data = @ \o data, !.flush = @ \/ flush]
           y == [k \in DOMAIN b |-> IF b[k].id = bf.current THEN q(k) ELSE b[k]]
           c == [s EXCEPT !.bf.buffer = y]
<1>1. b \in Seq(PacketType)
  BY StateFields DEF GoodType
<1>2. WithCurrent(s, data, flush) = c
  BY DEF WithCurrent
<1> HIDE DEF b
<1>3. DOMAIN b = 1 .. Len(b) /\ Len(b) \in Nat
  BY <1>1
<1>4. ASSUME NEW k \in 1 .. Len(b)
      PROVE  /\ q(k) \in PacketType /\ q(k).id = b[k].id /\ q(k).stime = b[k].stime
             /\ q(k).data = b[k].data \o data
  <2> DEFINE p == b[k]
             d == p.data \o data
             g == p.flush \/ flush
             x == [p EXCEPT !.data = d]
  <2>1. p \in PacketType
    BY <1>1, ElementOfSeq
  <2>2. p.data \in SamplesType /\ p.data # <<>> /\ p.flush \in BOOLEAN
    BY <2>1 DEF PacketType
  <2>3. d \in SamplesType \ {<<>>} /\ g \in BOOLEAN
    <3>1. d \in SamplesType
      BY <2>2, Joining
    <3>2. d # <<>>
      BY <2>2, ConcatEqualIffEmpty DEF SamplesType
    <3>3. g \in BOOLEAN
      BY <2>2
    <3> QED
      BY <3>1, <3>2, <3>3
  <2>4. q(k) = [x EXCEPT !.flush = g]
    OBVIOUS
  <2> HIDE DEF p, d, g
  <2>5. x \in PacketType /\ x.id = p.id /\ x.stime = p.stime /\ x.data = d
    BY <2>1, <2>3 DEF PacketType
  <2> HIDE DEF x, q
  <2>6. /\ q(k) \in PacketType /\ q(k).id = x.id /\ q(k).stime = x.stime
        /\ q(k).data = x.data
    BY <2>3, <2>4, <2>5 DEF PacketType
  <2> QED
    BY <2>5, <2>6 DEF p, d
<1>5. ASSUME NEW k \in 1 .. Len(b)
      PROVE  /\ y[k] \in PacketType /\ y[k].id = b[k].id /\ y[k].stime = b[k].stime
             /\ y[k].data = b[k].data \/ y[k].data = b[k].data \o data
  <2>1. y[k] = IF b[k].id = bf.current THEN q(k) ELSE b[k]
    BY <1>3
  <2>2. b[k] \in PacketType
    BY <1>1, ElementOfSeq
  <2> HIDE DEF y, q
  <2> QED
    BY <1>4, <2>1, <2>2
<1>6. y = [k \in 1 .. Len(b) |-> y[k]]
  BY <1>3
<1> HIDE DEF y, q
<1>7. y \in Seq(PacketType)
  BY <1>3, <1>5, <1>6, IsASeq
<1>8. Len(y) = Len(b)
  BY <1>3, <1>6, <1>7
<1>9. Continued(b, y, data, flush)
  BY <1>5, <1>8 DEF Continued
<1>10. /\ c \in GoodType /\ SameEncoder(s, c)
       /\ c.bf.buffer = y /\ c.bf.current = s.bf.current /\ c.bf.last = s.bf.last
  BY <1>7, PutBuffer
<1> HIDE DEF c
<1> QED
  BY <1>2, <1>9, <1>10 DEF b

-----------------------------------------------------------------------------
(* The steps.                                                              *)

Away(s) == [s EXCEPT !.bf.current = None]

LEMMA AwayIs ==
  ASSUME NEW s \in GoodType
  PROVE  LET c == Away(s)
         IN  /\ c \in GoodType /\ SameEncoder(s, c)
             /\ c.bf.buffer = s.bf.buffer /\ c.bf.current = None /\ c.bf.last = s.bf.last
<1>1. None \in Int
  BY DEF None
<1> QED
  BY <1>1, PutCurrent DEF Away

\* The four ways of a packet with a time.
LEMMA BackfilledIs ==
  ASSUME NEW s \in GoodType, NEW p \in PacketType
  PROVE  \/ s.bf.last = None /\ Backfilled(s, p) = Committed(s, p)
         \/ /\ s.bf.last # None /\ p.stime - s.bf.last >= 1
            /\ Backfilled(s, p) = SyncBuffer(Placed(s, p))
         \/ /\ s.bf.last # None /\ p.stime - s.bf.last < 1 /\ etime(p) < s.bf.last
            /\ Backfilled(s, p) = CommitData(Away(s), p.stime, p.data)
         \/ /\ s.bf.last # None /\ p.stime - s.bf.last < 1 /\ etime(p) >= s.bf.last
            /\ Backfilled(s, p) = SyncBuffer(Committed(Away(s), p))
<1>1. s.bf.last \in Int /\ etime(p) \in Int /\ p.stime \in Int
  BY StateFields, EtimeType DEF GoodType
<1>2. TooOld(Away(s), p) <=> etime(p) < s.bf.last
  BY AwayIs DEF TooOld
<1>3. CASE s.bf.last = None
  BY <1>3 DEF Backfilled
<1>4. CASE s.bf.last # None /\ p.stime - s.bf.last >= 1
  BY <1>4 DEF Backfilled, Placed
<1>5. CASE s.bf.last # None /\ ~(p.stime - s.bf.last >= 1)
  <2>1. Backfilled(s, p) = IF TooOld(Away(s), p) THEN CommitData(Away(s), p.stime, p.data)
                           ELSE SyncBuffer(Committed(Away(s), p))
    BY <1>5 DEF Backfilled, Away
  <2> QED
    BY <1>1, <1>2, <1>5, <2>1
<1> QED
  BY <1>3, <1>4, <1>5

LEMMA SyncBufferType ==
  ASSUME NEW s \in GoodType
  PROVE  SyncBuffer(s) \in GoodType
<1>1. \A x \in GoodType \cap GoodType : x.bf.buffer # <<>> => CommitFirst(x) \in GoodType
  BY CommitFirstIs
<1> QED
  BY <1>1, SyncBufferIn

LEMMA BackfilledType ==
  ASSUME NEW s \in GoodType, NEW p \in PacketType
  PROVE  Backfilled(s, p) \in GoodType
<1>1. CASE s.bf.last = None /\ Backfilled(s, p) = Committed(s, p)
  BY <1>1, CommittedIs
<1>2. CASE Backfilled(s, p) = SyncBuffer(Placed(s, p))
  BY <1>2, PlacedIs, SyncBufferType
<1>3. CASE Backfilled(s, p) = CommitData(Away(s), p.stime, p.data)
  BY <1>3, AwayIs, EtimeType, CommitIn
<1>4. CASE Backfilled(s, p) = SyncBuffer(Committed(Away(s), p))
  BY <1>4, AwayIs, CommittedIs, SyncBufferType
<1> QED
  BY <1>1, <1>2, <1>3, <1>4, BackfilledIs

LEMMA FlushType ==
  ASSUME NEW s \in GoodType
  PROVE  Flush(s) \in GoodType
<1>1. /\ Flush(s) \in StateType /\ Flush(s).enc.pending = <<>> /\ ~Flush(s).enc.open
      /\ s.enc.data = <<>> => Flush(s).enc.data = <<>>
  BY FlushIs DEF GoodType
<1> QED
  BY <1>1 DEF GoodType

LEMMA FlushedType ==
  ASSUME NEW s \in GoodType
  PROVE  Flushed(s) \in GoodType
<1>1. AllCommitted(s) \in GoodType
  <2>1. \A x \in GoodType \cap GoodType : x.bf.buffer # <<>> => CommitFirst(x) \in GoodType
    BY CommitFirstIs
  <2> QED
    BY <2>1, AllCommittedIn
<1>2. Flush(AllCommitted(s)) \in GoodType
  BY <1>1, FlushType
<1> QED
  BY <1>1, <1>2 DEF Flushed

GoodInv ==
  /\ mode \in Mode
  /\ State \in GoodType
  /\ next \in Int /\ given \in Nat

LEMMA StateIs ==
  ASSUME NEW r \in StateType, clk' = r.clk, enc' = r.enc, out' = r.out, bf' = r.bf
  PROVE  State' = r
<1>1. r = [clk |-> r.clk, enc |-> r.enc, out |-> r.out, bf |-> r.bf]
  BY DEF StateType
<1> QED
  BY <1>1 DEF State

LEMMA HandledIs ==
  ASSUME NEW r \in GoodType, NEW t, NEW n, Handled(r, t, n)
  PROVE  /\ State' = r /\ mode' = mode /\ ended' = ended /\ next' = t /\ given' = given + n
         /\ State' \in GoodType'
<1>1. /\ State' = r /\ mode' = mode /\ ended' = ended /\ next' = t /\ given' = given + n
  BY StateIs DEF Handled, GoodType
<1>2. GoodType' = GoodType
  BY <1>1 DEF GoodType, StateType, EncType, BfType, ClkType, RecordType, PacketType,
     SamplesType, SampleType
<1> QED
  BY <1>1, <1>2

\* What the handlers leave behind.
LEMMA SendWithTimeIs ==
  ASSUME GoodInv, NEW t \in Times, NEW n \in Sizes, SendWithTime(t, n)
  PROVE  LET p == PacketOf(t, Data(t, n))
             r == IF mode.capacity > 0 THEN Backfilled(State, p)
                  ELSE CommitData(State, t, p.data)
         IN  /\ p \in PacketType /\ p.data = Data(t, n) /\ p.stime = t
             /\ r \in GoodType /\ Handled(r, t + n, n)
             /\ t \in Nat /\ n \in Nat \ {0}
<1> DEFINE p == PacketOf(t, Data(t, n))
           r == IF mode.capacity > 0 THEN Backfilled(State, p)
                ELSE CommitData(State, t, p.data)
<1>1. t \in Nat /\ n \in Nat \ {0} /\ State \in GoodType /\ given \in Nat
  BY RawAssumption DEF GoodInv
<1>2. p \in PacketType /\ p.data = Data(t, n) /\ p.stime = t
  <2>1. t \in Int /\ given \in Nat
    BY <1>1
  <2> QED
    BY <1>1, <2>1, PacketOfIs
<1>3. Handled(r, t + n, n)
  BY DEF SendWithTime
<1> HIDE DEF p
<1>4. r \in GoodType
  <2>1. Backfilled(State, p) \in GoodType
    BY <1>1, <1>2, BackfilledType
  <2>2. CommitData(State, t, p.data) \in GoodType
    <3>1. t \in Int /\ p.data \in SamplesType
      BY <1>1, <1>2, EtimeType
    <3> QED
      BY <1>1, <3>1, CommitIn
  <2> QED
    BY <2>1, <2>2
<1> HIDE DEF r
<1> QED
  BY <1>1, <1>2, <1>3, <1>4 DEF p, r

LEMMA SendRawIs ==
  ASSUME GoodInv, NEW n \in Sizes, SendRaw(n)
  PROVE  LET data == Data(next, n)
             s == Samples(State, data)
             r == IF bf.current # None THEN SyncBuffer(WithCurrent(State, data, FALSE))
                  ELSE IF mode.capacity > 0 THEN [s EXCEPT !.bf.last = @ + n]
                  ELSE s
         IN  r \in GoodType /\ Handled(r, next + n, n) /\ ~mode.timed /\ n \in Nat \ {0}
<1> DEFINE data == Data(next, n)
           s == Samples(State, data)
           w == WithCurrent(State, data, FALSE)
           y == SyncBuffer(w)
           q == [s EXCEPT !.bf.last = @ + n]
           r == IF bf.current # None THEN y
                ELSE IF mode.capacity > 0 THEN q ELSE s
<1>1. n \in Nat \ {0} /\ State \in GoodType /\ next \in Int /\ given \in Nat
  BY RawAssumption DEF GoodInv
<1>2. data \in SamplesType
  BY <1>1, PacketOfIs
<1>3. Handled(r, next + n, n) /\ ~mode.timed /\ mode.kind = "raw"
  BY DEF SendRaw, Continues
<1> HIDE DEF data
<1>4. s \in GoodType
  <2>1. s \in StateType
    BY <1>1, <1>2, SamplesIs DEF GoodType
  <2> QED
    BY <1>3, <2>1 DEF GoodType
<1>5. y \in GoodType
  <2>1. w \in GoodType
    BY <1>1, <1>2, WithCurrentIs
  <2> HIDE DEF w
  <2> QED
    BY <2>1, SyncBufferType
<1> HIDE DEF s, y
<1>6. q \in GoodType
  <2> DEFINE m == s.bf.last + n
  <2>1. m \in Int
    BY <1>1, <1>4, StateFields DEF GoodType
  <2>2. q = [s EXCEPT !.bf.last = m]
    OBVIOUS
  <2> HIDE DEF m, q
  <2> QED
    BY <1>4, <2>1, <2>2, PutLast
<1>7. r \in GoodType
  BY <1>4, <1>5, <1>6
<1> HIDE DEF r, q
<1> QED
  BY <1>1, <1>3, <1>7 DEF r, q, y, w, s, data

LEMMA SendGapIs ==
  ASSUME GoodInv, NEW n \in Sizes, SendGap(n)
  PROVE  LET r == FlushAtGap(AddTicks(State, n))
         IN  /\ r \in GoodType /\ Handled(r, next + n, 0) /\ ~mode.timed /\ n \in Nat \ {0}
             /\ r.bf = State.bf /\ EmitOf(r) = EmitOf(State)
<1> DEFINE a == AddTicks(State, n)
           r == FlushAtGap(a)
<1>1. n \in Nat \ {0} /\ State \in StateType
  BY RawAssumption DEF GoodInv, GoodType
<1>2. Handled(r, next + n, 0) /\ ~mode.timed /\ mode.kind = "raw"
  BY DEF SendGap, Continues
<1>3. a \in StateType /\ a.bf = State.bf /\ EmitOf(a) = EmitOf(State)
  BY <1>1, AddTicksIs
<1> HIDE DEF a
<1>4. r \in StateType /\ r.bf = a.bf /\ EmitOf(r) = EmitOf(a)
  BY <1>3, FlushAtGapIs
<1> HIDE DEF r
<1>5. r \in GoodType
  BY <1>2, <1>4 DEF GoodType
<1> QED
  BY <1>1, <1>2, <1>3, <1>4, <1>5 DEF r, a

LEMMA SendFlushIs ==
  ASSUME GoodInv, SendFlush
  PROVE  LET r == IF bf.current # None THEN WithCurrent(State, <<>>, TRUE) ELSE Flush(State)
         IN  /\ r \in GoodType /\ Handled(r, next, 0) /\ mode.kind = "raw"
             /\ WithCurrent(State, <<>>, TRUE) \in GoodType /\ Flush(State) \in GoodType
<1> DEFINE a == WithCurrent(State, <<>>, TRUE)
           b == Flush(State)
           r == IF bf.current # None THEN a ELSE b
<1>1. State \in GoodType
  BY DEF GoodInv
<1>2. Handled(r, next, 0) /\ mode.kind = "raw"
  BY DEF SendFlush
<1>3. a \in GoodType
  <2>1. <<>> \in SamplesType /\ TRUE \in BOOLEAN
    BY DEF SamplesType
  <2> QED
    BY <1>1, <2>1, WithCurrentIs
<1>4. b \in GoodType
  BY <1>1, FlushType
<1> HIDE DEF a, b
<1>5. r \in GoodType
  BY <1>3, <1>4
<1> HIDE DEF r
<1> QED
  BY <1>2, <1>3, <1>4, <1>5 DEF r, a, b

LEMMA EndIs ==
  ASSUME GoodInv, End
  PROVE  LET r == Flushed(State)
         IN  /\ r \in GoodType /\ State' = r /\ State' \in GoodType' /\ mode' = mode
             /\ ended' = TRUE
             /\ given' = given /\ excused' = excused /\ next' = next
<1> DEFINE r == Flushed(State)
<1>1. r \in GoodType
  BY FlushedType DEF GoodInv
<1>2. /\ clk' = r.clk /\ enc' = r.enc /\ out' = r.out /\ bf' = r.bf /\ mode' = mode
      /\ ended' = TRUE /\ given' = given /\ excused' = excused /\ next' = next
  BY DEF End
<1> HIDE DEF r
<1>3. State' = r
  BY <1>1, <1>2, StateIs DEF GoodType
<1>4. GoodType' = GoodType
  BY <1>2 DEF GoodType, StateType, EncType, BfType, ClkType, RecordType, PacketType,
     SamplesType, SampleType
<1> QED
  BY <1>1, <1>2, <1>3, <1>4 DEF r

LEMMA GoodInit ==
  ASSUME Init
  PROVE  GoodInv
<1>1. mode \in Mode
  BY RawAssumption DEF Init
<1>2. clk \in ClkType
  BY DEF Init, ClkType, None
<1>3. enc \in EncType
  BY DEF Init, EncType, None, SamplesType
<1>4. bf \in BfType
  BY DEF Init, BfType, None
<1>5. out \in Seq(RecordType)
  BY DEF Init
<1>6. State \in StateType
  BY <1>2, <1>3, <1>4, <1>5 DEF State, StateType
<1>7. State.enc.data = <<>> /\ State.enc.pending = <<>> /\ ~State.enc.open
  BY DEF Init, State
<1> QED
  BY <1>1, <1>6, <1>7 DEF GoodInv, GoodType, Init, None

LEMMA GoodStep ==
  ASSUME GoodInv, [Next]_vars
  PROVE  GoodInv'
<1>1. ASSUME NEW t \in Times, NEW n \in Sizes, SendWithTime(t, n) PROVE GoodInv'
  BY <1>1, SendWithTimeIs, HandledIs DEF GoodInv
<1>2. ASSUME NEW n \in Sizes, SendRaw(n) PROVE GoodInv'
  <2> DEFINE data == Data(next, n)
             s == Samples(State, data)
             r == IF bf.current # None THEN SyncBuffer(WithCurrent(State, data, FALSE))
                  ELSE IF mode.capacity > 0 THEN [s EXCEPT !.bf.last = @ + n]
                  ELSE s
  <2>1. r \in GoodType /\ Handled(r, next + n, n) /\ n \in Nat
    BY <1>2, SendRawIs
  <2> HIDE DEF r
  <2> QED
    BY <2>1, HandledIs DEF GoodInv
<1>3. ASSUME NEW n \in Sizes, SendGap(n) PROVE GoodInv'
  BY <1>3, SendGapIs, HandledIs DEF GoodInv
<1>4. CASE SendFlush
  <2> DEFINE r == IF bf.current # None THEN WithCurrent(State, <<>>, TRUE)
                  ELSE Flush(State)
  <2>1. r \in GoodType /\ Handled(r, next, 0)
    BY <1>4, SendFlushIs
  <2> HIDE DEF r
  <2> QED
    BY <2>1, HandledIs DEF GoodInv
<1>5. CASE End
  BY <1>5, EndIs DEF GoodInv
<1>6. CASE UNCHANGED vars
  BY <1>6 DEF vars, GoodInv, GoodType, State, StateType, EncType, BfType, ClkType,
     RecordType, PacketType, SamplesType, SampleType
<1> QED
  BY <1>1, <1>2, <1>3, <1>4, <1>5, <1>6 DEF Next

\* The variables have their types: of a packet without samples, a record that is
\* none, or a clock that shows no number, nothing comes into being.
THEOREM TypeCorrect == Spec => []GoodInv
<1>1. Init => GoodInv
  BY GoodInit
<1>2. GoodInv /\ [Next]_vars => GoodInv'
  BY GoodStep
<1> QED
  BY <1>1, <1>2, PTL DEF Spec

-----------------------------------------------------------------------------
(* Conserved.                                                              *)

Numbers(d) == {x[1] : x \in ToSet(d)}

\* b has the samples of a and those of d, in some order.
Added(a, b, d) == Len(b) = Len(a) + Len(d) /\ Numbers(b) = Numbers(a) \cup Numbers(d)

AllOf(s) == EmitOf(s) \o WaitOf(s)

LEMMA NumbersJoin ==
  ASSUME NEW a \in SamplesType, NEW b \in SamplesType
  PROVE  Added(a, a \o b, b)
<1> DEFINE c == a \o b
<1>1. /\ a \in Seq(SampleType) /\ b \in Seq(SampleType) /\ c \in Seq(SampleType)
      /\ Len(c) = Len(a) + Len(b)
      /\ \A i \in 1 .. (Len(a) + Len(b)) :
           c[i] = IF i <= Len(a) THEN a[i] ELSE b[i - Len(a)]
  BY ConcatProperties DEF SamplesType
<1> HIDE DEF c
<1>2. ToSet(c) = ToSet(a) \cup ToSet(b)
  <2>1. DOMAIN a = 1 .. Len(a) /\ DOMAIN b = 1 .. Len(b) /\ DOMAIN c = 1 .. (Len(a) + Len(b))
        /\ Len(a) \in Nat /\ Len(b) \in Nat
    BY <1>1
  <2>2. ASSUME NEW i \in 1 .. Len(a) PROVE a[i] \in ToSet(c)
    <3>1. i \in DOMAIN c /\ c[i] = a[i]
      BY <1>1, <2>1
    <3> QED
      BY <3>1 DEF ToSet
  <2>3. ASSUME NEW i \in 1 .. Len(b) PROVE b[i] \in ToSet(c)
    <3>1. i + Len(a) \in DOMAIN c /\ ~(i + Len(a) <= Len(a)) /\ (i + Len(a)) - Len(a) = i
      BY <2>1
    <3>2. c[i + Len(a)] = b[i]
      BY <1>1, <2>1, <3>1
    <3> QED
      BY <3>1, <3>2 DEF ToSet
  <2>4. ASSUME NEW i \in 1 .. (Len(a) + Len(b)) PROVE c[i] \in ToSet(a) \cup ToSet(b)
    <3>1. CASE i <= Len(a)
      <4>1. i \in DOMAIN a /\ c[i] = a[i]
        BY <1>1, <2>1, <3>1
      <4> QED
        BY <4>1 DEF ToSet
    <3>2. CASE ~(i <= Len(a))
      <4>1. i - Len(a) \in DOMAIN b /\ c[i] = b[i - Len(a)]
        BY <1>1, <2>1, <3>2
      <4> QED
        BY <4>1 DEF ToSet
    <3> QED
      BY <3>1, <3>2
  <2> QED
    BY <2>1, <2>2, <2>3, <2>4 DEF ToSet
<1>3. Numbers(c) = Numbers(a) \cup Numbers(b)
  BY <1>2 DEF Numbers
<1> QED
  BY <1>1, <1>3 DEF Added, c

LEMMA WaitType ==
  ASSUME NEW s \in StateType
  PROVE  WaitOf(s) \in SamplesType /\ AllOf(s) \in SamplesType
<1>1. WaitOf(s) \in SamplesType
  BY StateFields, DataOfType DEF WaitOf
<1> QED
  BY <1>1, EmitType, Joining DEF AllOf

\* Committing packets that wait neither adds a sample nor takes one away.
LEMMA CommittingKeeps ==
  ASSUME NEW A
  PROVE  LET G == {x \in GoodType : AllOf(x) = A}
         IN  \A x \in G \cap GoodType : x.bf.buffer # <<>> => CommitFirst(x) \in G
<1> DEFINE G == {x \in GoodType : AllOf(x) = A}
<1> SUFFICES ASSUME NEW x \in GoodType, AllOf(x) = A, x.bf.buffer # <<>>
             PROVE  CommitFirst(x) \in G
  OBVIOUS
<1> DEFINE c == CommitFirst(x)
           d == Head(x.bf.buffer).data
           e == EmitOf(x)
           w == WaitOf(c)
<1>1. /\ Head(x.bf.buffer) \in PacketType /\ c \in GoodType
      /\ EmitOf(c) = e \o d /\ WaitOf(x) = d \o w
  BY CommitFirstIs
<1>2. e \in SamplesType /\ w \in SamplesType /\ d \in SamplesType
  BY <1>1, EmitType, WaitType, EtimeType DEF GoodType
<1>3. AllOf(c) = (e \o d) \o w /\ AllOf(x) = e \o (d \o w)
  BY <1>1 DEF AllOf
<1> HIDE DEF c, d, e, w
<1>4. (e \o d) \o w = e \o (d \o w)
  BY <1>2, Regroup
<1> QED
  BY <1>1, <1>3, <1>4 DEF c

LEMMA SyncKeeps ==
  ASSUME NEW s \in GoodType
  PROVE  SyncBuffer(s) \in GoodType /\ AllOf(SyncBuffer(s)) = AllOf(s)
<1> DEFINE G == {x \in GoodType : AllOf(x) = AllOf(s)}
<1>1. \A x \in G \cap GoodType : x.bf.buffer # <<>> => CommitFirst(x) \in G
  BY CommittingKeeps
<1>2. s \in G
  OBVIOUS
<1> HIDE DEF G
<1>3. SyncBuffer(s) \in G
  BY <1>1, <1>2, SyncBufferIn
<1> QED
  BY <1>3 DEF G

\* When the encoder has been given d, and the same packets wait.
LEMMA EmittingAdds ==
  ASSUME NEW s \in GoodType, NEW c \in GoodType, NEW d \in SamplesType,
         EmitOf(c) = EmitOf(s) \o d, c.bf.buffer = s.bf.buffer
  PROVE  Added(AllOf(s), AllOf(c), d)
<1> DEFINE e == EmitOf(s)
           w == WaitOf(s)
<1>1. e \in SamplesType /\ w \in SamplesType
  BY EmitType, WaitType DEF GoodType
<1>2. AllOf(s) = e \o w /\ AllOf(c) = (e \o d) \o w
  BY DEF AllOf, WaitOf
<1> HIDE DEF e, w
<1>3. e \o d \in SamplesType
  BY <1>1, Joining
<1>4. Added(e, e \o w, w) /\ Added(e, e \o d, d) /\ Added(e \o d, (e \o d) \o w, w)
  BY <1>1, <1>3, NumbersJoin
<1>5. Len(e) \in Nat /\ Len(d) \in Nat /\ Len(w) \in Nat
  BY <1>1 DEF SamplesType
<1> QED
  BY <1>2, <1>4, <1>5 DEF Added

LEMMA InsertedData ==
  ASSUME NEW b \in Seq(PacketType), NEW p \in PacketType
  PROVE  Around(b, Insert(b, p), p)
<1>1. PICK k \in 1 .. (Len(b) + 1) : InsertedAt(b, p, Insert(b, p), k)
  BY InsertIs
<1> QED
  BY <1>1, InsertedIs

LEMMA PlacingAdds ==
  ASSUME NEW s \in GoodType, NEW p \in PacketType
  PROVE  Added(AllOf(s), AllOf(Placed(s, p)), p.data)
<1> DEFINE b == s.bf.buffer
           r == Insert(b, p)
           e == EmitOf(s)
           d == p.data
           c == Placed(s, p)
<1>1. b \in Seq(PacketType) /\ e \in SamplesType /\ d \in SamplesType
  BY StateFields, EmitType, EtimeType DEF GoodType
<1>2. EmitOf(c) = e /\ c.bf.buffer = r
  BY PlacedIs DEF SameEncoder
<1>3. \E u \in SamplesType, w \in SamplesType :
        Concat(DataOf(b)) = u \o w /\ Concat(DataOf(r)) = (u \o d) \o w
  <2> HIDE DEF b
  <2> QED
    BY <1>1, InsertedData DEF Around, d, r
<1>4. PICK u \in SamplesType, w \in SamplesType :
        Concat(DataOf(b)) = u \o w /\ Concat(DataOf(r)) = (u \o d) \o w
  BY <1>3
<1>5. AllOf(s) = e \o (u \o w) /\ AllOf(c) = e \o ((u \o d) \o w)
  BY <1>2, <1>4 DEF AllOf, WaitOf
<1> HIDE DEF d, e, c, r, b
<1>6. /\ u \o w \in SamplesType /\ u \o d \in SamplesType /\ (u \o d) \o w \in SamplesType
  <2>1. u \o w \in SamplesType /\ u \o d \in SamplesType
    BY <1>1, Joining
  <2> QED
    BY <2>1, Joining
<1>7. /\ Added(u, u \o w, w) /\ Added(u, u \o d, d) /\ Added(u \o d, (u \o d) \o w, w)
      /\ Added(e, e \o (u \o w), u \o w)
      /\ Added(e, e \o ((u \o d) \o w), (u \o d) \o w)
  BY <1>1, <1>6, NumbersJoin
<1>8. Len(e) \in Nat /\ Len(d) \in Nat /\ Len(u) \in Nat /\ Len(w) \in Nat
  BY <1>1 DEF SamplesType
<1>9. Len(AllOf(c)) = Len(AllOf(s)) + Len(d)
  BY <1>5, <1>7, <1>8 DEF Added
<1>10. Numbers(AllOf(c)) = Numbers(AllOf(s)) \cup Numbers(d)
  <2>1. Numbers(AllOf(c)) = Numbers(e) \cup ((Numbers(u) \cup Numbers(d)) \cup Numbers(w))
    BY <1>5, <1>7, Zenon DEF Added
  <2>2. Numbers(AllOf(s)) = Numbers(e) \cup (Numbers(u) \cup Numbers(w))
    BY <1>5, <1>7, Zenon DEF Added
  <2> HIDE DEF e, d, c
  <2> QED
    BY <2>1, <2>2
<1>11. Added(AllOf(s), AllOf(c), d)
  BY <1>9, <1>10 DEF Added
<1> QED
  BY <1>11 DEF c, d

LEMMA BackfillingAdds ==
  ASSUME NEW s \in GoodType, NEW p \in PacketType
  PROVE  Added(AllOf(s), AllOf(Backfilled(s, p)), p.data)
<1> DEFINE d == p.data
           r == Backfilled(s, p)
           a == Away(s)
<1>1. d \in SamplesType /\ p.stime \in Int
  BY EtimeType
<1>2. a \in GoodType /\ EmitOf(a) = EmitOf(s) /\ a.bf.buffer = s.bf.buffer
  BY AwayIs DEF SameEncoder
<1> HIDE DEF a
<1>3. CASE r = Committed(s, p)
  BY <1>1, <1>3, CommittedIs, EmittingAdds
<1>4. CASE r = SyncBuffer(Placed(s, p))
  <2>1. AllOf(r) = AllOf(Placed(s, p))
    BY <1>4, PlacedIs, SyncKeeps
  <2> QED
    BY <2>1, PlacingAdds
<1>5. CASE r = CommitData(a, p.stime, d)
  <2>1. /\ CommitData(a, p.stime, d) \in GoodType /\ CommitData(a, p.stime, d).bf = a.bf
        /\ EmitOf(CommitData(a, p.stime, d)) = EmitOf(a) \o d
    BY <1>1, <1>2, CommitIn
  <2> HIDE DEF r, d
  <2> QED
    BY <1>1, <1>2, <1>5, <2>1, EmittingAdds DEF r, d
<1>6. CASE r = SyncBuffer(Committed(a, p))
  <2> DEFINE c == Committed(a, p)
  <2>1. c \in GoodType /\ EmitOf(c) = EmitOf(a) \o d /\ c.bf.buffer = a.bf.buffer
    BY <1>2, CommittedIs
  <2> HIDE DEF c, r, d
  <2>2. AllOf(r) = AllOf(c)
    BY <1>6, <2>1, SyncKeeps DEF c
  <2>3. Added(AllOf(s), AllOf(c), d)
    BY <1>1, <1>2, <2>1, EmittingAdds
  <2> QED
    BY <2>2, <2>3 DEF r, d
<1> QED
  BY <1>3, <1>4, <1>5, <1>6, BackfilledIs DEF a

\* A flush of the packet that waits leaves the samples alone.
LEMMA FlushingKeeps ==
  ASSUME NEW s \in GoodType
  PROVE  /\ AllOf(WithCurrent(s, <<>>, TRUE)) = AllOf(s)
         /\ AllOf(Flush(s)) = AllOf(s)
<1>1. AllOf(Flush(s)) = AllOf(s)
  <2>1. Flush(s).bf = s.bf /\ EmitOf(Flush(s)) = EmitOf(s)
    BY FlushIs, FlushEmits DEF GoodType
  <2> QED
    BY <2>1 DEF AllOf, WaitOf
<1>2. AllOf(WithCurrent(s, <<>>, TRUE)) = AllOf(s)
  <2> DEFINE c == WithCurrent(s, <<>>, TRUE)
             b == s.bf.buffer
             r == c.bf.buffer
  <2>1. c \in GoodType /\ EmitOf(c) = EmitOf(s) /\ Continued(b, r, <<>>, TRUE)
    <3>1. <<>> \in SamplesType /\ TRUE \in BOOLEAN
      BY DEF SamplesType
    <3> QED
      BY <3>1, WithCurrentIs DEF SameEncoder
  <2> HIDE DEF c
  <2>2. b \in Seq(PacketType) /\ r \in Seq(PacketType)
    BY <2>1, StateFields DEF GoodType
  <2>3. DataOf(r) = DataOf(b)
    <3> HIDE DEF b, r
    <3>1. Len(r) = Len(b)
      BY <2>1 DEF Continued
    <3>2. ASSUME NEW k \in 1 .. Len(b) PROVE r[k].data = b[k].data
      <4>1. b[k].data \in SamplesType
        BY <2>2, ElementOfSeq, EtimeType
      <4>2. b[k].data \o <<>> = b[k].data
        BY <4>1, Joining
      <4> QED
        BY <2>1, <4>2 DEF Continued
    <3>3. DataOf(r) \in Seq(SamplesType) /\ DataOf(b) \in Seq(SamplesType)
      BY <2>2, DataOfType
    <3>4. Len(DataOf(r)) = Len(DataOf(b)) /\ \A k \in 1 .. Len(DataOf(r)) : DataOf(r)[k] = DataOf(b)[k]
      BY <2>2, <3>1, <3>2, DataOfType
    <3> QED
      BY <3>3, <3>4, SeqEqual
  <2> QED
    BY <2>1, <2>3 DEF AllOf, WaitOf, b, r, c
<1> QED
  BY <1>1, <1>2

LEMMA FlushedKeeps ==
  ASSUME NEW s \in GoodType
  PROVE  AllOf(Flushed(s)) = AllOf(s)
<1> DEFINE a == AllCommitted(s)
           G == {x \in GoodType : AllOf(x) = AllOf(s)}
<1>1. \A x \in G \cap GoodType : x.bf.buffer # <<>> => CommitFirst(x) \in G
  BY CommittingKeeps
<1>2. s \in G
  OBVIOUS
<1>3. a \in GoodType /\ a \in G
  <2> HIDE DEF G
  <2> QED
    BY <1>1, <1>2, AllCommittedIn
<1>4. AllOf(a) = AllOf(s)
  BY <1>3
<1> HIDE DEF a
<1>5. AllOf(Flush(a)) = AllOf(a)
  BY <1>3, FlushingKeeps
<1> QED
  BY <1>4, <1>5 DEF Flushed, a

Whole(s, n) == Len(AllOf(s)) = n /\ Numbers(AllOf(s)) = 1 .. n

\* Without backfilling no packet is ever waited for.
ConservedInv ==
  /\ Plain => Whole(State, given)
  /\ ~ended /\ mode.capacity = 0 => State.bf.current = None

LEMMA DataNumbers ==
  ASSUME NEW t \in Int, NEW n \in Nat \ {0}, given \in Nat
  PROVE  LET d == Data(t, n)
         IN  d \in SamplesType /\ Len(d) = n /\ Numbers(d) = (given + 1) .. (given + n)
<1> DEFINE d == Data(t, n)
<1>1. /\ d \in SamplesType /\ Len(d) = n
      /\ \A k \in 1 .. n : d[k] = <<given + k, t + k - 1>>
  BY PacketOfIs
<1> HIDE DEF d
<1>2. DOMAIN d = 1 .. n
  BY <1>1 DEF SamplesType
<1>3. ASSUME NEW x \in Numbers(d) PROVE x \in (given + 1) .. (given + n)
  <2>1. PICK k \in 1 .. n : x = d[k][1]
    BY <1>2 DEF Numbers, ToSet
  <2>2. x = given + k
    BY <1>1, <2>1
  <2> QED
    BY <2>2
<1>4. ASSUME NEW x \in (given + 1) .. (given + n) PROVE x \in Numbers(d)
  <2>1. x - given \in 1 .. n /\ given + (x - given) = x
    OBVIOUS
  <2>2. d[x - given][1] = x
    BY <1>1, <2>1
  <2>3. d[x - given] \in ToSet(d)
    BY <1>2, <2>1 DEF ToSet
  <2> QED
    BY <2>2, <2>3 DEF Numbers
<1> QED
  BY <1>1, <1>3, <1>4 DEF d

LEMMA WholeGrows ==
  ASSUME NEW a \in GoodType, NEW b \in GoodType, NEW d \in SamplesType, NEW n \in Nat,
         given \in Nat, Whole(a, given), Added(AllOf(a), AllOf(b), d),
         Len(d) = n, Numbers(d) = (given + 1) .. (given + n)
  PROVE  Whole(b, given + n)
<1>1. Len(AllOf(b)) = given + n
  BY DEF Whole, Added
<1>2. Numbers(AllOf(b)) = (1 .. given) \cup ((given + 1) .. (given + n))
  BY DEF Whole, Added
<1>3. (1 .. given) \cup ((given + 1) .. (given + n)) = 1 .. (given + n)
  OBVIOUS
<1> QED
  BY <1>1, <1>2, <1>3 DEF Whole

LEMMA ConservedInit ==
  ASSUME Init
  PROVE  ConservedInv
<1>1. State.out = <<>> /\ State.enc.data = <<>> /\ State.enc.pending = <<>>
      /\ State.bf.buffer = <<>> /\ State.bf.current = None /\ given = 0
  BY DEF Init, State
<1>2. SamplesOf(<<>>) = <<>> /\ DataOf(<<>>) = <<>>
  BY DEF SamplesOf, DataOf
<1>3. AllOf(State) = <<>>
  <2>1. WaitOf(State) = <<>>
    BY <1>1, WaitNone
  <2>2. EmitOf(State) = (<<>> \o <<>>) \o <<>>
    BY <1>1, <1>2, ConcatNone DEF EmitOf
  <2> QED
    BY <2>1, <2>2 DEF AllOf
<1>4. Numbers(<<>>) = {}
  BY DEF Numbers, ToSet
<1>5. Whole(State, 0)
  BY <1>3, <1>4 DEF Whole
<1> QED
  BY <1>1, <1>5 DEF ConservedInv

LEMMA ConservedWithTime ==
  ASSUME GoodInv, ConservedInv, NEW t \in Times, NEW n \in Sizes, SendWithTime(t, n)
  PROVE  ConservedInv'
<1> DEFINE p == PacketOf(t, Data(t, n))
           d == Data(t, n)
           b == Backfilled(State, p)
           c == CommitData(State, t, p.data)
           r == IF mode.capacity > 0 THEN b ELSE c
<1>1. /\ p \in PacketType /\ p.data = d /\ p.stime = t
      /\ r \in GoodType /\ Handled(r, t + n, n)
      /\ t \in Nat /\ n \in Nat \ {0}
  BY SendWithTimeIs
<1>2. State \in GoodType /\ given \in Nat /\ mode.capacity \in Nat
  BY DEF GoodInv, Mode
<1>3. d \in SamplesType /\ Len(d) = n /\ Numbers(d) = (given + 1) .. (given + n)
  <2>1. t \in Int
    BY <1>1
  <2> QED
    BY <1>1, <1>2, <2>1, DataNumbers
<1> HIDE DEF p
<1>4. c \in GoodType /\ c.bf = State.bf /\ Added(AllOf(State), AllOf(c), d)
  <2>1. t \in Int /\ p.data \in SamplesType
    BY <1>1, EtimeType
  <2>2. c \in GoodType /\ c.bf = State.bf /\ EmitOf(c) = EmitOf(State) \o p.data
    BY <1>2, <2>1, CommitIn
  <2> HIDE DEF c, d
  <2>3. EmitOf(c) = EmitOf(State) \o d /\ c.bf.buffer = State.bf.buffer
    BY <1>1, <2>2
  <2> QED
    BY <1>2, <1>3, <2>2, <2>3, EmittingAdds
<1>5. Added(AllOf(State), AllOf(b), d)
  BY <1>1, <1>2, BackfillingAdds
<1> HIDE DEF b, c, d
<1>6. Added(AllOf(State), AllOf(r), d)
  BY <1>4, <1>5
<1>7. mode.capacity = 0 => r.bf = State.bf
  BY <1>4
<1>8. State' = r /\ given' = given + n /\ mode' = mode /\ ended' = ended
  BY <1>1, HandledIs
<1> HIDE DEF r
<1>9. Plain => Whole(r, given + n)
  BY <1>1, <1>2, <1>3, <1>6, WholeGrows DEF ConservedInv
<1> QED
  BY <1>7, <1>8, <1>9 DEF ConservedInv, Whole, Plain, AllOf, EmitOf, WaitOf, SamplesOf, DataOf

LEMMA ConservedRaw ==
  ASSUME GoodInv, ConservedInv, NEW n \in Sizes, SendRaw(n)
  PROVE  ConservedInv'
<1> DEFINE d == Data(next, n)
           s == Samples(State, d)
           y == SyncBuffer(WithCurrent(State, d, FALSE))
           q == [s EXCEPT !.bf.last = @ + n]
           r == IF bf.current # None THEN y
                ELSE IF mode.capacity > 0 THEN q ELSE s
<1>1. r \in GoodType /\ Handled(r, next + n, n) /\ ~mode.timed /\ n \in Nat \ {0}
  BY SendRawIs
<1>2. State \in GoodType /\ given \in Nat /\ mode.capacity \in Nat /\ next \in Int
  BY DEF GoodInv, Mode
<1>3. d \in SamplesType /\ Len(d) = n /\ Numbers(d) = (given + 1) .. (given + n)
  BY <1>1, <1>2, DataNumbers
<1>4. ~ended /\ bf.current = State.bf.current
  BY DEF SendRaw, Continues, Input, State
<1>5. State' = r /\ given' = given + n /\ mode' = mode /\ ended' = ended
  <2> HIDE DEF r
  <2> QED
    BY <1>1, HandledIs
<1> HIDE DEF d, y, q
<1>6. CASE mode.capacity = 0
  <2>1. r = s
    BY <1>4, <1>6 DEF ConservedInv
  <2>2. s.bf = State.bf /\ EmitOf(s) = EmitOf(State) \o d
    BY <1>2, <1>3, SamplesIs DEF GoodType
  <2> HIDE DEF s, r
  <2>3. s \in GoodType /\ s.bf.buffer = State.bf.buffer
    BY <1>1, <2>1, <2>2
  <2>4. Added(AllOf(State), AllOf(s), d)
    BY <1>2, <1>3, <2>2, <2>3, EmittingAdds
  <2>5. Plain => Whole(s, given + n)
    BY <1>1, <1>2, <1>3, <2>3, <2>4, WholeGrows DEF ConservedInv
  <2> QED
    BY <1>5, <2>1, <2>2, <2>5
       DEF ConservedInv, Whole, Plain, AllOf, EmitOf, WaitOf, SamplesOf, DataOf
<1>7. CASE mode.capacity # 0
  BY <1>1, <1>5, <1>7 DEF ConservedInv, Plain
<1> QED
  BY <1>6, <1>7

\* A step that gives no samples and leaves the ones there are alone.
LEMMA WholeStays ==
  ASSUME ConservedInv, given \in Nat, given' = given, mode' = mode,
         NEW r \in GoodType, State' = r,
         AllOf(r) = AllOf(State),
         ~ended' /\ mode.capacity = 0 => ~ended /\ r.bf.current = State.bf.current
  PROVE  ConservedInv'
<1>1. Plain => Whole(r, given)
  BY DEF ConservedInv, Whole
<1> QED
  BY <1>1 DEF ConservedInv, Whole, Plain, AllOf, EmitOf, WaitOf, SamplesOf, DataOf

LEMMA ConservedGap ==
  ASSUME GoodInv, ConservedInv, NEW n \in Sizes, SendGap(n)
  PROVE  ConservedInv'
<1> DEFINE r == FlushAtGap(AddTicks(State, n))
<1>1. /\ r \in GoodType /\ Handled(r, next + n, 0)
      /\ r.bf = State.bf /\ EmitOf(r) = EmitOf(State)
  BY SendGapIs
<1> HIDE DEF r
<1>2. State' = r /\ mode' = mode /\ ended' = ended /\ given' = given + 0 /\ given \in Nat
  BY <1>1, HandledIs DEF GoodInv
<1>3. AllOf(r) = AllOf(State) /\ given' = given
  BY <1>1, <1>2 DEF AllOf, WaitOf
<1> QED
  BY <1>1, <1>2, <1>3, WholeStays

LEMMA ConservedFlush ==
  ASSUME GoodInv, ConservedInv, SendFlush
  PROVE  ConservedInv'
<1> DEFINE w == WithCurrent(State, <<>>, TRUE)
           f == Flush(State)
           r == IF bf.current # None THEN w ELSE f
<1>1. r \in GoodType /\ Handled(r, next, 0)
  BY SendFlushIs
<1>2. State \in GoodType /\ State \in StateType
  BY DEF GoodInv, GoodType
<1>3. AllOf(w) = AllOf(State) /\ w.bf.current = State.bf.current
  <2>1. <<>> \in SamplesType /\ TRUE \in BOOLEAN
    BY DEF SamplesType
  <2> QED
    BY <1>2, <2>1, FlushingKeeps, WithCurrentIs
<1>4. AllOf(f) = AllOf(State) /\ f.bf = State.bf
  BY <1>2, FlushingKeeps, FlushIs
<1> HIDE DEF w, f
<1>5. AllOf(r) = AllOf(State) /\ r.bf.current = State.bf.current
  BY <1>3, <1>4
<1> HIDE DEF r
<1>6. State' = r /\ mode' = mode /\ ended' = ended /\ given' = given + 0 /\ given \in Nat
  BY <1>1, HandledIs DEF GoodInv
<1>7. given' = given
  BY <1>6
<1> QED
  BY <1>1, <1>5, <1>6, <1>7, WholeStays

LEMMA ConservedEnd ==
  ASSUME GoodInv, ConservedInv, End
  PROVE  ConservedInv'
<1> DEFINE r == Flushed(State)
<1>1. r \in GoodType /\ State' = r /\ mode' = mode /\ ended' = TRUE /\ given' = given
  BY EndIs
<1>2. AllOf(r) = AllOf(State) /\ given \in Nat
  BY FlushedKeeps DEF GoodInv
<1> HIDE DEF r
<1> QED
  BY <1>1, <1>2, WholeStays

LEMMA ConservedStep ==
  ASSUME GoodInv, ConservedInv, [Next]_vars
  PROVE  ConservedInv'
<1>1. CASE UNCHANGED vars
  BY <1>1 DEF vars, ConservedInv, State, Whole, Plain, AllOf, EmitOf, WaitOf, SamplesOf, DataOf
<1> QED
  BY <1>1, ConservedWithTime, ConservedRaw, ConservedGap, ConservedFlush, ConservedEnd
     DEF Next

LEMMA EmittedIs ==
  Emitted = EmitOf(State) /\ Waiting = WaitOf(State)
<1>1. /\ State.out = out /\ State.enc = enc /\ State.bf = bf
  BY DEF State
<1> QED
  BY <1>1 DEF Emitted, EmitOf, SamplesOf, Waiting, WaitOf, DataOf

\* No sample is lost and none is doubled, whatever the settings and the times,
\* as long as packets without time do not continue packets that wait.
THEOREM Conserves == Spec => []Conserved
<1>1. Init => GoodInv /\ ConservedInv
  BY GoodInit, ConservedInit
<1>2. GoodInv /\ ConservedInv /\ [Next]_vars => GoodInv' /\ ConservedInv'
  BY GoodStep, ConservedStep
<1>3. GoodInv /\ ConservedInv => Conserved
  <2> SUFFICES ASSUME GoodInv, ConservedInv, Plain
               PROVE  /\ Len(Emitted) + Len(Waiting) = given
                      /\ {x[1] : x \in ToSet(Emitted \o Waiting)} = 1 .. given
    BY DEF Conserved
  <2> DEFINE e == EmitOf(State)
             w == WaitOf(State)
  <2>1. e \in SamplesType /\ w \in SamplesType
    BY EmitType, WaitType DEF GoodInv, GoodType
  <2>2. Len(e \o w) = given /\ Numbers(e \o w) = 1 .. given
    BY DEF ConservedInv, Whole, AllOf
  <2>3. Emitted = e /\ Waiting = w
    BY EmittedIs
  <2> HIDE DEF e, w
  <2>4. Len(e \o w) = Len(e) + Len(w)
    BY <2>1, NumbersJoin DEF Added
  <2> QED
    BY <2>2, <2>3, <2>4 DEF Numbers
<1> QED
  BY <1>1, <1>2, <1>3, PTL DEF Spec

-----------------------------------------------------------------------------
(* NothingLeft.                                                            *)

\* An end leaves neither packets nor samples behind.
THEOREM LeavesNothing == Spec => []NothingLeft
<1>1. Init => NothingLeft
  BY DEF Init, NothingLeft
<1>2. ASSUME GoodInv, NothingLeft, End PROVE NothingLeft'
  <2> DEFINE a == AllCommitted(State)
             f == Flush(a)
             r == Flushed(State)
  <2>1. r \in GoodType /\ State' = r /\ mode' = mode
    BY <1>2, EndIs
  <2>2. a \in GoodType /\ a.bf.buffer = <<>>
    <3>1. State \in GoodType /\ \A x \in GoodType \cap GoodType :
                                  x.bf.buffer # <<>> => CommitFirst(x) \in GoodType
      BY <1>2, CommitFirstIs DEF GoodInv
    <3> QED
      BY <3>1, AllCommittedIn
  <2> HIDE DEF a
  <2>3. f.bf = a.bf /\ f.enc.pending = <<>> /\ ~f.enc.open
    BY <2>2, FlushIs DEF GoodType
  <2> HIDE DEF f
  <2>4. CASE mode.kind = "mseed"
    <3>1. r = a
      BY <2>4 DEF Flushed, a
    <3>2. r.bf.buffer = <<>> /\ r.enc.pending = <<>> /\ ~r.enc.open
      BY <2>2, <2>4, <3>1 DEF GoodType
    <3> HIDE DEF r
    <3> QED
      BY <2>1, <3>2 DEF NothingLeft, State
  <2>5. CASE mode.kind # "mseed" /\ mode.own
    <3>1. r = f
      BY <2>5 DEF Flushed, f, a
    <3>2. r.bf.buffer = <<>> /\ r.enc.pending = <<>> /\ ~r.enc.open
      BY <2>2, <2>3, <3>1
    <3> HIDE DEF r
    <3> QED
      BY <2>1, <3>2 DEF NothingLeft, State
  <2>6. CASE mode.kind # "mseed" /\ ~mode.own
    BY <2>1, <2>6 DEF NothingLeft
  <2> QED
    BY <2>4, <2>5, <2>6
<1>3. GoodInv /\ NothingLeft /\ [Next]_vars => NothingLeft'
  <2> SUFFICES ASSUME GoodInv, NothingLeft, [Next]_vars PROVE NothingLeft'
    OBVIOUS
  <2>1. CASE End
    BY <1>2, <2>1
  <2>2. ASSUME NEW t \in Times, NEW n \in Sizes, SendWithTime(t, n) PROVE NothingLeft'
    BY <2>2 DEF SendWithTime, Input, Handled, NothingLeft
  <2>3. ASSUME NEW n \in Sizes, SendRaw(n) \/ SendGap(n) PROVE NothingLeft'
    BY <2>3 DEF SendRaw, SendGap, Continues, Input, Handled, NothingLeft
  <2>4. CASE SendFlush
    BY <2>4 DEF SendFlush, Input, Handled, NothingLeft
  <2>5. CASE UNCHANGED vars
    BY <2>5 DEF vars, NothingLeft
  <2> QED
    BY <2>1, <2>2, <2>3, <2>4, <2>5 DEF Next
<1> QED
  BY <1>1, <1>3, TypeCorrect, PTL DEF Spec

-----------------------------------------------------------------------------
(* NoGapInside and LabelOfWord.                                            *)

\* Nothing between the samples of q is to be flushed at.
Smooth(q) == \A k \in 1 .. (Len(q) - 1) : ~IsGap(q[k + 1][2] - q[k][2] - 1)

\* A sample with the time t may come after q, or would follow it at once.
Follows(q, t) == q # <<>> => ~IsGap(t - q[Len(q)][2] - 1)

UpToClock(q, t) == q # <<>> => t = q[Len(q)][2] + 1

Labelled(l, q) == Abs(l - q[1][2]) <= (mode.spw - 1) * (Gap_flush - 1)

Fine(r) == Smooth(r.samples) /\ (Len(r.samples) >= mode.spw => Labelled(r.label, r.samples))

\* The samples in the encoder.
RunOf(s) == s.enc.data \o s.enc.pending

Sound(s) ==
  /\ \A i \in 1 .. Len(s.out) : Fine(s.out[i])
  /\ Smooth(RunOf(s))
  /\ Len(s.enc.pending) < mode.spw
  /\ s.enc.open => s.enc.data # <<>> /\ Labelled(s.enc.label, s.enc.data)
  /\ ~s.enc.open => s.enc.data = <<>>

LEMMA GapIs ==
  ASSUME NEW n \in Int
  PROVE  IsGap(n) <=> n >= Gap_flush \/ n <= -Gap_flush
BY RawAssumption DEF IsGap, Abs

LEMMA AppendIs ==
  ASSUME NEW q \in SamplesType, NEW x \in SampleType
  PROVE  LET c == Append(q, x)
         IN  /\ c \in SamplesType /\ Len(c) = Len(q) + 1 /\ Len(q) \in Nat
             /\ c # <<>> /\ c[Len(c)] = x
             /\ \A k \in 1 .. Len(q) : c[k] = q[k]
BY AppendProperties DEF SamplesType

LEMMA SmoothAppend ==
  ASSUME NEW q \in SamplesType, NEW x \in SampleType, Smooth(q), Follows(q, x[2])
  PROVE  Smooth(Append(q, x))
<1> DEFINE c == Append(q, x)
           n == Len(q)
<1>1. /\ Len(c) = n + 1 /\ n \in Nat /\ c[n + 1] = x
      /\ \A k \in 1 .. n : c[k] = q[k]
  BY AppendIs
<1> HIDE DEF c
<1>2. ASSUME NEW k \in 1 .. (Len(c) - 1) PROVE ~IsGap(c[k + 1][2] - c[k][2] - 1)
  <2>1. CASE k = n
    <3>1. q # <<>> /\ c[k] = q[n] /\ c[k + 1] = x
      BY <1>1, <1>2, <2>1
    <3> QED
      BY <3>1 DEF Follows
  <2>2. CASE k # n
    <3>1. k \in 1 .. (n - 1) /\ c[k] = q[k] /\ c[k + 1] = q[k + 1]
      BY <1>1, <1>2, <2>2
    <3> QED
      BY <3>1 DEF Smooth
  <2> QED
    BY <2>1, <2>2
<1> QED
  BY <1>2 DEF Smooth, c

\* Small gaps add up.
LEMMA RunSpan ==
  ASSUME NEW q \in SamplesType, q # <<>>, Smooth(q)
  PROVE  Abs(q[Len(q)][2] - q[1][2] - (Len(q) - 1)) <= (Len(q) - 1) * (Gap_flush - 1)
<1> DEFINE n == Len(q) - 1
           g == Gap_flush - 1
           D(k) == q[k + 1][2] - q[1][2] - k
           S == {k \in 0 .. n : D(k) <= k * g /\ -(k * g) <= D(k)}
<1>1. n \in Nat /\ g \in Nat
  BY RawAssumption DEF SamplesType
<1>2. ASSUME NEW k \in 0 .. n PROVE q[k + 1][2] \in Int
  <2>1. k + 1 \in 1 .. Len(q)
    BY <1>1
  <2> QED
    BY <2>1, ElementOfSeq DEF SamplesType, SampleType
<1>3. 0 \in S
  <2>1. q[1][2] \in Int
    <3>1. 0 \in 0 .. n /\ 0 + 1 = 1
      BY <1>1
    <3> QED
      BY <1>2, <3>1
  <2> QED
    BY <1>1, <2>1
<1>4. ASSUME NEW k \in 0 .. (n - 1), k \in S PROVE k + 1 \in S
  <2>1. /\ k \in 0 .. n /\ k + 1 \in 0 .. n /\ k + 1 \in 1 .. (Len(q) - 1)
        /\ 0 \in 0 .. n /\ 0 + 1 = 1
    BY <1>1
  <2>2. ~IsGap(q[(k + 1) + 1][2] - q[k + 1][2] - 1)
    BY <2>1 DEF Smooth
  <2>3. q[(k + 1) + 1][2] \in Int /\ q[k + 1][2] \in Int /\ q[1][2] \in Int
    BY <1>2, <2>1
  <2>4. q[(k + 1) + 1][2] - q[k + 1][2] - 1 <= g /\ -g <= q[(k + 1) + 1][2] - q[k + 1][2] - 1
    BY <2>2, <2>3, GapIs, RawAssumption
  <2>5. (k + 1) * g = k * g + g /\ k * g \in Int
    BY <1>1
  <2>6. D(k) <= k * g /\ -(k * g) <= D(k)
    BY <1>4
  <2> DEFINE m == k * g
             x == q[(k + 1) + 1][2]
             y == q[k + 1][2]
             z == q[1][2]
  <2>7. x - z - (k + 1) <= m + g /\ -(m + g) <= x - z - (k + 1)
    <3>1. x - y - 1 <= g /\ -g <= x - y - 1 /\ y - z - k <= m /\ -m <= y - z - k
      BY <2>4, <2>6
    <3>2. x \in Int /\ y \in Int /\ z \in Int /\ m \in Int /\ g \in Int /\ k \in Int
      BY <1>1, <2>3, <2>5
    <3> HIDE DEF m, x, y, z, g
    <3> QED
      BY <3>1, <3>2
  <2> QED
    BY <2>1, <2>5, <2>7
<1>5. n \in S
  <2>1. \A k \in 0 .. n : k \in S
    <3> HIDE DEF S, n
    <3> QED
      BY <1>1, <1>3, <1>4, UpTo
  <2> QED
    BY <1>1, <2>1
<1> DEFINE m == n * g
           d == D(n)
<1>6. d <= m /\ -m <= d
  BY <1>5
<1>7. d \in Int /\ m \in Int
  <2>1. 0 \in 0 .. n /\ 0 + 1 = 1 /\ n \in 0 .. n
    BY <1>1
  <2>2. q[1][2] \in Int /\ q[n + 1][2] \in Int
    BY <1>2, <2>1
  <2> QED
    BY <1>1, <2>2
<1>8. d = q[Len(q)][2] - q[1][2] - (Len(q) - 1)
  <2>1. n + 1 = Len(q)
    BY DEF SamplesType
  <2> QED
    BY <2>1
<1>9. Abs(d) <= m
  <2> HIDE DEF d, m
  <2> QED
    BY <1>6, <1>7 DEF Abs
<1> QED
  BY <1>8, <1>9

LEMMA JoinedFirst ==
  ASSUME NEW a \in SamplesType, NEW b \in SamplesType, a # <<>>
  PROVE  (a \o b)[1] = a[1] /\ a \o b # <<>> /\ Len(a \o b) = Len(a) + Len(b)
<1>1. Len(a) \in Nat \ {0}
  BY DEF SamplesType
<1>2. /\ Len(a \o b) = Len(a) + Len(b)
      /\ \A i \in 1 .. (Len(a) + Len(b)) : (a \o b)[i] = IF i <= Len(a) THEN a[i] ELSE b[i - Len(a)]
  BY ConcatProperties DEF SamplesType
<1>3. Len(b) \in Nat
  BY DEF SamplesType
<1>4. 1 \in 1 .. (Len(a) + Len(b)) /\ 1 <= Len(a)
  BY <1>1, <1>3
<1>5. (a \o b)[1] = a[1]
  BY <1>2, <1>4
<1>6. a \o b # <<>>
  BY <1>1, <1>2, <1>3
<1> QED
  BY <1>2, <1>5, <1>6

LEMMA RunType ==
  ASSUME NEW s \in StateType
  PROVE  RunOf(s) \in SamplesType
BY StateFields, Joining DEF RunOf

\* The record, full or not, that a word goes into.
LEMMA PackedSound ==
  ASSUME NEW s \in StateType, NEW c \in StateType, NEW d \in SamplesType, NEW l \in Int,
         mode \in Mode, Sound(s), Packed(s, c, d, l), Smooth(d), d # <<>>, Labelled(l, d)
  PROVE  Sound(c) /\ (RunOf(c) = <<>> \/ RunOf(c) = d)
<1>1. mode.spw \in Nat \ {0} /\ Len(<<>>) = 0
  BY DEF Mode
<1>2. Smooth(<<>>)
  BY DEF Smooth
<1>3. d \o <<>> = d /\ <<>> \o <<>> = <<>>
  BY Joining
<1>4. c.enc.pending = <<>>
  BY DEF Packed
<1>5. CASE c.out = s.out /\ c.enc.open /\ c.enc.data = d /\ c.enc.label = l
  <2>1. RunOf(c) = d
    BY <1>3, <1>4, <1>5 DEF RunOf
  <2> QED
    BY <1>1, <1>4, <1>5, <2>1 DEF Sound
<1>6. CASE /\ c.out = Append(s.out, [label |-> l, samples |-> d])
           /\ ~c.enc.open /\ c.enc.data = <<>>
  <2> DEFINE r == [label |-> l, samples |-> d]
  <2>1. RunOf(c) = <<>>
    BY <1>3, <1>4, <1>6 DEF RunOf
  <2>2. Fine(r)
    BY DEF Fine
  <2>3. r \in RecordType /\ s.out \in Seq(RecordType)
    BY StateFields DEF RecordType
  <2> HIDE DEF r
  <2>4. Len(c.out) = Len(s.out) + 1 /\ Len(s.out) \in Nat
        /\ \A i \in 1 .. Len(c.out) : c.out[i] = IF i <= Len(s.out) THEN s.out[i] ELSE r
    BY <1>6, <2>3, AppendProperties DEF r
  <2>5. \A i \in 1 .. Len(c.out) : Fine(c.out[i])
    BY <2>2, <2>4 DEF Sound
  <2> QED
    BY <1>1, <1>2, <1>4, <1>6, <2>1, <2>5 DEF Sound
<1> QED
  BY <1>5, <1>6 DEF Packed

LEMMA SampleSound ==
  ASSUME NEW s \in StateType, NEW x \in SampleType, mode \in Mode, Sound(s),
         x[2] = s.clk.time, Follows(RunOf(s), x[2])
  PROVE  LET c == Sample(s, x)
         IN  Sound(c) /\ UpToClock(RunOf(c), c.clk.time)
<1> DEFINE c == Sample(s, x)
           p == Append(s.enc.pending, x)
           d == s.enc.data \o p
           q == RunOf(s)
           l == LabelFor(s, s.clk.time + 1, Len(p))
<1>1. /\ c \in StateType /\ c.clk.time = s.clk.time + 1
      /\ \/ /\ Len(p) # mode.spw /\ c.out = s.out /\ c.enc.pending = p
            /\ c.enc.data = s.enc.data /\ c.enc.open = s.enc.open
            /\ c.enc.label = s.enc.label
         \/ Len(p) = mode.spw /\ Packed(s, c, d, l)
  BY SampleIs
<1>2. s.enc.data \in SamplesType /\ s.enc.pending \in SamplesType /\ s.clk.time \in Int
      /\ s.enc.label \in Int /\ s.enc.open \in BOOLEAN /\ mode.spw \in Nat \ {0}
  BY StateFields DEF Mode
<1>3. p \in SamplesType /\ Len(p) = Len(s.enc.pending) + 1 /\ Len(s.enc.pending) \in Nat
  BY <1>2, AppendIs
<1>4. q \in SamplesType /\ d = Append(q, x)
  <2>1. <<x>> \in SamplesType
    BY DEF SamplesType
  <2>2. (s.enc.data \o s.enc.pending) \o <<x>> = s.enc.data \o (s.enc.pending \o <<x>>)
    BY <1>2, <2>1, Regroup
  <2>3. q \in SamplesType
    BY RunType
  <2>4. Append(q, x) = q \o <<x>> /\ Append(s.enc.pending, x) = s.enc.pending \o <<x>>
    BY <1>2, <2>3, AppendIsConcat DEF SamplesType
  <2> QED
    BY <2>2, <2>3, <2>4 DEF RunOf
<1>10. ~s.enc.open => l = (s.clk.time + 1) - Len(p)
  BY DEF LabelFor
<1> HIDE DEF c, p, d, q
<1>5. /\ d \in SamplesType /\ d # <<>> /\ d[Len(d)] = x
  BY <1>4, AppendIs
<1>6. Smooth(d)
  BY <1>4, SmoothAppend DEF Sound, q
<1>7. UpToClock(d, c.clk.time) /\ UpToClock(<<>>, c.clk.time)
  BY <1>1, <1>5 DEF UpToClock
<1>8. CASE /\ Len(p) # mode.spw /\ c.out = s.out /\ c.enc.pending = p
           /\ c.enc.data = s.enc.data /\ c.enc.open = s.enc.open
           /\ c.enc.label = s.enc.label
  <2>1. RunOf(c) = d
    BY <1>8 DEF RunOf, d
  <2>2. Len(p) < mode.spw
    BY <1>2, <1>3, <1>8 DEF Sound
  <2>3. Sound(c)
    BY <1>6, <1>8, <2>1, <2>2 DEF Sound
  <2> QED
    BY <1>7, <2>1, <2>3 DEF c
<1>9. CASE Len(p) = mode.spw /\ Packed(s, c, d, l)
  <2>1. l \in Int
    BY <1>2, <1>3, LabelForType
  <2>2. Labelled(l, d)
    <3>1. CASE s.enc.open
      <4>1. d[1] = s.enc.data[1]
        BY <1>2, <1>3, <3>1, JoinedFirst DEF Sound, d
      <4> QED
        BY <3>1, <4>1 DEF LabelFor, Sound, Labelled
    <3>2. CASE ~s.enc.open
      <4>1. d = p
        <5>1. d = <<>> \o p
          BY <3>2 DEF Sound, d
        <5> QED
          BY <1>3, <5>1, Joining
      <4>2. Abs(d[Len(d)][2] - d[1][2] - (Len(d) - 1)) <= (Len(d) - 1) * (Gap_flush - 1)
        BY <1>5, <1>6, RunSpan
      <4>3. d[1][2] \in Int /\ x[2] \in Int
        <5>1. 1 \in 1 .. Len(d)
          BY <1>5 DEF SamplesType
        <5> QED
          BY <1>5, <5>1, ElementOfSeq DEF SamplesType, SampleType
      <4>4. Len(d) = mode.spw /\ l = s.clk.time + 1 - mode.spw
        <5>1. l = (s.clk.time + 1) - Len(p)
          BY <1>10, <3>2
        <5>2. Len(p) = mode.spw
          BY <1>9
        <5>3. Len(d) = mode.spw
          BY <4>1, <5>2, Zenon
        <5> HIDE DEF l
        <5>4. l = (s.clk.time + 1) - mode.spw
          BY <5>1, <5>2, Zenon
        <5>5. s.clk.time \in Int /\ mode.spw \in Int
          BY <1>2
        <5> QED
          BY <5>3, <5>4, <5>5
      <4>5. x[2] - d[1][2] - (mode.spw - 1) = l - d[1][2]
        BY <1>2, <4>3, <4>4
      <4> QED
        BY <1>5, <4>2, <4>4, <4>5 DEF Labelled
    <3> QED
      BY <1>2, <3>1, <3>2
  <2> HIDE DEF l
  <2>3. Sound(c) /\ (RunOf(c) = <<>> \/ RunOf(c) = d)
    BY <1>1, <1>5, <1>6, <1>9, <2>1, <2>2, PackedSound
  <2> QED
    BY <1>7, <2>3 DEF c
<1> QED
  BY <1>1, <1>8, <1>9

\* Samples of which the first has the time t, and each the next one.
Consecutive(data, t) == \A k \in 1 .. Len(data) : data[k][2] = t + k - 1

LEMMA SamplesSound ==
  ASSUME NEW s \in StateType, NEW data \in SamplesType, data # <<>>, mode \in Mode,
         Sound(s), Consecutive(data, s.clk.time), Follows(RunOf(s), s.clk.time)
  PROVE  LET c == Samples(s, data)
         IN  Sound(c) /\ UpToClock(RunOf(c), c.clk.time)
<1> DEFINE n == Len(data)
           t == s.clk.time
<1>1. n \in Nat \ {0} /\ data \in Seq(SampleType) /\ t \in Int
  BY StateFields DEF SamplesType
<1>2. PICK f \in [0 .. n -> StateType] : Encodes(f, s, data)
  BY SamplesUnfolds DEF IsEncoded
<1> DEFINE E == {k \in 0 .. n : /\ f[k].clk.time = t + k /\ Sound(f[k])
                                /\ Follows(RunOf(f[k]), f[k].clk.time)
                                /\ k > 0 => UpToClock(RunOf(f[k]), f[k].clk.time)}
<1>3. 0 \in E
  <2>1. f[0] = s /\ t = t + 0 /\ 0 \in 0 .. n /\ ~(0 > 0)
    BY <1>1, <1>2 DEF Encodes
  <2> QED
    BY <2>1
<1>4. ASSUME NEW k \in 0 .. (n - 1), k \in E PROVE k + 1 \in E
  <2> DEFINE x == data[k + 1]
             a == f[k]
             b == f[k + 1]
  <2>1. k + 1 \in 1 .. n /\ k + 1 \in 0 .. n /\ (k + 1) - 1 = k /\ k \in 0 .. n
    BY <1>1
  <2>2. a \in StateType /\ b \in StateType /\ x \in SampleType
    BY <1>1, <2>1, ElementOfSeq
  <2>3. b = Sample(a, x)
    BY <1>2, <2>1 DEF Encodes
  <2>4. a.clk.time = t + k /\ Sound(a) /\ Follows(RunOf(a), a.clk.time)
    BY <1>4
  <2>5. x[2] = t + k
    <3>1. x[2] = t + (k + 1) - 1
      BY <2>1 DEF Consecutive
    <3> QED
      BY <1>1, <3>1
  <2> HIDE DEF a, b, x, t, n
  <2>6. b.clk.time = a.clk.time + 1
    BY <2>2, <2>3, SampleIs
  <2>7. Sound(b) /\ UpToClock(RunOf(b), b.clk.time)
    BY <2>2, <2>3, <2>4, <2>5, SampleSound
  <2>8. Follows(RunOf(b), b.clk.time)
    <3> DEFINE q == RunOf(b)
    <3>1. q \in SamplesType
      BY <2>2, RunType
    <3> HIDE DEF q
    <3>2. ASSUME q # <<>> PROVE ~IsGap(b.clk.time - q[Len(q)][2] - 1)
      <4>1. q[Len(q)][2] \in Int
        <5>1. Len(q) \in 1 .. Len(q)
          BY <3>1, <3>2 DEF SamplesType
        <5> QED
          BY <3>1, <5>1, ElementOfSeq DEF SamplesType, SampleType
      <4>2. b.clk.time - q[Len(q)][2] - 1 = 0
        BY <2>7, <3>2, <4>1 DEF UpToClock, q
      <4> QED
        BY <4>2, GapIs, RawAssumption
    <3> QED
      BY <3>2 DEF Follows, q
  <2>9. b.clk.time = t + (k + 1)
    BY <1>1, <2>1, <2>4, <2>6
  <2> QED
    BY <2>1, <2>7, <2>8, <2>9 DEF b, t, n
<1>5. n \in E
  <2>1. \A k \in 0 .. n : k \in E
    <3> HIDE DEF E, n
    <3> QED
      BY <1>1, <1>3, <1>4, UpTo
  <2> QED
    BY <1>1, <2>1
<1>6. Sound(f[n]) /\ UpToClock(RunOf(f[n]), f[n].clk.time)
  BY <1>1, <1>5
<1> QED
  BY <1>2, <1>6 DEF Encodes

\* What a flush leaves of a record fits the record it was going into.
LEMMA FlushSound ==
  ASSUME NEW s \in StateType, mode \in Mode, Sound(s)
  PROVE  Sound(Flush(s)) /\ RunOf(Flush(s)) = <<>>
<1> DEFINE c == Flush(s)
           l == LabelFor(s, s.clk.time, Len(s.enc.pending))
           d == RunOf(s)
<1>1. /\ c \in StateType /\ c.enc.pending = <<>> /\ ~c.enc.open
      /\ \/ s.enc.pending = <<>> /\ ~s.enc.open /\ c = s
         \/ c.enc.data = <<>> /\ c.out = Append(s.out, [label |-> l, samples |-> d])
  BY FlushIs DEF RunOf
<1>2. s.enc.data \in SamplesType /\ s.enc.pending \in SamplesType
      /\ s.enc.open \in BOOLEAN /\ mode.spw \in Nat \ {0} /\ Len(<<>>) = 0
      /\ Len(s.enc.pending) \in Nat /\ s.out \in Seq(RecordType)
  BY StateFields DEF Mode, SamplesType
<1>3. <<>> \o <<>> = <<>> /\ Smooth(<<>>)
  BY Joining DEF Smooth
<1>4. d \in SamplesType /\ l \in Int
  BY <1>2, RunType, StateFields, LabelForType
<1> HIDE DEF c, l
<1>5. CASE s.enc.pending = <<>> /\ ~s.enc.open /\ c = s
  BY <1>3, <1>5 DEF Sound, RunOf, c
<1>6. CASE c.enc.data = <<>> /\ c.out = Append(s.out, [label |-> l, samples |-> d])
  <2> DEFINE r == [label |-> l, samples |-> d]
  <2>1. RunOf(c) = <<>>
    BY <1>1, <1>3, <1>6 DEF RunOf
  <2>2. ASSUME Len(d) >= mode.spw PROVE Labelled(l, d)
    <3>1. CASE s.enc.open
      <4>1. d[1] = s.enc.data[1]
        BY <1>2, <3>1, JoinedFirst DEF Sound, RunOf
      <4> QED
        BY <3>1, <4>1 DEF LabelFor, Sound, Labelled, l
    <3>2. CASE ~s.enc.open
      <4>1. d = <<>> \o s.enc.pending
        BY <3>2 DEF Sound, RunOf
      <4>2. d = s.enc.pending
        BY <1>2, <4>1, Joining
      <4> QED
        BY <1>2, <2>2, <4>2 DEF Sound
    <3> QED
      BY <1>2, <3>1, <3>2
  <2>3. Fine(r)
    BY <2>2 DEF Fine, Sound
  <2>4. r \in RecordType
    BY <1>4 DEF RecordType
  <2> HIDE DEF r, d
  <2>5. Len(c.out) = Len(s.out) + 1 /\ Len(s.out) \in Nat
        /\ \A i \in 1 .. Len(c.out) : c.out[i] = IF i <= Len(s.out) THEN s.out[i] ELSE r
    BY <1>2, <1>6, <2>4, AppendProperties DEF r
  <2>6. \A i \in 1 .. Len(c.out) : Fine(c.out[i])
    BY <2>3, <2>5 DEF Sound
  <2> QED
    BY <1>1, <1>2, <1>3, <1>6, <2>1, <2>6 DEF Sound, c
<1> QED
  BY <1>1, <1>5, <1>6

\* The encoder of a handler that has ended: the clock shows the time after the
\* last sample in it.
Right(s) ==
  /\ Sound(s)
  /\ UpToClock(RunOf(s), s.clk.time)
  /\ RunOf(s) # <<>> => s.clk.time # None

\* The packets that wait: of samples that follow one another.
Regular(b) ==
  \A k \in 1 .. Len(b) : b[k].stime \in Nat /\ Consecutive(b[k].data, b[k].stime)

RightType == {x \in GoodType : Right(x) /\ Regular(x.bf.buffer)}

LEMMA SameRight ==
  ASSUME NEW s, NEW c, SameEncoder(s, c), Right(s)
  PROVE  Right(c)
BY DEF SameEncoder, Right, Sound, RunOf

LEMMA FlushRight ==
  ASSUME NEW s \in GoodType, mode \in Mode, Right(s)
  PROVE  Right(Flush(s)) /\ Flush(s).bf = s.bf
<1>1. s \in StateType /\ Sound(s)
  BY DEF GoodType, Right
<1>2. Sound(Flush(s)) /\ RunOf(Flush(s)) = <<>> /\ Flush(s).bf = s.bf
  BY <1>1, FlushSound, FlushIs
<1> QED
  BY <1>2 DEF Right, UpToClock

LEMMA CommitRight ==
  ASSUME NEW s \in GoodType, NEW t \in Nat, NEW data \in SamplesType, data # <<>>,
         mode \in Mode, Right(s), Consecutive(data, t)
  PROVE  Right(CommitData(s, t, data))
<1> DEFINE c == CommitData(s, t, data)
<1>1. s \in StateType /\ t \in Int /\ Sound(s)
  BY DEF GoodType, Right
<1>2. s.clk.time \in Int /\ RunOf(s) \in SamplesType
  BY <1>1, StateFields, RunType
<1>3. CASE mode.kind = "mseed"
  <2> DEFINE r == [label |-> t, samples |-> data]
  <2>1. c.enc = s.enc /\ c.clk = s.clk /\ c.out = Append(s.out, r)
    <3>1. mode.kind = "mseed" => s.enc.data = <<>> /\ s.enc.pending = <<>>
      BY DEF GoodType
    <3> QED
      BY <1>1, <1>3, <3>1, CommitDataIs
  <2>2. Len(data) \in Nat \ {0} /\ \A k \in 1 .. Len(data) : data[k][2] = t + k - 1
    BY DEF SamplesType, Consecutive
  <2>3. Smooth(data)
    <3>1. ASSUME NEW k \in 1 .. (Len(data) - 1)
          PROVE  ~IsGap(data[k + 1][2] - data[k][2] - 1)
      <4>1. k \in 1 .. Len(data) /\ k + 1 \in 1 .. Len(data)
        BY <2>2
      <4>2. data[k + 1][2] - data[k][2] - 1 = 0
        BY <1>1, <2>2, <4>1
      <4> QED
        BY <4>2, GapIs, RawAssumption
    <3> QED
      BY <3>1 DEF Smooth
  <2>4. Labelled(t, data)
    <3>1. data[1][2] = t
      BY <1>1, <2>2
    <3>2. (mode.spw - 1) * (Gap_flush - 1) >= 0
      <4>1. mode.spw - 1 \in Nat /\ Gap_flush - 1 \in Nat
        BY RawAssumption DEF Mode
      <4> QED
        BY <4>1
    <3>3. Abs(t - data[1][2]) = 0
      BY <1>1, <3>1 DEF Abs
    <3> QED
      BY <3>2, <3>3 DEF Labelled
  <2>5. Fine(r)
    BY <2>3, <2>4 DEF Fine
  <2>6. r \in RecordType /\ s.out \in Seq(RecordType)
    BY <1>1, StateFields DEF RecordType
  <2> HIDE DEF c, r
  <2>7. Len(c.out) = Len(s.out) + 1 /\ Len(s.out) \in Nat
        /\ \A i \in 1 .. Len(c.out) : c.out[i] = IF i <= Len(s.out) THEN s.out[i] ELSE r
    BY <2>1, <2>6, AppendProperties
  <2>8. \A i \in 1 .. Len(c.out) : Fine(c.out[i])
    BY <1>1, <2>5, <2>7 DEF Sound
  <2>9. RunOf(c) = RunOf(s)
    BY <2>1 DEF RunOf
  <2> QED
    BY <1>1, <2>1, <2>8, <2>9 DEF Right, Sound, c
<1>4. CASE mode.kind # "mseed"
  <2> DEFINE a == SetTime(s, t)
             b == FlushAtGap(a)
  <2>1. /\ a \in StateType /\ a.out = s.out /\ a.enc = s.enc /\ a.clk.time = t
        /\ a.clk.gap = IF s.clk.time = None THEN 0 ELSE t - s.clk.time
    BY <1>1, SetTimeIs
  <2>2. c = Samples(b, data)
    BY <1>4 DEF CommitData
  <2> HIDE DEF a
  <2>3. b \in StateType /\ b.clk = a.clk
    BY <2>1, FlushAtGapIs
  <2>4. Sound(a) /\ RunOf(a) = RunOf(s)
    BY <1>1, <2>1 DEF Sound, RunOf
  <2>5. Sound(b) /\ Follows(RunOf(b), t)
    <3>1. CASE IsGap(a.clk.gap)
      <4>1. b = Flush(a)
        BY <3>1 DEF FlushAtGap
      <4>2. Sound(b) /\ RunOf(b) = <<>>
        BY <2>1, <2>4, <4>1, FlushSound
      <4> QED
        BY <4>2 DEF Follows
    <3>2. CASE ~IsGap(a.clk.gap)
      <4> DEFINE q == RunOf(s)
      <4>1. b = a
        BY <3>2 DEF FlushAtGap
      <4>2. ASSUME q # <<>> PROVE ~IsGap(t - q[Len(q)][2] - 1)
        <5>1. s.clk.time = q[Len(q)][2] + 1 /\ s.clk.time # None
          BY <4>2 DEF Right, UpToClock
        <5>2. q[Len(q)][2] \in Int
          <6> HIDE DEF q
          <6>1. q \in SamplesType
            BY <1>2 DEF q
          <6>2. Len(q) \in 1 .. Len(q)
            BY <4>2, <6>1 DEF SamplesType
          <6> QED
            BY <6>1, <6>2, ElementOfSeq DEF SamplesType, SampleType
        <5> HIDE DEF q
        <5>3. a.clk.gap = t - q[Len(q)][2] - 1
          BY <1>1, <1>2, <2>1, <5>1, <5>2
        <5> QED
          BY <3>2, <5>3
      <4>3. Follows(q, t)
        BY <4>2 DEF Follows
      <4> HIDE DEF q, b
      <4> QED
        BY <2>4, <4>1, <4>3 DEF q
    <3> QED
      BY <3>1, <3>2
  <2> HIDE DEF b
  <2>6. b.clk.time = t
    BY <2>1, <2>3
  <2>7. Sound(c) /\ UpToClock(RunOf(c), c.clk.time)
    BY <2>2, <2>3, <2>5, <2>6, SamplesSound
  <2>8. c.clk.time = t + Len(data)
    BY <2>2, <2>3, <2>6, SamplesIs
  <2>9. c.clk.time # None
    BY <2>8 DEF None, SamplesType
  <2> QED
    BY <2>7, <2>9 DEF Right
<1> QED
  BY <1>3, <1>4

\* What commit_packet leaves for the encoder, and what it takes from the buffer.
LEMMA CommitFirstEncoder ==
  ASSUME NEW s \in GoodType, s.bf.buffer # <<>>
  PROVE  LET p == Head(s.bf.buffer)
             a == [s EXCEPT !.bf.last = etime(p)]
             c == CommitData(a, p.stime, p.data)
             f == IF p.flush THEN Flush(c) ELSE c
         IN  /\ a \in GoodType /\ SameEncoder(s, a)
             /\ c \in GoodType /\ f \in GoodType
             /\ SameEncoder(f, CommitFirst(s))
<1> DEFINE b == s.bf.buffer
           p == Head(b)
           a == [s EXCEPT !.bf.last = etime(p)]
           c == CommitData(a, p.stime, p.data)
           f == IF p.flush THEN Flush(c) ELSE c
           t == Tail(f.bf.buffer)
           r == [f EXCEPT !.bf.buffer = t]
<1>1. b \in Seq(PacketType)
  BY StateFields DEF GoodType
<1>2. p \in PacketType /\ Tail(b) \in Seq(PacketType)
  BY <1>1, HeadTailProperties
<1>3. CommitFirst(s) = r
  BY DEF CommitFirst
<1> HIDE DEF p
<1>4. etime(p) \in Int /\ p.stime \in Int /\ p.data \in SamplesType
  BY <1>2, EtimeType
<1>5. a \in GoodType /\ SameEncoder(s, a) /\ a.bf.buffer = b
  BY <1>4, PutLast
<1> HIDE DEF a
<1>6. c \in GoodType /\ c.bf = a.bf
  BY <1>4, <1>5, CommitIn
<1> HIDE DEF c
<1>7. f \in GoodType /\ f.bf = c.bf
  <2>1. Flush(c) \in GoodType /\ Flush(c).bf = c.bf
    BY <1>6, FlushType, FlushIs DEF GoodType
  <2> QED
    BY <1>6, <2>1
<1> HIDE DEF f
<1>8. t \in Seq(PacketType)
  BY <1>2, <1>5, <1>6, <1>7
<1> HIDE DEF t
<1>9. SameEncoder(f, r)
  BY <1>7, <1>8, PutBuffer
<1> QED
  BY <1>3, <1>5, <1>6, <1>7, <1>9 DEF f, c, a, p, t

LEMMA CommittingRight ==
  ASSUME mode \in Mode
  PROVE  \A x \in RightType \cap GoodType : x.bf.buffer # <<>> => CommitFirst(x) \in RightType
<1> SUFFICES ASSUME NEW s \in GoodType, Right(s), Regular(s.bf.buffer), s.bf.buffer # <<>>
             PROVE  CommitFirst(s) \in RightType
  BY DEF RightType
<1> DEFINE b == s.bf.buffer
           p == Head(b)
           a == [s EXCEPT !.bf.last = etime(p)]
           c == CommitData(a, p.stime, p.data)
           f == IF p.flush THEN Flush(c) ELSE c
           r == CommitFirst(s)
<1>1. /\ a \in GoodType /\ SameEncoder(s, a)
      /\ c \in GoodType /\ f \in GoodType /\ SameEncoder(f, r)
  BY CommitFirstEncoder
<1>2. p \in PacketType /\ r \in GoodType /\ r.bf.buffer = Tail(b)
  BY CommitFirstIs
<1>3. b \in Seq(PacketType) /\ b # <<>>
  BY StateFields DEF GoodType
<1> HIDE DEF r, b
<1>4. Len(b) \in Nat \ {0} /\ p = b[1] /\ Len(Tail(b)) = Len(b) - 1
      /\ \A k \in 1 .. (Len(b) - 1) : Tail(b)[k] = b[k + 1]
  BY <1>3, HeadTailProperties
<1>5. p.stime \in Nat /\ Consecutive(p.data, p.stime)
  BY <1>4 DEF Regular, b
<1>6. Regular(Tail(b))
  <2>1. ASSUME NEW k \in 1 .. Len(Tail(b))
        PROVE  Tail(b)[k].stime \in Nat /\ Consecutive(Tail(b)[k].data, Tail(b)[k].stime)
    <3>1. k + 1 \in 1 .. Len(b) /\ Tail(b)[k] = b[k + 1]
      BY <1>4
    <3> QED
      BY <3>1 DEF Regular, b
  <2> QED
    BY <2>1 DEF Regular
<1> HIDE DEF p
<1>7. p.data \in SamplesType /\ p.data # <<>>
  BY <1>2, EtimeType
<1>8. Right(a)
  BY <1>1, SameRight
<1> HIDE DEF a
<1>9. Right(c)
  <2> DEFINE t == p.stime
             d == p.data
  <2>1. t \in Nat /\ d \in SamplesType /\ d # <<>> /\ Consecutive(d, t)
    BY <1>5, <1>7
  <2> HIDE DEF t, d
  <2>2. Right(CommitData(a, t, d))
    BY <1>1, <1>8, <2>1, CommitRight
  <2> QED
    BY <2>2 DEF t, d
<1> HIDE DEF c
<1>10. Right(f)
  BY <1>1, <1>9, FlushRight
<1> HIDE DEF f
<1>11. Right(r)
  BY <1>1, <1>10, SameRight
<1> QED
  BY <1>2, <1>6, <1>11 DEF RightType, r

\* A packet that has come in is committed, now or later, like those before it.
LEMMA BackfilledRight ==
  ASSUME NEW s \in RightType, NEW p \in PacketType, mode \in Mode,
         p.stime \in Nat, Consecutive(p.data, p.stime)
  PROVE  Backfilled(s, p) \in RightType
<1> DEFINE e == etime(p)
           t == p.stime
           d == p.data
           r == Backfilled(s, p)
<1>1. s \in GoodType /\ Right(s) /\ Regular(s.bf.buffer)
  BY DEF RightType
<1>2. e \in Int /\ t \in Nat /\ t \in Int /\ d \in SamplesType /\ d # <<>> /\ Consecutive(d, t)
  BY EtimeType
<1>3. ASSUME NEW a \in RightType PROVE CommitData(a, t, d) \in RightType
  <2>1. a \in GoodType /\ Right(a) /\ Regular(a.bf.buffer)
    BY DEF RightType
  <2> DEFINE c == CommitData(a, t, d)
  <2> HIDE DEF t, d
  <2>2. c \in GoodType /\ c.bf = a.bf /\ Right(c)
    BY <1>2, <2>1, CommitIn, CommitRight
  <2> QED
    BY <2>1, <2>2 DEF RightType
<1>4. ASSUME NEW a \in RightType PROVE Committed(a, p) \in RightType
  <2>1. a \in GoodType /\ Right(a) /\ Regular(a.bf.buffer)
    BY DEF RightType
  <2> DEFINE b == [a EXCEPT !.bf.last = e]
  <2> HIDE DEF e
  <2>2. b \in GoodType /\ SameEncoder(a, b) /\ b.bf.buffer = a.bf.buffer
    BY <1>2, <2>1, PutLast
  <2>3. Committed(a, p) = CommitData(b, t, d)
    BY DEF Committed, e
  <2> HIDE DEF b
  <2>4. b \in RightType
    BY <2>1, <2>2, SameRight DEF RightType
  <2> QED
    BY <1>3, <2>3, <2>4
<1>5. ASSUME NEW a \in RightType PROVE SyncBuffer(a) \in RightType
  <2>1. a \in GoodType
    BY DEF RightType
  <2> QED
    BY <2>1, CommittingRight, SyncBufferIn
<1>6. Away(s) \in RightType
  BY <1>1, AwayIs, SameRight DEF RightType
<1>7. Placed(s, p) \in RightType
  <2> DEFINE c == Placed(s, p)
             b == s.bf.buffer
             i == Insert(b, p)
  <2>1. c \in GoodType /\ SameEncoder(s, c) /\ c.bf.buffer = i
    BY <1>1, PlacedIs
  <2>2. b \in Seq(PacketType)
    BY <1>1, StateFields DEF GoodType
  <2> HIDE DEF c, b
  <2>3. PICK k \in 1 .. (Len(b) + 1) : InsertedAt(b, p, i, k)
    BY <2>2, InsertIs
  <2> HIDE DEF i
  <2>4. /\ Len(i) = Len(b) + 1 /\ i[k] = p
        /\ \A j \in 1 .. (k - 1) : i[j] = b[j]
        /\ \A j \in (k + 1) .. (Len(b) + 1) : i[j] = b[j - 1]
    BY <2>2, <2>3, InsertedIs
  <2>5. ASSUME NEW j \in 1 .. Len(i) PROVE i[j].stime \in Nat /\ Consecutive(i[j].data, i[j].stime)
    <3>1. CASE j = k
      BY <1>2, <2>4, <3>1
    <3>2. CASE j < k
      <4>1. j \in 1 .. (k - 1) /\ j \in 1 .. Len(b)
        BY <2>2, <2>4, <3>2
      <4> QED
        BY <1>1, <2>4, <4>1 DEF Regular, b
    <3>3. CASE j > k
      <4>1. j \in (k + 1) .. (Len(b) + 1) /\ j - 1 \in 1 .. Len(b)
        BY <2>2, <2>4, <3>3
      <4> QED
        BY <1>1, <2>4, <4>1 DEF Regular, b
    <3> QED
      BY <2>4, <3>1, <3>2, <3>3
  <2>6. Regular(i)
    BY <2>5 DEF Regular
  <2>7. Right(c)
    BY <1>1, <2>1, SameRight
  <2> QED
    BY <2>1, <2>6, <2>7 DEF RightType, c
<1> HIDE DEF t, d
<1>8. Committed(s, p) \in RightType /\ SyncBuffer(Placed(s, p)) \in RightType
  BY <1>4, <1>5, <1>7
<1>9. CommitData(Away(s), t, d) \in RightType
  BY <1>3, <1>6
<1>10. SyncBuffer(Committed(Away(s), p)) \in RightType
  BY <1>4, <1>5, <1>6
<1>11. \/ r = Committed(s, p) \/ r = SyncBuffer(Placed(s, p))
       \/ r = CommitData(Away(s), t, d) \/ r = SyncBuffer(Committed(Away(s), p))
  BY <1>1, BackfilledIs DEF t, d
<1> QED
  BY <1>8, <1>9, <1>10, <1>11

LEMMA FlushedRight ==
  ASSUME NEW s \in RightType, mode \in Mode
  PROVE  Flushed(s) \in RightType
<1>1. AllCommitted(s) \in RightType
  <2>1. s \in GoodType
    BY DEF RightType
  <2> QED
    BY <2>1, CommittingRight, AllCommittedIn
<1>2. ASSUME NEW a \in RightType PROVE Flush(a) \in RightType
  BY FlushRight, FlushType DEF RightType
<1> QED
  BY <1>1, <1>2 DEF Flushed

LEMMA CurrentRight ==
  ASSUME NEW s \in RightType, mode \in Mode
  PROVE  WithCurrent(s, <<>>, TRUE) \in RightType
<1> DEFINE c == WithCurrent(s, <<>>, TRUE)
           b == s.bf.buffer
           r == c.bf.buffer
<1>1. s \in GoodType /\ Right(s) /\ Regular(b)
  BY DEF RightType
<1>2. c \in GoodType /\ SameEncoder(s, c) /\ Continued(b, r, <<>>, TRUE)
  <2>1. <<>> \in SamplesType /\ TRUE \in BOOLEAN
    BY DEF SamplesType
  <2> QED
    BY <1>1, <2>1, WithCurrentIs
<1>3. b \in Seq(PacketType)
  BY <1>1, StateFields DEF GoodType
<1> HIDE DEF c
<1>4. Right(c)
  BY <1>1, <1>2, SameRight
<1> HIDE DEF b, r
<1>5. ASSUME NEW k \in 1 .. Len(r) PROVE r[k].stime \in Nat /\ Consecutive(r[k].data, r[k].stime)
  <2>1. k \in 1 .. Len(b) /\ r[k].stime = b[k].stime
        /\ (r[k].data = b[k].data \/ r[k].data = b[k].data \o <<>>)
    BY <1>2 DEF Continued
  <2>2. b[k].data \in SamplesType
    BY <1>3, <2>1, ElementOfSeq, EtimeType
  <2>3. r[k].data = b[k].data
    BY <2>1, <2>2, Joining
  <2> QED
    BY <1>1, <2>1, <2>3 DEF Regular
<1>6. Regular(r)
  BY <1>5 DEF Regular
<1> QED
  BY <1>2, <1>4, <1>6 DEF RightType, c, r

RightInv == mode.timed => State \in RightType

LEMMA RightInit ==
  ASSUME Init
  PROVE  RightInv
<1>1. State \in GoodType /\ mode \in Mode
  BY GoodInit DEF GoodInv
<1>2. State.out = <<>> /\ State.enc.data = <<>> /\ State.enc.pending = <<>>
      /\ ~State.enc.open /\ State.bf.buffer = <<>>
  BY DEF Init, State
<1>3. RunOf(State) = <<>>
  BY <1>2, Joining DEF RunOf
<1>4. Len(<<>>) = 0 /\ mode.spw > 0
  BY <1>1 DEF Mode
<1>5. Sound(State)
  BY <1>2, <1>3, <1>4 DEF Sound, Smooth
<1>6. Right(State)
  BY <1>3, <1>5 DEF Right, UpToClock
<1>7. Regular(State.bf.buffer)
  BY <1>2, <1>4 DEF Regular
<1> QED
  BY <1>1, <1>6, <1>7 DEF RightInv, RightType

LEMMA RightTypeStays ==
  ASSUME mode' = mode
  PROVE  RightType' = RightType
BY DEF RightType, GoodType, StateType, EncType, BfType, ClkType, RecordType, PacketType,
   SamplesType, SampleType, Right, Sound, Fine, Labelled, Smooth, IsGap, RunOf, UpToClock, Regular,
   Consecutive

LEMMA RightStep ==
  ASSUME GoodInv, RightInv, [Next]_vars
  PROVE  RightInv'
<1>1. mode \in Mode /\ given \in Nat
  BY DEF GoodInv
<1>2. ASSUME NEW r \in RightType, State' = r, mode' = mode PROVE RightInv'
  BY <1>2, RightTypeStays DEF RightInv
<1>3. ASSUME NEW t \in Times, NEW n \in Sizes, SendWithTime(t, n), mode.timed PROVE RightInv'
  <2> DEFINE p == PacketOf(t, Data(t, n))
             d == Data(t, n)
             b == Backfilled(State, p)
             c == CommitData(State, t, p.data)
             r == IF mode.capacity > 0 THEN b ELSE c
  <2>1. /\ p \in PacketType /\ p.data = d /\ p.stime = t
        /\ r \in GoodType /\ Handled(r, t + n, n)
        /\ t \in Nat /\ n \in Nat \ {0}
    BY <1>3, SendWithTimeIs
  <2>2. Consecutive(d, t)
    <3>1. t \in Int
      BY <2>1
    <3>2. Len(d) = n /\ \A k \in 1 .. n : d[k] = <<given + k, t + k - 1>>
      BY <1>1, <2>1, <3>1, PacketOfIs
    <3> QED
      BY <3>2 DEF Consecutive
  <2> HIDE DEF p, d
  <2>3. State \in RightType
    BY <1>3 DEF RightInv
  <2>4. b \in RightType
    BY <1>1, <2>1, <2>2, <2>3, BackfilledRight
  <2>5. c \in RightType
    <3>1. p.data \in SamplesType /\ p.data # <<>> /\ t \in Int
      BY <2>1, EtimeType
    <3>2. State \in GoodType /\ Right(State) /\ Regular(State.bf.buffer)
      BY <2>3 DEF RightType
    <3>3. c \in GoodType /\ c.bf = State.bf
      BY <3>1, <3>2, CommitIn
    <3>4. Right(c)
      BY <1>1, <2>1, <2>2, <3>1, <3>2, CommitRight
    <3> QED
      BY <3>2, <3>3, <3>4 DEF RightType
  <2> HIDE DEF b, c
  <2>6. r \in RightType
    BY <2>4, <2>5
  <2>7. State' = r /\ mode' = mode
    <3> HIDE DEF r
    <3> QED
      BY <2>1, HandledIs
  <2> HIDE DEF r
  <2> QED
    BY <1>2, <2>6, <2>7
<1>4. ASSUME NEW n \in Sizes, SendRaw(n) \/ SendGap(n) PROVE RightInv'
  BY <1>4 DEF SendRaw, SendGap, Continues, Handled, RightInv
<1>5. ASSUME SendFlush, mode.timed PROVE RightInv'
  <2> DEFINE w == WithCurrent(State, <<>>, TRUE)
             f == Flush(State)
             r == IF bf.current # None THEN w ELSE f
  <2>1. r \in GoodType /\ Handled(r, next, 0)
    BY <1>5, SendFlushIs
  <2>2. State \in RightType
    BY <1>5 DEF RightInv
  <2>3. w \in RightType /\ f \in RightType
    <3>1. State \in GoodType /\ Right(State) /\ Regular(State.bf.buffer)
      BY <2>2 DEF RightType
    <3>2. f \in RightType
      BY <1>1, <3>1, FlushRight, FlushType DEF RightType
    <3> QED
      BY <1>1, <2>2, <3>2, CurrentRight
  <2> HIDE DEF w, f
  <2>4. r \in RightType
    BY <2>3
  <2> HIDE DEF r
  <2>5. State' = r /\ mode' = mode
    BY <2>1, HandledIs
  <2> QED
    BY <1>2, <2>4, <2>5
<1>6. ASSUME End, mode.timed PROVE RightInv'
  <2> DEFINE r == Flushed(State)
  <2>1. r \in RightType
    BY <1>1, <1>6, FlushedRight DEF RightInv
  <2>2. State' = r /\ mode' = mode
    BY <1>6, EndIs
  <2> HIDE DEF r
  <2> QED
    BY <1>2, <2>1, <2>2
<1>7. CASE UNCHANGED vars
  <2>1. State' = State /\ mode' = mode
    BY <1>7 DEF vars, State
  <2> QED
    BY <1>2, <2>1 DEF RightInv
<1>8. CASE ~mode.timed
  <2>1. mode' = mode
    BY <1>8, <1>7 DEF Next, SendWithTime, SendRaw, SendGap, SendFlush, End, Handled, vars
  <2> QED
    BY <1>8, <2>1 DEF RightInv
<1> QED
  BY <1>3, <1>4, <1>5, <1>6, <1>7, <1>8 DEF Next

\* Records are ended at gaps, and have the time of what they begin with, for
\* every size of a word, of a record and of the buffer.
THEOREM RecordsFit == Spec => [](NoGapInside /\ LabelOfWord)
<1>1. Init => GoodInv /\ RightInv
  BY GoodInit, RightInit
<1>2. GoodInv /\ RightInv /\ [Next]_vars => GoodInv' /\ RightInv'
  BY GoodStep, RightStep
<1>3. GoodInv /\ RightInv => NoGapInside /\ LabelOfWord
  <2> SUFFICES ASSUME GoodInv, RightInv, mode.timed, NEW r \in ToSet(out)
               PROVE  Fine(r)
    BY DEF NoGapInside, LabelOfWord, Fine, Smooth, Labelled
  <2>1. State.out = out
    BY DEF State
  <2>2. out \in Seq(RecordType)
    BY <2>1, StateFields DEF GoodInv, GoodType
  <2>3. PICK i \in 1 .. Len(out) : r = out[i]
    BY <2>2 DEF ToSet
  <2> QED
    BY <2>1, <2>3 DEF RightInv, RightType, Right, Sound
<1> QED
  BY <1>1, <1>2, <1>3, PTL DEF Spec

\* No record has a gap inside at which it was to be ended (SetTime's flush).
THEOREM GapsEndRecords == Spec => []NoGapInside
BY RecordsFit, PTL

\* The time in the header of a record of a word or more is that of its first
\* sample, but for gaps inside the first word that are too small to flush at.
THEOREM LabelsFit == Spec => []LabelOfWord
BY RecordsFit, PTL

-----------------------------------------------------------------------------
(* InOrder.                                                                *)

\* The samples of q are among those excused.
Ex(q, X) == ToSet(q.data) \subseteq X

\* Of two neighbours that are out of order, one is excused.
Orderly(q, X) ==
  \A k \in 1 .. (Len(q) - 1) : q[k][2] > q[k + 1][2] => q[k] \in X \/ q[k + 1] \in X

\* The packets that wait, by their ends; of two that overlap, one is excused.
Sorted(b, X) ==
  \A i, j \in 1 .. Len(b) : i < j => /\ etime(b[i]) <= etime(b[j])
                                     /\ b[j].stime < etime(b[i]) => Ex(b[i], X) \/ Ex(b[j], X)

\* What is emitted ends before the time up to which packets were committed; a
\* packet that waits begins after it, or it or the last sample is excused.
Ordered(s, X) ==
  LET e == EmitOf(s)
      b == s.bf.buffer
  IN  /\ Orderly(e, X)
      /\ e # <<>> => s.bf.last # None /\ e[Len(e)][2] < s.bf.last
      /\ s.bf.last = None => b = <<>>
      /\ Sorted(b, X)
      /\ \A i \in 1 .. Len(b) : \/ b[i].stime >= s.bf.last
                                \/ Ex(b[i], X)
                                \/ e # <<>> /\ e[Len(e)] \in X

OrderType(X) == {x \in GoodType : Ordered(x, X) /\ Regular(x.bf.buffer)}

\* Between handlers, what waits ends after what was committed.
Ahead(s) == \A i \in 1 .. Len(s.bf.buffer) : etime(s.bf.buffer[i]) > s.bf.last

LEMMA OrderlyJoin ==
  ASSUME NEW X, NEW e \in SamplesType, NEW d \in SamplesType, NEW t \in Int,
         Orderly(e, X), d # <<>>, Consecutive(d, t),
         e # <<>> => e[Len(e)][2] < t \/ e[Len(e)] \in X \/ ToSet(d) \subseteq X
  PROVE  LET c == e \o d
         IN  /\ Orderly(c, X) /\ c # <<>>
             /\ c[Len(c)] = d[Len(d)] /\ c[Len(c)][2] = t + Len(d) - 1
             /\ d[Len(d)] \in ToSet(d)
<1> DEFINE c == e \o d
           m == Len(e)
           n == Len(d)
<1>1. m \in Nat /\ n \in Nat \ {0} /\ DOMAIN d = 1 .. n
  BY DEF SamplesType
<1>2. /\ Len(c) = m + n
      /\ \A i \in 1 .. (m + n) : c[i] = IF i <= m THEN e[i] ELSE d[i - m]
  BY ConcatProperties DEF SamplesType
<1> HIDE DEF c
<1>3. \A i \in 1 .. m : c[i] = e[i]
  BY <1>1, <1>2
<1>4. ASSUME NEW i \in 1 .. n PROVE c[m + i] = d[i]
  <2>1. m + i \in 1 .. (m + n) /\ ~(m + i <= m) /\ (m + i) - m = i
    BY <1>1
  <2> QED
    BY <1>2, <2>1
<1>5. \A i \in 1 .. n : d[i] \in ToSet(d)
  BY <1>1 DEF ToSet
<1>6. \A i \in 1 .. n : d[i][2] = t + i - 1
  BY DEF Consecutive
<1>7. ASSUME NEW k \in 1 .. (Len(c) - 1), c[k][2] > c[k + 1][2]
      PROVE  c[k] \in X \/ c[k + 1] \in X
  <2>1. CASE k < m
    <3>1. k \in 1 .. m /\ k + 1 \in 1 .. m /\ k \in 1 .. (m - 1)
      BY <1>1, <1>2, <2>1
    <3>2. c[k] = e[k] /\ c[k + 1] = e[k + 1]
      BY <1>3, <3>1
    <3> QED
      BY <1>7, <3>1, <3>2 DEF Orderly
  <2>2. CASE k = m
    <3>1. k \in 1 .. m /\ 1 \in 1 .. n /\ e # <<>>
      BY <1>1, <1>2, <2>2
    <3>2. c[k] = e[m] /\ c[k + 1] = d[1]
      BY <1>3, <1>4, <2>2, <3>1
    <3>3. d[1][2] = t /\ d[1] \in ToSet(d)
      BY <1>5, <1>6, <3>1
    <3>4. ~(e[m][2] < t)
      <4>1. e[m][2] > t
        BY <1>7, <3>2, <3>3
      <4>2. e[m][2] \in Int
        BY <2>2, <3>1, ElementOfSeq DEF SamplesType, SampleType
      <4> QED
        BY <4>1, <4>2
    <3> QED
      BY <3>1, <3>2, <3>3, <3>4
  <2>3. CASE k > m
    <3>1. /\ k - m \in 1 .. n /\ (k - m) + 1 \in 1 .. n
          /\ m + (k - m) = k /\ m + ((k - m) + 1) = k + 1
      BY <1>1, <1>2, <2>3
    <3>2. c[k] = d[k - m] /\ c[k + 1] = d[(k - m) + 1]
      BY <1>4, <3>1
    <3>3. d[k - m][2] = t + (k - m) - 1 /\ d[(k - m) + 1][2] = t + ((k - m) + 1) - 1
      BY <1>6, <3>1
    <3> QED
      BY <1>1, <1>7, <3>2, <3>3
  <2> QED
    BY <1>1, <1>2, <2>1, <2>2, <2>3
<1>8. Orderly(c, X)
  BY <1>7 DEF Orderly
<1>9. c # <<>> /\ n \in 1 .. n /\ c[Len(c)] = d[n]
  <2>1. n \in 1 .. n
    BY <1>1
  <2>2. c[m + n] = d[n]
    BY <1>4, <2>1
  <2> QED
    BY <1>1, <1>2, <2>1, <2>2
<1> QED
  BY <1>5, <1>6, <1>8, <1>9 DEF c

\* To excuse more does no harm.
LEMMA OrderedMore ==
  ASSUME NEW s, NEW X, NEW Y, X \subseteq Y, Ordered(s, X)
  PROVE  Ordered(s, Y)
<1> DEFINE e == EmitOf(s)
           b == s.bf.buffer
<1>1. \A q : Ex(q, X) => Ex(q, Y)
  BY DEF Ex
<1>2. Orderly(e, Y)
  BY DEF Ordered, Orderly
<1>3. Sorted(b, Y)
  BY <1>1 DEF Ordered, Sorted
<1> QED
  BY <1>1, <1>2, <1>3 DEF Ordered

\* The packets and the samples are what counts.
LEMMA OrderedSame ==
  ASSUME NEW s, NEW c, NEW X, EmitOf(c) = EmitOf(s), c.bf.buffer = s.bf.buffer,
         c.bf.last = s.bf.last, Ordered(s, X)
  PROVE  Ordered(c, X)
BY DEF Ordered

\* The samples d, from t to before u, are emitted.
LEMMA EmittingOrdered ==
  ASSUME NEW s \in GoodType, NEW c \in GoodType, NEW X, NEW d \in SamplesType, NEW t \in Nat,
         Orderly(EmitOf(s), X), d # <<>>, Consecutive(d, t),
         EmitOf(c) = EmitOf(s) \o d,
         EmitOf(s) # <<>> => \/ EmitOf(s)[Len(EmitOf(s))][2] < t
                             \/ EmitOf(s)[Len(EmitOf(s))] \in X
                             \/ ToSet(d) \subseteq X,
         c.bf.last >= t + Len(d),
         Sorted(c.bf.buffer, X),
         \A i \in 1 .. Len(c.bf.buffer) : \/ c.bf.buffer[i].stime >= c.bf.last
                                          \/ Ex(c.bf.buffer[i], X)
                                          \/ ToSet(d) \subseteq X
  PROVE  Ordered(c, X)
<1> DEFINE e == EmitOf(s)
           f == EmitOf(c)
<1>1. e \in SamplesType /\ t \in Int
  BY EmitType DEF GoodType
<1> HIDE DEF e, f
<1>2. f = e \o d
  BY DEF e, f
<1>3. /\ Orderly(f, X) /\ f # <<>>
      /\ f[Len(f)] = d[Len(d)] /\ f[Len(f)][2] = t + Len(d) - 1
      /\ d[Len(d)] \in ToSet(d)
  <2>1. Orderly(e, X) /\ (e # <<>> => e[Len(e)][2] < t \/ e[Len(e)] \in X \/ ToSet(d) \subseteq X)
    BY DEF e
  <2> QED
    BY <1>1, <1>2, <2>1, OrderlyJoin
<1>4. c.bf.last \in Int /\ Len(d) \in Nat \ {0}
  BY StateFields DEF GoodType, SamplesType
<1>5. c.bf.last # None /\ f[Len(f)][2] < c.bf.last
  BY <1>1, <1>3, <1>4 DEF None
<1>6. \A i \in 1 .. Len(c.bf.buffer) : \/ c.bf.buffer[i].stime >= c.bf.last
                                       \/ Ex(c.bf.buffer[i], X)
                                       \/ f # <<>> /\ f[Len(f)] \in X
  BY <1>3
<1> QED
  BY <1>3, <1>5, <1>6 DEF Ordered, f

LEMMA CommittingOrdered ==
  ASSUME NEW X
  PROVE  \A x \in OrderType(X) \cap GoodType :
           x.bf.buffer # <<>> => CommitFirst(x) \in OrderType(X)
<1> SUFFICES ASSUME NEW s \in GoodType, Ordered(s, X), Regular(s.bf.buffer), s.bf.buffer # <<>>
             PROVE  CommitFirst(s) \in OrderType(X)
  BY DEF OrderType
<1> DEFINE b == s.bf.buffer
           p == Head(b)
           z == Tail(b)
           e == EmitOf(s)
           d == p.data
           t == p.stime
           c == CommitFirst(s)
<1>1. /\ p \in PacketType /\ c \in GoodType /\ c.bf.buffer = z /\ c.bf.last = etime(p)
      /\ EmitOf(c) = e \o d
  BY CommitFirstIs
<1>2. b \in Seq(PacketType) /\ b # <<>> /\ s.bf.last \in Int
  BY StateFields DEF GoodType
<1>3. Orderly(e, X) /\ (e # <<>> => e[Len(e)][2] < s.bf.last) /\ Sorted(b, X)
      /\ \A i \in 1 .. Len(b) : \/ b[i].stime >= s.bf.last
                                \/ Ex(b[i], X)
                                \/ e # <<>> /\ e[Len(e)] \in X
  BY DEF Ordered
<1>4. Regular(b)
  OBVIOUS
<1>5. e \in SamplesType
  BY EmitType DEF GoodType
<1> HIDE DEF c, b, e
<1>6. Len(b) \in Nat \ {0} /\ p = b[1] /\ Len(z) = Len(b) - 1 /\ 1 \in 1 .. Len(b)
      /\ \A k \in 1 .. (Len(b) - 1) : z[k] = b[k + 1]
  BY <1>2, HeadTailProperties
<1>7. t \in Nat /\ Consecutive(d, t)
  BY <1>4, <1>6 DEF Regular
<1> HIDE DEF z
<1>8. ASSUME NEW k \in 1 .. Len(z) PROVE k + 1 \in 1 .. Len(b) /\ z[k] = b[k + 1] /\ k \in Nat
  BY <1>6
<1>9. Regular(z)
  BY <1>4, <1>8 DEF Regular
<1>10. Sorted(z, X)
  <2> SUFFICES ASSUME NEW i \in 1 .. Len(z), NEW j \in 1 .. Len(z), i < j
               PROVE  /\ etime(z[i]) <= etime(z[j])
                      /\ z[j].stime < etime(z[i]) => Ex(z[i], X) \/ Ex(z[j], X)
    BY DEF Sorted
  <2>1. i + 1 < j + 1
    BY <1>8
  <2> QED
    BY <1>3, <1>8, <2>1 DEF Sorted
<1>11. ASSUME NEW k \in 1 .. Len(z)
       PROVE  z[k].stime >= etime(p) \/ Ex(z[k], X) \/ ToSet(d) \subseteq X
  <2>1. k + 1 \in 1 .. Len(b) /\ z[k] = b[k + 1] /\ 1 < k + 1
    BY <1>8
  <2>2. z[k].stime < etime(p) => Ex(p, X) \/ Ex(z[k], X)
    BY <1>3, <1>6, <2>1 DEF Sorted
  <2>3. etime(p) \in Int /\ z[k].stime \in Int
    BY <1>1, <1>2, <2>1, EtimeType, ElementOfSeq
  <2> QED
    BY <2>2, <2>3 DEF Ex
<1>12. e # <<>> => e[Len(e)][2] < t \/ e[Len(e)] \in X \/ ToSet(d) \subseteq X
  <2> SUFFICES ASSUME e # <<>>, t >= s.bf.last
               PROVE  e[Len(e)][2] < t
    BY <1>3, <1>6 DEF Ex
  <2>1. e[Len(e)][2] \in Int
    <3>1. Len(e) \in 1 .. Len(e)
      BY <1>5 DEF SamplesType
    <3> QED
      BY <1>5, <3>1, ElementOfSeq DEF SamplesType, SampleType
  <2> QED
    BY <1>2, <1>3, <1>7, <2>1
<1>13. d \in SamplesType /\ d # <<>> /\ etime(p) = t + Len(d) /\ etime(p) \in Int
  BY <1>1, EtimeType
<1> HIDE DEF d, t
<1>14. c.bf.last >= t + Len(d)
  BY <1>1, <1>13
<1>15. Ordered(c, X)
  <2>1. EmitOf(c) = EmitOf(s) \o d /\ Orderly(EmitOf(s), X)
    BY <1>1, <1>3 DEF e
  <2>2. EmitOf(s) # <<>> => \/ EmitOf(s)[Len(EmitOf(s))][2] < t
                            \/ EmitOf(s)[Len(EmitOf(s))] \in X
                            \/ ToSet(d) \subseteq X
    BY <1>12 DEF e
  <2>3. Sorted(c.bf.buffer, X)
    BY <1>1, <1>10
  <2>4. \A i \in 1 .. Len(c.bf.buffer) : \/ c.bf.buffer[i].stime >= c.bf.last
                                         \/ Ex(c.bf.buffer[i], X)
                                         \/ ToSet(d) \subseteq X
    BY <1>1, <1>11
  <2> QED
    BY <1>1, <1>7, <1>13, <1>14, <2>1, <2>2, <2>3, <2>4, EmittingOrdered
<1> QED
  BY <1>1, <1>9, <1>15 DEF OrderType, c

\* After a packet that could be committed has been, what waits is ahead.
LEMMA UnfitAhead ==
  ASSUME NEW X, NEW s \in OrderType(X), ~Fits(s)
  PROVE  Ahead(s)
<1> DEFINE b == s.bf.buffer
           l == s.bf.last
<1>1. s \in GoodType /\ Sorted(b, X)
  BY DEF OrderType, Ordered
<1>2. b \in Seq(PacketType) /\ l \in Int
  BY <1>1, StateFields DEF GoodType
<1>3. b # <<>> => ~(b[1].stime - l < 1)
  BY DEF Fits
<1> HIDE DEF b, l
<1>4. ASSUME NEW i \in 1 .. Len(b) PROVE etime(b[i]) > l
  <2>1. b # <<>> /\ 1 \in 1 .. Len(b) /\ i \in Nat
    BY <1>2
  <2>2. b[1] \in PacketType /\ b[i] \in PacketType
    BY <1>2, <2>1, ElementOfSeq
  <2> DEFINE u == etime(b[1])
             v == etime(b[i])
             w == b[1].stime
             n == Len(b[1].data)
  <2>3. u \in Int /\ v \in Int /\ w \in Int /\ n \in Nat \ {0} /\ u = w + n
    BY <2>2, EtimeType
  <2>4. 1 < i => u <= v
    BY <1>1, <2>1 DEF Sorted
  <2>5. i = 1 => u = v
    OBVIOUS
  <2>6. ~(w - l < 1)
    BY <1>3, <2>1
  <2> HIDE DEF u, v, w, n
  <2>7. u <= v
    BY <2>1, <2>3, <2>4, <2>5
  <2>8. v > l
    BY <1>2, <2>3, <2>6, <2>7
  <2> QED
    BY <2>8 DEF v
<1> QED
  BY <1>4 DEF Ahead, b, l

LateFor(s, p) ==
  \/ s.bf.last # None /\ p.stime < s.bf.last
  \/ \E q \in ToSet(s.bf.buffer) : p.stime < etime(q) /\ q.stime < etime(p)

LEMMA Overlaps ==
  ASSUME NEW s \in GoodType, NEW p, NEW i \in 1 .. Len(s.bf.buffer),
         p.stime < etime(s.bf.buffer[i]), s.bf.buffer[i].stime < etime(p)
  PROVE  LateFor(s, p)
<1>1. s.bf.buffer[i] \in ToSet(s.bf.buffer)
  <2>1. DOMAIN s.bf.buffer = 1 .. Len(s.bf.buffer)
    BY StateFields DEF GoodType
  <2> QED
    BY <2>1 DEF ToSet
<1> QED
  BY <1>1 DEF LateFor

\* A packet that takes its place in the buffer.
LEMMA PlacingOrdered ==
  ASSUME NEW X, NEW s \in OrderType(X), NEW p \in PacketType,
         p.stime \in Nat, Consecutive(p.data, p.stime),
         s.bf.last # None, p.stime - s.bf.last >= 1, LateFor(s, p) => Ex(p, X)
  PROVE  Placed(s, p) \in OrderType(X)
<1> DEFINE c == Placed(s, p)
           b == s.bf.buffer
           r == Insert(b, p)
           l == s.bf.last
           m == Len(b)
<1>1. s \in GoodType /\ Ordered(s, X) /\ Regular(b) /\ Sorted(b, X)
  BY DEF OrderType, Ordered
<1>2. /\ c \in GoodType /\ EmitOf(c) = EmitOf(s) /\ c.bf.buffer = r /\ c.bf.last = l
  BY <1>1, PlacedIs DEF SameEncoder
<1>3. b \in Seq(PacketType) /\ l \in Int /\ m \in Nat
  BY <1>1, StateFields DEF GoodType
<1>4. etime(p) \in Int /\ p.stime \in Int /\ p.stime < etime(p)
  BY EtimeType
<1>5. ASSUME NEW i \in 1 .. m
      PROVE  /\ etime(b[i]) \in Int /\ b[i].stime \in Int /\ b[i].stime < etime(b[i])
             /\ p.stime < etime(b[i]) /\ b[i].stime < etime(p) => Ex(p, X)
  <2>1. b[i] \in PacketType
    BY <1>3, ElementOfSeq
  <2>2. etime(b[i]) \in Int /\ b[i].stime \in Int /\ b[i].stime < etime(b[i])
    BY <2>1, EtimeType, SMTT(30)
  <2> QED
    BY <1>1, <2>2, Overlaps
<1> HIDE DEF c
<1>6. \A i \in 1 .. m : \/ b[i].stime >= l \/ Ex(b[i], X)
                        \/ EmitOf(s) # <<>> /\ EmitOf(s)[Len(EmitOf(s))] \in X
  BY <1>1 DEF Ordered
<1>7. /\ Orderly(EmitOf(s), X) /\ l # None
      /\ EmitOf(s) # <<>> => EmitOf(s)[Len(EmitOf(s))][2] < l
  BY <1>1 DEF Ordered
<1>8. p.stime >= l
  BY <1>3, <1>4
<1> HIDE DEF b, l
<1>9. PICK k \in 1 .. (m + 1) : InsertedAt(b, p, r, k)
  BY <1>3, InsertIs
<1> HIDE DEF r
<1>10. /\ Len(r) = m + 1 /\ r[k] = p
       /\ \A j \in 1 .. (k - 1) : r[j] = b[j]
       /\ \A j \in (k + 1) .. (m + 1) : r[j] = b[j - 1]
  BY <1>3, <1>9, InsertedIs
<1>11. /\ k = m + 1 \/ etime(b[k]) > etime(p)
       /\ \A j \in 1 .. (k - 1) : etime(b[j]) <= etime(p)
  BY <1>9 DEF InsertedAt
<1> HIDE DEF m
<1>12. ASSUME NEW j \in 1 .. (m + 1)
       PROVE  \/ j \in 1 .. (k - 1) /\ j \in 1 .. m /\ r[j] = b[j] /\ j < k
              \/ j = k /\ r[j] = p
              \/ j \in (k + 1) .. (m + 1) /\ j - 1 \in k .. m /\ j - 1 \in 1 .. m
                   /\ r[j] = b[j - 1] /\ j > k
  <2>1. CASE j < k
    BY <1>3, <1>10, <2>1
  <2>2. CASE j = k
    BY <1>10, <2>2
  <2>3. CASE j > k
    BY <1>3, <1>10, <2>3
  <2> QED
    BY <1>3, <2>1, <2>2, <2>3
<1>13. ASSUME NEW j \in k .. m, j \in 1 .. m PROVE etime(b[j]) > etime(p)
  <2>1. k \in 1 .. m /\ k # m + 1
    BY <1>3, <1>13
  <2>2. k < j => etime(b[k]) <= etime(b[j])
    BY <1>1, <1>13, <2>1 DEF Sorted, m, b
  <2>3. etime(b[k]) > etime(p) /\ etime(b[k]) \in Int /\ etime(b[j]) \in Int
    BY <1>5, <1>11, <1>13, <2>1
  <2> QED
    BY <1>3, <1>4, <1>13, <2>1, <2>2, <2>3
<1>14. ASSUME NEW i \in 1 .. m, NEW j \in 1 .. m, i < j
       PROVE  /\ etime(b[i]) <= etime(b[j])
              /\ b[j].stime < etime(b[i]) => Ex(b[i], X) \/ Ex(b[j], X)
  BY <1>1, <1>14 DEF Sorted, m, b
<1>15. ASSUME NEW i \in 1 .. (m + 1), NEW j \in 1 .. (m + 1), i < j
       PROVE  /\ etime(r[i]) <= etime(r[j])
              /\ r[j].stime < etime(r[i]) => Ex(r[i], X) \/ Ex(r[j], X)
  <2>1. CASE i < k /\ j < k
    <3>1. i \in 1 .. m /\ j \in 1 .. m /\ r[i] = b[i] /\ r[j] = b[j]
      BY <1>12, <2>1
    <3> QED
      BY <1>14, <1>15, <3>1
  <2>2. CASE i < k /\ j = k
    <3>1. i \in 1 .. (k - 1) /\ i \in 1 .. m /\ r[i] = b[i] /\ r[j] = p
      BY <1>12, <2>2
    <3>2. etime(b[i]) <= etime(p)
      BY <1>11, <3>1
    <3>3. ASSUME p.stime < etime(b[i]) PROVE Ex(p, X)
      <4>1. b[i].stime < etime(p)
        BY <1>4, <1>5, <3>1, <3>2
      <4> QED
        BY <1>5, <3>1, <3>3, <4>1
    <3> QED
      BY <3>1, <3>2, <3>3
  <2>3. CASE i < k /\ j > k
    <3>1. i \in 1 .. m /\ j - 1 \in 1 .. m /\ r[i] = b[i] /\ r[j] = b[j - 1] /\ i < j - 1
      BY <1>12, <2>3
    <3> QED
      BY <1>14, <3>1
  <2>4. CASE i = k
    <3>1. j - 1 \in k .. m /\ j - 1 \in 1 .. m /\ r[i] = p /\ r[j] = b[j - 1]
      BY <1>12, <1>15, <2>4
    <3>2. etime(b[j - 1]) > etime(p)
      BY <1>13, <3>1
    <3>3. etime(p) <= etime(b[j - 1])
      BY <1>4, <1>5, <3>1, <3>2
    <3>4. ASSUME b[j - 1].stime < etime(p) PROVE Ex(p, X)
      <4>1. p.stime < etime(b[j - 1])
        BY <1>4, <1>5, <3>1, <3>2
      <4> QED
        BY <1>5, <3>1, <3>4, <4>1
    <3> QED
      BY <3>1, <3>3, <3>4
  <2>5. CASE i > k
    <3>1. /\ i - 1 \in 1 .. m /\ j - 1 \in 1 .. m /\ r[i] = b[i - 1] /\ r[j] = b[j - 1]
          /\ i - 1 < j - 1
      BY <1>12, <1>15, <2>5
    <3> QED
      BY <1>14, <3>1
  <2> QED
    BY <1>3, <1>15, <2>1, <2>2, <2>3, <2>4, <2>5
<1>16. Sorted(r, X)
  BY <1>10, <1>15 DEF Sorted
<1>17. ASSUME NEW j \in 1 .. Len(r)
       PROVE  /\ r[j].stime \in Nat /\ Consecutive(r[j].data, r[j].stime)
              /\ \/ r[j].stime >= l \/ Ex(r[j], X)
                 \/ EmitOf(s) # <<>> /\ EmitOf(s)[Len(EmitOf(s))] \in X
  <2>1. r[j] = p \/ \E i \in 1 .. m : r[j] = b[i]
    BY <1>10, <1>12
  <2>2. CASE r[j] = p
    BY <1>8, <2>2
  <2>3. CASE \E i \in 1 .. m : r[j] = b[i]
    <3>1. PICK i \in 1 .. m : r[j] = b[i]
      BY <2>3
    <3>2. b[i].stime \in Nat /\ Consecutive(b[i].data, b[i].stime)
      BY <1>1 DEF Regular, m
    <3> QED
      BY <1>6, <3>1, <3>2
  <2> QED
    BY <2>1, <2>2, <2>3
<1>18. Regular(r)
  BY <1>17 DEF Regular
<1>19. Ordered(c, X)
  BY <1>2, <1>7, <1>16, <1>17 DEF Ordered
<1> QED
  BY <1>2, <1>18, <1>19 DEF OrderType, c

\* A packet that is committed at once, and moves the end of what was committed
\* to u: it begins at that end at the latest, or is late.
LEMMA AtOnceOrdered ==
  ASSUME NEW X, NEW s \in OrderType(X), NEW c \in GoodType, NEW p \in PacketType,
         p.stime \in Nat, Consecutive(p.data, p.stime), Ahead(s), LateFor(s, p) => Ex(p, X),
         EmitOf(c) = EmitOf(s) \o p.data, c.bf.buffer = s.bf.buffer,
         \/ s.bf.last = None /\ c.bf.last = etime(p)
         \/ s.bf.last # None /\ p.stime <= s.bf.last /\ c.bf.last = etime(p)
         \/ s.bf.last # None /\ etime(p) < s.bf.last /\ c.bf.last = s.bf.last
  PROVE  c \in OrderType(X)
<1> DEFINE b == s.bf.buffer
           l == s.bf.last
           e == EmitOf(s)
           d == p.data
           t == p.stime
<1>1. s \in GoodType /\ Ordered(s, X) /\ Regular(b)
  BY DEF OrderType
<1>2. b \in Seq(PacketType) /\ l \in Int /\ e \in SamplesType
  BY <1>1, StateFields, EmitType DEF GoodType
<1>3. /\ etime(p) \in Int /\ t \in Nat /\ d \in SamplesType /\ d # <<>> /\ Consecutive(d, t)
      /\ etime(p) = t + Len(d) /\ Len(d) \in Nat \ {0}
  BY EtimeType
<1>4. /\ Orderly(e, X) /\ Sorted(b, X) /\ (l = None => b = <<>> /\ e = <<>>)
      /\ e # <<>> => e[Len(e)][2] < l
  BY <1>1 DEF Ordered
<1>5. LateFor(s, p) => ToSet(d) \subseteq X
  BY DEF Ex
<1>6. l # None /\ t < l => ToSet(d) \subseteq X
  BY <1>5 DEF LateFor
<1>7. c.bf.last >= t + Len(d)
  BY <1>2, <1>3
<1>8. e # <<>> => e[Len(e)][2] < t \/ e[Len(e)] \in X \/ ToSet(d) \subseteq X
  <2> SUFFICES ASSUME e # <<>>, ~(ToSet(d) \subseteq X) PROVE e[Len(e)][2] < t
    OBVIOUS
  <2>1. l # None /\ t >= l
    BY <1>2, <1>3, <1>4, <1>6
  <2>2. e[Len(e)][2] \in Int
    <3> HIDE DEF e
    <3>1. Len(e) \in 1 .. Len(e)
      BY <1>2 DEF SamplesType
    <3> QED
      BY <1>2, <3>1, ElementOfSeq DEF SamplesType, SampleType
  <2> HIDE DEF e, l, t
  <2> QED
    BY <1>2, <1>3, <1>4, <2>1, <2>2
<1>9. ASSUME NEW i \in 1 .. Len(b)
      PROVE  b[i].stime >= c.bf.last \/ Ex(b[i], X) \/ ToSet(d) \subseteq X
  <2>1. b # <<>> /\ b[i] \in PacketType
    BY <1>2, ElementOfSeq
  <2>2. etime(b[i]) \in Int /\ b[i].stime \in Int /\ etime(b[i]) > l
    BY <2>1, EtimeType DEF Ahead
  <2>3. l # None
    BY <1>4, <2>1
  <2>4. CASE p.stime <= s.bf.last /\ c.bf.last = etime(p)
    <3>1. b[i].stime < etime(p) => LateFor(s, p)
      <4>1. t < etime(b[i])
        BY <1>2, <1>3, <2>2, <2>4
      <4> QED
        BY <1>1, <4>1, Overlaps
    <3> QED
      BY <1>3, <1>5, <2>2, <2>4, <3>1
  <2>5. CASE etime(p) < s.bf.last /\ c.bf.last = s.bf.last
    <3>1. t < l
      BY <1>2, <1>3, <2>5
    <3> QED
      BY <1>6, <2>3, <3>1
  <2> QED
    BY <2>3, <2>4, <2>5
<1>10. Ordered(c, X)
  <2>1. Sorted(c.bf.buffer, X)
    BY <1>4
  <2>2. \A i \in 1 .. Len(c.bf.buffer) : \/ c.bf.buffer[i].stime >= c.bf.last
                                         \/ Ex(c.bf.buffer[i], X)
                                         \/ ToSet(d) \subseteq X
    BY <1>9
  <2> HIDE DEF d, t
  <2>3. EmitOf(c) = EmitOf(s) \o d
    BY DEF d
  <2> QED
    BY <1>1, <1>3, <1>4, <1>7, <1>8, <2>1, <2>2, <2>3, EmittingOrdered
<1>11. Regular(c.bf.buffer)
  BY <1>1
<1> QED
  BY <1>10, <1>11 DEF OrderType

LEMMA BackfilledOrdered ==
  ASSUME NEW X, NEW Y, X \subseteq Y, NEW s \in OrderType(X), NEW p \in PacketType,
         p.stime \in Nat, Consecutive(p.data, p.stime), Ahead(s), LateFor(s, p) => Ex(p, Y)
  PROVE  Backfilled(s, p) \in OrderType(Y) /\ Ahead(Backfilled(s, p))
<1> DEFINE r == Backfilled(s, p)
           a == Away(s)
           t == p.stime
           d == p.data
           l == s.bf.last
<1>1. s \in OrderType(Y) /\ s \in GoodType
  BY OrderedMore DEF OrderType
<1>2. /\ etime(p) \in Int /\ t \in Int /\ d \in SamplesType /\ l \in Int
  BY <1>1, EtimeType, StateFields DEF GoodType
<1>3. ASSUME NEW x \in OrderType(Y)
      PROVE  SyncBuffer(x) \in OrderType(Y) /\ Ahead(SyncBuffer(x))
  <2>1. x \in GoodType
    BY DEF OrderType
  <2> DEFINE G == OrderType(Y)
             c == SyncBuffer(x)
  <2>2. \A y \in G \cap GoodType : y.bf.buffer # <<>> => CommitFirst(y) \in G
    BY CommittingOrdered
  <2> HIDE DEF G
  <2>3. c \in G /\ ~Fits(c)
    BY <2>1, <2>2, SyncBufferIn DEF G
  <2> HIDE DEF c
  <2> QED
    BY <2>3, UnfitAhead DEF G, c
<1>4. /\ a \in GoodType /\ EmitOf(a) = EmitOf(s)
      /\ a.bf.buffer = s.bf.buffer /\ a.bf.last = l
  BY <1>1, AwayIs DEF SameEncoder
<1> HIDE DEF a
<1>5. CASE l = None /\ r = Committed(s, p)
  <2> DEFINE c == Committed(s, p)
  <2>1. /\ c \in GoodType /\ EmitOf(c) = EmitOf(s) \o p.data
        /\ c.bf.buffer = s.bf.buffer /\ c.bf.last = etime(p)
    BY <1>1, CommittedIs
  <2> HIDE DEF c, r
  <2>2. c \in OrderType(Y)
    BY <1>1, <1>5, <2>1, AtOnceOrdered
  <2>3. s.bf.buffer = <<>> /\ Len(<<>>) = 0
    BY <1>1, <1>5 DEF OrderType, Ordered
  <2>4. Ahead(c)
    BY <2>1, <2>3 DEF Ahead
  <2> QED
    BY <1>5, <2>2, <2>4 DEF c, r
<1>6. CASE l # None /\ t - l >= 1 /\ r = SyncBuffer(Placed(s, p))
  <2>1. Placed(s, p) \in OrderType(Y)
    BY <1>1, <1>6, PlacingOrdered
  <2> QED
    BY <1>3, <1>6, <2>1
<1>7. CASE l # None /\ t - l < 1 /\ etime(p) < l /\ r = CommitData(a, t, d)
  <2> DEFINE c == CommitData(a, t, d)
  <2> HIDE DEF t, d
  <2>1. c \in GoodType /\ c.bf = a.bf /\ EmitOf(c) = EmitOf(a) \o d
    BY <1>2, <1>4, CommitIn
  <2> HIDE DEF c, r
  <2>2. /\ EmitOf(c) = EmitOf(s) \o p.data
        /\ c.bf.buffer = s.bf.buffer /\ c.bf.last = s.bf.last
    BY <1>4, <2>1 DEF d
  <2>3. c \in OrderType(Y)
    BY <1>1, <1>7, <2>1, <2>2, AtOnceOrdered
  <2>4. Ahead(c)
    BY <2>2 DEF Ahead
  <2> QED
    BY <1>7, <2>3, <2>4 DEF c, r
<1>8. CASE l # None /\ t - l < 1 /\ etime(p) >= l /\ r = SyncBuffer(Committed(a, p))
  <2> DEFINE c == Committed(a, p)
  <2>1. /\ c \in GoodType /\ EmitOf(c) = EmitOf(a) \o p.data
        /\ c.bf.buffer = a.bf.buffer /\ c.bf.last = etime(p)
    BY <1>4, CommittedIs
  <2> HIDE DEF c, r
  <2>2. EmitOf(c) = EmitOf(s) \o p.data /\ c.bf.buffer = s.bf.buffer
    BY <1>4, <2>1
  <2>3. p.stime <= s.bf.last
    BY <1>2, <1>8
  <2>4. c \in OrderType(Y)
    BY <1>1, <1>8, <2>1, <2>2, <2>3, AtOnceOrdered
  <2> QED
    BY <1>3, <1>8, <2>4 DEF c, r
<1> QED
  BY <1>1, <1>5, <1>6, <1>7, <1>8, BackfilledIs DEF a

LEMMA FlushOrdered ==
  ASSUME NEW X, NEW s \in OrderType(X)
  PROVE  Flush(s) \in OrderType(X) /\ Flush(s).bf = s.bf
<1>1. s \in GoodType /\ s \in StateType
  BY DEF OrderType, GoodType
<1>2. Flush(s) \in GoodType /\ Flush(s).bf = s.bf /\ EmitOf(Flush(s)) = EmitOf(s)
  BY <1>1, FlushType, FlushIs, FlushEmits
<1>3. Ordered(Flush(s), X)
  BY <1>2, OrderedSame DEF OrderType
<1> QED
  BY <1>2, <1>3 DEF OrderType

LEMMA FlushedOrdered ==
  ASSUME NEW X, NEW s \in OrderType(X), Ahead(s)
  PROVE  Flushed(s) \in OrderType(X) /\ Ahead(Flushed(s))
<1> DEFINE G == OrderType(X)
           a == AllCommitted(s)
<1>1. s \in GoodType
  BY DEF OrderType
<1>2. \A y \in G \cap GoodType : y.bf.buffer # <<>> => CommitFirst(y) \in G
  BY CommittingOrdered
<1> HIDE DEF G
<1>3. a \in G /\ a.bf.buffer = <<>>
  BY <1>1, <1>2, AllCommittedIn DEF G
<1> HIDE DEF a
<1>4. Flush(a) \in G /\ Flush(a).bf = a.bf
  BY <1>3, FlushOrdered DEF G
<1>5. Ahead(a) /\ Ahead(Flush(a))
  BY <1>3, <1>4 DEF Ahead
<1> QED
  BY <1>3, <1>4, <1>5 DEF Flushed, a, G

LEMMA CurrentOrdered ==
  ASSUME NEW X, NEW s \in OrderType(X), Ahead(s)
  PROVE  WithCurrent(s, <<>>, TRUE) \in OrderType(X) /\ Ahead(WithCurrent(s, <<>>, TRUE))
<1> DEFINE c == WithCurrent(s, <<>>, TRUE)
           b == s.bf.buffer
           r == c.bf.buffer
<1>1. s \in GoodType /\ Ordered(s, X) /\ Regular(b)
  BY DEF OrderType
<1>2. /\ c \in GoodType /\ EmitOf(c) = EmitOf(s) /\ c.bf.last = s.bf.last
      /\ Continued(b, r, <<>>, TRUE)
  <2>1. <<>> \in SamplesType /\ TRUE \in BOOLEAN
    BY DEF SamplesType
  <2> QED
    BY <1>1, <2>1, WithCurrentIs DEF SameEncoder
<1>3. b \in Seq(PacketType)
  BY <1>1, StateFields DEF GoodType
<1> HIDE DEF c, b, r
<1>4. ASSUME NEW k \in 1 .. Len(b)
      PROVE  /\ r[k].stime = b[k].stime /\ r[k].data = b[k].data
             /\ etime(r[k]) = etime(b[k]) /\ Ex(r[k], X) = Ex(b[k], X)
  <2>1. r[k].stime = b[k].stime /\ (r[k].data = b[k].data \/ r[k].data = b[k].data \o <<>>)
    BY <1>2 DEF Continued
  <2>2. b[k].data \in SamplesType
    BY <1>3, ElementOfSeq, EtimeType
  <2>3. r[k].data = b[k].data
    BY <2>1, <2>2, Joining
  <2> QED
    BY <2>1, <2>3 DEF etime, Ex
<1>5. Len(r) = Len(b)
  BY <1>2 DEF Continued
<1>6. Regular(r)
  BY <1>1, <1>4, <1>5 DEF Regular
<1>7. Sorted(b, X) /\ (s.bf.last = None => b = <<>>)
      /\ \A i \in 1 .. Len(b) : \/ b[i].stime >= s.bf.last
                                \/ Ex(b[i], X)
                                \/ EmitOf(s) # <<>> /\ EmitOf(s)[Len(EmitOf(s))] \in X
  BY <1>1 DEF Ordered, b
<1>8. Sorted(r, X)
  BY <1>4, <1>5, <1>7 DEF Sorted
<1>9. s.bf.last = None => r = <<>>
  <2>1. r \in Seq(PacketType)
    BY <1>2, StateFields DEF GoodType, r
  <2> QED
    BY <1>5, <1>7, <2>1, SMTT(30)
<1>10. \A i \in 1 .. Len(r) : \/ r[i].stime >= s.bf.last
                              \/ Ex(r[i], X)
                              \/ EmitOf(s) # <<>> /\ EmitOf(s)[Len(EmitOf(s))] \in X
  BY <1>4, <1>5, <1>7
<1>11. Orderly(EmitOf(s), X)
       /\ (EmitOf(s) # <<>> => s.bf.last # None /\ EmitOf(s)[Len(EmitOf(s))][2] < s.bf.last)
  BY <1>1 DEF Ordered
<1>12. Ordered(c, X)
  BY <1>2, <1>8, <1>9, <1>10, <1>11 DEF Ordered, r
<1>13. Ahead(c)
  BY <1>2, <1>4, <1>5 DEF Ahead, r, b
<1> QED
  BY <1>2, <1>6, <1>12, <1>13 DEF OrderType, c, r

OrderInv ==
  mode.timed /\ mode.capacity > 0 => State \in OrderType(excused) /\ Ahead(State)

LEMMA OrderInit ==
  ASSUME Init
  PROVE  OrderInv
<1>1. State \in GoodType /\ State.bf.buffer = <<>> /\ State.bf.last = None
  BY GoodInit DEF GoodInv, Init, State
<1>2. EmitOf(State) = <<>>
  <2>1. State.out = <<>> /\ State.enc.data = <<>> /\ State.enc.pending = <<>>
    BY DEF Init, State
  <2>2. SamplesOf(<<>>) = <<>>
    BY DEF SamplesOf
  <2>3. EmitOf(State) = (<<>> \o <<>>) \o <<>>
    BY <2>1, <2>2, ConcatNone DEF EmitOf
  <2> QED
    BY <2>3
<1>3. Len(<<>>) = 0
  OBVIOUS
<1>4. Ordered(State, excused)
  BY <1>1, <1>2, <1>3 DEF Ordered, Orderly, Sorted
<1> QED
  BY <1>1, <1>3, <1>4 DEF OrderInv, OrderType, Regular, Ahead

LEMMA OrderTypeStays ==
  ASSUME mode' = mode, NEW X
  PROVE  OrderType(X)' = OrderType(X)
BY DEF OrderType, GoodType, StateType, EncType, BfType, ClkType, RecordType, PacketType,
   SamplesType, SampleType, Ordered, Orderly, Sorted, Ex, EmitOf, SamplesOf, Regular,
   Consecutive

LEMMA OrderStep ==
  ASSUME GoodInv, OrderInv, [Next]_vars
  PROVE  OrderInv'
<1>1. mode \in Mode /\ given \in Nat
  BY DEF GoodInv
<1>2. ASSUME NEW Y, excused' = Y, NEW r \in OrderType(Y), Ahead(r), State' = r, mode' = mode
      PROVE  OrderInv'
  <2>1. OrderType(Y)' = OrderType(Y)
    BY <1>2, OrderTypeStays
  <2>2. Ahead(State)'
    BY <1>2 DEF Ahead
  <2>3. OrderType(excused)' = OrderType(Y)
    BY <1>2, <2>1 DEF OrderType, Ordered
  <2> QED
    BY <1>2, <2>2, <2>3 DEF OrderInv
<1>3. ASSUME NEW t \in Times, NEW n \in Sizes, SendWithTime(t, n),
             mode.timed, mode.capacity > 0
      PROVE  OrderInv'
  <2> DEFINE p == PacketOf(t, Data(t, n))
             d == Data(t, n)
             b == Backfilled(State, p)
             r == IF mode.capacity > 0 THEN b ELSE CommitData(State, t, p.data)
             Y == IF Late(p) THEN excused \cup ToSet(p.data) ELSE excused
  <2>1. /\ p \in PacketType /\ p.data = d /\ p.stime = t
        /\ r \in GoodType /\ Handled(r, t + n, n)
        /\ t \in Nat /\ n \in Nat \ {0}
    BY <1>3, SendWithTimeIs
  <2>2. Consecutive(d, t)
    <3>1. t \in Int
      BY <2>1
    <3>2. Len(d) = n /\ \A k \in 1 .. n : d[k] = <<given + k, t + k - 1>>
      BY <1>1, <2>1, <3>1, PacketOfIs
    <3> QED
      BY <3>2 DEF Consecutive
  <2>3. excused' = Y
    BY <1>3 DEF SendWithTime
  <2>4. r = b
    BY <1>3
  <2>5. State' = r /\ mode' = mode
    <3> HIDE DEF r
    <3> QED
      BY <2>1, HandledIs
  <2> HIDE DEF p, d, r
  <2>6. LateFor(State, p) => Ex(p, Y)
    <3>1. LateFor(State, p) => Late(p)
      BY DEF LateFor, Late, State
    <3> QED
      BY <3>1 DEF Ex
  <2>7. excused \subseteq Y
    OBVIOUS
  <2>8. State \in OrderType(excused) /\ Ahead(State)
    BY <1>3 DEF OrderInv
  <2> HIDE DEF Y
  <2>9. b \in OrderType(Y) /\ Ahead(b)
    BY <2>1, <2>2, <2>6, <2>7, <2>8, BackfilledOrdered
  <2> HIDE DEF b
  <2> QED
    BY <1>2, <2>3, <2>4, <2>5, <2>9
<1>4. ASSUME NEW n \in Sizes, SendRaw(n) \/ SendGap(n) PROVE OrderInv'
  BY <1>4 DEF SendRaw, SendGap, Continues, Handled, OrderInv
<1>5. ASSUME SendFlush, mode.timed, mode.capacity > 0 PROVE OrderInv'
  <2> DEFINE w == WithCurrent(State, <<>>, TRUE)
             f == Flush(State)
             r == IF bf.current # None THEN w ELSE f
  <2>1. r \in GoodType /\ Handled(r, next, 0)
    BY <1>5, SendFlushIs
  <2>2. State \in OrderType(excused) /\ Ahead(State)
    BY <1>5 DEF OrderInv
  <2>3. w \in OrderType(excused) /\ Ahead(w)
    BY <2>2, CurrentOrdered
  <2>4. f \in OrderType(excused) /\ Ahead(f)
    <3>1. f \in OrderType(excused) /\ f.bf = State.bf
      BY <2>2, FlushOrdered
    <3> QED
      BY <2>2, <3>1 DEF Ahead
  <2> HIDE DEF w, f
  <2>5. r \in OrderType(excused) /\ Ahead(r)
    BY <2>3, <2>4
  <2> HIDE DEF r
  <2>6. State' = r /\ mode' = mode /\ excused' = excused
    BY <1>5, <2>1, HandledIs DEF SendFlush
  <2> QED
    BY <1>2, <2>5, <2>6
<1>6. ASSUME End, mode.timed, mode.capacity > 0 PROVE OrderInv'
  <2> DEFINE r == Flushed(State)
  <2>1. r \in OrderType(excused) /\ Ahead(r)
    BY <1>6, FlushedOrdered DEF OrderInv
  <2>2. State' = r /\ mode' = mode /\ excused' = excused
    BY <1>6, EndIs
  <2> HIDE DEF r
  <2> QED
    BY <1>2, <2>1, <2>2
<1>7. CASE UNCHANGED vars
  <2>1. State' = State /\ mode' = mode /\ excused' = excused
    BY <1>7 DEF vars, State
  <2>2. ASSUME mode.timed, mode.capacity > 0 PROVE OrderInv'
    <3>1. State \in OrderType(excused) /\ Ahead(State)
      BY <2>2 DEF OrderInv
    <3> QED
      BY <1>2, <2>1, <3>1
  <2> QED
    BY <2>1, <2>2 DEF OrderInv
<1>8. CASE ~(mode.timed /\ mode.capacity > 0)
  <2>1. mode' = mode
    BY DEF Next, SendWithTime, SendRaw, SendGap, SendFlush, End, Handled, vars
  <2> QED
    BY <1>8, <2>1 DEF OrderInv
<1> QED
  BY <1>3, <1>4, <1>5, <1>6, <1>7, <1>8 DEF Next

\* Packets are put into order, whatever the capacity and however they overlap,
\* but for those that came late.
THEOREM PutsInOrder == Spec => []InOrder
<1>1. Init => GoodInv /\ OrderInv
  BY GoodInit, OrderInit
<1>2. GoodInv /\ OrderInv /\ [Next]_vars => GoodInv' /\ OrderInv'
  BY GoodStep, OrderStep
<1>3. GoodInv /\ OrderInv => InOrder
  <2> SUFFICES ASSUME GoodInv, OrderInv, mode.timed /\ mode.capacity > 0,
                      NEW k \in 1 .. (Len(Emitted) - 1), Emitted[k][2] > Emitted[k + 1][2]
               PROVE  {Emitted[k], Emitted[k + 1]} \cap excused # {}
    BY DEF InOrder
  <2>1. Orderly(Emitted, excused)
    BY EmittedIs DEF OrderInv, OrderType, Ordered
  <2>2. Emitted[k] \in excused \/ Emitted[k + 1] \in excused
    BY <2>1 DEF Orderly
  <2> QED
    BY <2>2
<1> QED
  BY <1>1, <1>2, <1>3, PTL DEF Spec

=============================================================================
