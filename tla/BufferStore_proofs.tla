-------------------------- MODULE BufferStore_proofs --------------------------
(***************************************************************************)
(* Proofs about BufferStore: for every size of the pool, the linked list   *)
(* stays a list of all its buffers, in which the buffers of the encoders,  *)
(* the free ones and the readable records follow one another; the client   *)
(* stays among the readable records, no internal check fails, and the list *)
(* implements the window of records.                                       *)
(***************************************************************************)
EXTENDS BufferStore, FunctionTheorems, FiniteSetTheorems, WellFoundedInduction, TLAPS

\* s is the order of the N buffers of the list l.
Linked(l, s, N) ==
  /\ l.n \in [Buf -> Ptr] /\ l.p \in [Buf -> Ptr]
  /\ s \in [1 .. N -> 1 .. N]
  /\ \A i, j \in 1 .. N : s[i] = s[j] => i = j
  /\ \A b \in 1 .. N : \E i \in 1 .. N : s[i] = b
  /\ \A i \in 1 .. N : l.n[s[i]] = IF i < N THEN s[i + 1] ELSE NULL
  /\ \A i \in 1 .. N : l.p[s[i]] = IF i > 1 THEN s[i - 1] ELSE NULL

\* The buffers before the f-th one are with the encoders, the f-th one is the next
\* to be taken, and the last r ones hold the readable records.
Parts(s, f, r) ==
  /\ f \in 1 .. nbufs /\ buf_free = s[f] /\ f - 1 <= Encoders + 1
  /\ out = {s[i] : i \in 1 .. (f - 1)}
  /\ r \in 0 .. (nbufs - f + 1)
  /\ buf_first = IF r = 0 THEN NULL ELSE s[nbufs - r + 1]
  /\ \A i \in (nbufs - r + 1) .. nbufs : bufseq[s[i]] = (seq - (nbufs - i + 1)) % SeqMod
  /\ \/ buffer_queue = NULL
     \/ \E i \in (nbufs - r + 1) .. nbufs : buffer_queue = s[i]

\* Buffers and records in order s, with encoders and window as above.
Pool(s, f, r) ==
  /\ Linked(Links, s, nbufs)
  /\ buf_head = s[1] /\ buf_queue = s[nbufs]
  /\ Parts(s, f, r)

PoolInv ==
  /\ TypeOK /\ ~failed /\ nbufs >= minbufs
  /\ startup # "run" => out = {} /\ buffer_queue = NULL /\ minbufs = 0
  /\ \E s, f, r : Pool(s, f, r)

-----------------------------------------------------------------------------
(* Walking along the list.                                                 *)

LEMMA Sizes ==
  /\ NBufs \in Nat /\ NBufs >= 2 /\ MaxSize \in Nat /\ MaxSize >= NBufs
  /\ SeqMod \in Nat /\ SeqMod > MaxSize /\ Streams \subseteq Nat
  /\ BlankBufs \in Nat /\ MaxRec \in Nat
BY PoolAssumption

\* A set of natural numbers that is not empty has a least element.
LEMMA LeastNat ==
  ASSUME NEW S, S \subseteq Nat, S # {}
  PROVE  \E n \in S : \A m \in S : n <= m
<1> DEFINE R == OpToRel(<, Nat)
<1>1. IsWellFoundedOn(R, Nat)
  BY NatLessThanWellFounded
<1>2. \A x, y \in Nat : x < y => <<x, y>> \in R
  BY DEF OpToRel
<1> HIDE DEF R
<1>3. PICK n \in S : \A m \in S : <<m, n>> \notin R
  BY <1>1, WFMin
<1>4. ASSUME NEW m \in S PROVE n <= m
  <2>1. m \in Nat /\ n \in Nat
    OBVIOUS
  <2>2. ~(m < n)
    BY <1>2, <1>3, <2>1, Zenon
  <2> QED
    BY <2>1, <2>2
<1> QED
  BY <1>4

\* A function that satisfies the recursion of After is what After walks along.
LEMMA Walk ==
  ASSUME NEW n \in Nat, NEW w, NEW b,
         w = [m \in 0 .. n |-> IF m = 0 THEN b
                               ELSE IF w[m - 1] = NULL THEN NULL ELSE nextptr[w[m - 1]]]
  PROVE  After(b, n) = w[n]
<1> DEFINE G(g) == [m \in 0 .. n |-> IF m = 0 THEN b
                                     ELSE IF g[m - 1] = NULL THEN NULL
                                     ELSE nextptr[g[m - 1]]]
           v == CHOOSE g : g = G(g)
<1>1. v = G(v)
  <2>1. \E g : g = G(g)
    OBVIOUS
  <2> HIDE DEF G
  <2> QED
    BY <2>1
<1>2. After(b, n) = v[n]
  BY DEF After
<1> HIDE DEF v
<1>3. \A m \in 0 .. n : v[m] = w[m]
  <2> DEFINE S == {m \in 0 .. n : v[m] # w[m]}
  <2> SUFFICES ASSUME S # {} PROVE FALSE
    OBVIOUS
  <2>1. S \subseteq Nat
    OBVIOUS
  <2>2. PICK m \in S : \A k \in S : m <= k
    <3> HIDE DEF S
    <3> QED
      BY <2>1, LeastNat
  <2>3. m \in 0 .. n /\ v[m] # w[m]
    OBVIOUS
  <2>4. CASE m = 0
    BY <1>1, <2>3, <2>4
  <2>5. CASE m # 0
    <3>1. m - 1 \in 0 .. n /\ ~(m <= m - 1)
      BY <2>3, <2>5
    <3>2. v[m - 1] = w[m - 1]
      BY <2>2, <3>1
    <3> HIDE DEF S
    <3>3. v[m] = IF v[m - 1] = NULL THEN NULL ELSE nextptr[v[m - 1]]
      BY <1>1, <2>3, <2>5
    <3>4. w[m] = IF w[m - 1] = NULL THEN NULL ELSE nextptr[w[m - 1]]
      BY <2>3, <2>5
    <3> QED
      BY <2>3, <3>2, <3>3, <3>4
  <2> QED
    BY <2>4, <2>5
<1> QED
  BY <1>2, <1>3

LEMMA AfterNull ==
  ASSUME NEW n \in Nat
  PROVE  After(NULL, n) = NULL
<1> DEFINE w == [m \in 0 .. n |-> NULL]
<1>1. w = [m \in 0 .. n |-> IF m = 0 THEN NULL
                            ELSE IF w[m - 1] = NULL THEN NULL ELSE nextptr[w[m - 1]]]
  OBVIOUS
<1>2. w[n] = NULL
  OBVIOUS
<1> HIDE DEF w
<1> QED
  BY <1>1, <1>2, Walk

\* The buffer that is n steps after the i-th one is the i+n-th one.
LEMMA AfterIs ==
  ASSUME NEW N \in Nat, N <= MaxSize, NEW s, Linked(Links, s, N), NEW i \in 1 .. N,
         NEW n \in Nat
  PROVE  After(s[i], n) = IF i + n <= N THEN s[i + n] ELSE NULL
<1> DEFINE w == [m \in 0 .. n |-> IF i + m <= N THEN s[i + m] ELSE NULL]
<1>1. /\ \A j \in 1 .. N : nextptr[s[j]] = IF j < N THEN s[j + 1] ELSE NULL
      /\ \A j \in 1 .. N : s[j] # NULL
  BY DEF Linked, Links, NULL
<1>2. ASSUME NEW m \in 0 .. n, m # 0
      PROVE  w[m] = IF w[m - 1] = NULL THEN NULL ELSE nextptr[w[m - 1]]
  <2>1. m - 1 \in 0 .. n /\ i + m \in Nat /\ i + (m - 1) \in 1 .. (i + n)
        /\ (i + (m - 1)) + 1 = i + m
    BY <1>2
  <2>2. w[m - 1] = IF i + (m - 1) <= N THEN s[i + (m - 1)] ELSE NULL
    BY <2>1
  <2>3. w[m] = IF i + m <= N THEN s[i + m] ELSE NULL
    OBVIOUS
  <2> DEFINE j == i + (m - 1)
  <2>4. j \in Nat /\ j >= 1 /\ i + m = j + 1
    BY <2>1
  <2> HIDE DEF j, w
  <2>5. CASE j <= N
    <3>1. j \in 1 .. N
      BY <2>4, <2>5
    <3>2. w[m - 1] = s[j] /\ s[j] # NULL /\ nextptr[s[j]] = IF j < N THEN s[j + 1] ELSE NULL
      BY <1>1, <2>2, <2>5, <3>1 DEF j
    <3>3. w[m] = IF j < N THEN s[j + 1] ELSE NULL
      BY <2>3, <2>4
    <3> QED
      BY <3>2, <3>3
  <2>6. CASE ~(j <= N)
    <3>1. w[m - 1] = NULL
      BY <2>2, <2>6 DEF j
    <3>2. w[m] = NULL
      BY <2>3, <2>4, <2>6
    <3> QED
      BY <3>1, <3>2
  <2> QED
    BY <2>5, <2>6
<1>3. w[0] = s[i]
  OBVIOUS
<1>4. w = [m \in 0 .. n |-> IF m = 0 THEN s[i]
                            ELSE IF w[m - 1] = NULL THEN NULL ELSE nextptr[w[m - 1]]]
  <2>1. w = [m \in 0 .. n |-> w[m]]
    OBVIOUS
  <2> HIDE DEF w
  <2> QED
    BY <1>2, <1>3, <2>1
<1>5. w[n] = IF i + n <= N THEN s[i + n] ELSE NULL
  OBVIOUS
<1> HIDE DEF w
<1> QED
  BY <1>4, <1>5, Walk

\* A stretch of the list has as many buffers as positions.
LEMMA Stretch ==
  ASSUME NEW a \in Int, NEW b \in Int, NEW s, \A i, j \in a .. b : s[i] = s[j] => i = j
  PROVE  LET T == {s[i] : i \in a .. b}
         IN  IsFiniteSet(T) /\ Cardinality(T) = IF a > b THEN 0 ELSE b - a + 1
<1> DEFINE T == {s[i] : i \in a .. b}
           g == [i \in a .. b |-> s[i]]
<1>1. g \in [a .. b -> T] /\ \A i \in a .. b : g[i] = s[i]
  OBVIOUS
<1>2. \A t \in T : \E i \in a .. b : g[i] = t
  OBVIOUS
<1>3. \A i, j \in a .. b : g[i] = g[j] => i = j
  BY <1>1
<1> HIDE DEF T, g
<1>4. g \in Surjection(a .. b, T) /\ g \in Injection(a .. b, T)
  BY <1>1, <1>2, <1>3, Fun_IsInj, Fun_IsSurj
<1>5. IsFiniteSet(a .. b) /\ Cardinality(a .. b) = IF a > b THEN 0 ELSE b - a + 1
  BY FS_Interval
<1> QED
  BY <1>4, <1>5, FS_Surjection DEF T

LEMMA ChainIs ==
  ASSUME NEW N \in Nat, N <= MaxSize, NEW s, Linked(Links, s, N), NEW i \in 1 .. N
  PROVE  /\ Chain(s[i]) = {s[j] : j \in i .. N}
         /\ Cardinality(Chain(s[i])) = N - i + 1
<1>1. \A j \in 1 .. N : s[j] # NULL /\ s[j] \in 1 .. N
  BY DEF Linked, NULL
<1>2. MaxSize \in Nat
  BY Sizes
<1>3. \A n \in 0 .. MaxSize : After(s[i], n) = IF i + n <= N THEN s[i + n] ELSE NULL
  BY <1>2, AfterIs
<1>4. ASSUME NEW x \in Chain(s[i]) PROVE x \in {s[j] : j \in i .. N}
  <2>1. PICK n \in 0 .. MaxSize : x = After(s[i], n) /\ x # NULL
    BY DEF Chain
  <2>2. x = s[i + n] /\ i + n <= N
    BY <1>3, <2>1
  <2>3. i + n \in i .. N
    BY <1>2, <2>2
  <2> QED
    BY <2>2, <2>3
<1>5. ASSUME NEW j \in i .. N PROVE s[j] \in Chain(s[i])
  <2>1. j - i \in 0 .. MaxSize /\ i + (j - i) = j /\ j <= N /\ j \in 1 .. N
    BY <1>2
  <2>2. After(s[i], j - i) = s[j]
    BY <1>3, <2>1
  <2> QED
    BY <1>1, <2>1, <2>2 DEF Chain
<1>6. Chain(s[i]) = {s[j] : j \in i .. N}
  BY <1>4, <1>5
<1>7. \A j, k \in i .. N : s[j] = s[k] => j = k
  BY DEF Linked
<1>8. Cardinality({s[j] : j \in i .. N}) = IF i > N THEN 0 ELSE N - i + 1
  <2>1. i \in Int /\ N \in Int
    OBVIOUS
  <2> QED
    BY <1>7, <2>1, Stretch, Zenon
<1>9. Cardinality({s[j] : j \in i .. N}) = N - i + 1
  BY <1>8
<1> QED
  BY <1>6, <1>9, Zenon

LEMMA ChainOfNull == Chain(NULL) = {} /\ Cardinality(Chain(NULL)) = 0
<1>1. MaxSize \in Nat
  BY Sizes
<1>2. \A n \in 0 .. MaxSize : After(NULL, n) = NULL
  BY <1>1, AfterNull
<1>3. Chain(NULL) = {}
  BY <1>2 DEF Chain
<1> QED
  BY <1>3, FS_EmptySet

\* The readable records, and the buffers of the encoders.
LEMMA WindowIs ==
  ASSUME TypeOK, NEW s, NEW f, NEW r, Pool(s, f, r)
  PROVE  /\ Chain(buf_first) = {s[j] : j \in (nbufs - r + 1) .. nbufs}
         /\ Cardinality(Chain(buf_first)) = r
         /\ Cardinality(out) = f - 1
<1>1. /\ nbufs \in Nat /\ nbufs <= MaxSize /\ f \in 1 .. nbufs /\ r \in 0 .. (nbufs - f + 1)
      /\ Linked(Links, s, nbufs)
      /\ buf_first = IF r = 0 THEN NULL ELSE s[nbufs - r + 1]
      /\ out = {s[i] : i \in 1 .. (f - 1)}
  BY Sizes DEF Pool, Parts, TypeOK
<1> DEFINE w == nbufs - r + 1
           T == {s[j] : j \in w .. nbufs}
<1>2. ASSUME r = 0 PROVE Chain(buf_first) = T /\ Cardinality(Chain(buf_first)) = r
  <2>1. T = {}
    BY <1>1, <1>2
  <2>2. Chain(buf_first) = {} /\ Cardinality(Chain(buf_first)) = 0
    BY <1>1, <1>2, ChainOfNull
  <2> HIDE DEF T
  <2> QED
    BY <1>2, <2>1, <2>2
<1>3. ASSUME r # 0 PROVE Chain(buf_first) = T /\ Cardinality(Chain(buf_first)) = r
  <2>1. w \in 1 .. nbufs /\ buf_first = s[w] /\ nbufs - w + 1 = r
    BY <1>1, <1>3
  <2> HIDE DEF w
  <2>2. Chain(s[w]) = T /\ Cardinality(Chain(s[w])) = nbufs - w + 1
    BY <1>1, <2>1, ChainIs
  <2> HIDE DEF T
  <2> QED
    BY <2>1, <2>2
<1>4. Cardinality(out) = f - 1
  <2>1. \A i, j \in 1 .. (f - 1) : s[i] = s[j] => i = j
    <3>1. \A i \in 1 .. (f - 1) : i \in 1 .. nbufs
      BY <1>1
    <3> QED
      BY <1>1, <3>1 DEF Linked
  <2>2. Cardinality({s[i] : i \in 1 .. (f - 1)}) = IF 1 > f - 1 THEN 0 ELSE (f - 1) - 1 + 1
    <3>1. 1 \in Int /\ f - 1 \in Int
      BY <1>1
    <3> QED
      BY <2>1, <3>1, Stretch, Zenon
  <2>3. (IF 1 > f - 1 THEN 0 ELSE (f - 1) - 1 + 1) = f - 1
    BY <1>1
  <2> QED
    BY <1>1, <2>2, <2>3, Zenon
<1>5. Chain(buf_first) = T /\ Cardinality(Chain(buf_first)) = r
  BY <1>2, <1>3
<1> QED
  BY <1>4, <1>5

-----------------------------------------------------------------------------
(* Taking a buffer out of the list and putting one in.                     *)

LEMMA InsertIs ==
  ASSUME NEW l, l.n \in [Buf -> Ptr], l.p \in [Buf -> Ptr],
         NEW a \in Buf, NEW b \in Buf, a # b, l.n[b] # a
  PROVE  LET m == InsertAfter(l, a, b)
         IN  /\ m.n \in [Buf -> Ptr] /\ m.p \in [Buf -> Ptr]
             /\ m.n[a] = l.n[b] /\ m.n[b] = a
             /\ \A x \in Buf : x # a /\ x # b => m.n[x] = l.n[x]
             /\ m.p[a] = b
             /\ l.n[b] # NULL => m.p[l.n[b]] = a
             /\ \A x \in Buf : x # a /\ x # l.n[b] => m.p[x] = l.p[x]
<1> DEFINE n == [l.n EXCEPT ![a] = l.n[b], ![b] = a]
           p == [l.p EXCEPT ![a] = b]
           q == IF n[a] # NULL THEN [p EXCEPT ![n[a]] = a] ELSE p
<1>1. InsertAfter(l, a, b).n = n /\ InsertAfter(l, a, b).p = q
  BY DEF InsertAfter
<1>2. /\ n \in [Buf -> Ptr] /\ n[a] = l.n[b] /\ n[b] = a
      /\ \A x \in Buf : x # a /\ x # b => n[x] = l.n[x]
  BY DEF Ptr
<1>3. p \in [Buf -> Ptr] /\ p[a] = b /\ \A x \in Buf : x # a => p[x] = l.p[x]
  BY DEF Ptr
<1> HIDE DEF n, p
<1>4. l.n[b] \in Ptr
  OBVIOUS
<1>5. /\ q \in [Buf -> Ptr] /\ q[a] = b
      /\ l.n[b] # NULL => q[l.n[b]] = a
      /\ \A x \in Buf : x # a /\ x # l.n[b] => q[x] = l.p[x]
  BY <1>2, <1>3, <1>4 DEF Ptr
<1> HIDE DEF q
<1> QED
  BY <1>1, <1>2, <1>5

LEMMA RemoveIs ==
  ASSUME NEW l, l.n \in [Buf -> Ptr], l.p \in [Buf -> Ptr], NEW a \in Buf
  PROVE  LET m == Remove(l, a)
         IN  /\ m.n \in [Buf -> Ptr] /\ m.p \in [Buf -> Ptr]
             /\ l.p[a] # NULL => m.n[l.p[a]] = l.n[a]
             /\ \A x \in Buf : x # l.p[a] => m.n[x] = l.n[x]
             /\ l.n[a] # NULL => m.p[l.n[a]] = l.p[a]
             /\ \A x \in Buf : x # l.n[a] => m.p[x] = l.p[x]
<1> DEFINE n == IF l.p[a] # NULL THEN [l.n EXCEPT ![l.p[a]] = l.n[a]] ELSE l.n
           p == IF l.n[a] # NULL THEN [l.p EXCEPT ![l.n[a]] = l.p[a]] ELSE l.p
<1>1. Remove(l, a).n = n /\ Remove(l, a).p = p
  BY DEF Remove
<1>2. l.p[a] \in Ptr /\ l.n[a] \in Ptr
  OBVIOUS
<1>3. /\ n \in [Buf -> Ptr]
      /\ l.p[a] # NULL => n[l.p[a]] = l.n[a]
      /\ \A x \in Buf : x # l.p[a] => n[x] = l.n[x]
  BY <1>2 DEF Ptr
<1>4. /\ p \in [Buf -> Ptr]
      /\ l.n[a] # NULL => p[l.n[a]] = l.p[a]
      /\ \A x \in Buf : x # l.n[a] => p[x] = l.p[x]
  BY <1>2 DEF Ptr
<1> HIDE DEF n, p
<1> QED
  BY <1>1, <1>3, <1>4

\* The k-th buffer becomes the last one.
Move(s, N, k) ==
  [i \in 1 .. N |-> IF i < k THEN s[i] ELSE IF i < N THEN s[i + 1] ELSE s[k]]

\* s lists the buffers 1 .. N, each of them once.
IsOrder(s, N) ==
  /\ s \in [1 .. N -> 1 .. N]
  /\ \A i, j \in 1 .. N : s[i] = s[j] => i = j
  /\ \A b \in 1 .. N : \E i \in 1 .. N : s[i] = b

LEMMA MoveIsOrder ==
  ASSUME NEW N \in Nat, NEW k \in 1 .. N, NEW s, IsOrder(s, N)
  PROVE  IsOrder(Move(s, N, k), N)
<1> DEFINE t == Move(s, N, k)
           g(i) == IF i < k THEN i ELSE IF i < N THEN i + 1 ELSE k
<1>0. /\ s \in [1 .. N -> 1 .. N]
      /\ \A i, j \in 1 .. N : s[i] = s[j] => i = j
      /\ \A b \in 1 .. N : \E i \in 1 .. N : s[i] = b
  BY DEF IsOrder
<1>1. \A i \in 1 .. N : g(i) \in 1 .. N /\ t[i] = s[g(i)]
  BY DEF Move
<1>2. ASSUME NEW i \in 1 .. N, NEW j \in 1 .. N, g(i) = g(j) PROVE i = j
  <2>1. CASE i < k
    BY <1>2, <2>1
  <2>2. CASE k <= i /\ i < N
    BY <1>2, <2>2
  <2>3. CASE i = N
    <3>1. N \in Nat /\ k \in Nat /\ k <= N /\ j \in Nat /\ j <= N
      OBVIOUS
    <3>2. g(N) = k
      BY <3>1
    <3>3. g(j) = k
      BY <1>2, <2>3, <3>2
    <3>4. ASSUME j < N PROVE FALSE
      <4>1. CASE j < k
        BY <3>1, <3>3, <4>1
      <4>2. CASE ~(j < k)
        <5>1. g(j) = j + 1
          BY <3>4, <4>2
        <5> HIDE DEF g
        <5> QED
          BY <3>1, <3>3, <4>2, <5>1
      <4> QED
        BY <4>1, <4>2
    <3> QED
      BY <2>3, <3>1, <3>4
  <2> QED
    BY <2>1, <2>2, <2>3
<1>3. \A j \in 1 .. N : \E i \in 1 .. N : g(i) = j
  <2> TAKE j \in 1 .. N
  <2>1. CASE j < k
    BY <2>1
  <2>2. CASE j = k
    <3>1. N \in 1 .. N /\ g(N) = j
      BY <2>2
    <3> QED
      BY <3>1
  <2>3. CASE j > k
    <3>1. j - 1 \in 1 .. N /\ g(j - 1) = j
      BY <2>3
    <3> QED
      BY <3>1
  <2> QED
    BY <2>1, <2>2, <2>3
<1>4. t \in [1 .. N -> 1 .. N]
  <2>1. t = [i \in 1 .. N |-> t[i]]
    BY DEF Move
  <2> HIDE DEF t, g
  <2>2. \A i \in 1 .. N : t[i] \in 1 .. N
    BY <1>0, <1>1
  <2> QED
    BY <2>1, <2>2
<1> HIDE DEF t, g
<1>5. \A i, j \in 1 .. N : t[i] = t[j] => i = j
  BY <1>0, <1>1, <1>2
<1>6. ASSUME NEW b \in 1 .. N PROVE \E i \in 1 .. N : t[i] = b
  <2>1. PICK j \in 1 .. N : s[j] = b
    BY <1>0
  <2>2. PICK i \in 1 .. N : g(i) = j
    BY <1>3
  <2> QED
    BY <1>1, <2>1, <2>2
<1> QED
  BY <1>4, <1>5, <1>6, Zenon DEF t, IsOrder

LEMMA Moved ==
  ASSUME NEW N \in Nat, N <= MaxSize, NEW l, NEW s, Linked(l, s, N), NEW k \in 1 .. N, k < N
  PROVE  Linked(InsertAfter(Remove(l, s[k]), s[k], s[N]), Move(s, N, k), N)
<1> DEFINE a == s[k]
           b == s[N]
           m == Remove(l, a)
           r == InsertAfter(m, a, b)
           t == Move(s, N, k)
<1>1. /\ l.n \in [Buf -> Ptr] /\ l.p \in [Buf -> Ptr]
      /\ s \in [1 .. N -> 1 .. N]
      /\ \A i, j \in 1 .. N : s[i] = s[j] => i = j
      /\ \A i \in 1 .. N : l.n[s[i]] = IF i < N THEN s[i + 1] ELSE NULL
      /\ \A i \in 1 .. N : l.p[s[i]] = IF i > 1 THEN s[i - 1] ELSE NULL
  BY DEF Linked
<1>2. MaxSize \in Nat
  BY Sizes
<1>3. \A i \in 1 .. N : s[i] \in Buf /\ s[i] # NULL
  BY <1>1, <1>2 DEF Buf, NULL
<1>4. N \in 1 .. N /\ k + 1 \in 1 .. N /\ k + 1 > 1
  OBVIOUS
<1>5. a \in Buf /\ b \in Buf /\ a # b
  <2>1. k # N /\ k \in 1 .. N /\ N \in 1 .. N
    OBVIOUS
  <2>2. s[k] # s[N]
    BY <1>1, <2>1, Zenon
  <2> QED
    BY <1>3, <2>1, <2>2
<1>6. l.n[a] = s[k + 1] /\ l.n[a] # NULL
  BY <1>1, <1>3, <1>4
<1>7. l.p[a] = IF k > 1 THEN s[k - 1] ELSE NULL
  BY <1>1
<1>8. /\ m.n \in [Buf -> Ptr] /\ m.p \in [Buf -> Ptr]
      /\ l.p[a] # NULL => m.n[l.p[a]] = l.n[a]
      /\ \A x \in Buf : x # l.p[a] => m.n[x] = l.n[x]
      /\ m.p[l.n[a]] = l.p[a]
      /\ \A x \in Buf : x # l.n[a] => m.p[x] = l.p[x]
  <2> HIDE DEF a
  <2> QED
    BY <1>1, <1>5, <1>6, RemoveIs, ZenonT(30)
<1>9. m.n[b] = NULL
  <2>1. l.n[b] = NULL
    BY <1>1, <1>4
  <2>2. b # l.p[a]
    <3>1. CASE k > 1
      <4>1. k - 1 \in 1 .. N /\ k - 1 # N /\ l.p[a] = s[k - 1]
        BY <1>7, <3>1
      <4> QED
        BY <1>1, <1>4, <4>1
    <3>2. CASE ~(k > 1)
      BY <1>3, <1>4, <1>7, <3>2
    <3> QED
      BY <3>1, <3>2
  <2> HIDE DEF a, b, m
  <2> QED
    BY <1>5, <1>8, <2>1, <2>2
<1> HIDE DEF a, b, m
<1>10. a # NULL /\ b # NULL
  BY <1>3, <1>4 DEF a, b
<1>11. /\ r.n \in [Buf -> Ptr] /\ r.p \in [Buf -> Ptr]
       /\ r.n[a] = NULL /\ r.n[b] = a
       /\ \A x \in Buf : x # a /\ x # b => r.n[x] = m.n[x]
       /\ r.p[a] = b
       /\ \A x \in Buf : x # a => r.p[x] = m.p[x]
  <2>1. m.n[b] # a
    BY <1>9, <1>10
  <2>2. \A x \in Buf : x # NULL
    BY DEF Buf, NULL
  <2> QED
    BY <1>5, <1>8, <1>9, <2>1, <2>2, InsertIs
<1>12. \A i \in 1 .. N : t[i] = IF i < k THEN s[i] ELSE IF i < N THEN s[i + 1] ELSE a
  BY DEF Move, a
<1>13. /\ t \in [1 .. N -> 1 .. N]
       /\ \A i, j \in 1 .. N : t[i] = t[j] => i = j
       /\ \A x \in 1 .. N : \E i \in 1 .. N : t[i] = x
  <2>1. IsOrder(s, N)
    BY DEF IsOrder, Linked
  <2>2. IsOrder(t, N)
    BY <2>1, MoveIsOrder
  <2> HIDE DEF t
  <2> QED
    BY <2>2 DEF IsOrder
<1> HIDE DEF r, t
<1>14. ASSUME NEW i \in 1 .. N PROVE r.n[t[i]] = IF i < N THEN t[i + 1] ELSE NULL
  <2>1. CASE i = N
    BY <1>11, <1>12, <2>1
  <2>2. CASE i = N - 1
    <3>1. t[i] = b /\ t[i + 1] = a
      BY <1>4, <1>12, <2>2 DEF b
    <3> QED
      BY <1>11, <2>2, <3>1
  <2>3. CASE i < k
    <3>1. t[i] = s[i] /\ i + 1 \in 1 .. N
      BY <1>12, <2>3
    <3>2. s[i] # a /\ s[i] # b
      BY <1>1, <1>4, <2>3 DEF a, b
    <3>3. r.n[s[i]] = m.n[s[i]]
      BY <1>3, <1>11, <3>2
    <3>4. CASE i = k - 1
      <4>1. l.p[a] = s[i] /\ s[i] # NULL
        BY <1>3, <1>7, <3>4
      <4>2. t[i + 1] = s[k + 1]
        BY <1>4, <1>12, <3>4
      <4> QED
        BY <1>6, <1>8, <3>1, <3>3, <3>4, <4>1, <4>2
    <3>5. CASE i # k - 1
      <4>1. s[i] # l.p[a]
        <5>1. CASE k > 1
          <6>1. k - 1 \in 1 .. N /\ l.p[a] = s[k - 1]
            BY <1>7, <5>1
          <6> QED
            BY <1>1, <3>5, <6>1
        <5>2. CASE ~(k > 1)
          BY <1>3, <1>7, <5>2
        <5> QED
          BY <5>1, <5>2
      <4>2. m.n[s[i]] = s[i + 1]
        BY <1>1, <1>3, <1>8, <2>3, <4>1
      <4>3. t[i + 1] = s[i + 1]
        BY <1>12, <2>3, <3>1, <3>5
      <4> QED
        BY <2>3, <3>1, <3>3, <4>2, <4>3
    <3> QED
      BY <3>4, <3>5
  <2>4. CASE k <= i /\ i < N - 1
    <3>1. t[i] = s[i + 1] /\ i + 1 \in 1 .. N /\ i + 2 \in 1 .. N /\ (i + 1) + 1 = i + 2
      BY <1>12, <2>4
    <3>2. s[i + 1] # a /\ s[i + 1] # b
      BY <1>1, <1>4, <2>4, <3>1 DEF a, b
    <3>3. r.n[s[i + 1]] = m.n[s[i + 1]]
      BY <1>3, <1>11, <3>1, <3>2
    <3>4. s[i + 1] # l.p[a]
      <4>1. CASE k > 1
        <5>1. k - 1 \in 1 .. N /\ l.p[a] = s[k - 1] /\ k - 1 # i + 1
          BY <1>7, <2>4, <4>1
        <5> QED
          BY <1>1, <3>1, <5>1
      <4>2. CASE ~(k > 1)
        BY <1>3, <1>7, <3>1, <4>2
      <4> QED
        BY <4>1, <4>2
    <3>5. m.n[s[i + 1]] = l.n[s[i + 1]]
      BY <1>3, <1>8, <3>1, <3>4
    <3>6. l.n[s[i + 1]] = s[i + 2]
      <4> DEFINE j == i + 1
      <4>1. j \in 1 .. N /\ j < N /\ j + 1 = i + 2
        BY <2>4
      <4>2. l.n[s[j]] = s[j + 1]
        <5> HIDE DEF j
        <5> QED
          BY <1>1, <4>1
      <4> QED
        BY <4>1, <4>2
    <3>7. t[i + 1] = s[i + 2]
      <4> DEFINE j == i + 1
      <4>1. j \in 1 .. N /\ j < N /\ ~(j < k) /\ j + 1 = i + 2
        BY <2>4
      <4>2. t[j] = s[j + 1]
        <5> HIDE DEF j
        <5> QED
          BY <1>12, <4>1
      <4> QED
        BY <4>1, <4>2
    <3> QED
      BY <2>4, <3>1, <3>3, <3>5, <3>6, <3>7
  <2> QED
    BY <2>1, <2>2, <2>3, <2>4
<1>15. ASSUME NEW i \in 1 .. N PROVE r.p[t[i]] = IF i > 1 THEN t[i - 1] ELSE NULL
  <2>1. CASE i = N
    <3>1. N - 1 \in 1 .. N /\ ~(N - 1 < k) /\ (N - 1) + 1 = N
      OBVIOUS
    <3>2. t[N - 1] = b
      BY <1>12, <3>1 DEF b
    <3>3. t[N] = a
      BY <1>4, <1>12
    <3> QED
      BY <1>11, <2>1, <3>1, <3>2, <3>3
  <2>2. CASE i < k
    <3>1. t[i] = s[i]
      BY <1>12, <2>2
    <3>2. s[i] # a /\ s[i] # l.n[a]
      BY <1>1, <1>4, <1>6, <2>2 DEF a
    <3>3. r.p[s[i]] = l.p[s[i]]
      BY <1>3, <1>8, <1>11, <3>2
    <3>4. i > 1 => t[i - 1] = s[i - 1]
      BY <1>12, <2>2
    <3> QED
      BY <1>1, <3>1, <3>3, <3>4
  <2>3. CASE k <= i /\ i < N
    <3> DEFINE j == i + 1
    <3>1. j \in 1 .. N /\ j - 1 = i /\ j > 1 /\ k < j
      BY <2>3
    <3>2. t[i] = s[j]
      BY <1>12, <2>3
    <3> HIDE DEF j
    <3>3. s[j] # a
      BY <1>1, <3>1 DEF a
    <3>4. r.p[s[j]] = m.p[s[j]]
      BY <1>3, <1>11, <3>1, <3>3
    <3>5. CASE i = k
      <4>1. m.p[s[j]] = l.p[a]
        BY <1>6, <1>8, <3>5 DEF j
      <4>2. i > 1 => t[i - 1] = s[i - 1]
        BY <1>12, <3>5
      <4> QED
        BY <1>7, <3>2, <3>4, <3>5, <4>1, <4>2
    <3>6. CASE i # k
      <4>1. s[j] # l.n[a]
        BY <1>1, <1>4, <1>6, <3>1, <3>6
      <4>2. m.p[s[j]] = l.p[s[j]]
        BY <1>3, <1>8, <3>1, <4>1
      <4>3. l.p[s[j]] = s[i]
        BY <1>1, <3>1
      <4>4. i - 1 \in 1 .. N /\ ~(i - 1 < k) /\ i - 1 < N /\ (i - 1) + 1 = i
        BY <2>3, <3>6
      <4>5. t[i - 1] = s[i]
        BY <1>12, <4>4
      <4> QED
        BY <3>2, <3>4, <4>2, <4>3, <4>4, <4>5
    <3> QED
      BY <3>5, <3>6
  <2> QED
    BY <2>1, <2>2, <2>3
<1> QED
  BY <1>11, <1>13, <1>14, <1>15 DEF Linked, a, b, m, r, t

-----------------------------------------------------------------------------
(* New buffers.                                                            *)

\* Buffer N+1 comes right after the k-th one.
Put(s, N, k) ==
  [i \in 1 .. (N + 1) |-> IF i <= k THEN s[i] ELSE IF i = k + 1 THEN N + 1 ELSE s[i - 1]]

LEMMA PutIsOrder ==
  ASSUME NEW N \in Nat, NEW k \in 1 .. N, NEW s, IsOrder(s, N)
  PROVE  IsOrder(Put(s, N, k), N + 1)
<1> DEFINE t == Put(s, N, k)
           M == N + 1
<1>1. /\ s \in [1 .. N -> 1 .. N]
      /\ \A i, j \in 1 .. N : s[i] = s[j] => i = j
      /\ \A b \in 1 .. N : \E i \in 1 .. N : s[i] = b
  BY DEF IsOrder
<1>2. \A i \in 1 .. M : t[i] = IF i <= k THEN s[i] ELSE IF i = k + 1 THEN N + 1 ELSE s[i - 1]
  BY DEF Put
<1>3. t = [i \in 1 .. M |-> t[i]]
  BY DEF Put
<1> HIDE DEF t
<1>4. \A i \in 1 .. M : /\ i <= k => i \in 1 .. N /\ t[i] = s[i]
                        /\ i = k + 1 => t[i] = M
                        /\ i > k + 1 => i - 1 \in 1 .. N /\ t[i] = s[i - 1]
  BY <1>2
<1>5. \A i \in 1 .. N : s[i] \in 1 .. N /\ s[i] # M
  BY <1>1
<1>6. ASSUME NEW i \in 1 .. M PROVE t[i] \in 1 .. M
  <2>1. CASE i <= k
    BY <1>4, <1>5, <2>1
  <2>2. CASE i = k + 1
    BY <1>4, <2>2
  <2>3. CASE i > k + 1
    BY <1>4, <1>5, <2>3
  <2> QED
    BY <2>1, <2>2, <2>3
<1>7. ASSUME NEW i \in 1 .. M, NEW j \in 1 .. M, t[i] = t[j] PROVE i = j
  <2>1. CASE i = k + 1
    <3>1. t[j] = M
      BY <1>4, <1>7, <2>1
    <3>2. ~(j <= k) /\ ~(j > k + 1)
      BY <1>4, <1>5, <3>1
    <3> QED
      BY <2>1, <3>2
  <2>2. CASE j = k + 1
    <3>1. t[i] = M
      BY <1>4, <1>7, <2>2
    <3>2. ~(i <= k) /\ ~(i > k + 1)
      BY <1>4, <1>5, <3>1
    <3> QED
      BY <2>2, <3>2
  <2>3. CASE i # k + 1 /\ j # k + 1
    <3> DEFINE u == IF i <= k THEN i ELSE i - 1
               v == IF j <= k THEN j ELSE j - 1
    <3>1. u \in 1 .. N /\ t[i] = s[u]
      BY <1>4, <2>3
    <3>2. v \in 1 .. N /\ t[j] = s[v]
      BY <1>4, <2>3
    <3>3. u = v
      <4> HIDE DEF u, v
      <4> QED
        BY <1>1, <1>7, <3>1, <3>2
    <3> QED
      BY <2>3, <3>3
  <2> QED
    BY <2>1, <2>2, <2>3
<1>8. ASSUME NEW b \in 1 .. M PROVE \E i \in 1 .. M : t[i] = b
  <2>1. CASE b = M
    <3>1. k + 1 \in 1 .. M
      OBVIOUS
    <3> QED
      BY <1>4, <2>1, <3>1
  <2>2. CASE b # M
    <3>1. b \in 1 .. N
      BY <2>2
    <3>2. PICK j \in 1 .. N : s[j] = b
      BY <1>1, <3>1
    <3>3. CASE j <= k
      BY <1>2, <3>2, <3>3
    <3>4. CASE j > k
      <4>1. j + 1 \in 1 .. M /\ ~(j + 1 <= k) /\ j + 1 # k + 1 /\ (j + 1) - 1 = j
        BY <3>4
      <4> QED
        BY <1>2, <3>2, <4>1
    <3> QED
      BY <3>3, <3>4
  <2> QED
    BY <2>1, <2>2
<1>9. t \in [1 .. M -> 1 .. M]
  BY <1>3, <1>6
<1> HIDE DEF M
<1>10. IsOrder(t, M)
  BY <1>7, <1>8, <1>9, Zenon DEF IsOrder
<1> QED
  BY <1>10 DEF t, M

LEMMA Inserted ==
  ASSUME NEW N \in Nat, N + 1 <= MaxSize, NEW l, NEW s, Linked(l, s, N), NEW k \in 1 .. N
  PROVE  Linked(InsertAfter(l, N + 1, s[k]), Put(s, N, k), N + 1)
<1> DEFINE M == N + 1
           b == s[k]
           c == l.n[b]
           r == InsertAfter(l, M, b)
           t == Put(s, N, k)
<1>1. /\ l.n \in [Buf -> Ptr] /\ l.p \in [Buf -> Ptr]
      /\ s \in [1 .. N -> 1 .. N]
      /\ \A i, j \in 1 .. N : s[i] = s[j] => i = j
      /\ \A i \in 1 .. N : l.n[s[i]] = IF i < N THEN s[i + 1] ELSE NULL
      /\ \A i \in 1 .. N : l.p[s[i]] = IF i > 1 THEN s[i - 1] ELSE NULL
  BY DEF Linked
<1>2. MaxSize \in Nat
  BY Sizes
<1>3. \A i \in 1 .. N : s[i] \in Buf /\ s[i] # NULL /\ s[i] # M /\ s[i] \in 1 .. N
  BY <1>1, <1>2 DEF Buf, NULL
<1>4. M \in Buf /\ M # NULL
  BY <1>2 DEF Buf, NULL
<1>5. c = IF k < N THEN s[k + 1] ELSE NULL
  BY <1>1
<1>6. c # M /\ b \in Buf /\ b # M
  <2>1. b \in Buf /\ b # M
    BY <1>3
  <2>2. c # M
    BY <1>3, <1>4, <1>5
  <2> QED
    BY <2>1, <2>2
<1> HIDE DEF b, M
<1>7. /\ r.n \in [Buf -> Ptr] /\ r.p \in [Buf -> Ptr]
      /\ r.n[M] = c /\ r.n[b] = M
      /\ \A x \in Buf : x # M /\ x # b => r.n[x] = l.n[x]
      /\ r.p[M] = b
      /\ c # NULL => r.p[c] = M
      /\ \A x \in Buf : x # M /\ x # c => r.p[x] = l.p[x]
  <2>1. l.n \in [Buf -> Ptr] /\ l.p \in [Buf -> Ptr] /\ M \in Buf /\ b \in Buf /\ M # b /\ l.n[b] # M
    BY <1>1, <1>4, <1>6
  <2> QED
    BY <2>1, InsertIs
<1>8. \A i \in 1 .. M : t[i] = IF i <= k THEN s[i] ELSE IF i = k + 1 THEN M ELSE s[i - 1]
  BY DEF Put, M
<1>9. IsOrder(t, M)
  <2>1. IsOrder(s, N)
    BY DEF Linked, IsOrder
  <2> QED
    BY <2>1, PutIsOrder DEF M
<1>10. M = N + 1 /\ b = s[k]
  BY DEF M, b
<1> HIDE DEF r, t, c
<1>11. ASSUME NEW i \in 1 .. M PROVE r.n[t[i]] = IF i < M THEN t[i + 1] ELSE NULL
  <2>1. CASE i < k
    <3>1. i \in 1 .. N /\ i + 1 \in 1 .. M /\ i < N /\ i < M /\ i + 1 <= k /\ i <= k /\ i # k
      BY <1>10, <2>1
    <3>2. t[i] = s[i] /\ t[i + 1] = s[i + 1]
      BY <1>8, <3>1
    <3>3. s[i] # b
      BY <1>1, <1>10, <3>1
    <3>4. r.n[s[i]] = l.n[s[i]]
      BY <1>3, <1>7, <3>1, <3>3
    <3>5. l.n[s[i]] = s[i + 1]
      BY <1>1, <3>1
    <3> QED
      BY <3>1, <3>2, <3>4, <3>5
  <2>2. CASE i = k
    <3>1. i \in 1 .. M /\ k + 1 \in 1 .. M /\ i < M
      BY <1>10, <2>2
    <3>2. t[i] = b /\ t[i + 1] = M
      BY <1>8, <1>10, <2>2, <3>1
    <3> QED
      BY <1>7, <3>1, <3>2
  <2>3. CASE i = k + 1
    <3>1. t[i] = M
      BY <1>8, <2>3
    <3>2. CASE k < N
      <4>1. i < M /\ i + 1 \in 1 .. M /\ (i + 1) - 1 = k + 1 /\ ~(i + 1 <= k) /\ i + 1 # k + 1
        BY <1>10, <2>3, <3>2
      <4>2. t[i + 1] = s[k + 1]
        BY <1>8, <4>1
      <4> QED
        BY <1>5, <1>7, <3>1, <3>2, <4>1, <4>2
    <3>3. CASE ~(k < N)
      <4>1. ~(i < M)
        BY <1>10, <2>3, <3>3
      <4> QED
        BY <1>5, <1>7, <3>1, <3>3, <4>1
    <3> QED
      BY <3>2, <3>3
  <2>4. CASE i > k + 1
    <3> DEFINE j == i - 1
    <3>1. j \in 1 .. N /\ j > k /\ j # k /\ i = j + 1 /\ (i < M) = (j < N)
      BY <1>10, <2>4
    <3>2. t[i] = s[j]
      BY <1>8, <2>4
    <3> HIDE DEF j
    <3>3. s[j] # b
      BY <1>1, <1>10, <3>1
    <3>4. r.n[s[j]] = l.n[s[j]]
      BY <1>3, <1>7, <3>1, <3>3
    <3>5. CASE j < N
      <4>1. i + 1 \in 1 .. M /\ ~(i + 1 <= k) /\ i + 1 # k + 1 /\ (i + 1) - 1 = j + 1 /\ i < M
        BY <1>10, <3>1, <3>5
      <4>2. t[i + 1] = s[j + 1]
        BY <1>8, <4>1
      <4>3. l.n[s[j]] = s[j + 1]
        BY <1>1, <3>1, <3>5
      <4> QED
        BY <3>2, <3>4, <4>1, <4>2, <4>3
    <3>6. CASE ~(j < N)
      <4>1. l.n[s[j]] = NULL /\ ~(i < M)
        BY <1>1, <3>1, <3>6
      <4> QED
        BY <3>2, <3>4, <4>1
    <3> QED
      BY <3>5, <3>6
  <2> QED
    BY <2>1, <2>2, <2>3, <2>4
<1>12. ASSUME NEW i \in 1 .. M PROVE r.p[t[i]] = IF i > 1 THEN t[i - 1] ELSE NULL
  <2>1. CASE i <= k
    <3>1. i \in 1 .. N /\ t[i] = s[i]
      BY <1>8, <2>1
    <3>2. s[i] # c
      <4>1. CASE k < N
        <5>1. k + 1 \in 1 .. N /\ i # k + 1
          BY <2>1, <4>1
        <5> QED
          BY <1>1, <1>5, <3>1, <4>1, <5>1
      <4>2. CASE ~(k < N)
        BY <1>3, <1>5, <3>1, <4>2
      <4> QED
        BY <4>1, <4>2
    <3>3. r.p[s[i]] = l.p[s[i]]
      BY <1>3, <1>7, <3>1, <3>2
    <3>4. l.p[s[i]] = IF i > 1 THEN s[i - 1] ELSE NULL
      BY <1>1, <3>1
    <3>5. i > 1 => t[i - 1] = s[i - 1]
      BY <1>8, <1>10, <2>1
    <3> QED
      BY <3>1, <3>3, <3>4, <3>5
  <2>2. CASE i = k + 1
    <3>1. t[i] = M /\ i > 1 /\ i - 1 = k /\ k \in 1 .. M
      BY <1>8, <1>10, <2>2
    <3>2. t[k] = b
      BY <1>8, <1>10, <3>1
    <3> QED
      BY <1>7, <3>1, <3>2
  <2>3. CASE i > k + 1
    <3> DEFINE j == i - 1
    <3>1. j \in 1 .. N /\ j > k /\ i = j + 1 /\ j \in 1 .. M /\ i > 1 /\ j > 1
      BY <1>10, <2>3
    <3>2. t[i] = s[j]
      BY <1>8, <2>3
    <3>3. i - 1 = j
      OBVIOUS
    <3> HIDE DEF j
    <3>4. CASE j = k + 1
      <4>1. c = s[j] /\ c # NULL
        BY <1>3, <1>5, <3>1, <3>4
      <4>2. t[j] = M
        BY <1>8, <3>1, <3>4
      <4> QED
        BY <1>7, <3>1, <3>2, <3>3, <4>1, <4>2
    <3>5. CASE j > k + 1
      <4>1. s[j] # c
        <5>1. k + 1 \in 1 .. N /\ j # k + 1 /\ k < N
          BY <3>1, <3>5
        <5> QED
          BY <1>1, <1>5, <3>1, <5>1
      <4>2. r.p[s[j]] = l.p[s[j]]
        BY <1>3, <1>7, <3>1, <4>1
      <4>3. l.p[s[j]] = s[j - 1]
        BY <1>1, <3>1
      <4>4. t[j] = s[j - 1]
        BY <1>8, <3>1, <3>5
      <4> QED
        BY <3>1, <3>2, <3>3, <4>2, <4>3, <4>4
    <3> QED
      BY <3>1, <3>4, <3>5
  <2> QED
    BY <2>1, <2>2, <2>3
<1>13. Linked(r, t, M)
  BY <1>7, <1>9, <1>11, <1>12, Zenon DEF Linked, IsOrder
<1> QED
  BY <1>13 DEF r, t, M, b

\* g[a] is the list l with the buffers N+1 .. a put after b.
Puts(g, N, M, l, b) ==
  g = [a \in N .. M |-> IF a = N THEN l ELSE InsertAfter(g[a - 1], a, b)]

IsPuts(l, N, M, b) == \E g : Puts(g, N, M, l, b) /\ Allocate(l, N + 1, M, b) = g[M]

\* The recursion of Allocate has a solution, so Allocate is the value of one.
LEMMA AllocateUnfolds ==
  ASSUME NEW N \in Nat, NEW M \in Nat, N <= M, NEW l, NEW b
  PROVE  IsPuts(l, N, M, b)
<1> DEFINE F(g, m) == [a \in N .. m |-> IF a = N THEN l ELSE InsertAfter(g[a - 1], a, b)]
           Sol(m) == \E g : g = F(g, m)
<1>1. Sol(N)
  <2> DEFINE g == [a \in N .. N |-> l]
  <2>1. g = F(g, N)
    OBVIOUS
  <2> QED
    BY <2>1
<1>2. ASSUME NEW m \in Nat, N <= m, Sol(m) PROVE Sol(m + 1)
  <2>1. PICK g : g = F(g, m)
    BY <1>2
  <2> DEFINE h == [a \in N .. (m + 1) |-> IF a <= m THEN g[a] ELSE InsertAfter(g[m], a, b)]
  <2>2. ASSUME NEW a \in N .. (m + 1)
        PROVE  h[a] = IF a = N THEN l ELSE InsertAfter(h[a - 1], a, b)
    <3>1. CASE a <= m
      <4>1. a \in N .. m /\ h[a] = g[a]
        BY <3>1
      <4>2. g[a] = IF a = N THEN l ELSE InsertAfter(g[a - 1], a, b)
        BY <2>1, <4>1
      <4>3. a # N => a - 1 \in N .. (m + 1) /\ a - 1 <= m
        BY <3>1
      <4>4. a # N => h[a - 1] = g[a - 1]
        BY <4>3
      <4> HIDE DEF h
      <4> QED
        BY <4>1, <4>2, <4>4, Zenon
    <3>2. CASE ~(a <= m)
      <4>1. a - 1 = m /\ m \in N .. (m + 1) /\ a # N
        BY <1>2, <3>2
      <4>2. h[a] = InsertAfter(g[m], a, b) /\ h[m] = g[m]
        BY <3>2, <4>1
      <4> HIDE DEF h
      <4> QED
        BY <4>1, <4>2, Zenon
    <3> QED
      BY <3>1, <3>2
  <2>3. h = [a \in N .. (m + 1) |-> h[a]]
    OBVIOUS
  <2> HIDE DEF h
  <2>4. h = F(h, m + 1)
    BY <2>2, <2>3
  <2> HIDE DEF F
  <2> QED
    BY <2>4
<1>3. Sol(M)
  <2> HIDE DEF Sol
  <2> DEFINE S == {m \in Nat : N <= m /\ ~Sol(m)}
  <2> SUFFICES ASSUME ~Sol(M) PROVE FALSE
    OBVIOUS
  <2>1. M \in S /\ S \subseteq Nat
    OBVIOUS
  <2>2. PICK m \in S : \A k \in S : m <= k
    <3> HIDE DEF S
    <3> QED
      BY <2>1, LeastNat
  <2>3. m \in Nat /\ N <= m /\ ~Sol(m)
    OBVIOUS
  <2>4. m # N
    BY <1>1, <2>3, Zenon
  <2>5. m - 1 \in Nat /\ N <= m - 1 /\ ~(m <= m - 1) /\ (m - 1) + 1 = m
    BY <2>3, <2>4
  <2>6. Sol(m - 1)
    BY <2>2, <2>5
  <2>7. Sol((m - 1) + 1)
    BY <1>2, <2>5, <2>6, Zenon
  <2> QED
    BY <2>3, <2>5, <2>7, Zenon
<1> DEFINE v == CHOOSE g : g = F(g, M)
<1>4. v = F(v, M)
  <2> HIDE DEF F
  <2> QED
    BY <1>3
<1>5. Allocate(l, N + 1, M, b) = v[M]
  <2>1. (N + 1) - 1 = N
    OBVIOUS
  <2> QED
    BY <2>1 DEF Allocate
<1> HIDE DEF v
<1>6. Puts(v, N, M, l, b)
  BY <1>4 DEF Puts
<1> QED
  BY <1>5, <1>6 DEF IsPuts

\* In the list l, buffers N+1 .. M have come between the k-th buffer of s and the ones
\* after it, which stay in their order; the first of the new ones is the last of them.
Spread(l, s, N, M, k) ==
  \E t : /\ Linked(l, t, M)
         /\ \A i \in 1 .. k : t[i] = s[i]
         /\ \A i \in (k + 1) .. N : t[i + (M - N)] = s[i]
         /\ M > N => t[k + (M - N)] = N + 1

LEMMA Allocated ==
  ASSUME NEW N \in Nat, NEW M \in Nat, N <= M, M <= MaxSize, NEW l, NEW s, Linked(l, s, N),
         NEW k \in 1 .. N
  PROVE  Spread(Allocate(l, N + 1, M, s[k]), s, N, M, k)
<1> DEFINE b == s[k]
<1>1. PICK g : Puts(g, N, M, l, b) /\ Allocate(l, N + 1, M, b) = g[M]
  <2>1. IsPuts(l, N, M, b)
    BY AllocateUnfolds
  <2> QED
    BY <2>1 DEF IsPuts
<1> DEFINE Good(a) == \E t : /\ Linked(g[a], t, a)
                             /\ \A i \in 1 .. k : t[i] = s[i]
                             /\ \A i \in (k + 1) .. N : t[i + (a - N)] = s[i]
                             /\ a > N => t[k + (a - N)] = N + 1
<1>2. Good(N)
  <2>1. g[N] = l
    BY <1>1 DEF Puts
  <2>2. \A i \in (k + 1) .. N : s[i + (N - N)] = s[i]
    <3>1. \A i \in (k + 1) .. N : i + (N - N) = i
      OBVIOUS
    <3> QED
      BY <3>1, Zenon
  <2>3. ~(N > N)
    OBVIOUS
  <2> QED
    BY <2>1, <2>2, <2>3
<1>3. ASSUME NEW a \in N .. M, a # M, Good(a) PROVE Good(a + 1)
  <2>1. PICK t : /\ Linked(g[a], t, a)
                 /\ \A i \in 1 .. k : t[i] = s[i]
                 /\ \A i \in (k + 1) .. N : t[i + (a - N)] = s[i]
                 /\ a > N => t[k + (a - N)] = N + 1
    BY <1>3
  <2>2. a \in Nat /\ a + 1 <= MaxSize /\ a + 1 \in N .. M /\ a + 1 # N /\ (a + 1) - 1 = a
        /\ k \in 1 .. a
    BY <1>3, Sizes
  <2>3. g[a + 1] = InsertAfter(g[a], a + 1, t[k])
    <3>1. g[a + 1] = InsertAfter(g[a], a + 1, b)
      BY <1>1, <2>2 DEF Puts
    <3>2. t[k] = b
      BY <2>1
    <3> QED
      BY <3>1, <3>2, Zenon
  <2> DEFINE u == Put(t, a, k)
  <2>4. Linked(g[a + 1], u, a + 1)
    BY <2>1, <2>2, <2>3, Inserted
  <2>5. \A i \in 1 .. (a + 1) : u[i] = IF i <= k THEN t[i] ELSE IF i = k + 1 THEN a + 1 ELSE t[i - 1]
    BY DEF Put
  <2> HIDE DEF u
  <2>6. ASSUME NEW i \in 1 .. k PROVE u[i] = s[i]
    BY <2>1, <2>2, <2>5
  <2>7. ASSUME NEW i \in (k + 1) .. N PROVE u[i + ((a + 1) - N)] = s[i]
    <3> DEFINE j == i + ((a + 1) - N)
    <3>1. j \in 1 .. (a + 1) /\ ~(j <= k) /\ j # k + 1 /\ j - 1 = i + (a - N)
      BY <2>2
    <3> HIDE DEF j
    <3>2. u[j] = t[j - 1]
      BY <2>5, <3>1
    <3>3. u[j] = s[i]
      BY <2>1, <3>1, <3>2
    <3> QED
      BY <3>3 DEF j
  <2>8. u[k + ((a + 1) - N)] = N + 1
    <3> DEFINE j == k + ((a + 1) - N)
    <3>1. j \in 1 .. (a + 1) /\ ~(j <= k) /\ (j = k + 1) = (a = N) /\ j - 1 = k + (a - N)
      BY <2>2
    <3> HIDE DEF j
    <3>2. u[j] = IF j = k + 1 THEN a + 1 ELSE t[j - 1]
      BY <2>5, <3>1
    <3>3. u[j] = N + 1
      BY <2>1, <3>1, <3>2
    <3> QED
      BY <3>3 DEF j
  <2> QED
    BY <2>4, <2>6, <2>7, <2>8
<1>4. Good(M)
  <2> HIDE DEF Good
  <2> DEFINE S == {m \in Nat : m \in N .. M /\ ~Good(m)}
  <2> SUFFICES ASSUME ~Good(M) PROVE FALSE
    OBVIOUS
  <2>1. M \in S /\ S \subseteq Nat
    OBVIOUS
  <2>2. PICK m \in S : \A j \in S : m <= j
    <3> HIDE DEF S
    <3> QED
      BY <2>1, LeastNat
  <2>3. m \in Nat /\ m \in N .. M /\ ~Good(m)
    OBVIOUS
  <2>4. m # N
    BY <1>2, <2>3, Zenon
  <2>5. m - 1 \in Nat /\ m - 1 \in N .. M /\ m - 1 # M /\ ~(m <= m - 1) /\ (m - 1) + 1 = m
    BY <2>3, <2>4
  <2>6. Good(m - 1)
    BY <2>2, <2>5
  <2>7. Good((m - 1) + 1)
    BY <1>3, <2>5, <2>6, Zenon
  <2> QED
    BY <2>3, <2>5, <2>7, Zenon
<1> HIDE DEF b
<1>5. Allocate(l, N + 1, M, b) = g[M]
  BY <1>1
<1> QED
  BY <1>4, <1>5 DEF b, Spread

-----------------------------------------------------------------------------
(* Sequence numbers.                                                       *)

LEMMA DivMod ==
  ASSUME NEW m \in Nat, m > 0, NEW a \in Int
  PROVE  a \div m \in Int /\ a % m \in 0 .. (m - 1) /\ a = m * (a \div m) + (a % m)
BY SMT

LEMMA SmallMultiple ==
  ASSUME NEW m \in Nat, m > 0, NEW x \in Int, m * x < m, m * (0 - x) < m
  PROVE  x = 0
<1>1. ASSUME NEW y \in Int, y >= 1 PROVE m * y >= m
  BY <1>1
<1>2. ~(x >= 1)
  BY <1>1
<1>3. ~(0 - x >= 1)
  <2>1. 0 - x \in Int
    OBVIOUS
  <2> HIDE <1>2
  <2> QED
    BY <1>1, <2>1
<1> QED
  BY <1>2, <1>3

\* The remainder is the only number below m at a multiple of m from a.
LEMMA ModUnique ==
  ASSUME NEW m \in Nat, m > 0, NEW a \in Int, NEW z \in Int, NEW e \in 0 .. (m - 1),
         a = m * z + e
  PROVE  a % m = e
<1> DEFINE d == a \div m
           r == a % m
<1>1. d \in Int /\ r \in 0 .. (m - 1) /\ a = m * d + r
  BY DivMod
<1> HIDE DEF d, r
<1>2. r - e = m * (z - d) /\ e - r = m * (0 - (z - d)) /\ z - d \in Int
  BY <1>1
<1> DEFINE w == z - d
<1>3. m * w < m /\ m * (0 - w) < m /\ w \in Int
  <2>1. r - e < m /\ e - r < m
    BY <1>1
  <2> QED
    BY <1>2, <2>1
<1> HIDE DEF w
<1>4. w = 0
  BY <1>3, SmallMultiple
<1>5. r - e = m * w
  BY <1>2 DEF w
<1>6. r = e
  BY <1>1, <1>4, <1>5
<1> QED
  BY <1>6 DEF r

\* One more record: the number of every record is as far from the next one's.
LEMMA NextNumber ==
  ASSUME NEW m \in Nat, m > 0, NEW a \in Int, NEW c \in Int
  PROVE  (((a + 1) % m) - (c + 1)) % m = (a - c) % m
<1> DEFINE q == (a + 1) \div m
           b == (a + 1) % m
           p == (a - c) \div m
           r == (a - c) % m
<1>1. q \in Int /\ b \in 0 .. (m - 1) /\ a + 1 = m * q + b
  BY DivMod
<1>2. p \in Int /\ r \in 0 .. (m - 1) /\ a - c = m * p + r
  BY DivMod
<1> HIDE DEF q, b, p, r
<1>3. b - (c + 1) = m * (p - q) + r
  BY <1>1, <1>2
<1>4. (b - (c + 1)) % m = r
  <2>1. b - (c + 1) \in Int /\ p - q \in Int
    BY <1>1, <1>2
  <2> QED
    BY <1>2, <1>3, <2>1, ModUnique
<1> QED
  BY <1>4 DEF b, r

LEMMA LastNumber ==
  ASSUME NEW m \in Nat, m > 0, NEW a \in 0 .. (m - 1)
  PROVE  (((a + 1) % m) - 1) % m = a
<1>1. (((a + 1) % m) - (0 + 1)) % m = (a - 0) % m
  <2>1. a \in Int /\ 0 \in Int
    OBVIOUS
  <2> QED
    BY <2>1, NextNumber
<1>2. a % m = a
  <2>1. a = m * 0 + a /\ 0 \in Int /\ a \in Int
    OBVIOUS
  <2> QED
    BY <2>1, ModUnique
<1>3. 0 + 1 = 1 /\ a - 0 = a
  OBVIOUS
<1> QED
  BY <1>1, <1>2, <1>3

-----------------------------------------------------------------------------
(* The pool.                                                               *)

\* What the proofs of the steps use of the invariant: fewer buffers are with the
\* encoders than the pool has, so that there is always one to be taken.
LEMMA Basics ==
  ASSUME PoolInv, NEW s, NEW f, NEW r, Pool(s, f, r)
  PROVE  /\ nbufs \in Nat /\ nbufs >= 2 /\ nbufs <= MaxSize /\ MaxSize \in Nat
         /\ minbufs \in Nat /\ Encoders \in Nat /\ Encoders + 2 <= nbufs
         /\ f \in 1 .. nbufs /\ f - 1 <= Encoders + 1 /\ r \in 0 .. (nbufs - f + 1)
         /\ SeqMod \in Nat /\ SeqMod > 0 /\ seq \in 0 .. (SeqMod - 1)
         /\ \A i \in 1 .. nbufs : /\ s[i] \in Buf /\ s[i] # NULL
                                  /\ nextptr[s[i]] = IF i < nbufs THEN s[i + 1] ELSE NULL
         /\ \A i, j \in 1 .. nbufs : s[i] = s[j] => i = j
         /\ buf_free = s[f] /\ buf_free # NULL
         /\ Cardinality(out) = f - 1
<1>1. /\ nbufs \in Nat /\ nbufs >= 2 /\ nbufs <= MaxSize /\ MaxSize \in Nat
      /\ minbufs \in Nat /\ minbufs <= nbufs
      /\ SeqMod \in Nat /\ SeqMod > 0 /\ seq \in 0 .. (SeqMod - 1)
  BY Sizes DEF PoolInv, TypeOK
<1>2. Encoders \in Nat /\ Encoders + 2 <= nbufs
  <2>1. \A n \in Nat : n \div 3 \in Nat /\ (n < 3 => n \div 3 = 0) /\ (n >= 3 => n \div 3 + 2 <= n)
    OBVIOUS
  <2> QED
    BY <1>1, <2>1 DEF Encoders
<1>3. /\ s \in [1 .. nbufs -> 1 .. nbufs]
      /\ \A i, j \in 1 .. nbufs : s[i] = s[j] => i = j
      /\ \A i \in 1 .. nbufs : nextptr[s[i]] = IF i < nbufs THEN s[i + 1] ELSE NULL
  BY DEF Pool, Linked, Links
<1>4. \A i \in 1 .. nbufs : s[i] \in Buf /\ s[i] # NULL
  BY <1>1, <1>3 DEF Buf, NULL
<1>5. /\ f \in 1 .. nbufs /\ f - 1 <= Encoders + 1 /\ r \in 0 .. (nbufs - f + 1)
      /\ buf_free = s[f]
  BY DEF Pool, Parts
<1>6. buf_free # NULL
  BY <1>4, <1>5
<1>7. Cardinality(out) = f - 1
  BY WindowIs DEF PoolInv
<1> QED
  BY <1>1, <1>2, <1>3, <1>4, <1>5, <1>6, <1>7

LEMMA InitPool == Init => PoolInv
<1> SUFFICES ASSUME Init PROVE PoolInv
  OBVIOUS
<1> DEFINE s == [i \in 1 .. 1 |-> 1]
           l == Allocate(Unlinked, 2, NBufs, 1)
<1>1. NBufs \in Nat /\ NBufs >= 2 /\ MaxSize \in Nat /\ MaxSize >= NBufs
      /\ SeqMod \in Nat /\ SeqMod > 0 /\ MaxRec \in Nat
  BY Sizes
<1>2. Linked(Unlinked, s, 1)
  <2>1. \A i \in 1 .. 1 : i = 1
    OBVIOUS
  <2>2. 1 \in Buf /\ NULL \in Ptr
    BY <1>1 DEF Buf, Ptr
  <2> QED
    BY <2>1, <2>2 DEF Linked, Unlinked
<1>3. PICK t : /\ Linked(l, t, NBufs)
               /\ \A i \in 1 .. 1 : t[i] = 1
               /\ NBufs > 1 => t[1 + (NBufs - 1)] = 1 + 1
  <2>1. 1 \in Nat /\ 1 <= NBufs /\ 1 \in 1 .. 1 /\ s[1] = 1 /\ 1 + 1 = 2
    BY <1>1
  <2>2. \A i \in 1 .. 1 : s[i] = 1
    OBVIOUS
  <2> HIDE DEF s
  <2>3. Spread(Allocate(Unlinked, 1 + 1, NBufs, s[1]), s, 1, NBufs, 1)
    BY <1>1, <1>2, <2>1, Allocated
  <2> QED
    BY <2>1, <2>2, <2>3 DEF Spread
<1> HIDE DEF l
<1>4. t[1] = 1 /\ t[NBufs] = 2
  <2>1. 1 \in 1 .. 1 /\ NBufs > 1 /\ 1 + (NBufs - 1) = NBufs /\ 1 + 1 = 2
    BY <1>1
  <2> QED
    BY <1>3, <2>1
<1>5. /\ nextptr = l.n /\ prevptr = l.p
      /\ bufseq = [b \in Buf |-> Uninit]
      /\ buf_head = 1 /\ buf_free = 1 /\ buf_first = NULL /\ buf_queue = 2
      /\ seq = 0 /\ nbufs = NBufs /\ minbufs = 0
      /\ out = {} /\ startup = "load" /\ made = 0
      /\ buffer_queue = NULL /\ failed = FALSE /\ count = 0
  BY DEF Init, l
<1>6. Linked(Links, t, nbufs)
  BY <1>3, <1>5 DEF Linked, Links
<1>7. TypeOK
  <2>1. 1 \in Buf /\ 2 \in Buf
    BY <1>1 DEF Buf
  <2>2. nextptr \in [Buf -> Ptr] /\ prevptr \in [Buf -> Ptr]
    BY <1>3, <1>5 DEF Linked
  <2>3. bufseq \in [Buf -> {Uninit} \cup 0 .. (SeqMod - 1)]
    BY <1>5
  <2>4. /\ seq \in 0 .. (SeqMod - 1) /\ nbufs \in NBufs .. MaxSize /\ minbufs \in 0 .. MaxSize
        /\ made \in Nat /\ count \in 0 .. MaxRec
    BY <1>1, <1>5
  <2>5. out \subseteq Buf /\ startup \in {"load", "blank", "run"} /\ failed \in BOOLEAN
    BY <1>5
  <2>6. buf_head \in Buf /\ buf_free \in Ptr /\ buf_first \in Ptr /\ buf_queue \in Buf
        /\ buffer_queue \in Ptr
    BY <1>5, <2>1 DEF Ptr
  <2> QED
    BY <2>2, <2>3, <2>4, <2>5, <2>6 DEF TypeOK
<1>8. Parts(t, 1, 0)
  <2>1. Encoders \in Nat
    BY <1>5 DEF Encoders
  <2>2. 1 \in 1 .. nbufs /\ 1 - 1 <= Encoders + 1 /\ 0 \in 0 .. (nbufs - 1 + 1)
    BY <1>1, <1>5, <2>1
  <2>3. {t[i] : i \in 1 .. (1 - 1)} = {}
    OBVIOUS
  <2>4. \A i \in (nbufs - 0 + 1) .. nbufs : FALSE
    BY <1>1, <1>5
  <2> QED
    BY <1>4, <1>5, <2>2, <2>3, <2>4 DEF Parts
<1>9. Pool(t, 1, 0)
  BY <1>4, <1>5, <1>6, <1>8 DEF Pool
<1> QED
  BY <1>1, <1>5, <1>7, <1>9 DEF PoolInv

\* The k-th buffer has been made the newest record.
LEMMA MadeNewest ==
  ASSUME PoolInv, NEW s, NEW f, NEW r, Pool(s, f, r), NEW k \in 1 .. nbufs, k < nbufs,
         MakeNewest(s[k])
  PROVE  LET t == Move(s, nbufs, k)
         IN  /\ Linked(Links', t, nbufs)
             /\ buf_head' = t[1] /\ buf_queue' = t[nbufs] /\ t[nbufs] = s[k]
             /\ \A i \in 1 .. nbufs : /\ i < k => t[i] = s[i]
                                      /\ k <= i /\ i < nbufs => t[i] = s[i + 1]
             /\ bufseq'[t[nbufs]] = (seq' - 1) % SeqMod
             /\ \A i \in (nbufs - r + 1) .. nbufs :
                  k < i => bufseq'[t[i - 1]] = (seq' - (nbufs - (i - 1) + 1)) % SeqMod
<1> DEFINE t == Move(s, nbufs, k)
<1>1. /\ nbufs \in Nat /\ nbufs >= 2 /\ nbufs <= MaxSize /\ MaxSize \in Nat
      /\ r \in 0 .. nbufs
      /\ SeqMod \in Nat /\ SeqMod > 0 /\ seq \in 0 .. (SeqMod - 1)
  BY Basics
<1>2. /\ \A i \in 1 .. nbufs : /\ s[i] \in Buf
                               /\ nextptr[s[i]] = IF i < nbufs THEN s[i + 1] ELSE NULL
      /\ \A i, j \in 1 .. nbufs : s[i] = s[j] => i = j
  BY Basics
<1>3. Linked(Links', t, nbufs)
  <2> DEFINE m == InsertAfter(Remove(Links, s[k]), s[k], s[nbufs])
  <2>1. Linked(Links, s, nbufs) /\ buf_queue = s[nbufs]
    BY DEF Pool
  <2>2. Linked(m, t, nbufs)
    BY <1>1, <2>1, Moved
  <2>3. prevptr' = m.p /\ nextptr' = m.n
    BY <2>1 DEF MakeNewest, SetLinks
  <2> HIDE DEF m, t
  <2> QED
    BY <2>2, <2>3 DEF Linked, Links
<1>4. \A i \in 1 .. nbufs : t[i] = IF i < k THEN s[i] ELSE IF i < nbufs THEN s[i + 1] ELSE s[k]
  BY DEF Move
<1> HIDE DEF t
<1>5. t[nbufs] = s[k] /\ buf_queue' = t[nbufs]
  BY <1>1, <1>4 DEF MakeNewest
<1>6. buf_head' = t[1]
  <2>1. buf_head = s[1] /\ buf_head' = IF buf_head = s[k] THEN nextptr[s[k]] ELSE buf_head
    BY DEF Pool, MakeNewest
  <2>2. 1 \in 1 .. nbufs /\ 1 < nbufs
    BY <1>1
  <2>3. CASE k = 1
    BY <1>2, <1>4, <2>1, <2>2, <2>3
  <2>4. CASE k # 1
    <3>1. t[1] = s[1] /\ s[1] # s[k]
      BY <1>2, <1>4, <2>2, <2>4
    <3> QED
      BY <2>1, <3>1
  <2> QED
    BY <2>3, <2>4
<1>7. seq' = (seq + 1) % SeqMod /\ bufseq' = [bufseq EXCEPT ![s[k]] = seq]
      /\ bufseq \in [Buf -> {Uninit} \cup 0 .. (SeqMod - 1)]
  BY DEF MakeNewest, PoolInv, TypeOK
<1>8. bufseq'[t[nbufs]] = (seq' - 1) % SeqMod
  <2>1. (((seq + 1) % SeqMod) - 1) % SeqMod = seq
    BY <1>1, LastNumber
  <2>2. bufseq'[s[k]] = seq
    BY <1>2, <1>7
  <2> QED
    BY <1>5, <1>7, <2>1, <2>2
<1>9. ASSUME NEW i \in (nbufs - r + 1) .. nbufs, k < i
      PROVE  bufseq'[t[i - 1]] = (seq' - (nbufs - (i - 1) + 1)) % SeqMod
  <2>1. i \in 1 .. nbufs /\ i - 1 \in 1 .. nbufs /\ i # k /\ ~(i - 1 < k) /\ i - 1 < nbufs
        /\ (i - 1) + 1 = i
    BY <1>1, <1>9
  <2>2. t[i - 1] = s[i]
    BY <1>4, <2>1
  <2>3. s[i] # s[k] /\ s[i] \in Buf
    BY <1>2, <2>1
  <2>4. bufseq'[s[i]] = bufseq[s[i]]
    BY <1>7, <2>3
  <2>5. bufseq[s[i]] = (seq - (nbufs - i + 1)) % SeqMod
    BY DEF Pool, Parts
  <2> DEFINE c == nbufs - i + 1
  <2>6. c \in Int /\ seq \in Int /\ nbufs - (i - 1) + 1 = c + 1
    BY <1>1, <2>1
  <2> HIDE DEF c
  <2>7. (((seq + 1) % SeqMod) - (c + 1)) % SeqMod = (seq - c) % SeqMod
    BY <1>1, <2>6, NextNumber
  <2>8. bufseq[s[i]] = (seq - c) % SeqMod
    BY <2>5 DEF c
  <2> QED
    BY <1>7, <2>2, <2>4, <2>6, <2>7, <2>8
<1>10. \A i \in 1 .. nbufs : /\ i < k => t[i] = s[i]
                             /\ k <= i /\ i < nbufs => t[i] = s[i + 1]
  BY <1>4
<1> QED
  BY <1>3, <1>5, <1>6, <1>8, <1>9, <1>10 DEF t

LEMMA NewestTypes ==
  ASSUME PoolInv, NEW s, NEW f, NEW r, Pool(s, f, r), NEW k \in 1 .. nbufs, k < nbufs,
         MakeNewest(s[k])
  PROVE  /\ prevptr' \in [Buf -> Ptr] /\ nextptr' \in [Buf -> Ptr]
         /\ bufseq' \in [Buf -> {Uninit} \cup 0 .. (SeqMod - 1)]
         /\ seq' \in 0 .. (SeqMod - 1)
         /\ buf_head' \in Buf /\ buf_queue' \in Buf /\ buf_first' \in Ptr
<1>1. s[k] \in Buf /\ SeqMod \in Nat /\ SeqMod > 0 /\ seq \in 0 .. (SeqMod - 1)
      /\ s[k] \in Ptr
  BY Basics DEF Ptr
<1>2. prevptr' \in [Buf -> Ptr] /\ nextptr' \in [Buf -> Ptr]
  <2>1. Linked(Links', Move(s, nbufs, k), nbufs)
    BY MadeNewest
  <2> QED
    BY <2>1 DEF Linked, Links
<1>3. seq' \in 0 .. (SeqMod - 1)
  <2>1. seq + 1 \in Int
    BY <1>1
  <2>2. (seq + 1) % SeqMod \in 0 .. (SeqMod - 1)
    BY <1>1, <2>1, DivMod
  <2> QED
    BY <2>2 DEF MakeNewest
<1>4. bufseq' \in [Buf -> {Uninit} \cup 0 .. (SeqMod - 1)]
  <2>1. bufseq \in [Buf -> {Uninit} \cup 0 .. (SeqMod - 1)]
    BY DEF PoolInv, TypeOK
  <2>2. bufseq' = [bufseq EXCEPT ![s[k]] = seq]
    BY DEF MakeNewest
  <2> QED
    BY <1>1, <2>1, <2>2
<1>5. buf_head' \in Buf
  <2>1. buf_head' = IF buf_head = s[k] THEN nextptr[s[k]] ELSE buf_head
    BY DEF MakeNewest
  <2>2. nextptr[s[k]] = s[k + 1] /\ s[k + 1] \in Buf
    <3>1. k + 1 \in 1 .. nbufs
      BY Basics
    <3> QED
      BY <3>1, Basics
  <2>3. buf_head \in Buf
    BY DEF PoolInv, TypeOK
  <2> QED
    BY <2>1, <2>2, <2>3
<1>6. buf_first' \in Ptr
  <2>1. buf_first \in Ptr
    BY DEF PoolInv, TypeOK
  <2>2. buf_first' = IF buf_first = NULL THEN s[k] ELSE buf_first
    BY DEF MakeNewest
  <2> QED
    BY <1>1, <2>1, <2>2
<1>7. buf_queue' \in Buf
  BY <1>1 DEF MakeNewest
<1> QED
  BY <1>2, <1>3, <1>4, <1>5, <1>6, <1>7

\* At startup no buffer is with an encoder: the first one gets the record, and a
\* full window starts again with it.
LEMMA NextBufferWindow ==
  ASSUME PoolInv, NextBuffer, NEW s, NEW f, NEW r, Pool(s, f, r)
  PROVE  \E t, w : Pool(t, 1, w)' /\ w = (IF r = nbufs THEN 1 ELSE r + 1) /\ f = 1
<1>1. /\ nbufs \in Nat /\ nbufs >= 2 /\ f \in 1 .. nbufs /\ r \in 0 .. (nbufs - f + 1)
      /\ buf_free = s[f] /\ buf_free # NULL /\ Cardinality(out) = f - 1
  BY Basics
<1>2. \A i \in 1 .. nbufs : /\ s[i] # NULL
                            /\ nextptr[s[i]] = IF i < nbufs THEN s[i + 1] ELSE NULL
  BY Basics
<1>3. startup # "run" /\ out = {} /\ buffer_queue = NULL /\ minbufs = 0
  BY DEF NextBuffer, PoolInv
<1>4. f = 1
  BY <1>1, <1>3, FS_EmptySet
<1>5. /\ MakeNewest(s[1]) /\ buf_free' = nextptr[s[1]]
      /\ out' = out /\ buffer_queue' = buffer_queue /\ minbufs' = minbufs
  BY <1>1, <1>4 DEF NextBuffer
<1>6. 1 \in 1 .. nbufs /\ 1 < nbufs
  BY <1>1
<1>0. PICK t, w : t = Move(s, nbufs, 1) /\ w = IF r = nbufs THEN 1 ELSE r + 1
  OBVIOUS
<1>7. /\ Linked(Links', t, nbufs)
      /\ buf_head' = t[1] /\ buf_queue' = t[nbufs] /\ t[nbufs] = s[1]
      /\ \A i \in 1 .. nbufs : /\ i < 1 => t[i] = s[i]
                               /\ 1 <= i /\ i < nbufs => t[i] = s[i + 1]
      /\ bufseq'[t[nbufs]] = (seq' - 1) % SeqMod
      /\ \A i \in (nbufs - r + 1) .. nbufs :
           1 < i => bufseq'[t[i - 1]] = (seq' - (nbufs - (i - 1) + 1)) % SeqMod
  BY <1>0, <1>5, <1>6, MadeNewest
<1>8. nbufs' = nbufs /\ buf_first' = IF buf_first = NULL THEN s[1] ELSE buf_first
  BY <1>5 DEF MakeNewest
<1>9. w \in 1 .. nbufs /\ (r = nbufs => w = 1) /\ (r # nbufs => w = r + 1)
  BY <1>0, <1>1, <1>4
<1>10. buf_free' = t[1]
  BY <1>2, <1>5, <1>6, <1>7
<1>11. buf_first' = t[nbufs - w + 1]
  <2>1. buf_first = IF r = 0 THEN NULL ELSE s[nbufs - r + 1]
    BY DEF Pool, Parts
  <2>2. CASE r = 0
    <3>1. nbufs - w + 1 = nbufs
      BY <1>1, <1>9, <2>2
    <3> QED
      BY <1>7, <1>8, <2>1, <2>2, <3>1
  <2>3. CASE r = nbufs
    <3>1. nbufs - w + 1 = nbufs /\ nbufs - r + 1 = 1 /\ r # 0
      BY <1>1, <1>9, <2>3
    <3> QED
      BY <1>2, <1>6, <1>7, <1>8, <2>1, <3>1
  <2>4. CASE r # 0 /\ r # nbufs
    <3>1. nbufs - w + 1 = nbufs - r /\ nbufs - r \in 1 .. nbufs /\ nbufs - r < nbufs
          /\ nbufs - r + 1 \in 1 .. nbufs /\ 1 <= nbufs - r
      BY <1>1, <1>9, <2>4
    <3>2. t[nbufs - r] = s[nbufs - r + 1]
      BY <1>7, <3>1
    <3> QED
      BY <1>2, <1>8, <2>1, <2>4, <3>1, <3>2
  <2> QED
    BY <2>2, <2>3, <2>4
<1>12. ASSUME NEW i \in (nbufs - w + 1) .. nbufs
       PROVE  bufseq'[t[i]] = (seq' - (nbufs - i + 1)) % SeqMod
  <2>1. CASE i = nbufs
    <3>1. nbufs - i + 1 = 1
      BY <1>1, <2>1
    <3> QED
      BY <1>7, <2>1, <3>1
  <2>2. CASE i # nbufs
    <3>1. r # nbufs
      BY <1>1, <1>9, <2>2
    <3> DEFINE j == i + 1
    <3>2. j \in (nbufs - r + 1) .. nbufs /\ 1 < j /\ j - 1 = i
      BY <1>1, <1>9, <2>2, <3>1
    <3> HIDE DEF j
    <3>3. bufseq'[t[j - 1]] = (seq' - (nbufs - (j - 1) + 1)) % SeqMod
      BY <1>7, <3>2
    <3> QED
      BY <3>2, <3>3
  <2> QED
    BY <2>1, <2>2
<1>13. Parts(t, 1, w)'
  <2>1. 1 \in 1 .. nbufs' /\ w \in 0 .. (nbufs' - 1 + 1) /\ w # 0
    BY <1>1, <1>8, <1>9
  <2>2. 1 - 1 <= Encoders' + 1
    BY <1>3, <1>5 DEF Encoders
  <2>3. {t[i] : i \in 1 .. (1 - 1)} = {}
    OBVIOUS
  <2>4. buf_first' = IF w = 0 THEN NULL ELSE t[nbufs' - w + 1]
    BY <1>8, <1>11, <2>1
  <2>5. out' = {t[i] : i \in 1 .. (1 - 1)}
    BY <1>3, <1>5, <2>3, Zenon
  <2>6. \A i \in (nbufs' - w + 1) .. nbufs' : bufseq'[t[i]] = (seq' - (nbufs' - i + 1)) % SeqMod
    BY <1>8, <1>12
  <2>7. buffer_queue' = NULL
    BY <1>3, <1>5
  <2> QED
    BY <1>10, <2>1, <2>2, <2>4, <2>5, <2>6, <2>7, Zenon DEF Parts
<1>14. Pool(t, 1, w)'
  <2>1. Linked(Links, t, nbufs)'
    BY <1>7, <1>8 DEF Linked
  <2>2. (buf_head = t[1])' /\ (buf_queue = t[nbufs])'
    BY <1>7, <1>8
  <2> QED
    BY <1>13, <2>1, <2>2 DEF Pool
<1> QED
  BY <1>0, <1>4, <1>14

LEMMA NextBufferPool == PoolInv /\ NextBuffer => PoolInv'
<1> SUFFICES ASSUME PoolInv, NextBuffer PROVE PoolInv'
  OBVIOUS
<1>1. PICK s, f, r : Pool(s, f, r)
  BY DEF PoolInv
<1>2. PICK t, w : Pool(t, 1, w)' /\ f = 1
  BY <1>1, NextBufferWindow
<1>3. /\ nbufs \in Nat /\ nbufs >= 2 /\ buf_free = s[1] /\ buf_free # NULL
      /\ nextptr[s[1]] = s[2] /\ s[2] \in Buf
  <2>1. 1 \in 1 .. nbufs /\ 2 \in 1 .. nbufs /\ 1 < nbufs /\ 1 + 1 = 2
    BY <1>1, Basics
  <2> QED
    BY <1>1, <1>2, <2>1, Basics
<1>4. /\ MakeNewest(s[1]) /\ buf_free' = nextptr[s[1]] /\ made' = made + 1 /\ count < MaxRec
      /\ UNCHANGED <<out, buffer_queue, failed, startup, minbufs>>
      /\ nbufs' = nbufs /\ count' = count + 1
  BY <1>3 DEF NextBuffer, MakeNewest
<1>5. TypeOK'
  <2>1. /\ prevptr' \in [Buf -> Ptr] /\ nextptr' \in [Buf -> Ptr]
        /\ bufseq' \in [Buf -> {Uninit} \cup 0 .. (SeqMod - 1)]
        /\ seq' \in 0 .. (SeqMod - 1)
        /\ buf_head' \in Buf /\ buf_queue' \in Buf /\ buf_first' \in Ptr
    <3>1. 1 \in 1 .. nbufs /\ 1 < nbufs
      BY <1>3
    <3> QED
      BY <1>1, <1>4, <3>1, NewestTypes
  <2>2. made' \in Nat /\ count' \in 0 .. MaxRec
    BY <1>4, Sizes DEF PoolInv, TypeOK
  <2>3. buf_free' \in Ptr
    BY <1>3, <1>4 DEF Ptr
  <2>4. /\ nbufs' \in NBufs .. MaxSize /\ minbufs' \in 0 .. MaxSize
        /\ out' \subseteq Buf /\ startup' \in {"load", "blank", "run"}
        /\ buffer_queue' \in Ptr /\ failed' \in BOOLEAN
    BY <1>4 DEF PoolInv, TypeOK
  <2> QED
    BY <2>1, <2>2, <2>3, <2>4 DEF TypeOK
<1>6. /\ ~failed' /\ nbufs' >= minbufs'
      /\ startup' # "run" => out' = {} /\ buffer_queue' = NULL /\ minbufs' = 0
  BY <1>4 DEF PoolInv
<1> QED
  BY <1>2, <1>5, <1>6 DEF PoolInv

\* The buffer taken is the oldest record of a full window; a client that stands
\* there goes on to the next record, which is there because a buffer is always left.
LEMMA GetBufferWindow ==
  ASSUME PoolInv, GetBuffer, NEW s, NEW f, NEW r, Pool(s, f, r)
  PROVE  \E w : /\ Pool(s, f + 1, w)' /\ w = (IF r = nbufs - f + 1 THEN r - 1 ELSE r)
                /\ f + 1 <= nbufs
<1>1. /\ nbufs \in Nat /\ f \in 1 .. nbufs /\ r \in 0 .. (nbufs - f + 1)
      /\ Encoders \in Nat /\ Encoders + 2 <= nbufs
      /\ buf_free = s[f] /\ buf_free # NULL /\ Cardinality(out) = f - 1
      /\ SeqMod \in Nat /\ SeqMod > 0 /\ seq \in 0 .. (SeqMod - 1)
  BY Basics
<1>2. /\ \A i \in 1 .. nbufs : /\ s[i] \in Buf /\ s[i] # NULL
                               /\ nextptr[s[i]] = IF i < nbufs THEN s[i + 1] ELSE NULL
      /\ \A i, j \in 1 .. nbufs : s[i] = s[j] => i = j
  BY Basics
<1>3. /\ Cardinality(out) <= Encoders
      /\ buf_free' = nextptr[s[f]]
      /\ buf_first' = IF buf_first = s[f] THEN nextptr[s[f]] ELSE buf_first
      /\ buffer_queue' = IF bufseq[s[f]] # Uninit /\ buffer_queue = s[f]
                         THEN nextptr[s[f]] ELSE buffer_queue
      /\ bufseq' = [bufseq EXCEPT ![s[f]] = Uninit]
      /\ out' = out \cup {s[f]}
      /\ UNCHANGED <<list, buf_head, buf_queue, seq, nbufs, failed, count>>
      /\ UNCHANGED <<startup, made, minbufs>>
  BY <1>1 DEF GetBuffer
<1>4. /\ f < nbufs /\ f + 1 \in 1 .. nbufs /\ f <= Encoders + 1 /\ nextptr[s[f]] = s[f + 1]
  BY <1>1, <1>2, <1>3
<1>5. /\ out = {s[i] : i \in 1 .. (f - 1)}
      /\ buf_first = IF r = 0 THEN NULL ELSE s[nbufs - r + 1]
      /\ \A i \in (nbufs - r + 1) .. nbufs : bufseq[s[i]] = (seq - (nbufs - i + 1)) % SeqMod
      /\ \/ buffer_queue = NULL
         \/ \E i \in (nbufs - r + 1) .. nbufs : buffer_queue = s[i]
  BY DEF Pool, Parts
<1>6. PICK w : w = IF r = nbufs - f + 1 THEN r - 1 ELSE r
  OBVIOUS
<1>7. /\ w \in 0 .. (nbufs - f) /\ w <= r
      /\ (buf_first = s[f]) = (r = nbufs - f + 1)
  <2>1. w \in 0 .. (nbufs - f) /\ w <= r
    BY <1>1, <1>6
  <2>2. CASE r = 0
    <3>1. buf_first = NULL /\ s[f] # NULL
      BY <1>1, <1>2, <1>5, <2>2
    <3>2. r # nbufs - f + 1
      BY <1>1, <2>2
    <3> QED
      BY <2>1, <3>1, <3>2
  <2>3. CASE r # 0
    <3>1. nbufs - r + 1 \in 1 .. nbufs /\ buf_first = s[nbufs - r + 1]
      BY <1>1, <1>5, <2>3
    <3>2. (s[nbufs - r + 1] = s[f]) = (nbufs - r + 1 = f)
      BY <1>1, <1>2, <3>1
    <3>3. (nbufs - r + 1 = f) = (r = nbufs - f + 1)
      BY <1>1
    <3> QED
      BY <2>1, <3>1, <3>2, <3>3
  <2> QED
    BY <2>1, <2>2, <2>3
<1>8. buf_first' = IF w = 0 THEN NULL ELSE s[nbufs - w + 1]
  <2>1. CASE r = nbufs - f + 1
    <3>1. w # 0 /\ nbufs - w + 1 = f + 1
      BY <1>1, <1>4, <1>6, <2>1
    <3>2. buf_first' = s[f + 1]
      BY <1>3, <1>4, <1>7, <2>1
    <3> QED
      BY <3>1, <3>2
  <2>2. CASE r # nbufs - f + 1
    <3>1. w = r /\ buf_first' = buf_first
      BY <1>3, <1>6, <1>7, <2>2
    <3> QED
      BY <1>5, <3>1
  <2> QED
    BY <2>1, <2>2
<1>9. ASSUME NEW i \in (nbufs - w + 1) .. nbufs
      PROVE  bufseq'[s[i]] = (seq' - (nbufs - i + 1)) % SeqMod
  <2>1. i \in (nbufs - r + 1) .. nbufs /\ i \in 1 .. nbufs /\ i # f
    BY <1>1, <1>7
  <2>2. s[i] # s[f] /\ s[i] \in Buf
    BY <1>1, <1>2, <2>1
  <2>3. bufseq'[s[i]] = bufseq[s[i]]
    <3>1. bufseq \in [Buf -> {Uninit} \cup 0 .. (SeqMod - 1)]
      BY DEF PoolInv, TypeOK
    <3> QED
      BY <1>3, <2>2, <3>1
  <2> QED
    BY <1>3, <1>5, <2>1, <2>3
<1>10. \/ buffer_queue' = NULL
       \/ \E i \in (nbufs - w + 1) .. nbufs : buffer_queue' = s[i]
  <2>1. CASE buffer_queue = NULL
    <3>1. s[f] # NULL
      BY <1>1, <1>2
    <3> QED
      BY <1>3, <2>1, <3>1
  <2>2. ASSUME NEW i \in (nbufs - r + 1) .. nbufs, buffer_queue = s[i]
        PROVE  \E j \in (nbufs - w + 1) .. nbufs : buffer_queue' = s[j]
    <3>1. i \in 1 .. nbufs
      BY <1>1
    <3>2. CASE i = f
      <4>1. bufseq[s[f]] # Uninit
        <5>1. bufseq[s[f]] = (seq - (nbufs - f + 1)) % SeqMod
          BY <1>5, <2>2, <3>2
        <5>2. seq - (nbufs - f + 1) \in Int
          BY <1>1
        <5>3. (seq - (nbufs - f + 1)) % SeqMod \in 0 .. (SeqMod - 1)
          BY <1>1, <5>2, DivMod
        <5> QED
          BY <5>1, <5>3 DEF Uninit
      <4>2. buffer_queue' = s[f + 1]
        BY <1>3, <1>4, <2>2, <3>2, <4>1
      <4>3. f + 1 \in (nbufs - w + 1) .. nbufs
        BY <1>1, <1>4, <1>6, <2>2, <3>2
      <4> QED
        BY <4>2, <4>3
    <3>3. CASE i # f
      <4>1. buffer_queue' = s[i]
        BY <1>1, <1>2, <1>3, <2>2, <3>1, <3>3
      <4>2. i \in (nbufs - w + 1) .. nbufs
        BY <1>1, <1>6, <2>2, <3>3
      <4> QED
        BY <4>1, <4>2
    <3> QED
      BY <3>2, <3>3
  <2> QED
    BY <1>5, <2>1, <2>2
<1>11. out' = {s[i] : i \in 1 .. ((f + 1) - 1)}
  <2>1. \A i \in 1 .. ((f + 1) - 1) : i \in 1 .. (f - 1) \/ i = f
    BY <1>1
  <2>2. \A i \in 1 .. (f - 1) : i \in 1 .. ((f + 1) - 1)
    BY <1>1
  <2>3. f \in 1 .. ((f + 1) - 1)
    BY <1>1
  <2> QED
    BY <1>3, <1>5, <2>1, <2>2, <2>3
<1>12. Parts(s, f + 1, w)'
  <2>1. f + 1 \in 1 .. nbufs' /\ w \in 0 .. (nbufs' - (f + 1) + 1)
    BY <1>1, <1>3, <1>4, <1>7
  <2>2. (f + 1) - 1 <= Encoders' + 1
    <3>1. Encoders' = Encoders
      BY <1>3 DEF Encoders
    <3> QED
      BY <1>1, <1>4, <3>1
  <2>3. buf_free' = s[f + 1]
    BY <1>3, <1>4
  <2>4. nbufs' = nbufs
    BY <1>3
  <2> QED
    BY <1>8, <1>9, <1>10, <1>11, <2>1, <2>2, <2>3, <2>4, Zenon DEF Parts
<1>13. Pool(s, f + 1, w)'
  <2>1. Links' = Links /\ nbufs' = nbufs /\ buf_head' = buf_head /\ buf_queue' = buf_queue
    BY <1>3 DEF Links, list
  <2> QED
    BY <1>12, <2>1 DEF Pool, Linked
<1> QED
  BY <1>4, <1>6, <1>13

LEMMA GetBufferPool == PoolInv /\ GetBuffer => PoolInv'
<1> SUFFICES ASSUME PoolInv, GetBuffer PROVE PoolInv'
  OBVIOUS
<1>1. PICK s, f, r : Pool(s, f, r)
  BY DEF PoolInv
<1>2. PICK w : Pool(s, f + 1, w)' /\ f + 1 <= nbufs
  BY <1>1, GetBufferWindow
<1>3. /\ buf_free # NULL /\ buf_free \in Buf /\ nextptr[buf_free] \in Ptr
  <2>1. nextptr \in [Buf -> Ptr] /\ buf_free \in Ptr
    BY DEF PoolInv, TypeOK
  <2>2. buf_free # NULL
    BY <1>1, Basics
  <2> QED
    BY <2>1, <2>2 DEF Ptr
<1>4. /\ startup = "run"
      /\ buf_free' = nextptr[buf_free]
      /\ buf_first' = IF buf_first = buf_free THEN nextptr[buf_free] ELSE buf_first
      /\ buffer_queue' = IF bufseq[buf_free] # Uninit /\ buffer_queue = buf_free
                         THEN nextptr[buf_free] ELSE buffer_queue
      /\ bufseq' = [bufseq EXCEPT ![buf_free] = Uninit]
      /\ out' = out \cup {buf_free}
      /\ UNCHANGED <<list, buf_head, buf_queue, seq, nbufs, failed, count>>
      /\ UNCHANGED <<startup, made, minbufs>>
  BY <1>3 DEF GetBuffer
<1>5. TypeOK'
  <2>1. /\ buf_free' \in Ptr /\ buf_first' \in Ptr /\ buffer_queue' \in Ptr
    BY <1>3, <1>4 DEF PoolInv, TypeOK
  <2>2. bufseq' \in [Buf -> {Uninit} \cup 0 .. (SeqMod - 1)]
    BY <1>4 DEF PoolInv, TypeOK
  <2>3. out' \subseteq Buf
    BY <1>3, <1>4 DEF PoolInv, TypeOK
  <2>4. /\ prevptr' \in [Buf -> Ptr] /\ nextptr' \in [Buf -> Ptr]
        /\ buf_head' \in Buf /\ buf_queue' \in Buf /\ seq' \in 0 .. (SeqMod - 1)
        /\ nbufs' \in NBufs .. MaxSize /\ minbufs' \in 0 .. MaxSize
        /\ startup' \in {"load", "blank", "run"} /\ made' \in Nat
        /\ failed' \in BOOLEAN /\ count' \in 0 .. MaxRec
    BY <1>4 DEF PoolInv, TypeOK, list
  <2> QED
    BY <2>1, <2>2, <2>3, <2>4 DEF TypeOK
<1>6. /\ ~failed' /\ nbufs' >= minbufs' /\ startup' = "run"
  BY <1>4 DEF PoolInv
<1> QED
  BY <1>2, <1>5, <1>6 DEF PoolInv

\* A queued buffer was before buf_free: the window grows at its end only.
LEMMA QueueBufferWindow ==
  ASSUME PoolInv, NEW buf \in Buf, QueueBuffer(buf), NEW s, NEW f, NEW r, Pool(s, f, r)
  PROVE  \E t, k : /\ Pool(t, f - 1, r + 1)' /\ f > 1
                   /\ k \in 1 .. nbufs /\ k < nbufs /\ buf = s[k]
<1>1. /\ nbufs \in Nat /\ nbufs >= 2 /\ f \in 1 .. nbufs /\ r \in 0 .. (nbufs - f + 1)
      /\ Encoders \in Nat /\ f - 1 <= Encoders + 1
      /\ buf_free = s[f]
  BY Basics
<1>2. /\ \A i \in 1 .. nbufs : s[i] # NULL
      /\ \A i, j \in 1 .. nbufs : s[i] = s[j] => i = j
  BY Basics
<1>3. /\ out = {s[i] : i \in 1 .. (f - 1)}
      /\ buf_first = IF r = 0 THEN NULL ELSE s[nbufs - r + 1]
      /\ \/ buffer_queue = NULL
         \/ \E i \in (nbufs - r + 1) .. nbufs : buffer_queue = s[i]
  BY DEF Pool, Parts
<1>4. PICK k \in 1 .. (f - 1) : buf = s[k]
  BY <1>3 DEF QueueBuffer
<1>5. k \in 1 .. nbufs /\ k < nbufs /\ k < f /\ k <= nbufs - r /\ f > 1
  BY <1>1
<1>6. /\ MakeNewest(s[k]) /\ out' = out \ {s[k]}
      /\ buffer_queue' = IF buffer_queue = NULL THEN s[k] ELSE buffer_queue
      /\ UNCHANGED <<buf_free, minbufs, startup, made, failed>>
  BY <1>4 DEF QueueBuffer
<1>7. PICK t : t = Move(s, nbufs, k)
  OBVIOUS
<1>8. /\ Linked(Links', t, nbufs)
      /\ buf_head' = t[1] /\ buf_queue' = t[nbufs] /\ t[nbufs] = s[k]
      /\ \A i \in 1 .. nbufs : /\ i < k => t[i] = s[i]
                               /\ k <= i /\ i < nbufs => t[i] = s[i + 1]
      /\ bufseq'[t[nbufs]] = (seq' - 1) % SeqMod
      /\ \A i \in (nbufs - r + 1) .. nbufs :
           k < i => bufseq'[t[i - 1]] = (seq' - (nbufs - (i - 1) + 1)) % SeqMod
  BY <1>5, <1>6, <1>7, MadeNewest
<1>9. nbufs' = nbufs /\ buf_first' = IF buf_first = NULL THEN s[k] ELSE buf_first
  BY <1>6 DEF MakeNewest
<1>10. \A i \in 1 .. nbufs : k < i => t[i - 1] = s[i]
  <2> TAKE i \in 1 .. nbufs
  <2> HAVE k < i
  <2> DEFINE j == i - 1
  <2>1. j \in 1 .. nbufs /\ k <= j /\ j < nbufs /\ j + 1 = i
    BY <1>1, <1>5
  <2> HIDE DEF j
  <2>2. t[j] = s[j + 1]
    BY <1>8, <2>1
  <2>3. t[j] = s[i]
    BY <2>1, <2>2
  <2> QED
    BY <2>3 DEF j
<1> DEFINE w == r + 1
<1>11. buf_free' = t[f - 1]
  BY <1>1, <1>5, <1>6, <1>10
<1>12. buf_first' = IF w = 0 THEN NULL ELSE t[nbufs - w + 1]
  <2>1. CASE r = 0
    <3>1. nbufs - w + 1 = nbufs /\ w # 0
      BY <1>1, <2>1
    <3> QED
      BY <1>3, <1>8, <1>9, <2>1, <3>1
  <2>2. CASE r # 0
    <3> DEFINE j == nbufs - r + 1
    <3>1. nbufs - w + 1 = j - 1 /\ j \in 1 .. nbufs /\ k < j /\ w # 0
      BY <1>1, <1>5, <2>2
    <3>2. buf_first = s[j]
      BY <1>3, <2>2
    <3> HIDE DEF j, w
    <3>3. s[j] # NULL /\ t[j - 1] = s[j]
      BY <1>2, <1>10, <3>1
    <3> QED
      BY <1>9, <3>1, <3>2, <3>3
  <2> QED
    BY <2>1, <2>2
<1>13. ASSUME NEW i \in (nbufs - w + 1) .. nbufs
       PROVE  bufseq'[t[i]] = (seq' - (nbufs - i + 1)) % SeqMod
  <2>1. CASE i = nbufs
    <3>1. nbufs - i + 1 = 1
      BY <1>1, <2>1
    <3> QED
      BY <1>8, <2>1, <3>1
  <2>2. CASE i # nbufs
    <3> DEFINE j == i + 1
    <3>1. j \in (nbufs - r + 1) .. nbufs /\ k < j /\ j - 1 = i
      BY <1>1, <1>5, <2>2
    <3> HIDE DEF j
    <3>2. bufseq'[t[j - 1]] = (seq' - (nbufs - (j - 1) + 1)) % SeqMod
      BY <1>8, <3>1
    <3> QED
      BY <3>1, <3>2
  <2> QED
    BY <2>1, <2>2
<1>14. \E i \in (nbufs - w + 1) .. nbufs : buffer_queue' = t[i]
  <2>1. CASE buffer_queue = NULL
    <3>1. nbufs \in (nbufs - w + 1) .. nbufs
      BY <1>1
    <3>2. buffer_queue' = t[nbufs]
      BY <1>6, <1>8, <2>1
    <3> QED
      BY <3>1, <3>2
  <2>2. ASSUME NEW i \in (nbufs - r + 1) .. nbufs, buffer_queue = s[i]
        PROVE  \E j \in (nbufs - w + 1) .. nbufs : buffer_queue' = t[j]
    <3>1. i \in 1 .. nbufs /\ k < i /\ i - 1 \in (nbufs - w + 1) .. nbufs
      BY <1>1, <1>5
    <3>2. t[i - 1] = s[i] /\ s[i] # NULL
      BY <1>2, <1>10, <3>1
    <3>3. buffer_queue' = t[i - 1]
      BY <1>6, <2>2, <3>2
    <3> QED
      BY <3>1, <3>3
  <2> QED
    BY <1>3, <2>1, <2>2
<1>15. out' = {t[i] : i \in 1 .. ((f - 1) - 1)}
  <2>1. ASSUME NEW x \in out' PROVE x \in {t[i] : i \in 1 .. ((f - 1) - 1)}
    <3>1. PICK i \in 1 .. (f - 1) : x = s[i] /\ x # s[k]
      BY <1>3, <1>6
    <3>2. i \in 1 .. nbufs /\ i # k
      BY <1>1, <3>1
    <3>3. CASE i < k
      <4>1. t[i] = s[i] /\ i \in 1 .. ((f - 1) - 1)
        BY <1>1, <1>5, <1>8, <3>1, <3>2, <3>3
      <4> QED
        BY <3>1, <4>1
    <3>4. CASE ~(i < k)
      <4>1. k < i /\ i - 1 \in 1 .. ((f - 1) - 1)
        BY <1>1, <1>5, <3>1, <3>2, <3>4
      <4>2. t[i - 1] = s[i]
        BY <1>10, <3>2, <4>1
      <4> QED
        BY <3>1, <4>1, <4>2
    <3> QED
      BY <3>3, <3>4
  <2>2. ASSUME NEW i \in 1 .. ((f - 1) - 1) PROVE t[i] \in out'
    <3>1. i \in 1 .. nbufs /\ i < nbufs /\ i \in 1 .. (f - 1) /\ i + 1 \in 1 .. (f - 1)
          /\ i + 1 \in 1 .. nbufs
      BY <1>1
    <3>2. CASE i < k
      <4>1. t[i] = s[i] /\ s[i] # s[k]
        BY <1>2, <1>5, <1>8, <3>1, <3>2
      <4> QED
        BY <1>3, <1>6, <3>1, <4>1
    <3>3. CASE ~(i < k)
      <4>1. k <= i /\ k # i + 1
        BY <3>3
      <4>2. t[i] = s[i + 1] /\ s[i + 1] # s[k]
        BY <1>2, <1>5, <1>8, <3>1, <4>1
      <4> QED
        BY <1>3, <1>6, <3>1, <4>2
    <3> QED
      BY <3>2, <3>3
  <2> QED
    BY <2>1, <2>2
<1>16. Parts(t, f - 1, r + 1)'
  <2>1. f - 1 \in 1 .. nbufs' /\ r + 1 \in 0 .. (nbufs' - (f - 1) + 1)
    BY <1>1, <1>5, <1>9
  <2>2. (f - 1) - 1 <= Encoders' + 1
    <3>1. Encoders' = Encoders
      BY <1>6 DEF Encoders
    <3> QED
      BY <1>1, <3>1
  <2> QED
    BY <1>9, <1>11, <1>12, <1>13, <1>14, <1>15, <2>1, <2>2, Zenon DEF Parts
<1>17. Pool(t, f - 1, r + 1)'
  BY <1>8, <1>9, <1>16 DEF Pool, Linked
<1> QED
  BY <1>4, <1>5, <1>17

LEMMA QueueBufferPool ==
  ASSUME PoolInv, NEW buf \in Buf, QueueBuffer(buf) PROVE PoolInv'
<1>1. PICK s, f, r : Pool(s, f, r)
  BY DEF PoolInv
<1>2. PICK t, k : /\ Pool(t, f - 1, r + 1)'
                  /\ k \in 1 .. nbufs /\ k < nbufs /\ buf = s[k]
  BY <1>1, QueueBufferWindow
<1>3. /\ MakeNewest(s[k]) /\ count < MaxRec
      /\ out' = out \ {buf}
      /\ buffer_queue' = IF buffer_queue = NULL THEN buf ELSE buffer_queue
      /\ UNCHANGED <<buf_free, minbufs, startup, made, failed>>
      /\ count' = count + 1 /\ nbufs' = nbufs /\ buf \in out
  BY <1>2 DEF QueueBuffer, MakeNewest
<1>4. TypeOK'
  <2>1. /\ prevptr' \in [Buf -> Ptr] /\ nextptr' \in [Buf -> Ptr]
        /\ bufseq' \in [Buf -> {Uninit} \cup 0 .. (SeqMod - 1)]
        /\ seq' \in 0 .. (SeqMod - 1)
        /\ buf_head' \in Buf /\ buf_queue' \in Buf /\ buf_first' \in Ptr
    BY <1>1, <1>2, <1>3, NewestTypes
  <2>2. count' \in 0 .. MaxRec
    BY <1>3, Sizes DEF PoolInv, TypeOK
  <2>3. buffer_queue' \in Ptr /\ out' \subseteq Buf
    BY <1>3 DEF PoolInv, TypeOK, Ptr
  <2>4. /\ nbufs' \in NBufs .. MaxSize /\ minbufs' \in 0 .. MaxSize /\ made' \in Nat
        /\ startup' \in {"load", "blank", "run"} /\ buf_free' \in Ptr /\ failed' \in BOOLEAN
    BY <1>3 DEF PoolInv, TypeOK
  <2> QED
    BY <2>1, <2>2, <2>3, <2>4 DEF TypeOK
<1>5. /\ ~failed' /\ nbufs' >= minbufs' /\ startup' = "run"
  <2>1. out # {}
    BY <1>3
  <2> QED
    BY <1>3, <2>1 DEF PoolInv
<1> QED
  BY <1>2, <1>4, <1>5 DEF PoolInv

\* The new buffers come after buf_free, and so before the window, which is why the
\* pool must not be enlarged when buf_free is the oldest record; after them comes the
\* rest of the list, with buf_queue.
LEMMA AddProcessorWindow ==
  ASSUME EnlargeFull = FALSE, PoolInv, NEW n \in Streams, AddProcessor(n),
         NEW s, NEW f, NEW r, Pool(s, f, r)
  PROVE  \E t : Pool(t, f, r)'
<1> DEFINE M == minbufs + 3 * n
<1>1. /\ nbufs \in Nat /\ nbufs >= 2 /\ nbufs <= MaxSize /\ MaxSize \in Nat
      /\ f \in 1 .. nbufs /\ r \in 0 .. (nbufs - f + 1)
      /\ minbufs \in Nat /\ Encoders \in Nat /\ Encoders + 2 <= nbufs
      /\ buf_free = s[f] /\ buf_free # NULL /\ Cardinality(out) = f - 1
  BY Basics
<1>2. \A i, j \in 1 .. nbufs : s[i] = s[j] => i = j
  BY Basics
<1>3. n \in Nat /\ M \in Nat /\ M >= minbufs
  BY <1>1, Sizes
<1> HIDE DEF M
<1>4. /\ M <= MaxSize /\ Cardinality(out) <= Encoders /\ minbufs' = M
      /\ UNCHANGED <<startup, made, bufseq, buf_head, buf_free, buf_first, buf_queue, seq,
                     buffer_queue, out, failed, count>>
      /\ \/ nbufs >= M /\ UNCHANGED <<list, nbufs>>
         \/ /\ nbufs < M /\ buf_free # buf_first /\ nbufs' = M
            /\ SetLinks(Allocate(Links, nbufs + 1, M, buf_free))
  BY <1>1 DEF AddProcessor, store, M
<1>5. f < nbufs /\ f - 1 <= Encoders' + 1
  <2>1. \A a, b \in Nat : b >= a => b \div 3 >= a \div 3
    OBVIOUS
  <2>2. Encoders' >= Encoders /\ Encoders' \in Nat
    BY <1>1, <1>3, <1>4, <2>1 DEF Encoders
  <2>3. f - 1 <= Encoders
    BY <1>1, <1>4
  <2> DEFINE e == Encoders'
  <2>4. e \in Nat /\ e >= Encoders
    BY <2>2
  <2> HIDE DEF e
  <2>5. f < nbufs /\ f - 1 <= e + 1
    BY <1>1, <2>3, <2>4
  <2> QED
    BY <2>5 DEF e
<1>6. /\ out = {s[i] : i \in 1 .. (f - 1)}
      /\ buf_first = IF r = 0 THEN NULL ELSE s[nbufs - r + 1]
      /\ \A i \in (nbufs - r + 1) .. nbufs : bufseq[s[i]] = (seq - (nbufs - i + 1)) % SeqMod
      /\ \/ buffer_queue = NULL
         \/ \E i \in (nbufs - r + 1) .. nbufs : buffer_queue = s[i]
  BY DEF Pool, Parts
<1>7. Linked(Links, s, nbufs) /\ buf_head = s[1] /\ buf_queue = s[nbufs]
  BY DEF Pool
<1>8. CASE nbufs >= M /\ UNCHANGED <<list, nbufs>>
  <2>1. Parts(s, f, r)'
    BY <1>1, <1>4, <1>5, <1>6, <1>8, Zenon DEF Parts
  <2>2. Links' = Links
    BY <1>8 DEF Links, list
  <2> QED
    BY <1>4, <1>7, <1>8, <2>1, <2>2 DEF Pool, Linked
<1>9. CASE nbufs < M /\ buf_free # buf_first /\ nbufs' = M
           /\ SetLinks(Allocate(Links, nbufs + 1, M, buf_free))
  <2>1. r <= nbufs - f
    <3>1. CASE r = nbufs - f + 1
      <4>1. r # 0 /\ nbufs - r + 1 = f
        BY <1>1, <3>1
      <4> QED
        BY <1>1, <1>6, <1>9, <4>1
    <3> QED
      BY <1>1, <3>1
  <2>2. PICK t : /\ Linked(Allocate(Links, nbufs + 1, M, s[f]), t, M)
                 /\ \A i \in 1 .. f : t[i] = s[i]
                 /\ \A i \in (f + 1) .. nbufs : t[i + (M - nbufs)] = s[i]
    <3>1. nbufs <= M
      BY <1>1, <1>3, <1>9
    <3>2. Spread(Allocate(Links, nbufs + 1, M, s[f]), s, nbufs, M, f)
      BY <1>1, <1>3, <1>4, <1>7, <3>1, Allocated
    <3> QED
      BY <3>2 DEF Spread
  <2>3. Linked(Links, t, nbufs)'
    BY <1>1, <1>9, <2>2 DEF Linked, Links, SetLinks
  <2>4. t[1] = s[1] /\ t[f] = s[f] /\ t[M] = s[nbufs]
    <3>1. 1 \in 1 .. f /\ f \in 1 .. f /\ nbufs \in (f + 1) .. nbufs /\ nbufs + (M - nbufs) = M
      BY <1>1, <1>3, <1>5
    <3> QED
      BY <2>2, <3>1
  <2>5. \A i \in (M - r + 1) .. M : /\ i - (M - nbufs) \in (nbufs - r + 1) .. nbufs
                                    /\ t[i] = s[i - (M - nbufs)]
    <3> TAKE i \in (M - r + 1) .. M
    <3> DEFINE j == i - (M - nbufs)
    <3>1. j \in (nbufs - r + 1) .. nbufs /\ j \in (f + 1) .. nbufs /\ j + (M - nbufs) = i
      BY <1>1, <1>3, <2>1
    <3> HIDE DEF j
    <3>2. t[i] = s[j]
      BY <2>2, <3>1
    <3> QED
      BY <3>1, <3>2 DEF j
  <2>6. out' = {t[i] : i \in 1 .. (f - 1)}
    <3>1. \A i \in 1 .. (f - 1) : t[i] = s[i]
      BY <1>1, <2>2
    <3> QED
      BY <1>4, <1>6, <3>1
  <2>7. buf_first' = IF r = 0 THEN NULL ELSE t[M - r + 1]
    <3>1. CASE r = 0
      BY <1>4, <1>6, <3>1
    <3>2. CASE r # 0
      <4>1. M - r + 1 \in (M - r + 1) .. M /\ (M - r + 1) - (M - nbufs) = nbufs - r + 1
        BY <1>1, <1>3, <3>2
      <4>2. t[M - r + 1] = s[nbufs - r + 1]
        BY <2>5, <4>1
      <4> QED
        BY <1>4, <1>6, <3>2, <4>2
    <3> QED
      BY <3>1, <3>2
  <2>8. \A i \in (M - r + 1) .. M : bufseq'[t[i]] = (seq' - (M - i + 1)) % SeqMod
    <3> TAKE i \in (M - r + 1) .. M
    <3> DEFINE j == i - (M - nbufs)
    <3>1. j \in (nbufs - r + 1) .. nbufs /\ t[i] = s[j] /\ nbufs - j + 1 = M - i + 1
      BY <1>1, <1>3, <2>5
    <3> HIDE DEF j
    <3>2. bufseq[s[j]] = (seq - (nbufs - j + 1)) % SeqMod
      BY <1>6, <3>1
    <3> QED
      BY <1>4, <3>1, <3>2
  <2>9. \/ buffer_queue' = NULL
        \/ \E i \in (M - r + 1) .. M : buffer_queue' = t[i]
    <3>1. ASSUME NEW j \in (nbufs - r + 1) .. nbufs, buffer_queue = s[j]
          PROVE  \E i \in (M - r + 1) .. M : buffer_queue' = t[i]
      <4>1. j + (M - nbufs) \in (M - r + 1) .. M /\ j \in (f + 1) .. nbufs
        BY <1>1, <1>3, <2>1
      <4>2. t[j + (M - nbufs)] = s[j]
        BY <2>2, <4>1
      <4> QED
        BY <1>4, <3>1, <4>1, <4>2
    <3> QED
      BY <1>4, <1>6, <3>1
  <2>10. Parts(t, f, r)'
    <3>1. f \in 1 .. nbufs' /\ r \in 0 .. (nbufs' - f + 1) /\ buf_free' = t[f]
      BY <1>1, <1>3, <1>4, <1>9, <2>4
    <3> QED
      BY <1>5, <1>9, <2>6, <2>7, <2>8, <2>9, <3>1, Zenon DEF Parts
  <2>11. buf_head' = t[1] /\ buf_queue' = t[nbufs']
    BY <1>4, <1>7, <1>9, <2>4
  <2> QED
    BY <2>3, <2>10, <2>11 DEF Pool
<1> QED
  BY <1>4, <1>8, <1>9

LEMMA AddProcessorPool ==
  ASSUME EnlargeFull = FALSE, PoolInv, NEW n \in Streams, AddProcessor(n)
  PROVE  PoolInv'
<1>1. PICK s, f, r : Pool(s, f, r)
  BY DEF PoolInv
<1>2. PICK t : Pool(t, f, r)'
  BY <1>1, AddProcessorWindow
<1> DEFINE M == minbufs + 3 * n
<1>3. buf_free # NULL /\ n \in Nat /\ minbufs \in Nat /\ nbufs \in Nat /\ M \in Nat
      /\ nbufs \in NBufs .. MaxSize /\ NBufs \in Nat /\ MaxSize \in Nat
  BY <1>1, Basics, Sizes DEF PoolInv, TypeOK
<1> HIDE DEF M
<1>4. /\ startup = "run" /\ M <= MaxSize /\ minbufs' = M
      /\ UNCHANGED <<startup, made, bufseq, buf_head, buf_free, buf_first, buf_queue, seq,
                     buffer_queue, out, failed, count>>
      /\ \/ nbufs >= M /\ nbufs' = nbufs
         \/ nbufs < M /\ nbufs' = M
  BY <1>3 DEF AddProcessor, store, M
<1>5. TypeOK'
  <2>1. prevptr' \in [Buf -> Ptr] /\ nextptr' \in [Buf -> Ptr]
    BY <1>2 DEF Pool, Linked, Links
  <2>2. nbufs' \in NBufs .. MaxSize /\ minbufs' \in 0 .. MaxSize
    BY <1>3, <1>4
  <2>3. /\ bufseq' \in [Buf -> {Uninit} \cup 0 .. (SeqMod - 1)]
        /\ buf_head' \in Buf /\ buf_free' \in Ptr /\ buf_first' \in Ptr
        /\ buf_queue' \in Buf /\ seq' \in 0 .. (SeqMod - 1)
        /\ out' \subseteq Buf /\ startup' \in {"load", "blank", "run"}
        /\ made' \in Nat /\ buffer_queue' \in Ptr
        /\ failed' \in BOOLEAN /\ count' \in 0 .. MaxRec
    BY <1>4 DEF PoolInv, TypeOK
  <2> QED
    BY <2>1, <2>2, <2>3 DEF TypeOK
<1>6. ~failed' /\ nbufs' >= minbufs' /\ startup' = "run"
  BY <1>3, <1>4 DEF PoolInv
<1> QED
  BY <1>2, <1>5, <1>6 DEF PoolInv

\* The client moves, or nothing does.
LEMMA QuietWindow ==
  ASSUME PoolInv, Attach \/ Deliver \/ LoadEnds \/ UNCHANGED vars,
         NEW s, NEW f, NEW r, Pool(s, f, r)
  PROVE  Pool(s, f, r)' /\ UNCHANGED <<store, minbufs, out, failed, count>>
<1>1. /\ nbufs \in Nat /\ f \in 1 .. nbufs /\ r \in 0 .. (nbufs - f + 1)
      /\ SeqMod \in Nat /\ SeqMod > 0 /\ seq \in 0 .. (SeqMod - 1)
  BY Basics
<1>2. \A i \in 1 .. nbufs : nextptr[s[i]] = IF i < nbufs THEN s[i + 1] ELSE NULL
  BY Basics
<1>3. Linked(Links, s, nbufs) /\ buf_head = s[1] /\ buf_queue = s[nbufs]
  BY DEF Pool
<1>4. /\ f - 1 <= Encoders + 1 /\ buf_free = s[f]
      /\ out = {s[i] : i \in 1 .. (f - 1)}
      /\ buf_first = IF r = 0 THEN NULL ELSE s[nbufs - r + 1]
      /\ \A i \in (nbufs - r + 1) .. nbufs : bufseq[s[i]] = (seq - (nbufs - i + 1)) % SeqMod
      /\ \/ buffer_queue = NULL
         \/ \E i \in (nbufs - r + 1) .. nbufs : buffer_queue = s[i]
  BY DEF Pool, Parts
<1> DEFINE Place(b) == \/ b = NULL
                       \/ \E i \in (nbufs - r + 1) .. nbufs : b = s[i]
<1>5. UNCHANGED <<store, minbufs, out, failed, count>> /\ Place(buffer_queue')
  <2>1. CASE Attach
    <3>1. Place(buf_first)
      <4>1. CASE r = 0
        BY <1>4, <4>1
      <4>2. CASE r # 0
        <5>1. nbufs - r + 1 \in (nbufs - r + 1) .. nbufs
          BY <1>1, <4>2
        <5> QED
          BY <1>4, <4>2, <5>1
      <4> QED
        BY <4>1, <4>2
    <3> QED
      BY <2>1, <3>1 DEF Attach
  <2>2. CASE Deliver
    <3>1. PICK i \in (nbufs - r + 1) .. nbufs : buffer_queue = s[i]
      BY <1>4, <2>2 DEF Deliver
    <3>2. i \in 1 .. nbufs
      BY <1>1
    <3>3. bufseq[buffer_queue] # Uninit
      <4>1. bufseq[s[i]] = (seq - (nbufs - i + 1)) % SeqMod /\ seq - (nbufs - i + 1) \in Int
        BY <1>1, <1>4
      <4>2. (seq - (nbufs - i + 1)) % SeqMod \in 0 .. (SeqMod - 1)
        BY <1>1, <4>1, DivMod
      <4> QED
        BY <3>1, <4>1, <4>2 DEF Uninit
    <3>4. buffer_queue' = nextptr[s[i]] /\ UNCHANGED <<store, minbufs, out, failed, count>>
      BY <2>2, <3>1, <3>3 DEF Deliver
    <3>5. Place(nextptr[s[i]])
      <4>1. CASE i < nbufs
        <5>1. i + 1 \in (nbufs - r + 1) .. nbufs /\ nextptr[s[i]] = s[i + 1]
          BY <1>1, <1>2, <3>2, <4>1
        <5> QED
          BY <5>1
      <4>2. CASE ~(i < nbufs)
        BY <1>2, <3>2, <4>2
      <4> QED
        BY <4>1, <4>2
    <3> HIDE DEF Place
    <3> QED
      BY <3>4, <3>5
  <2>3. CASE LoadEnds
    BY <1>4, <2>3 DEF LoadEnds
  <2>4. CASE UNCHANGED vars
    BY <1>4, <2>4 DEF vars
  <2> QED
    BY <2>1, <2>2, <2>3, <2>4
<1>6. /\ UNCHANGED <<minbufs, out, bufseq, buf_head, buf_free, buf_first, buf_queue, seq, nbufs>>
      /\ Links' = Links
  BY <1>5 DEF store, list, Links
<1>7. Parts(s, f, r)'
  <2>1. Encoders' = Encoders
    BY <1>6 DEF Encoders
  <2> QED
    BY <1>1, <1>4, <1>5, <1>6, <2>1, Zenon DEF Parts
<1> QED
  BY <1>3, <1>5, <1>6, <1>7 DEF Pool, Linked

LEMMA QuietPool ==
  PoolInv /\ (Attach \/ Deliver \/ LoadEnds \/ UNCHANGED vars) => PoolInv'
<1> SUFFICES ASSUME PoolInv, Attach \/ Deliver \/ LoadEnds \/ UNCHANGED vars PROVE PoolInv'
  OBVIOUS
<1>1. PICK s, f, r : Pool(s, f, r)
  BY DEF PoolInv
<1>2. Pool(s, f, r)' /\ UNCHANGED <<store, minbufs, out, failed, count>>
  BY <1>1, QuietWindow
<1>3. /\ startup' \in {"load", "blank", "run"} /\ made' \in Nat
      /\ startup' # "run" => startup # "run" /\ buffer_queue' = buffer_queue
  <2>1. CASE Attach
    BY <2>1 DEF Attach, PoolInv, TypeOK
  <2>2. CASE Deliver
    BY <1>2, <2>2 DEF Deliver, PoolInv, TypeOK
  <2>3. CASE LoadEnds
    BY <2>3 DEF LoadEnds, PoolInv, TypeOK
  <2>4. CASE UNCHANGED vars
    BY <2>4 DEF vars, PoolInv, TypeOK
  <2> QED
    BY <2>1, <2>2, <2>3, <2>4
<1>4. buffer_queue' \in Ptr
  <2>1. buffer_queue' = NULL \/ \E i \in (nbufs' - r + 1) .. nbufs' : buffer_queue' = s[i]
    BY <1>2 DEF Pool, Parts
  <2>2. nbufs' = nbufs
    BY <1>2 DEF store
  <2>3. \A i \in (nbufs - r + 1) .. nbufs : s[i] \in Buf
    <3>1. nbufs \in Nat /\ f \in 1 .. nbufs /\ r \in 0 .. (nbufs - f + 1)
      BY <1>1, Basics
    <3>2. \A i \in 1 .. nbufs : s[i] \in Buf
      BY <1>1, Basics
    <3> QED
      BY <3>1, <3>2
  <2> QED
    BY <2>1, <2>2, <2>3 DEF Ptr
<1>5. TypeOK'
  BY <1>2, <1>3, <1>4 DEF PoolInv, TypeOK, store, list
<1>6. /\ ~failed' /\ nbufs' >= minbufs'
      /\ startup' # "run" => out' = {} /\ buffer_queue' = NULL /\ minbufs' = 0
  BY <1>2, <1>3 DEF PoolInv, store
<1> QED
  BY <1>2, <1>5, <1>6 DEF PoolInv

LEMMA StepPool ==
  ASSUME EnlargeFull = FALSE
  PROVE  PoolInv /\ [Next]_vars => PoolInv'
<1> SUFFICES ASSUME PoolInv, [Next]_vars PROVE PoolInv'
  OBVIOUS
<1>1. CASE NextBuffer
  BY <1>1, NextBufferPool
<1>2. CASE GetBuffer
  BY <1>2, GetBufferPool
<1>3. ASSUME NEW buf \in Buf, QueueBuffer(buf) PROVE PoolInv'
  BY <1>3, QueueBufferPool
<1>4. ASSUME NEW n \in Streams, AddProcessor(n) PROVE PoolInv'
  BY <1>4, AddProcessorPool
<1>5. CASE Attach \/ Deliver \/ LoadEnds \/ UNCHANGED vars
  BY <1>5, QuietPool
<1> QED
  BY <1>1, <1>2, <1>3, <1>4, <1>5 DEF Next

-----------------------------------------------------------------------------
(* The theorems.  EnlargeFull = FALSE leaves out the one behaviour of enlarge *)
(* that the run MCBufferStore_enlarge shows to break the list's promise.      *)

\* From buf_first on, the records are numbered in the order of the list.
LEMMA NumbersFollow == PoolInv => Consecutive
<1> SUFFICES ASSUME PoolInv, NEW n \in 0 .. MaxSize, After(buf_first, n) # NULL
             PROVE  LET b == After(buf_first, n)
                    IN  bufseq[b] = (seq - Cardinality(Chain(b))) % SeqMod
  BY DEF Consecutive
<1>1. PICK s, f, r : Pool(s, f, r)
  BY DEF PoolInv
<1>2. /\ nbufs \in Nat /\ nbufs <= MaxSize /\ MaxSize \in Nat
      /\ f \in 1 .. nbufs /\ r \in 0 .. (nbufs - f + 1)
  BY <1>1, Basics
<1>3. /\ Linked(Links, s, nbufs)
      /\ buf_first = IF r = 0 THEN NULL ELSE s[nbufs - r + 1]
      /\ \A i \in (nbufs - r + 1) .. nbufs : bufseq[s[i]] = (seq - (nbufs - i + 1)) % SeqMod
  BY <1>1 DEF Pool, Parts
<1>4. r # 0
  BY <1>2, <1>3, AfterNull
<1> DEFINE j == nbufs - r + 1
           i == j + n
<1>5. j \in 1 .. nbufs /\ n \in Nat /\ buf_first = s[j]
  BY <1>2, <1>3, <1>4
<1>6. After(s[j], n) = IF j + n <= nbufs THEN s[j + n] ELSE NULL
  <2> HIDE DEF j
  <2> QED
    BY <1>2, <1>3, <1>5, AfterIs
<1>7. After(buf_first, n) = s[i] /\ i \in j .. nbufs /\ i \in 1 .. nbufs
  <2> HIDE DEF j
  <2> QED
    BY <1>2, <1>5, <1>6
<1>8. Cardinality(Chain(s[i])) = nbufs - i + 1
  <2> HIDE DEF i
  <2> QED
    BY <1>2, <1>3, <1>7, ChainIs
<1>9. bufseq[s[i]] = (seq - (nbufs - i + 1)) % SeqMod
  <2> HIDE DEF i
  <2> QED
    BY <1>3, <1>7
<1> HIDE DEF i
<1> QED
  BY <1>7, <1>8, <1>9

LEMMA PoolIsIntact == PoolInv => ListIntact
<1> SUFFICES ASSUME PoolInv PROVE ListIntact
  OBVIOUS
<1>1. PICK s, f, r : Pool(s, f, r)
  BY DEF PoolInv
<1>2. nbufs \in Nat /\ nbufs >= 2 /\ nbufs <= MaxSize /\ 1 \in 1 .. nbufs /\ nbufs \in 1 .. nbufs
  BY <1>1, Basics
<1>3. /\ Linked(Links, s, nbufs)
      /\ buf_head = s[1] /\ buf_queue = s[nbufs]
  BY <1>1 DEF Pool
<1>4. /\ s \in [1 .. nbufs -> 1 .. nbufs]
      /\ \A i \in 1 .. nbufs : nextptr[s[i]] = IF i < nbufs THEN s[i + 1] ELSE NULL
      /\ \A i \in 1 .. nbufs : prevptr[s[i]] = IF i > 1 THEN s[i - 1] ELSE NULL
  BY <1>3 DEF Linked, Links
<1>5. \A b \in 1 .. nbufs : \E i \in 1 .. nbufs : s[i] = b
  BY <1>3 DEF Linked
<1>6. Chain(buf_head) = 1 .. nbufs
  <2>1. Chain(s[1]) = {s[j] : j \in 1 .. nbufs}
    BY <1>2, <1>3, ChainIs
  <2>2. \A j \in 1 .. nbufs : s[j] \in 1 .. nbufs
    BY <1>4
  <2> QED
    BY <1>3, <1>5, <2>1, <2>2
<1>7. nextptr[buf_queue] = NULL /\ prevptr[buf_head] = NULL
  BY <1>2, <1>3, <1>4
<1>8. ASSUME NEW b \in 1 .. nbufs, nextptr[b] # NULL PROVE prevptr[nextptr[b]] = b
  <2>1. PICK i \in 1 .. nbufs : s[i] = b
    BY <1>5
  <2>2. i < nbufs /\ nextptr[b] = s[i + 1]
    BY <1>4, <1>8, <2>1
  <2>3. i + 1 \in 1 .. nbufs /\ i + 1 > 1 /\ (i + 1) - 1 = i
    BY <1>2, <2>2
  <2>4. prevptr[s[i + 1]] = s[i]
    BY <1>4, <2>3
  <2> QED
    BY <2>1, <2>2, <2>4
<1>9. TypeOK /\ Consecutive
  BY NumbersFollow DEF PoolInv
<1> QED
  BY <1>6, <1>7, <1>8, <1>9 DEF ListIntact

LEMMA PoolHoldsReader == PoolInv => ReaderInWindow
<1> SUFFICES ASSUME PoolInv, buffer_queue # NULL PROVE buffer_queue \in Chain(buf_first)
  BY DEF ReaderInWindow
<1>1. PICK s, f, r : Pool(s, f, r)
  BY DEF PoolInv
<1>2. Chain(buf_first) = {s[j] : j \in (nbufs - r + 1) .. nbufs}
  BY <1>1, WindowIs DEF PoolInv
<1>3. \E i \in (nbufs - r + 1) .. nbufs : buffer_queue = s[i]
  BY <1>1 DEF Pool, Parts
<1> QED
  BY <1>2, <1>3

\* The list of the pool (BufferStoreImpl: insert_buffer_after, remove_buffer, enlarge)
\* never loses a buffer and never closes to a ring, whatever the order in which
\* encoders take and queue buffers and stream processors are added.
THEOREM ListStaysIntact ==
  ASSUME EnlargeFull = FALSE
  PROVE  Spec => []ListIntact
<1>1. PoolInv /\ [Next]_vars => PoolInv'
  BY StepPool
<1> QED
  BY <1>1, InitPool, PoolIsIntact, PTL DEF Spec

\* The callback delete_oldest_buffer is enough to keep the client off the buffers that
\* encoders fill.
THEOREM ReaderStaysInWindow ==
  ASSUME EnlargeFull = FALSE
  PROVE  Spec => []ReaderInWindow
<1>1. PoolInv /\ [Next]_vars => PoolInv'
  BY StepPool
<1> QED
  BY <1>1, InitPool, PoolHoldsReader, PTL DEF Spec

\* Three buffers for each stream are enough: no internal_check on buf_free or on the
\* number of a record fails.
THEOREM ChecksHold ==
  ASSUME EnlargeFull = FALSE
  PROVE  Spec => []NeverFails
<1>1. PoolInv /\ [Next]_vars => PoolInv'
  BY StepPool
<1>2. PoolInv => NeverFails
  BY DEF PoolInv, NeverFails
<1> QED
  BY <1>1, <1>2, InitPool, PTL DEF Spec

\* What the window's variables are in terms of the order of the list.
Counts ==
  \A s, f, r : Pool(s, f, r) => Cardinality(Chain(buf_first)) = r /\ Cardinality(out) = f - 1

LEMMA PoolCounts == PoolInv => Counts
BY WindowIs DEF PoolInv, Counts

\* The linked list implements the window of records that StationIO reads from:
\* while the server is up, get_buffer pushes out a record only when no buffer is
\* free, and then the oldest one.
THEOREM ListImplementsWindow ==
  ASSUME EnlargeFull = FALSE
  PROVE  Spec => WindowSpec
<1>1. Init => Window!Init
  <2> SUFFICES ASSUME Init PROVE Window!Init
    OBVIOUS
  <2>1. buf_first = NULL /\ out = {} /\ count = 0 /\ nbufs = NBufs
    BY DEF Init
  <2>2. Cardinality(Chain(buf_first)) = 0 /\ Cardinality(out) = 0
    BY <2>1, ChainOfNull, FS_EmptySet
  <2> QED
    BY <2>1, <2>2, Sizes DEF Init, Window!Init
<1>2. ASSUME PoolInv, PoolInv', Counts, Counts', [Next]_vars
      PROVE  [Window!Next]_(Window!vars)
  <2>1. PICK s, f, r : Pool(s, f, r)
    BY <1>2 DEF PoolInv
  <2>2. /\ nbufs \in Nat /\ f \in 1 .. nbufs /\ r \in 0 .. (nbufs - f + 1) /\ count \in Nat
        /\ buf_free # NULL
    <3>1. count \in Nat
      BY <1>2, Sizes DEF PoolInv, TypeOK
    <3> QED
      BY <1>2, <2>1, <3>1, Basics
  <2> DEFINE c == Cardinality(Chain(buf_first))
             h == Cardinality(out)
  <2>3. c = r /\ h = f - 1
    BY <1>2, <2>1 DEF Counts
  <2>4. ASSUME NEW t, NEW g, NEW w, Pool(t, g, w)' PROVE c' = w /\ h' = g - 1
    BY <1>2, <2>4 DEF Counts
  <2>5. CASE NextBuffer
    <3>1. PICK t, w : Pool(t, 1, w)' /\ w = (IF r = nbufs THEN 1 ELSE r + 1) /\ f = 1
      BY <1>2, <2>1, <2>5, NextBufferWindow
    <3>2. c' = w /\ h' = 1 - 1
      BY <2>4, <3>1
    <3>3. /\ count' = count + 1 /\ nbufs' = nbufs
          /\ startup # "run" /\ startup' = startup
      BY <2>2, <2>5 DEF NextBuffer, MakeNewest
    <3> HIDE DEF c, h
    <3>4. /\ h = 0 /\ h' = h /\ count' = count + 1 /\ nbufs' = nbufs
          /\ count' - c' = IF count - (count - c) = nbufs - h THEN count ELSE count - c
      BY <2>2, <2>3, <3>1, <3>2, <3>3
    <3> QED
      BY <3>3, <3>4 DEF Window!Next, Window!Make, Window!Full, c, h
  <2>6. CASE GetBuffer
    <3>1. PICK w : /\ Pool(s, f + 1, w)' /\ w = (IF r = nbufs - f + 1 THEN r - 1 ELSE r)
                   /\ f + 1 <= nbufs
      BY <1>2, <2>1, <2>6, GetBufferWindow
    <3>2. c' = w /\ h' = (f + 1) - 1
      BY <2>4, <3>1
    <3>3. /\ count' = count /\ nbufs' = nbufs
          /\ startup = "run" /\ startup' = startup
      BY <2>2, <2>6 DEF GetBuffer
    <3> HIDE DEF c, h
    <3>4. /\ h + 1 < nbufs /\ h' = h + 1 /\ count' = count /\ nbufs' = nbufs
          /\ count' - c' = IF count - (count - c) = nbufs - h THEN (count - c) + 1 ELSE count - c
      BY <2>2, <2>3, <3>1, <3>2, <3>3
    <3> QED
      BY <3>3, <3>4 DEF Window!Next, Window!Take, Window!Full, c, h
  <2>7. ASSUME NEW buf \in Buf, QueueBuffer(buf) PROVE Window!Next
    <3>1. PICK t : Pool(t, f - 1, r + 1)' /\ f > 1
      BY <1>2, <2>1, <2>7, QueueBufferWindow
    <3>2. c' = r + 1 /\ h' = (f - 1) - 1
      BY <2>4, <3>1
    <3>3. /\ count' = count + 1 /\ nbufs' = nbufs
          /\ startup = "run" /\ startup' = startup
      BY <1>2, <2>7 DEF PoolInv, QueueBuffer, MakeNewest
    <3> HIDE DEF c, h
    <3>4. /\ h > 0 /\ h' = h - 1 /\ count' = count + 1 /\ nbufs' = nbufs
          /\ count' - c' = count - c
      BY <2>2, <2>3, <3>1, <3>2, <3>3
    <3> QED
      BY <3>3, <3>4 DEF Window!Next, Window!Put, c, h
  <2>8. ASSUME NEW n \in Streams, AddProcessor(n)
        PROVE  Window!Next \/ UNCHANGED Window!vars
    <3>1. PICK t : Pool(t, f, r)'
      BY <1>2, <2>1, <2>8, AddProcessorWindow
    <3>2. c' = r /\ h' = f - 1
      BY <2>4, <3>1
    <3>3. count' = count /\ (nbufs' > nbufs \/ nbufs' = nbufs)
      <4>1. count' = count
        BY <2>2, <2>8 DEF AddProcessor
      <4>2. CASE nbufs >= minbufs + 3 * n
        BY <2>8, <4>2 DEF AddProcessor, store, Fail
      <4>3. CASE ~(nbufs >= minbufs + 3 * n)
        <5>1. minbufs + 3 * n \in Int
          BY <1>2, Sizes DEF PoolInv, TypeOK
        <5>2. nbufs' = minbufs + 3 * n
          BY <2>2, <2>8, <4>3 DEF AddProcessor
        <5> QED
          BY <2>2, <4>1, <4>3, <5>1, <5>2
      <4> QED
        BY <4>1, <4>2, <4>3
    <3> HIDE DEF c, h
    <3>4. count' - c' = count - c /\ h' = h /\ count' = count
      BY <2>3, <3>2, <3>3
    <3>5. startup = "run" /\ startup' = startup
      BY <2>8 DEF AddProcessor
    <3> QED
      BY <3>3, <3>4, <3>5 DEF Window!Next, Window!Grow, Window!vars, c, h
  <2>9. CASE Attach \/ Deliver \/ LoadEnds \/ UNCHANGED vars
    <3>1. Pool(s, f, r)' /\ count' = count /\ nbufs' = nbufs
      BY <1>2, <2>1, <2>9, QuietWindow DEF store
    <3>2. c' = c /\ h' = h
      BY <2>3, <2>4, <3>1
    <3>3. \/ startup' = startup
          \/ startup # "run" /\ startup' \in {"blank", "run"}
      BY <2>9 DEF Attach, Deliver, LoadEnds, vars
    <3> QED
      BY <3>1, <3>2, <3>3 DEF Window!Next, Window!Ready, Window!vars, c, h
  <2> QED
    BY <1>2, <2>5, <2>6, <2>7, <2>8, <2>9 DEF Next
<1>3. PoolInv /\ [Next]_vars => PoolInv'
  BY StepPool
<1> QED
  BY <1>1, <1>2, <1>3, InitPool, PoolCounts, PTL DEF Spec, WindowSpec, Window!Spec

=============================================================================
