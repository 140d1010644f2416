----------------------------- MODULE BufferStore -----------------------------
(***************************************************************************)
(* The memory of a station (class BufferStoreImpl, iosystem.cc): a doubly  *)
(* linked list of buffers.  The buffers in the hands of an encoder stay in *)
(* the list, before buf_free; a buffer that is queued is moved to the end. *)
(* One client reads the list, as StationConnection::do_deliver does once   *)
(* it has left the files.                                                  *)
(***************************************************************************)
EXTENDS Integers, FiniteSets

CONSTANTS
  NBufs,        \* "buffers": buffers of the pool at startup
  Streams,      \* numbers of streams of the station's stream processors
  MaxSize,      \* bound: buffers of the pool
  SeqMod,       \* size of the sequence number space (2^24 in the code)
  BlankBufs,    \* "blanks"
  MaxRec,       \* bound: records ever queued
  EnlargeFull   \* whether the pool may be enlarged when no buffer is free

ASSUME PoolAssumption ==
  /\ NBufs \in Nat /\ NBufs >= 2
  /\ Streams \subseteq Nat
  /\ MaxSize \in Nat /\ MaxSize >= NBufs
  /\ SeqMod \in Nat /\ SeqMod > MaxSize
  /\ BlankBufs \in Nat /\ MaxRec \in Nat
  /\ EnlargeFull \in BOOLEAN

NULL == 0
Uninit == -1    \* Sequence::uninitialized
Buf == 1 .. MaxSize

VARIABLES
  prevptr, nextptr, bufseq,               \* BufferImpl
  buf_head, buf_free, buf_first, buf_queue, seq, nbufs,  \* BufferStoreImpl
  minbufs,        \* Station: three buffers for each stream
  out,            \* buffers taken by get_buffer and not queued yet
  startup,        \* "load", "blank" (the parts of restore_state) or "run"
  made,           \* records made by next_buffer in this part
  buffer_queue,   \* the client's place; NULL when it waits for a record
  failed,         \* an internal_check has failed: the server exits
  count           \* history: records queued so far

list  == <<prevptr, nextptr>>
store == <<list, bufseq, buf_head, buf_free, buf_first, buf_queue, seq, nbufs>>
vars  == <<store, minbufs, out, startup, made, buffer_queue, failed, count>>

-----------------------------------------------------------------------------
(* The list, as [p |-> prevptr, n |-> nextptr].                            *)

\* insert_buffer_after: a comes right after b.
InsertAfter(l, a, b) ==
  LET n == [l.n EXCEPT ![a] = l.n[b], ![b] = a]
      p == [l.p EXCEPT ![a] = b]
  IN  [n |-> n, p |-> IF n[a] # NULL THEN [p EXCEPT ![n[a]] = a] ELSE p]

\* remove_buffer
Remove(l, a) ==
  [n |-> IF l.p[a] # NULL THEN [l.n EXCEPT ![l.p[a]] = l.n[a]] ELSE l.n,
   p |-> IF l.n[a] # NULL THEN [l.p EXCEPT ![l.n[a]] = l.p[a]] ELSE l.p]

\* New buffers from .. to are allocated, each one put right after b.
Allocate(l, from, to, b) ==
  LET put[a \in (from - 1) .. to] ==
        IF a = from - 1 THEN l ELSE InsertAfter(put[a - 1], a, b)
  IN  put[to]

Links == [p |-> prevptr, n |-> nextptr]
SetLinks(l) == prevptr' = l.p /\ nextptr' = l.n

Unlinked == [p |-> [b \in Buf |-> NULL], n |-> [b \in Buf |-> NULL]]

\* The constructor: buf_head is buffer 1, buf_queue, the last one, buffer 2.
Init ==
  /\ LET l == Allocate(Unlinked, 2, NBufs, 1) IN nextptr = l.n /\ prevptr = l.p
  /\ bufseq = [b \in Buf |-> Uninit]
  /\ buf_head = 1 /\ buf_free = 1 /\ buf_first = NULL /\ buf_queue = 2
  /\ seq = 0 /\ nbufs = NBufs /\ minbufs = 0
  /\ out = {} /\ startup = "load" /\ made = 0
  /\ buffer_queue = NULL /\ failed = FALSE /\ count = 0

\* Mutants: buf_head stays at the moved buffer; buf_first is always the new
\* buffer.
MakeNewest_OldHead(buf) ==
  /\ bufseq' = [bufseq EXCEPT ![buf] = seq]
  /\ seq' = (seq + 1) % SeqMod
  /\ count' = count + 1
  /\ SetLinks(InsertAfter(Remove(Links, buf), buf, buf_queue))
  /\ buf_queue' = buf
  /\ buf_first' = IF buf_first = NULL THEN buf ELSE buf_first
  /\ UNCHANGED <<buf_head, nbufs>>

MakeNewest_OnlyNewest(buf) ==
  /\ bufseq' = [bufseq EXCEPT ![buf] = seq]
  /\ seq' = (seq + 1) % SeqMod
  /\ count' = count + 1
  /\ buf_head' = IF buf_head = buf THEN nextptr[buf] ELSE buf_head
  /\ SetLinks(InsertAfter(Remove(Links, buf), buf, buf_queue))
  /\ buf_queue' = buf
  /\ buf_first' = buf
  /\ UNCHANGED nbufs

\* What queue_buffer and next_buffer have in common: the buffer gets the next
\* sequence number and becomes the last one of the list.
MakeNewest(buf) ==
  /\ bufseq' = [bufseq EXCEPT ![buf] = seq]
  /\ seq' = (seq + 1) % SeqMod
  /\ count' = count + 1
  /\ buf_head' = IF buf_head = buf THEN nextptr[buf] ELSE buf_head
  /\ SetLinks(InsertAfter(Remove(Links, buf), buf, buf_queue))
  /\ buf_queue' = buf
  /\ buf_first' = IF buf_first = NULL THEN buf ELSE buf_first
  /\ UNCHANGED nbufs

-----------------------------------------------------------------------------
(* The operations.                                                         *)

Fail == failed' = TRUE /\ UNCHANGED <<store, buffer_queue, out, count>>

\* next_buffer: called by load_buffers for each of the at most NBufs records
\* that it reads from disk, then by create_blank_buffers.
NextBuffer ==
  /\ ~failed /\ count < MaxRec
  /\ \/ startup = "load" /\ made < NBufs
     \/ startup = "blank" /\ made < BlankBufs
  /\ made' = made + 1
  /\ \/ /\ buf_free = NULL
        /\ Fail
     \/ /\ buf_free # NULL
        /\ MakeNewest(buf_free)
        /\ buf_free' = nextptr[buf_free]
        /\ UNCHANGED <<out, buffer_queue, failed>>
  /\ UNCHANGED <<startup, minbufs>>

\* The parts of restore_state follow one another; there may be no file to
\* load, and blank records are made only after a crash.
LoadEnds ==
  /\ startup # "run"
  /\ startup' = IF startup = "load" THEN "blank" ELSE "run"
  /\ made' = 0
  /\ UNCHANGED <<store, minbufs, out, buffer_queue, failed, count>>

\* The buffers in use: the encoder of each stream holds one.
Encoders == minbufs \div 3

\* Mutant: the callback is not called, and the client stays at the buffer.
GetBuffer_NoCallback ==
  /\ ~failed /\ startup = "run" /\ Cardinality(out) <= Encoders /\ buf_free # NULL
  /\ buf_free' = nextptr[buf_free]
  /\ buf_first' = IF buf_first = buf_free THEN nextptr[buf_free] ELSE buf_first
  /\ bufseq' = [bufseq EXCEPT ![buf_free] = Uninit]
  /\ out' = out \cup {buf_free}
  /\ UNCHANGED <<list, buf_head, buf_queue, seq, nbufs, failed, count,
                 buffer_queue, startup, made, minbufs>>

\* get_buffer, with its callback delete_oldest_buffer: the client will go on
\* with the next buffer.  Besides the encoders, commit_mseed and send_log take
\* a buffer and queue it at once.
GetBuffer ==
  /\ ~failed /\ startup = "run" /\ Cardinality(out) <= Encoders
  /\ \/ /\ buf_free = NULL
        /\ Fail
     \/ /\ buf_free # NULL
        /\ buf_free' = nextptr[buf_free]
        /\ buf_first' = IF buf_first = buf_free THEN nextptr[buf_free] ELSE buf_first
        /\ buffer_queue' = IF bufseq[buf_free] # Uninit /\ buffer_queue = buf_free
                           THEN nextptr[buf_free] ELSE buffer_queue
        /\ bufseq' = [bufseq EXCEPT ![buf_free] = Uninit]
        /\ out' = out \cup {buf_free}
        /\ UNCHANGED <<list, buf_head, buf_queue, seq, nbufs, failed, count>>
  /\ UNCHANGED <<startup, made, minbufs>>

\* queue_buffer, with its callback new_buffer: a waiting client gets the record.
QueueBuffer(buf) ==
  /\ ~failed /\ count < MaxRec /\ buf \in out
  /\ MakeNewest(buf)
  /\ out' = out \ {buf}
  /\ buffer_queue' = IF buffer_queue = NULL THEN buf ELSE buffer_queue
  /\ UNCHANGED <<buf_free, minbufs, startup, made, failed>>

\* Mutant: the pool is not enlarged.
AddProcessor_SamePool(n) ==
  /\ ~failed /\ startup = "run" /\ minbufs + 3 * n <= MaxSize
  /\ Cardinality(out) <= Encoders
  /\ minbufs' = minbufs + 3 * n
  /\ UNCHANGED <<store, out, buffer_queue, failed, count, startup, made>>

\* get_plugin_sproc, get_station_sproc: a stream processor of n streams comes
\* into use, and enlarge puts the buffers that are missing after buf_free.
AddProcessor(n) ==
  LET size == minbufs + 3 * n IN
  /\ ~failed /\ startup = "run" /\ size <= MaxSize
  /\ Cardinality(out) <= Encoders
  /\ minbufs' = size
  /\ \/ /\ nbufs >= size
        /\ UNCHANGED <<store, out, buffer_queue, failed, count>>
     \/ /\ nbufs < size /\ buf_free = NULL
        /\ Fail
     \/ /\ nbufs < size /\ buf_free # NULL
        /\ EnlargeFull \/ buf_free # buf_first
        /\ SetLinks(Allocate(Links, nbufs + 1, size, buf_free))
        /\ nbufs' = size
        /\ UNCHANGED <<bufseq, buf_head, buf_free, buf_first, buf_queue, seq,
                       buffer_queue, out, failed, count>>
  /\ UNCHANGED <<startup, made>>

\* DATA ALL, without files: the client begins with the oldest buffer.
Attach ==
  /\ ~failed /\ startup = "run"
  /\ buffer_queue' = buf_first
  /\ UNCHANGED <<store, minbufs, out, startup, made, failed, count>>

\* do_deliver takes the number of the buffer, which must be initialized, and
\* goes to the next one.
Deliver ==
  /\ ~failed /\ buffer_queue # NULL
  /\ \/ /\ bufseq[buffer_queue] = Uninit
        /\ Fail
     \/ /\ bufseq[buffer_queue] # Uninit
        /\ buffer_queue' = nextptr[buffer_queue]
        /\ UNCHANGED <<store, out, failed, count>>
  /\ UNCHANGED <<startup, made, minbufs>>

Next ==
  \/ NextBuffer \/ LoadEnds \/ GetBuffer \/ Attach \/ Deliver
  \/ \E buf \in Buf : QueueBuffer(buf)
  \/ \E n \in Streams : AddProcessor(n)

Spec == Init /\ [][Next]_vars

-----------------------------------------------------------------------------
(* Properties.                                                             *)

Ptr == Buf \cup {NULL}

TypeOK ==
  /\ prevptr \in [Buf -> Ptr] /\ nextptr \in [Buf -> Ptr]
  /\ bufseq \in [Buf -> {Uninit} \cup 0 .. (SeqMod - 1)]
  /\ buf_head \in Buf /\ buf_free \in Ptr /\ buf_first \in Ptr
  /\ buf_queue \in Buf /\ seq \in 0 .. (SeqMod - 1)
  /\ nbufs \in NBufs .. MaxSize /\ minbufs \in 0 .. MaxSize
  /\ out \subseteq Buf /\ startup \in {"load", "blank", "run"}
  /\ made \in Nat /\ buffer_queue \in Ptr
  /\ failed \in BOOLEAN /\ count \in 0 .. MaxRec

\* The buffer that is n steps after b in the list, NULL past its end.
After(b, n) ==
  LET walk[m \in 0 .. n] ==
        IF m = 0 THEN b
        ELSE IF walk[m - 1] = NULL THEN NULL ELSE nextptr[walk[m - 1]]
  IN  walk[n]

Chain(b) == {After(b, n) : n \in 0 .. MaxSize} \ {NULL}

\* The records a client can read are consecutive and end with the newest one.
Consecutive ==
  \A n \in 0 .. MaxSize :
    LET b == After(buf_first, n) IN
    b # NULL => bufseq[b] = (seq - Cardinality(Chain(b))) % SeqMod

\* No operation loses a buffer or closes the list to a ring: it runs from
\* buf_head through every buffer of the pool to buf_queue, the backward links
\* mirror the forward ones, and from buf_first on the records follow each other
\* (and all variables have their types).
ListIntact ==
  /\ TypeOK /\ Consecutive
  /\ Chain(buf_head) = 1 .. nbufs
  /\ nextptr[buf_queue] = NULL /\ prevptr[buf_head] = NULL
  /\ \A b \in 1 .. nbufs : nextptr[b] # NULL => prevptr[nextptr[b]] = b

\* The client never stands at a buffer that an encoder is filling, nor at one
\* that has left the window of readable records.
ReaderInWindow == buffer_queue # NULL => buffer_queue \in Chain(buf_first)

\* No internal_check on a buffer or a sequence number fails.
NeverFails == ~failed

\* The linked list implements the window of records: buf_first is its oldest
\* record, and a buffer leaves it only by get_buffer when none is free or, as
\* long as the state is restored, by next_buffer.
Window == INSTANCE RecordWindow WITH
  lo <- count - Cardinality(Chain(buf_first)), hi <- count,
  held <- Cardinality(out), size <- nbufs,
  phase <- IF startup = "run" THEN "up" ELSE "starting"

WindowSpec == Window!Spec
=============================================================================
