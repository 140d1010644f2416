------------------------------ MODULE StationIO ------------------------------
(***************************************************************************)
(* One station of the SeedLink server (class StationIO, iosystem.cc): the  *)
(* records of the station, kept in a memory pool of NBufs buffers and in   *)
(* at most MaxFiles segment files of FileSize records each, and the        *)
(* clients that read them.                                                 *)
(*                                                                         *)
(* A record is named by its position in the station's history, the value   *)
(* of seq_long when it was stored; its 24-bit number on the wire is that   *)
(* position modulo SeqMod.                                                 *)
(*                                                                         *)
(* The server is one thread: every handler runs to its end before another  *)
(* one starts.  What interleaves is the order of the handlers: encoders    *)
(* taking and queueing buffers, commands arriving, packets being delivered,*)
(* the server stopping or crashing.                                        *)
(***************************************************************************)
EXTENDS Integers, Sequences

CONSTANTS
  Client,       \* TCP connections
  Kind,         \* what a selector can tell apart about a record
  Blank,        \* content of a record of zeros (create_blank_buffers)
  NBufs,        \* "buffers": size of the memory pool
  FileSize,     \* "segsize": records per segment file
  MaxFiles,     \* "segments": number of segment files
  BlankBufs,    \* "blanks": blank records inserted by a recovery
  SeqGapLimit,  \* "seq_gap_limit"
  SeqMod,       \* size of the sequence number space (2^24 in the code)
  MaxHeld,      \* number of encoders, each of which fills one buffer
  Selection,    \* the sets of kinds that clients select
  Handshake,    \* the handshakes clients use, TRUE = multi-station
  Mode,         \* the modes clients use, TRUE = real-time (DATA), FALSE = FETCH
  MaxRec,       \* bound: records ever stored
  MaxRestarts,  \* bound: times the server is started again
  MaxLost,      \* records the disk may lose when the machine goes down
  MinSurvive    \* records such a crash leaves on disk, at least

ASSUME StationAssumption ==
  /\ NBufs \in Nat /\ NBufs >= 2 /\ MaxHeld \in Nat /\ NBufs > MaxHeld
  /\ FileSize \in Nat /\ FileSize > 0
  /\ MaxFiles \in Nat /\ MaxFiles >= 2
  /\ BlankBufs \in Nat /\ SeqGapLimit \in Nat
  /\ SeqMod \in Nat /\ SeqMod > MaxFiles * FileSize + NBufs
  /\ MaxRec \in Nat /\ MaxRestarts \in Nat
  /\ MaxLost \in Nat /\ MinSurvive \in Nat
  /\ Selection \subseteq SUBSET Kind
  /\ Handshake \subseteq BOOLEAN /\ Mode \subseteq BOOLEAN
  /\ Blank \notin Kind

None == -1      \* a NULL buffer_queue or file_queue, a closed readfd
Uninit == -1    \* Sequence::uninitialized

VARIABLES
  phase,     \* "down", "restoring" (blank records still to create) or "up"
  xml,       \* buffer.xml is in the station directory
  blanks,    \* blank records the recovery has still to create
  restarts,  \* times the server has been started again
  durable,   \* records that have reached the disk, and survive any crash
  rec,       \* rec[i + 1] is the content of record i
  lo,        \* buf_first: the oldest record in memory; Len(rec) when there is none
  held,      \* buffers taken by get_buffer and not queued yet
  files,     \* the segment files, oldest first, as [seq, nbuf]
  cx,        \* ConnectionState of each client
  sx,        \* StationConnectionState of each client
  obs,       \* history: what each client is due, the number it received last
  issued     \* history: one more than the newest record ever delivered

server == <<phase, xml, blanks, restarts, durable>>
store  == <<rec, lo, held, files>>
vars   == <<server, store, cx, sx, obs, issued>>

Content == Kind \cup {Blank}

\* ConnectionState and StationConnectionState: the fields this module needs.
CX == [conn: BOOLEAN, multi: BOOLEAN, handshaking_done: BOOLEAN,
       have_response: BOOLEAN]

SX == [active: BOOLEAN, ready: BOOLEAN, realtime: BOOLEAN, eod: BOOLEAN,
       buffer_queue: Int, file_queue: Int, readfd: Int, seq: Int,
       sel: SUBSET Kind]

-----------------------------------------------------------------------------
(* The two stores.                                                         *)

seq_long == Len(rec)

SeqOf(i) == i % SeqMod
end_seq  == SeqOf(seq_long)

\* BufferStoreImpl::first() and BufferImpl::next() on the queued buffers.
FirstBuffer   == IF lo < seq_long THEN lo ELSE None
NextBuffer(i) == IF i + 1 < seq_long THEN i + 1 ELSE None

\* FileStore::first(); a segment file is named by the record it starts with.
FirstFile == IF files = <<>> THEN None ELSE files[1].seq

\* The oldest record on disk.
DiskLo == IF files = <<>> THEN seq_long ELSE files[1].seq

FileEnd(k) == files[k].seq + files[k].nbuf

\* The file, by name, that holds record i.
FileOf(i) ==
  files[CHOOSE k \in DOMAIN files : files[k].seq <= i /\ i < FileEnd(k)].seq

\* find_packet_in_filestore, find_packet_in_bufferstore: the first place, in
\* the order of the code's loops, where sequence number q is found.
Offset(k, q)   == (q - files[k].seq) % SeqMod
FilesWith(q)   == {k \in DOMAIN files : Offset(k, q) < files[k].nbuf}
BuffersWith(q) == {i \in lo .. (seq_long - 1) : SeqOf(i) = q}
Least(S)       == CHOOSE x \in S : \A y \in S : x <= y

\* new_buffer opens a new file when the last one is full, and get_file deletes
\* the oldest one when there are already MaxFiles.
RollsFile == files = <<>> \/ files[Len(files)].nbuf >= FileSize

\* Mutants: one file too many is kept; one file too few.
DropsFile_Late == RollsFile /\ Len(files) > MaxFiles

DropsFile_Early == RollsFile /\ Len(files) >= MaxFiles - 1

DropsFile == RollsFile /\ Len(files) = MaxFiles

FilesAfterStore ==
  LET kept == IF DropsFile THEN Tail(files) ELSE files
  IN  IF RollsFile
      THEN Append(kept, [seq |-> seq_long, nbuf |-> 1])
      ELSE [files EXCEPT ![Len(files)].nbuf = @ + 1]

-----------------------------------------------------------------------------
(* The callbacks that keep the clients' places in the stores valid.        *)

ResetQueue(s) ==
  [s EXCEPT !.readfd = None, !.buffer_queue = None, !.file_queue = None,
            !.seq = Uninit]

\* Mutant: the files are not looked at.
DeleteOldestBuffer_NoFile(s) ==
  IF s.buffer_queue = lo
  THEN [s EXCEPT !.buffer_queue = NextBuffer(lo)]
  ELSE s

\* delete_oldest_buffer: record lo is about to leave the memory.
DeleteOldestBuffer(s) ==
  LET q == SeqOf(lo)
      k == Least(FilesWith(q))
      t == IF s.file_queue # None
           THEN s
           ELSE IF FilesWith(q) # {}
           THEN [s EXCEPT !.file_queue = files[k].seq,
                          !.readfd = files[k].seq + Offset(k, q),
                          !.seq = q]
           ELSE [s EXCEPT !.seq = SeqOf(@ + 1)]
  IN  IF s.buffer_queue = lo
      THEN [t EXCEPT !.buffer_queue = NextBuffer(lo)]
      ELSE s

\* Mutant: the client is left in the file that goes.
DeleteOldestSegment_Stays(s) == s

\* delete_oldest_segment: the oldest file is about to be deleted.
DeleteOldestSegment(s) ==
  IF DropsFile /\ s.file_queue = files[1].seq
  THEN [s EXCEPT !.readfd = None, !.file_queue = files[2].seq]
  ELSE s

\* Mutant: the client wakes up only when it already had a record to read.
Arrive_NoWakeup(s, k, hs) ==
  LET t == IF s.buffer_queue = None /\ k \in s.sel
           THEN [s EXCEPT !.buffer_queue = seq_long] ELSE s
  IN  IF ~s.active THEN s
      ELSE IF s.buffer_queue # None /\ hs
      THEN [t EXCEPT !.ready = TRUE]
      ELSE t

\* The rest of new_buffer: the record, of content k, is now the newest one.
Arrive(s, k, hs) ==
  LET t == IF s.buffer_queue = None /\ k \in s.sel
           THEN [s EXCEPT !.buffer_queue = seq_long] ELSE s
  IN  IF ~s.active THEN s
      ELSE IF t.buffer_queue # None /\ hs
      THEN [t EXCEPT !.ready = TRUE]
      ELSE t

\* new_buffer: store a record of content k and tell the clients.
NewBuffer(k) ==
  /\ rec' = Append(rec, k)
  /\ files' = FilesAfterStore
  /\ sx' = [c \in Client |->
              IF cx[c].conn
              THEN Arrive(DeleteOldestSegment(sx[c]), k, cx[c].handshaking_done)
              ELSE sx[c]]

-----------------------------------------------------------------------------
(* The encoders.                                                           *)

\* get_buffer: the pool hands out its oldest buffer, with the record in it.
PoolIsFull == seq_long - lo = NBufs - held

GetBuffer ==
  /\ phase = "up" /\ held < MaxHeld
  /\ held' = held + 1
  /\ \/ /\ PoolIsFull
        /\ lo' = lo + 1
        /\ sx' = [c \in Client |->
                    IF cx[c].conn THEN DeleteOldestBuffer(sx[c]) ELSE sx[c]]
     \/ /\ ~PoolIsFull
        /\ UNCHANGED <<lo, sx>>
  /\ UNCHANGED <<server, rec, files, cx, obs, issued>>

\* Mutant: buf_first is always the new buffer.
QueueBuffer_OnlyNewest(k) ==
  /\ phase = "up" /\ held > 0 /\ seq_long < MaxRec
  /\ held' = held - 1
  /\ lo' = seq_long
  /\ NewBuffer(k)
  /\ UNCHANGED <<server, cx, obs, issued>>

\* queue_buffer: a filled buffer becomes the newest record.
QueueBuffer(k) ==
  /\ phase = "up" /\ held > 0 /\ seq_long < MaxRec
  /\ held' = held - 1
  /\ NewBuffer(k)
  /\ UNCHANGED <<server, lo, cx, obs, issued>>

-----------------------------------------------------------------------------
(* Connections and commands.                                               *)

Connect(c, m) ==
  /\ phase = "up" /\ ~cx[c].conn
  /\ cx' = [cx EXCEPT ![c] = [conn |-> TRUE, multi |-> m,
               handshaking_done |-> FALSE, have_response |-> FALSE]]
  /\ UNCHANGED <<server, store, sx, obs, issued>>

IdleCX == [conn |-> FALSE, multi |-> FALSE, handshaking_done |-> FALSE,
           have_response |-> FALSE]

IdleSX == [active |-> FALSE, ready |-> FALSE, realtime |-> TRUE, eod |-> FALSE,
           buffer_queue |-> None, file_queue |-> None, readfd |-> None,
           seq |-> Uninit, sel |-> Kind]

IdleObs == [due |-> 0, label |-> Uninit]

Disconnect(c) ==
  /\ phase = "up" /\ cx[c].conn
  /\ cx' = [cx EXCEPT ![c] = IdleCX]
  /\ sx' = [sx EXCEPT ![c] = IdleSX]
  /\ obs' = [obs EXCEPT ![c] = IdleObs]
  /\ UNCHANGED <<server, store, issued>>

\* What SELECT and DATA begin with: the subscription so far is forgotten.
Forget(s) ==
  [ResetQueue(s) EXCEPT !.active = FALSE, !.ready = FALSE, !.eod = FALSE]

\* SELECT: the new selector is installed and answered with OK.
Select(c, S) ==
  /\ phase = "up" /\ cx[c].conn /\ ~cx[c].have_response
  /\ sx' = [sx EXCEPT ![c] = [Forget(@) EXCEPT !.sel = S]]
  /\ cx' = [cx EXCEPT ![c].have_response = TRUE]
  /\ obs' = [obs EXCEPT ![c] = IdleObs]
  /\ UNCHANGED <<server, store, issued>>

\* A DATA or FETCH whose argument is not a sequence number.
BadData(c, rt) ==
  /\ phase = "up" /\ cx[c].conn /\ ~cx[c].have_response
  /\ sx' = [sx EXCEPT ![c] = [Forget(@) EXCEPT !.realtime = rt]]
  /\ cx' = [cx EXCEPT ![c].have_response = TRUE]
  /\ obs' = [obs EXCEPT ![c] = IdleObs]
  /\ UNCHANGED <<server, store, issued>>

\* find_oldest_packet
FindOldest(s) ==
  IF files = <<>>
  THEN [s EXCEPT !.seq = 0, !.buffer_queue = FirstBuffer, !.file_queue = None]
  ELSE LET q == SeqOf(DiskLo)
       IN  IF BuffersWith(q) # {}
           THEN [s EXCEPT !.seq = q, !.buffer_queue = Least(BuffersWith(q)),
                          !.file_queue = None]
           ELSE [s EXCEPT !.seq = q, !.buffer_queue = FirstBuffer,
                          !.file_queue = FirstFile]

\* Mutant: seq is the number of the first record of the file.
InFiles_FirstNumber(s, q) ==
  LET k == Least(FilesWith(q))
  IN  [s EXCEPT !.buffer_queue = FirstBuffer, !.file_queue = files[k].seq,
                !.readfd = files[k].seq + Offset(k, q),
                !.seq = SeqOf(files[k].seq)]

\* find_packet, with the record that the client will then wait for.
InFiles(s, q) ==
  LET k == Least(FilesWith(q))
  IN  [s EXCEPT !.buffer_queue = FirstBuffer, !.file_queue = files[k].seq,
                !.readfd = files[k].seq + Offset(k, q), !.seq = q]

TooFar(q) == SeqOf(FindOldest(IdleSX).seq - q) > SeqGapLimit

FindPacket(s, q) ==
  IF BuffersWith(q) # {}
  THEN [s EXCEPT !.seq = q, !.buffer_queue = Least(BuffersWith(q)),
                 !.file_queue = None]
  ELSE IF FilesWith(q) # {} THEN InFiles(s, q)
  ELSE IF q = end_seq THEN [s EXCEPT !.seq = q]
  ELSE IF TooFar(q)
  THEN [s EXCEPT !.buffer_queue = None, !.file_queue = None, !.seq = end_seq]
  ELSE FindOldest(s)

Found(q) ==
  \/ BuffersWith(q) # {} \/ FilesWith(q) # {} \/ q = end_seq \/ ~TooFar(q)

\* The record at which a client stands: the next one its queues lead to.
Place(s) ==
  IF s.file_queue # None
  THEN IF s.readfd # None THEN s.readfd ELSE s.file_queue
  ELSE IF s.buffer_queue # None THEN s.buffer_queue ELSE seq_long

\* The end of command_DATA: the subscription is active, and answered.
Subscribe(c, s, rt, ready) ==
  /\ phase = "up" /\ cx[c].conn /\ ~cx[c].have_response
  /\ sx' = [sx EXCEPT ![c] =
              [s EXCEPT !.realtime = rt, !.active = TRUE, !.ready = ready]]
  /\ cx' = IF cx[c].multi
           THEN [cx EXCEPT ![c].have_response = TRUE]
           ELSE [cx EXCEPT ![c].handshaking_done = TRUE]
  /\ obs' = [obs EXCEPT ![c] = [due |-> Place(s), label |-> Uninit]]
  /\ UNCHANGED <<server, store, issued>>

\* DATA / FETCH; DATA ALL / FETCH ALL; DATA q / FETCH q.
DataNext(c, rt) ==
  Subscribe(c, [Forget(sx[c]) EXCEPT !.seq = end_seq], rt, FALSE)

DataAll(c, rt) == Subscribe(c, FindOldest(Forget(sx[c])), rt, TRUE)

DataFrom(c, rt, q) ==
  Subscribe(c, FindPacket(Forget(sx[c]), q), rt, Found(q))

\* Connection::deliver sends a pending response before anything else, and
\* leaves the data phase.
SendResponse(c) ==
  /\ phase = "up" /\ cx[c].conn /\ cx[c].have_response
  /\ cx' = [cx EXCEPT ![c].have_response = FALSE, ![c].handshaking_done = FALSE]
  /\ UNCHANGED <<server, store, sx, obs, issued>>

\* END; the client has waited for the answers to its commands.
End(c) ==
  /\ phase = "up" /\ cx[c].conn /\ cx[c].multi /\ ~cx[c].have_response
  /\ ~cx[c].handshaking_done
  /\ cx' = [cx EXCEPT ![c].handshaking_done = TRUE]
  /\ UNCHANGED <<server, store, sx, obs, issued>>

-----------------------------------------------------------------------------
(* Delivery.  do_deliver is called again while it returns Retry: it skips  *)
(* records that do not match, changes to the next file at the end of one,  *)
(* and changes to memory when the next record is the first one queued      *)
(* there.  The loop is one handler, so it is one action: a record i stops  *)
(* it when every record before i is skipped.                               *)

CanDeliver(c) ==
  /\ phase = "up" /\ cx[c].conn /\ ~cx[c].have_response
  /\ cx[c].handshaking_done /\ sx[c].ready

\* The value of sx.seq with which record i of the files is reached, first when
\* it is compared with the queued buffer, then when it has been read: opening
\* a file sets it to the number of the file's first record.
IsIn(f, i) == \E k \in DOMAIN files : files[k].seq = f /\ i < FileEnd(k)
EndsAt(f, i) == \E k \in DOMAIN files : files[k].seq = f /\ i = FileEnd(k)

SeqRead(s, i) ==
  IF s.readfd # None /\ IsIn(s.file_queue, i)
  THEN SeqOf(s.seq + (i - s.readfd))
  ELSE SeqOf(i)

SeqTested(s, i) ==
  IF s.readfd # None /\ EndsAt(s.file_queue, i)
  THEN SeqOf(s.seq + (i - s.readfd))
  ELSE IF s.readfd = None /\ i = s.file_queue THEN s.seq
  ELSE SeqRead(s, i)

\* Mutant: the files are read to their end.
Switches_AtEnd(s, i) == i = seq_long

Switches(s, i) == s.buffer_queue # None /\ SeqTested(s, i) = SeqOf(s.buffer_queue)

Matches(s, i)  == rec[i + 1] \in s.sel
Skips(s, i)    == ~Switches(s, i) /\ ~Matches(s, i)

\* The files are left at a record that is queued in memory, or at their end.
LeavesFiles(s) ==
  \E i \in Place(s) .. seq_long :
    /\ \A j \in Place(s) .. (i - 1) : Skips(s, j)
    /\ Switches(s, i) \/ i = seq_long

ReadsMemory(s) == s.file_queue = None \/ LeavesFiles(s)

\* Record i has been sent with sequence number q.
Sent(c, s, i, q) ==
  /\ sx' = [sx EXCEPT ![c] = s]
  /\ obs' = [obs EXCEPT ![c] = [due |-> i + 1, label |-> q]]
  /\ issued' = IF i + 1 > issued THEN i + 1 ELSE issued
  /\ UNCHANGED <<server, store, cx>>

DeliverFromFile(c) ==
  LET s == sx[c] IN
  /\ CanDeliver(c) /\ s.file_queue # None
  /\ \E i \in Place(s) .. (seq_long - 1) :
       /\ \A j \in Place(s) .. (i - 1) : Skips(s, j)
       /\ ~Switches(s, i) /\ Matches(s, i)
       /\ Sent(c, [s EXCEPT !.file_queue = FileOf(i), !.readfd = i + 1,
                            !.seq = SeqOf(SeqRead(s, i) + 1)],
               i, SeqRead(s, i))

DeliverFromMemory(c) ==
  LET s == sx[c] IN
  /\ CanDeliver(c) /\ ReadsMemory(s) /\ s.buffer_queue # None
  /\ \E i \in s.buffer_queue .. (seq_long - 1) :
       /\ \A j \in s.buffer_queue .. (i - 1) : ~Matches(s, j)
       /\ Matches(s, i)
       /\ Sent(c, [s EXCEPT !.file_queue = None, !.readfd = None,
                            !.buffer_queue = NextBuffer(i), !.seq = SeqOf(i + 1)],
               i, SeqOf(i))

\* Mutant: the end of the files is taken for the end of the data.
DeliverNothing_MemoryLeft(c) ==
  LET s == sx[c] IN
  /\ CanDeliver(c) /\ ReadsMemory(s)
  /\ sx' = [sx EXCEPT ![c] =
              [s EXCEPT !.file_queue = None, !.readfd = None,
                        !.buffer_queue = None, !.ready = FALSE,
                        !.active = s.realtime, !.eod = ~s.realtime]]
  /\ UNCHANGED <<server, store, cx, obs, issued>>

\* Nothing is left: a real-time client waits, a dial-up one gets "END".
DeliverNothing(c) ==
  LET s == sx[c] IN
  /\ CanDeliver(c) /\ ReadsMemory(s)
  /\ s.buffer_queue # None =>
       \A i \in s.buffer_queue .. (seq_long - 1) : ~Matches(s, i)
  /\ sx' = [sx EXCEPT ![c] =
              [s EXCEPT !.file_queue = None, !.readfd = None,
                        !.buffer_queue = None, !.ready = FALSE,
                        !.seq = IF s.file_queue = None /\ s.buffer_queue = None
                                THEN @ ELSE end_seq,
                        !.active = s.realtime, !.eod = ~s.realtime]]
  /\ UNCHANGED <<server, store, cx, obs, issued>>

Deliver(c) == DeliverFromFile(c) \/ DeliverFromMemory(c) \/ DeliverNothing(c)

-----------------------------------------------------------------------------
(* The life of the server.                                                 *)

\* What is left of the server when its process ends: the files.
Stops ==
  /\ phase' = "down"
  /\ blanks' = 0
  /\ held' = 0
  /\ cx' = [c \in Client |-> IdleCX]
  /\ sx' = [c \in Client |-> IdleSX]
  /\ obs' = [c \in Client |-> IdleObs]
  /\ UNCHANGED <<restarts, durable, issued>>

\* A regular termination writes buffer.xml.
Terminate ==
  /\ phase = "up" /\ restarts < MaxRestarts
  /\ Stops
  /\ xml' = TRUE
  /\ lo' = seq_long
  /\ UNCHANGED <<rec, files>>

\* The server is killed, or the machine goes down: the segment files after the
\* m-th one had not reached the disk, and of the m-th one only n records.
CrashUpTo(m, n) ==
  LET end == files[m].seq + n IN
  /\ m \in DOMAIN files /\ n <= files[m].nbuf
  /\ end >= seq_long - MaxLost /\ end >= durable /\ end >= MinSurvive
  /\ rec' = SubSeq(rec, 1, end)
  /\ files' = [SubSeq(files, 1, m) EXCEPT ![m].nbuf = n]
  /\ lo' = end

Crash ==
  /\ phase # "down" /\ restarts < MaxRestarts
  /\ Stops
  /\ \/ files = <<>> /\ UNCHANGED <<rec, files, lo>>
     \/ \E m \in 1 .. MaxFiles, n \in 0 .. FileSize : CrashUpTo(m, n)
  /\ UNCHANGED xml

\* restore_state: the newest records are loaded into memory, and when there is
\* no description of the disk buffer although it holds records, blank records
\* follow.
LoadFrom ==
  LET q == SeqOf(seq_long - NBufs)
      k == Least(FilesWith(q))
  IN  IF FilesWith(q) # {} THEN files[k].seq + Offset(k, q) ELSE DiskLo

\* Mutant: blank records are created after a regular termination only.
Recovers_Swapped == {xml /\ seq_long # 0}

\* A description that cannot be read is like a missing one.
Recovers == IF xml THEN BOOLEAN ELSE {seq_long # 0}

Restart ==
  /\ phase = "down"
  /\ restarts' = restarts + 1
  /\ durable' = seq_long
  /\ lo' = LoadFrom
  /\ xml' = FALSE
  /\ \E recover \in Recovers :
       /\ phase' = IF recover /\ BlankBufs > 0 THEN "restoring" ELSE "up"
       /\ blanks' = IF recover THEN BlankBufs ELSE 0
  /\ UNCHANGED <<rec, held, files, cx, sx, obs, issued>>

\* One turn of create_blank_buffers; when the pool is full, next_buffer takes
\* the oldest buffer, and buf_first goes to the end of the list with it.
CreateBlank ==
  /\ phase = "restoring"
  /\ lo' = IF seq_long - lo < NBufs THEN lo ELSE seq_long
  /\ NewBuffer(Blank)
  /\ blanks' = blanks - 1
  /\ phase' = IF blanks = 1 THEN "up" ELSE "restoring"
  /\ UNCHANGED <<xml, restarts, durable, held, cx, obs, issued>>

-----------------------------------------------------------------------------
Init ==
  /\ phase = "up" /\ xml = FALSE /\ blanks = 0 /\ restarts = 0 /\ durable = 0
  /\ rec = <<>> /\ lo = 0 /\ held = 0 /\ files = <<>>
  /\ cx = [c \in Client |-> IdleCX]
  /\ sx = [c \in Client |-> IdleSX]
  /\ obs = [c \in Client |-> IdleObs]
  /\ issued = 0

Command(c) ==
  \/ \E S \in Selection : Select(c, S)
  \/ \E rt \in Mode : BadData(c, rt) \/ DataNext(c, rt) \/ DataAll(c, rt)
  \/ \E rt \in Mode, q \in 0 .. (SeqMod - 1) : DataFrom(c, rt, q)
  \/ End(c)

Next ==
  \/ GetBuffer
  \/ \E k \in Kind : QueueBuffer(k)
  \/ \E c \in Client, m \in Handshake : Connect(c, m)
  \/ \E c \in Client :
       Disconnect(c) \/ Command(c) \/ SendResponse(c) \/ Deliver(c)
  \/ Terminate
  \/ Crash \/ Restart \/ CreateBlank

Spec == Init /\ [][Next]_vars

\* The main loop never stops turning, and a client that reads its socket is
\* writable again and again: what can be sent is sent.
Fairness == \A c \in Client : WF_vars(SendResponse(c)) /\ WF_vars(Deliver(c))

FairSpec == Spec /\ Fairness

-----------------------------------------------------------------------------
(* Properties.                                                             *)

\* The variables have their types.
StoreTypeOK ==
  /\ phase \in {"down", "restoring", "up"}
  /\ xml \in BOOLEAN
  /\ blanks \in 0 .. BlankBufs
  /\ restarts \in 0 .. MaxRestarts
  /\ durable \in Nat
  /\ rec \in Seq(Content)
  /\ lo \in Nat
  /\ held \in 0 .. MaxHeld
  /\ files \in Seq([seq: Nat, nbuf: Nat])

TypeOK ==
  /\ StoreTypeOK
  /\ cx \in [Client -> CX]
  /\ sx \in [Client -> SX]
  /\ obs \in [Client -> [due: Nat, label: Int]]
  /\ issued \in Nat

\* Every record in memory is on disk too: a client whose buffer is reused is
\* always found a place in a file (delete_oldest_buffer needs it).
DiskCoversMemory == DiskLo <= lo /\ lo <= seq_long

\* The memory keeps its promise: while the server is up, a record leaves it
\* only when an encoder needs its buffer and no other is free.  Otherwise it is
\* only blank records that push others out, the process that ends, and the
\* next one, which loads the newest records again.
Window == INSTANCE RecordWindow WITH
  lo <- lo, hi <- seq_long, held <- held, size <- NBufs,
  phase <- IF phase = "restoring" THEN "starting" ELSE phase

WindowSpec == Window!Spec

\* The memory never holds more records than it has free buffers for.
WindowInv ==
  /\ lo <= seq_long /\ seq_long - lo <= NBufs - held
  /\ phase # "up" => held = 0
  /\ phase = "restoring" => blanks > 0
  /\ phase = "down" => restarts < MaxRestarts

FilesHold(n) == n * FileSize

InRow(s, end) ==
  /\ s = <<>> => end = 0
  /\ \A k \in 1 .. Len(s) : s[k].seq = s[1].seq + FilesHold(k - 1)
  /\ \A k \in 1 .. (Len(s) - 1) : s[k].nbuf = FileSize
  /\ s # <<>> => /\ s[Len(s)].nbuf <= FileSize
                 /\ s[Len(s)].seq + s[Len(s)].nbuf = end

\* What DiskCoversMemory rests on: there are at most MaxFiles segment files, they
\* follow one another without a gap, all but the last one are full, and the
\* last one ends with the newest record.
FilesInv == Len(files) <= MaxFiles /\ InRow(files, seq_long)

\* No client is left with a place in a store that is gone (and all variables
\* have their types): buffer_queue is a queued buffer, file_queue a segment
\* file, readfd inside that file, and none of them is left over when a
\* subscription is forgotten.  The internal checks of do_deliver,
\* delete_oldest_buffer and Sequence rest on that.
QueuesValid ==
  TypeOK /\ \A c \in Client : LET s == sx[c] IN
    /\ s.ready => s.active
    /\ s.file_queue = None => s.readfd = None
    /\ s.active => s.seq # Uninit
    /\ s.buffer_queue \in {None} \cup lo .. (seq_long - 1)
    /\ s.file_queue # None =>
         \E k \in DOMAIN files :
           /\ files[k].seq = s.file_queue
           /\ s.readfd \in {None} \cup s.file_queue .. FileEnd(k)

\* First in, first out: neither the place where a client reads the files nor
\* the buffer with which it will go on in memory is before the record it is due.
FIFO ==
  \A c \in Client : LET s == sx[c] IN
    s.active => /\ Place(s) >= obs[c].due
                /\ s.buffer_queue = None \/ s.buffer_queue >= obs[c].due

\* A delivered record is newer than every record delivered before it to the
\* same subscription, and one that the client selected is passed over only when
\* it is no longer on disk.
Delivered(c) == obs'[c] # obs[c] /\ obs'[c].label # Uninit

NoneSkipped ==
  [][\A c \in Client : Delivered(c) =>
       /\ obs'[c].due > obs[c].due
       /\ \A i \in obs[c].due .. (obs'[c].due - 2) :
            i < DiskLo \/ ~Matches(sx[c], i)]_vars

\* The number in the header of a packet is the number of the record in it.
LabelsRecord ==
  \A c \in Client :
    obs[c].label # Uninit => obs[c].label = SeqOf(obs[c].due - 1)

\* A dial-up client gets its "END" only after every selected record.
EndMeansAll ==
  [][\A c \in Client :
       (~sx[c].eod /\ sx'[c].eod) =>
         \A i \in obs[c].due .. (seq_long - 1) :
           i < DiskLo \/ ~Matches(sx[c], i)]_vars

\* After a crash, no new record takes a number that a client has received with
\* another record: the blank records stand in for those that were lost.
NumbersNotReused == phase = "up" => issued <= seq_long

\* A client that has still a record to receive is not left waiting for it
\* until another record arrives.
Behind(c, d) ==
  /\ phase = "up" /\ cx[c].conn /\ sx[c].active /\ cx[c].handshaking_done
  /\ obs[c].due = d
  /\ \E i \in d .. (seq_long - 1) : i >= DiskLo /\ Matches(sx[c], i)

DeliversAll ==
  \A c \in Client : \A d \in 0 .. MaxRec : Behind(c, d) ~> ~Behind(c, d)
=============================================================================
