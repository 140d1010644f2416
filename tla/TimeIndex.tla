------------------------------- MODULE TimeIndex -------------------------------
(***************************************************************************)
(* The index by which TIME, and DATA with a begin time, find their first   *)
(* record (StationMonitorImpl and StreamMonitor, monitor.cc).  For each    *)
(* stream of a station it knows, for each segment file, when and where the *)
(* stream's records in this file and the ones before it end.  The index    *)
(* follows the files as they are written and deleted, is saved in          *)
(* buffer.xml when the server ends, and is built anew from the records'    *)
(* headers when the server was killed.                                     *)
(*                                                                         *)
(* stream_check is enabled.  As in StationIO a record is known by its      *)
(* position in the history of the station, and its number is the position  *)
(* modulo SeqSize.  The records of a stream come in the order of time.     *)
(***************************************************************************)
EXTENDS Integers, FiniteSetsExt, SequencesExt, Functions, TLC

CONSTANTS
  Stream,       \* the streams of the station
  Length,       \* Length[s]: the time that a record of stream s spans
  Gaps,         \* bound: the times from a record to the next of its stream
  FileSize,     \* records in a segment file
  MaxFiles,     \* segment files
  SeqSize,      \* sequence numbers, 2^24 in the code
  BlankBufs,    \* blank records made after a crash
  Before,       \* how many blank records there may be before the first one
  MaxRec,       \* bound: records that arrive
  MaxRestarts,  \* bound: terminations and crashes
  MaxLost       \* bound: newest records that a crash loses

None == "none"

ASSUME IndexAssumption ==
  /\ None \notin Stream
  /\ Length \in [Stream -> Nat \ {0}] /\ Gaps \subseteq Nat
  /\ FileSize \in Nat \ {0} /\ MaxFiles \in Nat \ {0, 1}
  /\ SeqSize \in Nat /\ SeqSize > 2 * MaxFiles * FileSize
  /\ BlankBufs \in Nat /\ Before \subseteq Nat
  /\ MaxRec \in Nat /\ MaxRestarts \in Nat /\ MaxLost \in Nat

VARIABLES
  files,     \* the segment files, each with its first position and its records
  monitor,   \* the StationMonitorImpl
  xml,       \* buffer.xml
  up,        \* the server runs
  upto,      \* external: the end of each stream's last record
  arrived, restarts   \* what MaxRec and MaxRestarts bound

vars == <<files, monitor, xml, up, upto, arrived, restarts>>

Blank == [stream |-> None, begin |-> 0, end |-> 0]

\* StationMonitorImpl::reset
Fresh == [begin_seq |-> 0, end_seq |-> 0, segment_count |-> 1, stream_map |-> <<>>]

NumberOf(i) == i % SeqSize

-----------------------------------------------------------------------------
(* The index as it is kept.                                                *)

\* StreamMonitor::add_packet; recno and gaps are only for INFO.
WithPacket(streams, seq, r) ==
  LET known == r.stream \in DOMAIN streams
      here  == [end_time |-> r.end, end_seq |-> NumberOf(seq + 1)]
      sm    == IF known
               THEN [streams[r.stream] EXCEPT !.segments = Append(Front(@), here)]
               ELSE [begin_time |-> r.begin, begin_seq |-> seq, segments |-> <<here>>]
  IN  [s \in DOMAIN streams \cup {r.stream} |-> IF s = r.stream THEN sm ELSE streams[s]]

\* add_packet and set_end_seq; blank records are no stream's.
AddPacket(m, seq, r) ==
  [m EXCEPT !.end_seq = NumberOf(seq + 1),
            !.stream_map = IF r = Blank THEN @ ELSE WithPacket(@, seq, r)]

\* StreamMonitor::new_segment: it begins as a copy of the last one.
Continued(sm) == [sm EXCEPT !.segments = Append(@, Last(@))]

\* new_segment
NewSegment(m) ==
  [m EXCEPT !.segment_count = @ + 1,
            !.stream_map = [s \in DOMAIN m.stream_map |-> Continued(m.stream_map[s])]]

\* Mutant: the stream begins where it ends.
WithoutOldest_Last(sm) ==
  [begin_time |-> Last(sm.segments).end_time, begin_seq |-> Head(sm.segments).end_seq,
   segments |-> Tail(sm.segments)]

\* StreamMonitor::delete_oldest_segment
WithoutOldest(sm) ==
  [begin_time |-> Head(sm.segments).end_time, begin_seq |-> Head(sm.segments).end_seq,
   segments |-> Tail(sm.segments)]

\* A stream with fewer segments than the station has none in the oldest file.
BeganLater(sm, m) == m.segment_count > Len(sm.segments)

\* Mutant: a stream without a record in the oldest segment left is forgotten.
Empty_Segment(sm) == sm.begin_seq = Head(sm.segments).end_seq

\* StreamMonitor::empty
Empty(sm) == sm.begin_seq = Last(sm.segments).end_seq

\* delete_oldest_segment
DeleteOldestSegment(m) ==
  LET left == [s \in DOMAIN m.stream_map |->
                 IF BeganLater(m.stream_map[s], m) THEN m.stream_map[s]
                 ELSE WithoutOldest(m.stream_map[s])]
  IN  [m EXCEPT !.segment_count = @ - 1,
                !.stream_map = Restrict(left, {s \in DOMAIN left : ~Empty(left[s])})]

\* The position after the newest record.
EndOf(fs) == IF fs = <<>> THEN 0 ELSE Last(fs).seq + Len(Last(fs).records)

\* StationIO::new_buffer for record r: a full file is followed by a new one,
\* for which the oldest is deleted before the index gets its new segment.
Stored(d, r) ==
  LET seq    == EndOf(d.files)
      full   == d.files # <<>> /\ Len(Last(d.files).records) >= FileSize
      opened == IF d.files = <<>> \/ full
                THEN Append(d.files, [seq |-> seq, records |-> <<>>]) ELSE d.files
      drops  == Len(opened) > MaxFiles
      m1     == IF drops
                THEN [DeleteOldestSegment(d.monitor) EXCEPT !.begin_seq = NumberOf(opened[2].seq)]
                ELSE d.monitor
      m2     == IF full THEN NewSegment(m1) ELSE m1
      kept   == IF drops THEN Tail(opened) ELSE opened
  IN  [files   |-> Append(Front(kept), [Last(kept) EXCEPT !.records = Append(@, r)]),
       monitor |-> AddPacket(m2, NumberOf(seq), r)]

-----------------------------------------------------------------------------
(* The life of the server.                                                 *)

Arrive(s, gap) ==
  LET r == [stream |-> s, begin |-> upto[s] + gap, end |-> upto[s] + gap + Length[s]]
      d == Stored([files |-> files, monitor |-> monitor], r)
  IN
  /\ up /\ arrived < MaxRec
  /\ files' = d.files /\ monitor' = d.monitor
  /\ upto' = [upto EXCEPT ![s] = r.end] /\ arrived' = arrived + 1
  /\ UNCHANGED <<xml, up, restarts>>

Stops == up /\ restarts < MaxRestarts /\ up' = FALSE /\ restarts' = restarts + 1

\* save_state
Terminate ==
  /\ Stops
  /\ xml' = {monitor}
  /\ UNCHANGED <<files, monitor, upto, arrived>>

\* The server is killed, and the newest records have not reached the disk: of
\* the m-th file n records are left, and none of the files after it.
Crash(m, n) ==
  /\ Stops
  /\ m \in DOMAIN files /\ n \in 0 .. Len(files[m].records)
  /\ files[m].seq + n >= EndOf(files) - MaxLost
  /\ files' = Append(SubSeq(files, 1, m - 1),
                     [files[m] EXCEPT !.records = SubSeq(@, 1, n)])
  /\ UNCHANGED <<monitor, xml, upto, arrived>>

\* do_load_headers for one file: the numbers are counted up from that of the
\* file, and are not taken modulo SeqSize.
Scanned(m, f) ==
  LET after[k \in 0 .. Len(f.records)] ==
        IF k = 0 THEN m ELSE AddPacket(after[k - 1], NumberOf(f.seq) + k - 1, f.records[k])
  IN  after[Len(f.records)]

\* do_load_headers
LoadHeaders(fs) ==
  LET after[k \in 0 .. Len(fs)] ==
        IF k = 0 THEN Fresh
        ELSE Scanned(IF k = 1 THEN after[0] ELSE NewSegment(after[k - 1]), fs[k])
  IN  after[Len(fs)]

\* create_blank_buffers
WithBlanks(d, n) ==
  LET after[k \in 0 .. n] == IF k = 0 THEN d ELSE Stored(after[k - 1], Blank)
  IN  after[n]

\* restore_state without buffer.xml: the headers are read, blank records are
\* made, and the ends of the range are set anew.
Recovered(fs) ==
  LET d == WithBlanks([files |-> fs, monitor |-> LoadHeaders(fs)], BlankBufs)
  IN  [files   |-> d.files,
       monitor |-> [d.monitor EXCEPT !.begin_seq = NumberOf(Head(d.files).seq),
                                     !.end_seq = NumberOf(EndOf(d.files))]]

\* SeqAttribute: a number that is none makes buffer.xml unreadable.
Readable(m) == \A s \in DOMAIN m.stream_map : m.stream_map[s].begin_seq < SeqSize

\* restore_state; buffer.xml is deleted when it has been read.
Restart ==
  LET saved   == {m \in xml : Readable(m)}
      recover == saved = {} /\ (xml # {} \/ EndOf(files) # 0)
  IN
  /\ ~up /\ up' = TRUE
  /\ xml' = {}
  /\ \/ monitor' \in saved /\ UNCHANGED files
     \/ saved = {} /\ ~recover /\ monitor' = Fresh /\ UNCHANGED files
     \/ /\ recover
        /\ files' = Recovered(files).files /\ monitor' = Recovered(files).monitor
  /\ UNCHANGED <<upto, arrived, restarts>>

Init ==
  /\ \E n \in Before :
       LET d == WithBlanks([files |-> <<>>, monitor |-> Fresh], n)
       IN  files = d.files /\ monitor = d.monitor
  /\ xml = {} /\ up = TRUE
  /\ upto = [s \in Stream |-> 0] /\ arrived = 0 /\ restarts = 0

Next ==
  \/ \E s \in Stream, gap \in Gaps : Arrive(s, gap)
  \/ Terminate \/ Restart
  \/ \E m \in 1 .. MaxFiles, n \in 0 .. FileSize : Crash(m, n)

Spec == Init /\ [][Next]_vars

-----------------------------------------------------------------------------
(* The index as it is used, for a time it and the streams in filter that   *)
(* the client has selected.                                                *)

\* StreamMonitor::time_to_seq: after the last segment of the leading ones
\* that end by then.
StreamTimeToSeq(sm, it) ==
  LET ends  == [k \in DOMAIN sm.segments |-> sm.segments[k].end_time <= it]
      early == {k \in DOMAIN ends : \A j \in 1 .. k : ends[j]}
  IN  IF early = {} THEN sm.begin_seq ELSE sm.segments[Max(early)].end_seq

Matching(filter) == filter \cap DOMAIN monitor.stream_map

\* How far a number is from the oldest record, and from the newest.
FromBegin(seq) == (seq - monitor.begin_seq) % SeqSize
ToEnd(seq)     == (monitor.end_seq - seq) % SeqSize

\* time_to_seq: the oldest of what the streams answer.  start, if it is not
\* -1, is the number that DATA names: the later one counts.
TimeToSeq(it, start, filter) ==
  LET seqs   == {StreamTimeToSeq(monitor.stream_map[s], it) : s \in Matching(filter)}
      close  == {q \in seqs : FromBegin(q) < FromBegin(monitor.end_seq)}
      found  == IF seqs = {} THEN monitor.end_seq
                ELSE IF close = {} THEN monitor.begin_seq
                ELSE CHOOSE q \in close : \A p \in close : FromBegin(q) <= FromBegin(p)
  IN  IF start >= 0 /\ ToEnd(start) < ToEnd(found) THEN start ELSE found

\* StreamMonitor::time_cmp
StreamTimeCmp(sm, it) ==
  IF it < sm.begin_time THEN -1
  ELSE IF it > Last(sm.segments).end_time THEN 1 ELSE 0

\* time_cmp: the verdict that all streams have in common, or 0.
TimeCmp(it, filter) ==
  LET verdicts == {StreamTimeCmp(monitor.stream_map[s], it) : s \in Matching(filter)}
  IN  IF Cardinality(verdicts) = 1 THEN CHOOSE v \in verdicts : TRUE ELSE 0

\* set_begin_time: the number that delivery begins with, -1 when there is
\* nothing yet.
BeginSeq(it, start, filter) ==
  IF TimeCmp(it, filter) > 0 THEN -1 ELSE TimeToSeq(it, start, filter)

\* set_end_time: the request is over already.
OverAtOnce(it, filter) == TimeCmp(it, filter) < 0

-----------------------------------------------------------------------------
(* Properties.                                                             *)

Positions == IF files = <<>> THEN {0} ELSE Head(files).seq .. EndOf(files)

\* The records of these streams on disk, each with its position.
OnDisk(filter) ==
  UNION {{[at |-> f.seq + k - 1, rec |-> f.records[k]] :
            k \in {k \in DOMAIN f.records : f.records[k].stream \in filter}} :
         f \in Range(files)}

Times == UNION {0 .. upto[s] + 1 : s \in Stream}

\* A stream of which the oldest record left follows records of other streams
\* that are deleted answers a number before the oldest one on disk.
Behind(s, it) ==
  FromBegin(StreamTimeToSeq(monitor.stream_map[s], it)) > FromBegin(monitor.end_seq)

\* time_to_seq takes such an answer for one past the end, and goes by the other
\* streams, if there are any.
Heard(filter, it) ==
  LET heard == {s \in Matching(filter) : ~Behind(s, it)}
  IN  IF heard = {} THEN filter ELSE heard

\* Of these records, those that a client wants which asks for what ends after
\* it, and is not before position start.
Wanted(records, it, start) == {r \in records : r.rec.end > it /\ r.at >= start}

\* The place to begin at is on disk, and none of these records is before it.
LeadsTo(seq, records) ==
  IF seq = -1 THEN records = {}
  ELSE \E p \in Positions : NumberOf(p) = seq /\ \A r \in records : r.at >= p

\* A client that asks for a time is led to the disk, and no record that it
\* wants lies before the place it is led to; it is led nowhere only when no
\* such record is there.  Excepted are the streams that are not heard, and an
\* answer that is no sequence number, with which an internal check ends the
\* server (do_load_headers has counted past SeqSize).  This is so across
\* deletions, restarts and wrap-around (monitor.cc:910-930, 1780-1808).
TimeFinds ==
  up => \A filter \in SUBSET Stream, it \in Times :
    LET records == OnDisk(Heard(filter, it)) IN
    \A start \in Positions \cup {-1} :
      LET seq == BeginSeq(it, IF start = -1 THEN -1 ELSE NumberOf(start), filter) IN
      seq >= SeqSize \/ LeadsTo(seq, Wanted(records, it, start))

\* TIME extracts the time window from the begin time on (seedlink.rst:255): no
\* record on disk that ends after it lies before the place the client is led
\* to.  The code does not do so when a stream is not heard (monitor.cc:1797).
ExtractsWindow ==
  up => \A filter \in SUBSET Stream, it \in Times :
    LeadsTo(BeginSeq(it, -1, filter), Wanted(OnDisk(filter), it, -1))

\* A request is over at once only when no record on disk of the streams that it
\* selects begins by its end time (set_end_time, monitor.cc:940-953).
EndsOnlyEmpty ==
  up => \A filter \in SUBSET Stream, it \in Times :
    OverAtOnce(it, filter) => \A r \in OnDisk(filter) : r.rec.begin > it

=============================================================================
