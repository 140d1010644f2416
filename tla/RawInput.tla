------------------------------- MODULE RawInput -------------------------------
(***************************************************************************)
(* How a channel of a station becomes records (class Station, seedlink.cc; *)
(* Node, SPClock and Backfilling, sproc; Steim2Encoder; MSEEDFormat).  A   *)
(* plugin gives samples with a time, samples that continue the previous    *)
(* ones, gaps and flushes, or miniSEED records.  Packets that are ahead of *)
(* time wait in the backfilling buffer; samples go through the encoder,    *)
(* which collects them into words and words into a record.                 *)
(*                                                                         *)
(* The unit of time is the sample period.  A sample is <<id, t>>: its      *)
(* number, and the time that the plugin meant it to have.  The channel has *)
(* an encoder of its own, and no filter in front of it.  Samples are all   *)
(* of a size of which Spw fill a word.                                     *)
(***************************************************************************)
EXTENDS Integers, Sequences, SequencesExt

CONSTANTS
  Times,      \* bound: the times that a plugin gives
  MaxInputs,  \* bound: packets from the plugin
  Sizes,      \* bound: samples in a packet
  Words,      \* words in a record (15 frames of 15 words, less two)
  Gap_flush,  \* proc_gap_flush, in samples
  Modes       \* the settings considered

\* kind: miniSEED records or raw samples; capacity: of the backfilling buffer,
\* 0 for none; timed: every packet has a time; own: the input belongs to the
\* plugin's stream processor, and not to the station's; spw: samples per word.
Mode == [kind: {"mseed", "raw"}, capacity: Nat, timed: BOOLEAN, own: BOOLEAN,
         spw: 1..7]

ASSUME RawAssumption ==
  /\ Times \subseteq Nat /\ MaxInputs \in Nat /\ Sizes \subseteq Nat \ {0}
  /\ Words \in Nat \ {0} /\ Gap_flush \in Nat \ {0} /\ Modes \subseteq Mode

VARIABLES
  mode,     \* the settings of this behaviour
  clk,      \* the clock of the input and its encoder, and its last gap
  enc,      \* the encoder: samples not yet in a word, and its current record
  bf,       \* the backfilling buffer of the input
  out,      \* the records committed
  ended,    \* the station has been flushed
  next,     \* history: the time that the plugin means the next sample to have
  given,    \* history: the samples given
  excused,  \* history: those that came late or overlapped what was waiting
  inputs    \* what MaxInputs bounds

vars == <<mode, clk, enc, bf, out, ended, next, given, excused, inputs>>

None == -1

Abs(n) == IF n < 0 THEN -n ELSE n

-----------------------------------------------------------------------------
(* The encoder.  The operators work on a record of clk, enc and out.       *)

State == [clk |-> clk, enc |-> enc, out |-> out, bf |-> bf]

\* queue_packet: the record is committed, with the label of its beginning.
Queued(s) ==
  [s EXCEPT !.out = Append(@, [label |-> s.enc.label, samples |-> s.enc.data]),
            !.enc = [s.enc EXCEPT !.open = FALSE, !.words = 0, !.data = <<>>]]

\* Mutant: the samples that wait are left out of the time of the record.
Opened_NoPending(s) ==
  IF s.enc.open THEN s
  ELSE [s EXCEPT !.enc = [s.enc EXCEPT !.open = TRUE, !.label = s.clk.time]]

\* get_packet: a record is begun, and is given the time of the first sample
\* that waits, reckoned back from the clock.
Opened(s) ==
  IF s.enc.open THEN s
  ELSE [s EXCEPT !.enc = [s.enc EXCEPT !.open = TRUE,
                                   !.label = s.clk.time - Len(s.enc.pending)]]

Full(e) == e.words = Words

\* update_packet: the samples that wait make a word; a full record is queued.
Word(s) ==
  LET o == Opened(s)
      e == [o.enc EXCEPT !.data = @ \o o.enc.pending, !.pending = <<>>,
                         !.words = @ + 1]
      w == [o EXCEPT !.enc = e]
  IN  IF Full(w.enc) THEN Queued(w) ELSE w

\* send_data for one sample, of the node and of its encoder.
Sample(s, x) ==
  LET p == [s EXCEPT !.enc.pending = Append(@, x), !.clk.time = @ + 1]
  IN  IF Len(p.enc.pending) = mode.spw THEN Word(p) ELSE p

Samples(s, data) ==
  LET after[k \in 0..Len(data)] == IF k = 0 THEN s ELSE Sample(after[k - 1], data[k])
  IN  after[Len(data)]

\* Mutant: the record that has been begun is not queued.
Flush_Pending(s) == IF s.enc.pending # <<>> THEN Word(s) ELSE s

\* Node::flush, Steim2Encoder::flush; reset does the same to an encoder.
Flush(s) ==
  LET w == IF s.enc.pending # <<>> THEN Word(s) ELSE s
  IN  IF w.enc.open THEN Queued(w) ELSE w

IsGap(n) == Abs(n) >= Gap_flush

FlushAtGap(s) == IF IsGap(s.clk.gap) THEN Flush(s) ELSE s

\* SPClock::set_time; the first time that is set makes no gap.
SetTime(s, t) ==
  [s EXCEPT !.clk = [time |-> t,
                     gap |-> IF s.clk.time = None THEN 0 ELSE t - s.clk.time]]

\* SPClock::add_ticks
AddTicks(s, n) == [s EXCEPT !.clk = [time |-> @.time + n, gap |-> n]]

\* commit_data, with the time set before the gap is looked at; commit_mseed.
CommitData(s, t, data) ==
  IF mode.kind = "mseed"
  THEN [s EXCEPT !.out = Append(@, [label |-> t, samples |-> data])]
  ELSE Samples(FlushAtGap(SetTime(s, t)), data)

-----------------------------------------------------------------------------
(* The backfilling buffer.                                                 *)

\* A packet, known by its first sample.
PacketOf(t, data) == [id |-> data[1][1], stime |-> t, data |-> data, flush |-> FALSE]

etime(p) == p.stime + Len(p.data)

\* Mutant: a packet that ends together with another one takes its place.
Insert_Instead(b, p) ==
  Append(SelectSeq(b, LAMBDA q : etime(q) # etime(p)), p)

\* Backfilling::insert: before the first packet that ends later.
Insert(b, p) ==
  LET k == CHOOSE k \in 1..(Len(b) + 1) :
             /\ k = Len(b) + 1 \/ etime(b[k]) > etime(p)
             /\ \A j \in 1..(k - 1) : etime(b[j]) <= etime(p)
  IN  InsertAt(b, k, p)

\* commit_packet for the first packet, which is taken out of the buffer.
CommitFirst(s) ==
  LET p == Head(s.bf.buffer)
      c == CommitData([s EXCEPT !.bf.last = etime(p)], p.stime, p.data)
      f == IF p.flush THEN Flush(c) ELSE c
  IN  [f EXCEPT !.bf.buffer = Tail(@)]

OverCapacity(b) ==
  b # <<>> /\ etime(b[Len(b)]) - b[1].stime >= mode.capacity

\* Mutant: a packet that fills the gap has to fit exactly.
Fits_Exactly(s) == s.bf.buffer # <<>> /\ s.bf.buffer[1].stime = s.bf.last

\* The gap to the first packet is less than a sample.
Fits(s) == s.bf.buffer # <<>> /\ s.bf.buffer[1].stime - s.bf.last < 1

\* Commits(s)[k] is what becomes of s when the first k packets are committed.
Commits(s) ==
  LET after[k \in 0..Len(s.bf.buffer)] ==
        IF k = 0 THEN s ELSE CommitFirst(after[k - 1])
  IN  after

\* Packets are committed until the buffer is within its capacity.
Trimmed(s) ==
  LET k == CHOOSE k \in 0..Len(s.bf.buffer) :
             /\ ~OverCapacity(Commits(s)[k].bf.buffer)
             /\ \A j \in 0..(k - 1) : OverCapacity(Commits(s)[j].bf.buffer)
  IN  Commits(s)[k]

\* Packets are committed until one does not fit.
Filled(s) ==
  LET k == CHOOSE k \in 0..Len(s.bf.buffer) :
             ~Fits(Commits(s)[k]) /\ \A j \in 0..(k - 1) : Fits(Commits(s)[j])
  IN  Commits(s)[k]

\* sync_buffer
SyncBuffer(s) == Filled(Trimmed(s))

-----------------------------------------------------------------------------
(* What the plugin sends.                                                  *)

\* The next n samples, of which the first has time t.
Data(t, n) == [k \in 1..n |-> <<given + k, t + k - 1>>]

\* The packet ends before what has been committed already.
TooOld(s, p) == etime(p) < s.bf.last

Committed(s, p) ==
  CommitData([s EXCEPT !.bf.last = etime(p)], p.stime, p.data)

\* send_raw_with_time and send_mseed, with backfilling.
Backfilled(s, p) ==
  IF s.bf.last = None THEN Committed(s, p)
  ELSE IF p.stime - s.bf.last >= 1
  THEN SyncBuffer([s EXCEPT !.bf.buffer = Insert(@, p), !.bf.current = p.id])
  ELSE LET n == [s EXCEPT !.bf.current = None]
       IN  IF TooOld(n, p) THEN CommitData(n, p.stime, p.data)
           ELSE SyncBuffer(Committed(n, p))

\* Samples that come when later ones are committed, or that others waiting have
\* the time of.
Late(p) ==
  \/ bf.last # None /\ p.stime < bf.last
  \/ \E q \in ToSet(bf.buffer) : p.stime < etime(q) /\ q.stime < etime(p)

\* The handler leaves state s; the plugin goes on at time t after n samples.
Handled(s, t, n) ==
  /\ clk' = s.clk /\ enc' = s.enc /\ out' = s.out /\ bf' = s.bf
  /\ next' = t /\ given' = given + n
  /\ UNCHANGED <<mode, ended>>

Input == ~ended /\ inputs < MaxInputs /\ inputs' = inputs + 1

SendWithTime(t, n) ==
  LET p == PacketOf(t, Data(t, n)) IN
  /\ Input
  /\ Handled(IF mode.capacity > 0 THEN Backfilled(State, p)
             ELSE CommitData(State, t, p.data), t + n, n)
  /\ excused' = IF Late(p) THEN excused \cup ToSet(p.data) ELSE excused

\* A packet without a time continues the previous one.
Continues == Input /\ mode.kind = "raw" /\ ~mode.timed /\ next # None

\* append_data or a flush for the current packet, if it still waits.
WithCurrent(s, data, flush) ==
  LET b == s.bf.buffer
      c == [k \in DOMAIN b |->
              IF b[k].id = bf.current
              THEN [b[k] EXCEPT !.data = @ \o data, !.flush = @ \/ flush]
              ELSE b[k]]
  IN  [s EXCEPT !.bf.buffer = c]

\* send_raw: append_data to the current packet, or into the encoder.
SendRaw(n) ==
  LET data == Data(next, n)
      s == Samples(State, data)
  IN
  /\ Continues
  /\ Handled(IF bf.current # None THEN SyncBuffer(WithCurrent(State, data, FALSE))
             ELSE IF mode.capacity > 0 THEN [s EXCEPT !.bf.last = @ + n]
             ELSE s, next + n, n)
  /\ UNCHANGED excused

\* send_gap
SendGap(n) ==
  /\ Continues
  /\ Handled(FlushAtGap(AddTicks(State, n)), next + n, 0)
  /\ UNCHANGED excused

\* send_flush
SendFlush ==
  /\ Input /\ mode.kind = "raw"
  /\ Handled(IF bf.current # None THEN WithCurrent(State, <<>>, TRUE) ELSE Flush(State),
             next, 0)
  /\ UNCHANGED excused

\* Mutant: what waits in the backfilling buffer is forgotten.
Flushed_Encoder(s) == IF mode.own THEN Flush(s) ELSE s

AllCommitted(s) == Commits(s)[Len(s.bf.buffer)]

\* Station::flush: the buffers of miniSEED records, and the inputs of the
\* plugins' stream processors; not those of the station's.
Flushed(s) ==
  IF mode.kind = "mseed" THEN AllCommitted(s)
  ELSE IF mode.own THEN Flush(AllCommitted(s))
  ELSE s

\* The plugins are gone, and the server ends.
End ==
  /\ ~ended /\ ended' = TRUE
  /\ LET s == Flushed(State)
     IN  clk' = s.clk /\ enc' = s.enc /\ out' = s.out /\ bf' = s.bf
  /\ UNCHANGED <<mode, next, given, excused, inputs>>

Init ==
  /\ mode \in Modes
  /\ clk = [time |-> None, gap |-> 0]
  /\ enc = [pending |-> <<>>, open |-> FALSE, label |-> None, data |-> <<>>, words |-> 0]
  /\ bf = [buffer |-> <<>>, current |-> None, last |-> None]
  /\ out = <<>> /\ ended = FALSE
  /\ next = None /\ given = 0 /\ excused = {} /\ inputs = 0

Next ==
  \/ \E t \in Times, n \in Sizes : SendWithTime(t, n)
  \/ \E n \in Sizes : SendRaw(n) \/ SendGap(n)
  \/ SendFlush
  \/ End

Spec == Init /\ [][Next]_vars

-----------------------------------------------------------------------------
(* Properties.                                                             *)

Concat(seqs) ==
  LET first[k \in 0..Len(seqs)] == IF k = 0 THEN <<>> ELSE first[k - 1] \o seqs[k]
  IN  first[Len(seqs)]

\* The samples that were committed or are in the encoder, in their order.
Emitted ==
  Concat([k \in DOMAIN out |-> out[k].samples]) \o enc.data \o enc.pending

Waiting == Concat([k \in DOMAIN bf.buffer |-> bf.buffer[k].data])

\* The plugin is one for which nothing is known to be amiss: it does not make
\* packets without time continue packets that wait.
Plain == mode.timed \/ mode.capacity = 0

\* No sample is lost or given out twice on its way from the plugin through the
\* backfilling buffer and the encoder into the records.
Conserved ==
  Plain => /\ Len(Emitted) + Len(Waiting) = given
           /\ {x[1] : x \in ToSet(Emitted \o Waiting)} = 1..given

\* A record does not run across a gap or an overlap that is to be flushed at.
\* (Explicit gaps may add up to one.)
NoGapInside ==
  mode.timed => \A r \in ToSet(out) : \A k \in 1..(Len(r.samples) - 1) :
             ~IsGap(r.samples[k + 1][2] - r.samples[k][2] - 1)

\* A record of a word or more has the time of its first sample, but for the gaps
\* between the samples of a word, each too small to flush at.  A shorter record,
\* which a flush at a gap has ended, has a time from after the gap: the clock has
\* been set before the encoder is flushed.
LabelOfWord ==
  mode.timed => \A r \in ToSet(out) :
    Len(r.samples) >= mode.spw =>
      Abs(r.label - r.samples[1][2]) <= (mode.spw - 1) * (Gap_flush - 1)

\* Backfilling puts packets into order: a sample that is committed behind a later
\* one came when it was too late, or overlapped others.
InOrder ==
  mode.timed /\ mode.capacity > 0 =>
    \A k \in 1..(Len(Emitted) - 1) :
      Emitted[k][2] > Emitted[k + 1][2] =>
        {Emitted[k], Emitted[k + 1]} \cap excused # {}

\* An end leaves nothing behind in a buffer or in an encoder, but for the stream
\* processor of the station.
NothingLeft ==
  ended /\ (mode.own \/ mode.kind = "mseed") =>
    bf.buffer = <<>> /\ enc.pending = <<>> /\ ~enc.open

\* descriptions/seedlink.rst: samples without a time follow the previous ones.
NoneForgotten == Len(Emitted) + Len(Waiting) = given
=============================================================================
