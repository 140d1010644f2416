# A verification of the SeedLink server

This directory holds TLA+ models of the SeedLink server of this repository
(`src/apps/seedlink`) and of the chain plugin that copies another server's records
(`src/plugins/chain_plugin`), the TLC configurations that check them, and theorems
about them that TLAPS proves. `PROJECT.json` lists the components, the runs,
the mutants, the source lines of every definition, the findings and the
hazards.

    tlc -workers 2 -config MCStationIO_history.cfg MCStationIO
    tlapm StationIO_proofs.tla

## The system

The server reads records of seismic data from plugin processes, keeps the
newest ones of each station in memory and more of them in files, and sends them
to TCP clients. It is **one thread**: the main loop
(`ConnectionManagerImpl::start`) calls `IOHandler`, which reads the plugins,
then `select`, then accepts a client and lets each connection read a command or
write a packet. Every handler runs to its end; what interleaves is the order of
the handlers.

| part | state | operations | what is hard |
|---|---|---|---|
| `BufferStoreImpl` (iosystem.cc 278-514) | a doubly linked list of buffers; `buf_head`, `buf_free`, `buf_first`, `buf_queue`, `seq` | `get_buffer`, `queue_buffer`, `next_buffer`, `enlarge` | buffers are taken in one order and queued in another; callbacks into StationIO in the middle; enlarging a full pool |
| `FileStore` (520-746) | segment files, oldest first | `get_file`, `store`, `restore_state` | deletes the oldest file under its readers; a crash leaves it short |
| `StationIO` (1242-1989) | `seq_long`, `curfb`, the attached clients | `new_buffer`, `delete_oldest_buffer`, `delete_oldest_segment`, SELECT/DATA/FETCH/TIME, `save_state`, `restore_state` | a client's place must stay valid while both stores drop records; 24-bit numbers wrap; recovery after a crash |
| `StationConnection` (1016-1231) | `buffer_queue`, `file_queue`, `readfd`, `seq`, `active`, `ready` | `do_deliver` | the change from files to memory; when to sleep and who wakes it up; END |
| `Connection` (1995-2502) | the requested stations, `current_station`, `have_response`, `handshaking_done`, counts of active and ready stations | the commands, `deliver` | pipelined commands, commands during the transfer, the counts, the rounds |
| `ConnectionManagerImpl` (2508-2869) | `connections`, `nconn_per_ip` | `client_connect`, `client_disconnect`, `start` | refused clients are counted |
| `Fdset` (iosystem.h) | which sockets may be read and written | `set_write`, `set_write2`, `sync` | the throttle clears a bit that the next turn sets again |
| monitors (monitor.cc) | selectors, time windows, for each stream an index of the disk | `match_packet`, `add_packet`, `new_segment`, `delete_oldest_segment`, `time_to_seq`, `time_cmp`, INFO | the index follows the files by three calls, survives in buffer.xml or is built anew; distances of numbers modulo 2^24 |
| `Plugin`, `IOHandler` (seedlink.cc 280-633, 1879-2004) | child processes, timers | start, timeout, retry, kill, terminate | timers against exits of the child, termination |
| `Station`, backfilling (673-1275) | packets held back to be put in order | `send_mseed`, `send_raw`, `sync_buffer`, `flush` | commit once and in order |
| stream processors, encoders (sproc.cc, steim*.cc, mseed.cc) | a clock for each input; samples that make no word yet, words that make no record yet | `send_data`, `flush`, `reset` | the time of a record is reckoned back from the clock; signal processing |
| chain plugin (chain_plugin.cc, libslink) | a child process for a group of stations, its connection, the state file, the pipe between child and main process, a table of start times | `sl_collect`, `open_connection`, `check`, `check_overlap`, `process_slpacket`, `shutdown` | three processes, each of which may go away at any moment; only the state file survives; what is asked for again must be recognised |

Calls go down this way: `IOHandler` → `Station` → encoder → `BufferStore`
(`get_buffer`, `queue_buffer`) → `StationIO` (callbacks) → `FileStore` → back to
`StationIO` (`delete_oldest_segment`) → the clients. The chain plugin is one of the
programs that `IOHandler` reads: remote server → child → pipe → main process → pipe →
`IOHandler`. The clients' sockets call
`Connection` → `StationIO` (commands) and `Connection` → `StationConnection`
(`do_deliver`).

What makes each part correct:

* the pool: it stays a list, the readable records are consecutive, no reader
  stands at a buffer that is being filled, no internal check fails;
* the two stores: what is in memory is on disk, the files are a row without a
  gap, a number is not given to two records that a client has seen;
* delivery: in order, nothing selected is passed over while it is on disk, each
  packet under its own number, END after everything, and no client left asleep;
* TIME: a client begins no later than at the first record it wants, and is not told
  that all is over while a record of its window is there;
* a connection: each command is answered and is for the station that was
  named, the counts are right, the stations take turns, END comes when all have
  ended;
* admission: the limits hold, and nobody is refused without reason;
* input: no sample is lost or doubled between plugin and record, none is put before
  an earlier one without need, and a record has the time of its first sample and no
  gap inside;
* the chain plugin: the copy has no gaps but for reasons that have a name, nothing
  comes twice unless the state was lost, overlap removal never goes back, everything
  arrives, and an end comes;
* plugins: one child at a time, everything it wrote is read, a plugin that ended
  comes back, and one that is told to end for good is gone.

## The modules

| module | models | uses |
|---|---|---|
| `RecordWindow` | abstract: a window `lo .. hi-1` of newest records in a pool of `size` buffers, in a server that is starting, up or down; while it is up, a record leaves in one way only (`Take`: an encoder needs a buffer and none is free) | |
| `BufferStore` | `BufferStoreImpl`, its list pointer by pointer, `Station`'s calls of `enlarge`, one reader | implements `RecordWindow` |
| `StationIO` | `StationIO`, `StationConnection`, `FileStore`, crashes and recovery | implements `RecordWindow`, in place of the list |
| `TimeIndex` | the index of segments in `StationMonitorImpl` and `StreamMonitor`, with the files, buffer.xml and crashes | the files as in StationIO |
| `Connection` | `Connection` with several stations | StationIO's queues are counters |
| `ConnectionManager` | admission and shutdown | |
| `PluginSupervisor` | `Plugin` and `IOHandler`: children, pipes, timers, signals | |
| `RawInput` | one channel of a `Station`: clock, backfilling buffer, encoder and records | |
| `Chain` | the chain plugin: remote server, connection, child, state file, pipe, main process | |
| `StationIO_proofs` (the stores and their clients), `TimeIndex_proofs`, `BufferStore_proofs`, `ConnectionManager_proofs`, `PluginSupervisor_proofs`, `Chain_proofs`, `Connection_proofs`, `RawInput_proofs` | theorems | |
| `MC*` | model values and symmetry for TLC | |

**StationIO.** A record is named by its position in the station's history, the
value of `seq_long` when it was stored; its number on the wire is that position
modulo `SeqMod` (2^24 in the code). `rec` is the history, and the memory is the
window `lo .. seq_long - 1`, which `BufferStore` justifies. `files` is the disk.
A client's `buffer_queue` and `file_queue` are the record and the file at which
it stands; `readfd` is the position in an open file as a record. `sx.seq` is the
code's counter, which the code compares with the queued buffer to find the
moment to change from files to memory; it is kept apart from the position, as
the two can differ (see the findings).

* `GetBuffer`, `QueueBuffer`: an encoder, with the callbacks into the clients.
* `Select`, `BadData`, `DataNext`, `DataAll`, `DataFrom`, `SendResponse`, `End`:
  commands. A client waits for the answer to a command before it sends the next.
* `DeliverFromFile`, `DeliverFromMemory`, `DeliverNothing`: one call of
  `StationConnection::deliver`, whose loop over `do_deliver` skips the records
  that do not match, changes files and changes to memory. The loop is one
  handler and so one action, stated by where it ends.
* `Terminate`, `Crash`, `Restart`, `CreateBlank`: the life of the process. A
  crash loses at most `MaxLost` of the newest records, of those stored since
  the last start, and always whole records. A `buffer.xml` that cannot be read
  is like a missing one.

`discard` is left out: it matters only when a record is sent in several parts,
and `do_deliver` always sends 512 bytes, the size of a record.

**TimeIndex.** `monitor` is a `StationMonitorImpl`: the ends of its range of numbers,
the count of segments, and for each stream where and when it begins and, for each
segment file, where and when its records in this file and the earlier ones end.
`Stored` is `StationIO::new_buffer` up to its clients: it begins a file when the last is
full, for which the oldest is deleted and the index told (`DeleteOldestSegment`), then
`NewSegment`, then `AddPacket`. `Terminate` saves the index, `Crash` loses the newest
records, and `Restart` reads buffer.xml (`Readable` if its numbers are numbers) or the
headers of all records (`LoadHeaders`, which counts numbers up without taking them
modulo 2^24), and makes blank records. What a client asks is an operator, as it changes
nothing here: `TimeToSeq`, `TimeCmp`, and from them `BeginSeq` (`set_begin_time`) and
`OverAtOnce` (`set_end_time`). `stream_check` is enabled; the records of a stream come in the
order of time, as an archive in which they do not has no first record after a time.
The history may begin with blank records (`Before`), so that the numbers wrap soon.

**BufferStore.** `prevptr` and `nextptr` are functions on buffers, and
`InsertAfter` and `Remove` do what the code's two functions do. Each stream holds
one buffer and one more may be in use for a moment; `minbufs` grows by three for
each stream. A failing `internal_check` sets `failed` and stops everything.

**Connection.** `todo` counts the records that a station has still to send as far
as its queues lead. `SendPacket` and `SendNothing` are one call of
`Connection::deliver`: the round from `current_station` on. `client` is a history
of what the client asked for and got. Records that the storage drops are not
taken from `todo`.

`Clients` are the kinds of client: the stations and modes each uses, a bound on its
commands, and its `habits`, what it does against the protocol (seedlink.rst,
Handshaking): it *pipelines* commands, or *interrupts* the transfer with commands
other than CAT and INFO. One behaviour is left out even then, since the code
gives it no sensible meaning: a command for the current station during
a multi-station transfer without naming a station first, which is for whatever
station the round stands at; it is in the list of hazards. STATION after a DATA in uni-station
mode is modelled: it gives up the default station and takes it from `stations_ready` but
not from `stations_active` (iosystem.cc 2233), which stays too high by one until the
connection ends, so that END never comes. The history variable `abandoned` says that this
has happened; `CountsMatch` says by how much the count is wrong then.

**PluginSupervisor.** `pl` holds the fields of the `Plugin` objects, with `pid`
for `pid > 0` and a timer for its having expired (`ReadTick`, `RetryTick`,
`ShutdownTick` let time pass), `os` what the operating system knows: the child, the
number of children not waited for, and the pipe with at most one packet in it.
`Serve` is what one turn of the main loop does with one plugin: `Plugin::read` until
it has nothing more, then the removal from the list. Its four cases are the paths
through `Plugin::read`: `Waits` and `Starts` for a plugin without a child, `Reaps`
when `waitpid` returns it, `Reads` otherwise. As a turn skips plugins that have
nothing to say, a step may serve any plugin at any time. `Exit` may leave a process behind that
keeps the pipe open, as the child is a shell. `sigterm_sent`, which the code only
writes, is what `KillAfterTerm` needs.

**ConnectionManager.** As in the code; an entry that is missing from the map is 0.

**RawInput.** The unit of time is the sample period, and a sample is its number with
the time that the plugin meant it to have, so that a record's label can be compared
with the times of what is in it. The encoder and the buffer are operators on a record
of states (`State`), as one packet from the plugin may commit several waiting ones and
fill several records: `Word` is the end of a word in `Steim2Encoder::send_data`, `Flush`
the end of a record before it is full, `CommitData` the code's `commit_data` (the
clock is set *before* the encoder is flushed at a gap), `Trimmed` and `Filled` the two
loops of `sync_buffer`, each by the number of turns it takes: `Commits(s)[k]` is what the first
`k` turns make of `s`. The actions are what a plugin may send: `SendWithTime`,
`SendRaw`, `SendGap`, `SendFlush`, and `End`, the flush of the station when the server
ends. `timed` says that each packet has a time. All samples take the same number of bits
(`spw` of them make a word), and there is no filter in front of the encoder.

**Chain.** One group with one station and one stream; records are numbered from 0. The
remote server keeps the newest `Hold` records (`lo .. hi - 1`) and answers a request for
a number it does not hold with its oldest or its next one, both of which servers do.
`net` is what the connection and the buffer of `sl_collect` hold, `pipe` what the child
has written and the main process not read. `Collect` is one turn of the child's loop:
a record is returned, its number becomes `stream->seqnum`, it is written to the pipe,
and if the timer has expired the state is saved. `WriteFails` is that turn with a
failed write: the number is counted down, but nothing is saved (`r` is still `SLPACKET` at
chain_plugin.cc 1297), so the state file is older than it could be and the record is
asked for again. `Reap`, `ConfirmShutdown`, `OpenConnection` and `KillConnection` are the
parts of `StationGroup::check`; `Later`, `Drops` and `EntryAfter` are `check_overlap`,
with the code's times in microseconds and numbers modulo 1000000 (`Second`, `RecnoMod`).
`MainGone`, `Crashes` and `ServerGone` take a process away; `MainStarts` is the server that
starts its plugin again, and `Timetable` what load_timetable then finds.

Assumed in `Chain`: the group has a lockfile, so that a child does not start while the
last one runs; the server starts a main process when the previous one is gone; the
state file is read and written in one step, except that a kill may leave it truncated;
numbers do not wrap; what is passed on to a server that reads is stored; records of a
stream are at least a second apart; `standby`, `netdly` and `netto` are positive.
The configuration allows them to be 0 (chain_plugin.cc 2771-2779), and such a timer never
expires (chain_plugin.cc 1367, slutils.c 352, 382): a child is then not started again, a
connection not made again, or a stalled one not given up, and `Arrives` does not hold.
`ShutdownEnds` rests on the shutdown timer only, which is always 10 seconds (line 73).

## The runs

| run | question | bounds |
|---|---|---|
| `station_history` | a client, uni- or multi-station, reads while records are stored and deleted, numbers wrap, and the server ends, crashes and recovers: its place stays valid (`QueuesValid`) and never goes back (`FIFO`), packets carry the number of their record (`LabelsRecord`), the disk stays a row (`FilesInv`) that covers the memory (`DiskCoversMemory`), numbers are not given twice (`NumbersNotReused`), and `RecordWindow` is implemented | 4 buffers, 3 files of 2 records, `SeqMod` 11, 12 records, 2 restarts, 2 lost records, 2 blanks |
| `index_time` | for every selection, every time and every start number: TIME and DATA with a begin time lead to the disk, not past a record that is wanted (`TimeFinds`), and END comes at once only when nothing begins by the end time (`EndsOnlyEmpty`) | 2 streams, 3 files of 2 records, `SeqSize` 13, 7 records after 0 or 8 blank ones, 2 restarts, 1 lost record, 1 blank |
| `station_live` | a uni-station client with selectors, in both modes, gets everything (`DeliversAll`, `NoneSkipped`), and END comes after all (`EndMeansAll`) | 2 kinds of records, 5 records |
| `pool_pool` | the list (`ListIntact`, `ReaderInWindow`, `NeverFails`), and `RecordWindow` is implemented | pool grows from 3 to 6 buffers, 10 records |
| `connection_rounds` | counts, turns and addressees (`CountsMatch`, `TakeTurns`, `OnlyIntended`), answers (`Answered`) and ends (`EndWhenDone`, `EndAfterAll`, `EndComes`) | three clients: 3 stations and 7 commands; 2 stations, 6 commands and both bad habits; 2 stations, 6 commands, all modes and interruptions; 2 records arrive |
| `clients_limits` | `CountsOpen`, `RefusedOnlyWhenFull` | 5 clients, 2 addresses, limits 3 and 2 |
| `plugins_supervise` | `OneChild`, `NothingLost`, `Restarted`, `ToldGoes` | 2 plugins, one with all timers and one with none, 2 packets, one SIGHUP |
| `raw_records` | no sample is lost or doubled (`Conserved`), samples stay in order (`InOrder`), no record runs across a gap (`NoGapInside`) or has a wrong time (`LabelOfWord`), and the end leaves nothing behind (`NothingLeft`) | 5 packets of 1 or 2 samples, 5 times, records of 2 words, words of 2 or 3 samples, capacity 4, a gap is 2 samples; four settings |
| `chain_copies` | the copy (`NoGap`, `AgainOnlyAfterLoss`, `NeverBack`), the state file (`SavedAtEnd`), progress (`Arrives`, `ShutdownEnds`) | 3 records of which the remote server keeps 2, 2 in the connection, 2 in the pipe, 3 failures; four settings |

The bounds are small and let the cases happen: in each station run the memory
drops records that are still on disk, the disk drops files in which a client
reads, and in `station_history` the numbers wrap while the stores hold both sides.
One client is enough in the station runs: a client reads the stores and never changes
them, so that what two clients do is what each does alone.
`SeqMod` is always larger than the two stores together, as 2^24 is. `NoneSkipped`
is checked without a wrap: `sx.seq` keeps its value while a client that
is not served is moved from file to file, so one that sends nothing for a whole cycle of
2^24 records may meet a queued buffer with the same number, change to memory there and
pass over records that are still on disk (`station_history` with
`PROPERTY NoneSkipped` shows it). The smallest
values of the configuration (10 buffers, 2 segments of 10 records) are scaled
down. In `raw_records` the times leave gaps of one, two and three samples and let
packets come late, fill a gap and overlap; two or three packets wait together. In
`index_time` the oldest file is deleted and the numbers wrap in the middle of a file; with
2 files instead of 3 a stream never has a segment without a record of its own. In
`chain_copies` three failures are enough for a child, a main process and a server to go
away one after the other, and the remote server gives up a record before it is read.
A run that bounds the records stops when they are used up, and encoders
that may still take buffers do so; `clients_limits`, `plugins_supervise`, `raw_records`, `chain_copies` and `index_time`
come to a rest when the server has stopped, the station has been flushed, everything has
been copied or no record arrives any more, so only they, `raw_continued` and
`index_window` allow deadlock.

### Findings

Three runs expect a violation; each shows where the code differs from what the
documentation or an assertion says.

| run | what happens |
|---|---|
| `pool_enlarge` | enlarging the pool while every buffer holds a record puts uninitialized buffers between the readable ones; a reader's check then ends the server |
| `raw_continued` | with backfilling, a packet without a time is appended to the last packet that had one, also when that one has been committed and taken out of the buffer: its samples are lost |
| `index_window` | TIME skips records: a stream whose last record in a deleted file was not the last one of that file answers a number before the oldest record on disk, its distance modulo 2^24 is almost a full cycle, and delivery begins where the other selected streams say |

The passing runs state the conditions under which the properties hold:
`DiskLargeEnough` (all files but one hold at least as many records as the
memory, which the configuration does not ensure, seedlink.cc 1413: otherwise a client
whose file is deleted misses the change to memory and gets old records again),
`MaxLost <= BlankBufs` and one record surviving a crash
(`MinSurvive`: when none does, `restore_state` takes the station for a new one,
makes no blank records and starts the numbers at 0 again), `EnlargeFull = FALSE`,
uni-station clients in `station_live` (a record that arrives between the DATA and the
END of a multi-station client is put into its queue, but as `handshaking_done` is not
set yet the station does not become ready, iosystem.cc 1356, nor at END: the record waits
for the next one; `station_live` with `Handshake = {TRUE}` shows it),
stations that were found ready in `EndComes` (a FETCH that leaves a station
not ready gets its END only when a new record arrives), and connections that have not
given up an active default station (`~abandoned`) in `EndWhenDone` and `EndComes`: their
`stations_active` does not reach 0 (iosystem.cc 2233, 1175), and TLC finds both violated without it.
For TIME: streams that `time_to_seq` does not hear, as in `index_window`, are left out of
`TimeFinds` when others are selected too; so are answers that are no numbers:
`do_load_headers` counts past 2^24 (iosystem.cc 1877), so that after a crash a stream that
first appears behind the wrap in a file begins at such a number, and a client whose TIME
gets it makes the check in `Sequence` (line 200) end the server.
For the input: a record shorter than a word, which the flush at a gap has ended, has a
time from after the gap, since the clock has been set already (`LabelOfWord`
leaves it out); explicit gaps that are each too short to flush at add up
(`NoGapInside` is about packets with times); and `Station::flush` does not visit the stream
processor of the station itself, so that its last samples stay in the encoder
(`NothingLeft` leaves it out).
For the chain plugin: a record that is gone from the remote server before it was asked
for, one skipped because the state file was lost, and one that was in the pipe when the
main process or the server went away are missing from the copy; `NoGap` says that nothing
else is. `NeverBack` needs full overlap removal and a timetable; without them a
restart may pass records on again. `SavedAtEnd` and `AgainOnlyAfterLoss` are about children
that came to save their state.
For the plugins: `Restarted` needs all three timers, as a process left behind may
keep the pipe open and only the read timeout notices it; `ToldGoes` is about a
plugin that runs when the server is told to terminate, needs a `shutdown_wait`, and
needs the plugin to stop sending invalid packets some day, each of which restarts
the shutdown timer. That the server ends is not a property of the code: a plugin
without a child whose retry timer expires in the turn in which the signal is seen is
started once more, and nobody tells the new child to end (seedlink.cc 398, 543).

### Fairness

`FairSpec` of StationIO asks for weak fairness of the answers and of delivery
for each client, that of Connection for weak fairness of `deliver`. The main
loop never stops turning while the server runs, `fds.sync` in each turn
(or, with a throttle, when its timer has expired) makes the sockets that have
something to write writable again, `deliver` clears the bit only when there is
nothing to send, and a client that reads its socket makes room in it. No fairness
is assumed of encoders, clients, crashes or restarts: records may stop arriving,
and nobody has to send another command. That of PluginSupervisor asks that the
main loop sees signals and serves each plugin (`select` waits a tenth of a second
at most, and all plugins are served once a second), that time passes for each
timer, and that a child dies of SIGKILL; children need not do anything else.
`FairSpec` of Chain asks that the two peers of a connection go on, that the child collects
and writes, that the timers, which are positive, expire, that the main process turns, and that the server starts a
plugin that is gone. A child that was sent SIGTERM may hang: its exit is fair only when there is
no main process left to kill it. No fairness is assumed of failures, nor of new
records.

## The proofs

`StationIO_proofs` (for every value of the constants that `StationAssumption`
allows):

* `Invariance`: `StoreTypeOK`, `WindowInv` and `FilesInv` hold in every state. The
  invariant is inductive as it is. `FilesInv` says that the files are a row of
  full files of which only the last may be shorter, and which ends with
  `seq_long`. The lemmas `RowGrows`, `RowAppends`, `RowTail` and `RowCut` say what a
  store, a new file, a deletion and a crash do to a row; `WindowInv` needs
  `LoadPoint`, that the record from which `restore_state` loads is at most `NBufs`
  before the end, which rests on the numbers being unique among the files
  (`NumberIsUnique`, from `SeqMod` being larger than the disk).
* `DiskCovers`: with `DiskLargeEnough`, a record in memory is on disk. The
  invariant `DiskLo <= lo` is not inductive without `Invariance`: when a file is
  deleted, `WindowInv` bounds how far back the memory goes, and `FilesInv` how far
  back the remaining files go. The findings say what happens otherwise.
* `Refinement`: `StationIO` implements `RecordWindow`, step by step. What the memory may
  lose depends on the phase of the server: while it is up, only `Take` drops a record, the
  oldest one, and only when every buffer that no encoder has holds one; blank records push others
  out before it is up (`Make`); the process takes all of them with it (`Stop`), and the
  next one loads the newest on disk (`Start`). `CrashLoses` says that a crash
  leaves a position that there has been.

The same module, on top of these, about the clients of a station:

* `PlacesValid`, `LabelsRight`: `QueuesValid` and `LabelsRecord`, without any assumption on
  the sizes of the stores. The inductive invariant `ClientInv` adds to them that clients
  without a connection have no subscription, and that where a file is open `sx.seq` is the number of
  the record at the place in it (`Fits`). Each step of the stores moves clients in the callbacks;
  `StepCases` says that for every client a step is one of six things (it loses its
  buffer, its file or the subscription, a record arrives, it subscribes, it is served), and one
  lemma for each says what holds after it. `FileDelivers`, `MemoryDelivers` and
  `NothingDelivered` say where the loop of `deliver` may end, which passes over any number of
  records and files.
* `FirstInFirstOut`: `FIFO` with `DiskLargeEnough`. `TurnInv` adds (`InTurn`) that neither place of
  a client is before the record it is due nor the one in memory before the one in the files; a
  client whose file is deleted goes to the next one, and that is not after its buffer
  because the disk without its oldest file still covers the memory. It also says (`AtFile`)
  which numbers a client may have that has not opened its file yet.
* `SkipsNothing`, `EndIsTheEnd`: the action properties `NoneSkipped` and `EndMeansAll`, with
  `DiskLargeEnough` and as long as the numbers have not wrapped (`NumbersFresh`, a
  hypothesis about the behaviour). `MissedInv` adds that what lies between the record that is due and
  the place is not selected or no longer on disk. Without `NumbersFresh` the proof
  fails, for the reason given under the runs: after `delete_oldest_segment` a
  subscription keeps the number of a record in the deleted file, and `do_deliver` compares
  it with the queued buffer's (iosystem.cc 1097) before it opens the next file.
* `NumbersStayNew`: `NumbersNotReused`, when a crash loses no more records than blank ones are
  made and one survives (`BlanksSuffice`). The invariant `Ahead` follows what clients have
  seen through crash, loading and blank records.

`BufferStore_proofs`, for any size of the pool and any streams, with `EnlargeFull = FALSE`
(the run `pool_enlarge` shows what happens otherwise):

* `ListStaysIntact`, `ReaderStaysInWindow`, `ChecksHold`: `ListIntact`, `ReaderInWindow` and
  `NeverFails`. The inductive invariant `PoolInv` says that there is an order `s` of all the
  buffers of which `nextptr` and `prevptr` are the neighbours (`Linked`), and that in this
  order come first the `f-1` buffers of the encoders, then `buf_free`, and last the
  `r` readable records with their numbers (`Parts`). `Moved` says that taking a
  buffer out and inserting it at the end moves it to the end of the order, `Inserted` and
  `Allocated` that `enlarge` puts the new ones behind `buf_free`; with pointers, each is a case
  for every position near the one that changes. `Basics` has the arithmetic of three
  buffers for each stream: there always is a buffer left after `buf_free`.
* `ListImplementsWindow`: the list implements `RecordWindow`, step by step and in the same
  phases (the list is loaded once, before the server is up), so that
  `StationIO` may read from the window in place of the list. `AfterIs` and `ChainIs`
  say what walking along `nextptr` finds, and `NextNumber` is the arithmetic modulo
  `SeqMod`.

What the recursive functions `After` and `Allocate` compute is proved by induction: a
set of natural numbers has a least element (`LeastNat`, from `WFMin`), and a
recursive function is unfolded as the choice of a solution of its equation (`Walk`,
`AllocateUnfolds`).

`ConnectionManager_proofs`:

* `Invariance`: types, `CountsOpen` and `WithinLimits`. `CountsOpen` is what makes
  `WithinLimits` inductive: the count of an address is cut to the limit when a
  client leaves, and only with the clamp is it the number of open connections.
* `NoUnjustRefusal`: the action property `RefusedOnlyWhenFull`.

`PluginSupervisor_proofs`, for any plugins and settings and any number of packets
and signals:

* `Invariance`: types, `OneChild`, `KillAfterTerm`, `NoneLeft`. The invariant `Sound`
  adds what `Plugin::read` relies on from one call to the next: a request to end
  means that the child has been sent SIGTERM, an active child has not been waited
  for, and a child that was found inactive has nothing more to say (`Quiet`), unless it
  was killed or has sent nonsense. One lemma for each path through `Plugin::read`
  says that it keeps `Sound`.
* `AllIsRead`: the action property `NothingLost`, from `Quiet`.

`Chain_proofs`, for any number of records and failures, any room in the connection and
the pipe, and any times that are a second apart:

* `CopyInvariant`: types and `CopyInv`, the inductive invariant. What is *known* is what has
  been passed on or is missing for one of the three reasons. `ChildSide` says that all up to the
  state file, and all up to the child's number, is known or in the pipe, and that what is in
  the connection continues that without a gap; `PipeSide` that what is in the pipe continues
  what is known; `TableSide` that the overlap entry is the end of a known record. The
  last is needed since an overlap that is dropped must be known (`DroppedKnown`): dropping a
  record that was not would be a gap. `Covered` (all up to n) and `Chained` (each record's
  predecessors are there or before it in the sequence) are the two notions that every step
  is about; the lemmas on them say what taking, appending and cutting do.
* `CopyHasNoGap`, `StateFileIsBehind`: `NoGap` and `StateBehind`, from it.
* `NoReturn`: the action property `NeverBack`. `Strict` in `TableSide` carries it: from the
  timetable on there always is an entry, later than the last record
  (`AcceptedNotBefore`).
* `OnceOnly`: `AgainOnlyAfterLoss`, from a second invariant: as long as no state has been lost,
  what was passed on, what is in the pipe, the child's number and what is in the
  connection are in the order in which they were produced (`InTurn`).
* `SavedWhenEnded`: `SavedAtEnd`. As long as neither a state nor a record has been lost, the
  child's number - or the state file, when there is no child - is that of the newest record in
  the pipe, or of the last one passed on (`Followed`). That needs that no record is dropped
  as an overlap on the way (`NothingDropped`), which follows from `InTurn` and from the entry being
  the end of the last record.

`Connection_proofs`, for any number of stations, any clients and any number of commands
and records:

* `CountsRight`: `CountsMatch`, with the one count too many that a default station given up
  while it was active leaves. The invariant `IInv` adds what the counts rest on (`Shape`):
  before the first STATION the default station is the only requested one, only an active
  station is ready, and a station that is not requested is not active, so that a
  STATION in multi-station mode neither loses nor gains a count. `StationChanges` is the case of one subscription that
  changes (SELECT, DATA, FETCH, TIME, an arriving record), `RoundKeeps` that of a round,
  in which many stations go to sleep or end at once.
* `StationsTakeTurns`: `TakeTurns`. The invariant `Turns` adds up, for each station, what it has let
  pass and the stations that the next round comes to up to itself (`UpTo`): with
  each packet the one grows and the other loses at least the sender, by the arithmetic of the
  cyclic order (`OrderGoesOn`).
* `IntendedOnly`: the action property `OnlyIntended`, from the invariant `Intends`: where a
  command for `current_station` is accepted, the rounds have not moved it since the
  STATION that named it, because its answer is still to be sent or has ended the rounds.
* `EndIsSent`, `EndIsLast`: the action properties `EndWhenDone` and `EndAfterAll`. Only a round tells a
  client that its data is over (`OnlyRoundsEnd`), and `stations_active`, by which it does, is 0
  only when no requested station is active, and exactly then if no default station was
  abandoned (`CountsRight` at the end of the step).

`RawInput_proofs`, for any times, sizes of packets, words and records, any limit for gaps
and any capacity of the backfilling buffer:

* `TypeCorrect`: types; a packet that waits has samples, and a channel of miniSEED records
  leaves the encoder empty. Its lemmas (`WordIs`, `FlushIs`, `SamplesIs`, `CommitFirstIs`, ...)
  say what each operator returns; the later proofs use them and not the definitions.
* `Conserves`: `Conserved`. Every operator that moves samples is shown to keep `AllOf`, the
  samples emitted and waiting, or to add exactly those of the packet (`Added`). A packet
  goes into the middle of the buffer (`InsertedIs`) and a record is a piece of what is
  emitted (`OutGrows`), so that this is about how `Concat` splits (`ConcatSplit`).
* `LeavesNothing`: `NothingLeft`.
* `GapsEndRecords` and `LabelsFit`, from `RecordsFit`: `NoGapInside` and `LabelOfWord`. The invariant `Right` says that the samples in
  the encoder have no gap to flush at, that a record that is begun has its label, and that
  between two handlers the clock shows the time after the last sample. That is why
  `SetTime` sees exactly the gap before the next sample, although it is reckoned from the
  clock. `RunSpan` adds up the small gaps inside the first word, from the end of which the
  label is reckoned back.
* `PutsInOrder`: `InOrder`. The invariant `Ordered` says that the buffer is sorted by the ends of
  its packets, that what is emitted ends before the time of the last commit, that of two
  packets which overlap one is excused, and that a packet which waits begins after that
  time unless it or the last sample is excused. It needs `Ahead`: between two handlers
  every packet that waits *ends* after that time, since `sync_buffer` stops only at a gap.

`TimeIndex_proofs`, for any streams, times and sizes of files, and any numbers of records,
restarts and lost records; `SeqSize` is more than twice the records on disk
(`IndexAssumption`; it is 2^24 in the code), so that the distance of two places is known
from their numbers:

* `Indexed`: the inductive invariant `Inv`. `Layout` and `InTime` say that the files follow one
  another, that all but the last one are full, and that the records of a stream come in the
  order of time. `IndexOf` ties the index to them, while the server runs or buffer.xml can be
  restored: for each stream (`Known`) there are *places*, positions in the history, for which the
  numbers in the index stand (`Says`), one where the stream begins and one for each of its
  segments. `Fits` says how the places lie among the records on disk: a record is before
  the place of its file, and the times at the places bound those of the records (`Divides`);
  a place comes directly after a record of the stream, or no record is before it (`After`); the
  place where the stream begins is not further than the disk from its oldest record (`Near`).
  `After` and `Near` are what makes it inductive. An equal first and last number must mean
  that the stream is gone (`WithoutOldestKnown`), which wrap-around could otherwise
  feign, and the place where a stream begins may have been deleted long ago, as long as its
  records go on from there.
* There is one lemma on places for each operation of the index: `FitsShift` and `FitsLater` (the
  oldest file is deleted), `FitsExtend` (a new segment), `FitsOwn`, `FitsOther` and `FitsFirst` (a
  record of the stream, of another one, of a new one). `StoredKeeps` puts them together for
  the four cases of `new_buffer`, `BlanksSound` for the blank records after a
  restart. `LoadedIndex` says that `do_load_headers`, with the records read one by one
  (`CutNext`, `ScannedIndex`) and counted past `SeqSize`, makes an index that is as good
  as the one that was kept, and `RecoveredSound` that a restart after a crash ends with a
  sound index whatever the crash has left.
* `TimeLeads`: `TimeFinds`. All places are at most the size of the disk away from the ends
  of the range, so that `FromBegin` and `ToEnd` of a number are the distances of its place from
  the ends (`FromBeginIs`, `ToEndIs`), unless the place is before the range, when it looks as
  if it was behind it.
* `EndsWhenEmpty`: `EndsOnlyEmpty`.

What the recursive functions compute (`Samples`, `Commits` and `Concat`; `Scanned`, `LoadHeaders`
and `WithBlanks`) is proved by induction like those of `BufferStore` (`UpTo`, `Iterates`, `Arrives`).

Every invariant and every action property of the runs that pass is stated by one of these
theorems. Some have hypotheses, which are given above: `DiskLargeEnough` and
`NumbersFresh` for clients of a station, `BlanksSuffice` for `NumbersNotReused`,
and `EnlargeFull = FALSE` for the list; the findings say what happens without them. Only model-checked is all liveness (`EndComes` and the like), which is
out of reach of TLAPS here, as is `ENABLED`. The runs that expect a violation have nothing to prove.

## Not modelled

The record numbers and gaps that the index keeps for INFO; failing system calls; WebSocket framing; the text of INFO; filters,
compression and the bytes of records; log and calibration packets;
read and write errors of files, and a segment file with a torn record, at which a start
fails; a change of the configuration between two starts; descriptors of `FD_SETSIZE` or
more; of the chain plugin what changes the contents of records (renaming, unpacking,
triggers), its schedule, several stations in a group and groups that share a
lockfile. The other plugins, most of them vendored drivers of devices, and the
client programs are programs of their own, and most of the lines of the repository are theirs.

A client that keeps sending commands
without waiting for answers (it gets the last answer only), and a command for the current station
during a multi-station transfer are against the protocol; what the code does then is
not a property.

## Plan

Done: `RecordWindow`, `BufferStore`, `StationIO`, `Connection`,
`ConnectionManager`, `PluginSupervisor`, `RawInput`, `Chain`, `TimeIndex`, their runs, and the eight proof
modules. Next, in this order:

1. TIME in `StationIO`: the place that `TimeIndex` finds, composed with delivery and the
   end of a time window.
2. Groups of several stations in `Chain`, and groups that share a lockfile.
3. `ConnectionManager` composed with `Connection`: disconnects in the main loop.
