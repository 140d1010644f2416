-------------------------------- MODULE Chain ---------------------------------
(***************************************************************************)
(* The chain plugin (chain_plugin.cc with libslink): it copies the records *)
(* of another SeedLink server into this one.  The main process forks a     *)
(* child for a group of stations; the child resumes the connection from    *)
(* its state file, writes what it receives into a pipe and saves the       *)
(* number of the last record from time to time.  The main process reads    *)
(* the pipe, leaves out overlaps and passes the records on to the server.  *)
(*                                                                         *)
(* One group with one station and one stream is modelled; its records are  *)
(* numbered from 0.  Links fail and stall, processes are ended and killed  *)
(* and started again, and only the state file survives them.  The group    *)
(* has a lockfile: a child starts when the previous one is gone.           *)
(***************************************************************************)
EXTENDS Integers, Sequences

CONSTANTS
  MaxRec,    \* bound: records that the remote server produces
  Hold,      \* the records that the remote server keeps
  NetSize,   \* the records that fit into the connection and its buffers
  PipeSize,  \* the records that fit into the pipe
  MaxFails,  \* bound: failures, and ends asked for, in a behaviour
  Modes,     \* the settings considered
  Start(_)   \* the start time of a record, in microseconds

Overlap == {"none", "initial", "full"}

\* dialup: "uptime" is set; timetable: there is a timetable_loader.
Mode == [dialup: BOOLEAN, overlap: Overlap, timetable: BOOLEAN]

\* Times are in microseconds; record numbers have six digits.
Second   == 1000000
RecnoMod == 1000000

\* The records of a stream follow each other by a second or more.
ASSUME ChainAssumption ==
  /\ MaxRec \in Nat /\ MaxFails \in Nat
  /\ Hold \in Nat \ {0} /\ NetSize \in Nat \ {0} /\ PipeSize \in Nat \ {0}
  /\ Modes \subseteq Mode
  /\ \A i \in 0..MaxRec : Start(i) \in Int
  /\ \A i, j \in 0..MaxRec : i < j => Start(i) + Second <= Start(j)

VARIABLES
  mode,     \* the settings of this behaviour
  lo, hi,   \* external: the remote server holds the records lo .. hi - 1
  link,     \* external: the connection to it
  pos,      \* external: the record that it sends next
  net,      \* what was sent and sl_collect has not returned yet
  child,    \* the child process
  seqnum,   \* its stream->seqnum: the last record returned, or -1
  seqfile,  \* the number in the state file, -1 if there is none
  pipe,     \* the pipe to the main process
  proc,     \* the main process; "shutdown": with shutdown_requested
  pid, parent_fd,            \* for pid > 0 and parent_fd != -1
  sigterm_sent, sigkill_sent,
  table,    \* the stream's entry in stream_start_table
  server,   \* the server reads what is passed on
  fails,    \* what MaxFails bounds
  \* History: the records passed on, the last of them, those passed on again,
  \* those not sent because the remote server does not hold them any more or
  \* was asked without a number, and those that were in the pipe or being
  \* passed on when the main process or the server went away.
  got, last, again, passed, spilled,
  unsaved   \* history: a child ended without saving its state

remote  == <<lo, hi>>
socket  == <<link, pos, net>>
process == <<child, seqnum>>
group   == <<proc, pid, parent_fd, sigterm_sent, sigkill_sent>>
output  == <<table, got, last, again>>
vars    == <<mode, remote, socket, process, seqfile, pipe, group, output,
             server, fails, passed, spilled, unsaved>>

NoEntry == [recno |-> -1, it |-> -1]

InSeq(s) == {s[k] : k \in 1..Len(s)}

Fails == fails < MaxFails /\ fails' = fails + 1

-----------------------------------------------------------------------------
(* The remote server, as the requests of libslink see it.                  *)

Produce ==
  /\ hi < MaxRec /\ hi' = hi + 1
  /\ lo' = IF hi + 1 > lo + Hold THEN lo + 1 ELSE lo
  /\ UNCHANGED <<mode, socket, process, seqfile, pipe, group, output,
                 server, fails, passed, spilled, unsaved>>

\* Where it starts when asked for record n: there, if it holds it or is about
\* to produce it; otherwise at its oldest, or at its next one.
Answers(n) == IF n \in lo..hi THEN {n} ELSE {lo, hi}

\* Mutant: the last record is asked for again.
Requested_Same(n) == IF n = -1 THEN {hi} ELSE Answers(n)

\* DATA or FETCH of sl_negotiate_multi: without a number if none is known.
Requested(n) == IF n = -1 THEN {hi} ELSE Answers(n + 1)

\* sl_connect and sl_configlink: the link comes up.
Connect ==
  /\ child = "run" /\ link = "down" /\ net = <<>>
  /\ \E n \in Requested(seqnum) :
       /\ pos' = n
       /\ passed' = passed \cup ((seqnum + 1)..(n - 1))
  /\ link' = "up"
  /\ UNCHANGED <<mode, remote, net, process, seqfile, pipe, group, output,
                 server, fails, spilled, unsaved>>

\* The next record; those that are gone in the meantime are skipped.
ServerSends ==
  /\ link = "up" /\ pos < hi /\ Len(net) < NetSize
  /\ LET n == IF pos < lo THEN lo ELSE pos IN
       /\ net' = Append(net, n)
       /\ pos' = n + 1
       /\ passed' = passed \cup (pos..(n - 1))
  /\ UNCHANGED <<mode, remote, link, process, seqfile, pipe, group, output,
                 server, fails, spilled, unsaved>>

\* A FETCH ends when everything has been sent.
ServerEnds ==
  /\ link = "up" /\ mode.dialup /\ pos = hi
  /\ link' = "ended"
  /\ UNCHANGED <<mode, remote, pos, net, process, seqfile, pipe, group, output,
                 server, fails, passed, spilled, unsaved>>

\* What had been received of what was on its way when the link goes down.
Received(k) == SubSeq(net, 1, k)

LinkFails ==
  /\ Fails /\ link # "down"
  /\ link' = "down"
  /\ \E k \in 0..Len(net) : net' = Received(k)
  /\ UNCHANGED <<mode, remote, pos, process, seqfile, pipe, group, output,
                 server, passed, spilled, unsaved>>

LinkStalls ==
  /\ Fails /\ link = "up"
  /\ link' = "stalled"
  /\ UNCHANGED <<mode, remote, pos, net, process, seqfile, pipe, group, output,
                 server, passed, spilled, unsaved>>

\* Mutant: a stalled connection is never given up.
TimedOut_Never(l) == FALSE

TimedOut(l) == l = "stalled"

\* Nothing has come for netto seconds.
NetTimeout ==
  /\ child = "run" /\ TimedOut(link) /\ net = <<>>
  /\ link' = "down"
  /\ UNCHANGED <<mode, remote, pos, net, process, seqfile, pipe, group, output,
                 server, fails, passed, spilled, unsaved>>

-----------------------------------------------------------------------------
(* The child process (the loop of open_connection).                        *)

Alive == child \in {"run", "term"}

\* sl_savestate after record n has been written: when the timer has expired.
Saves(n) == {seqfile, n}

\* sl_collect returns a record, and it is written to the pipe.
Collect ==
  /\ Alive /\ parent_fd /\ net # <<>> /\ Len(pipe) < PipeSize
  /\ net' = Tail(net)
  /\ seqnum' = Head(net)
  /\ pipe' = Append(pipe, Head(net))
  /\ seqfile' \in Saves(Head(net))
  /\ UNCHANGED <<mode, remote, link, pos, child, group, output, server, fails,
                 passed, spilled, unsaved>>

\* The child is gone, and its connection; the main process that started it, if
\* it is still there, has to wait for it.
Gone ==
  /\ child' = IF pid THEN "zombie" ELSE "none"
  /\ link' = "down" /\ net' = <<>>
  /\ UNCHANGED <<mode, remote, pos, pipe, output, server, passed, spilled>>

\* Mutant: the state is saved after a failed write too.
SavedAfterWrite_Always(n) == n

\* What a failed write leaves in the state file: r is SLPACKET, so nothing is
\* saved and the number that was counted down is forgotten.
SavedAfterWrite(n) == seqfile

WriteFails ==
  /\ Alive /\ net # <<>>
  /\ seqnum' = Head(net)
  /\ seqfile' = SavedAfterWrite(Head(net))
  /\ unsaved' = TRUE
  /\ Gone /\ UNCHANGED group

\* writen_tmo: the pipe stays full for WRITE_TIMEOUT seconds.
WriteTimeout == Fails /\ parent_fd /\ Len(pipe) = PipeSize /\ WriteFails

\* Nobody has the pipe open for reading.
BrokenPipe == ~parent_fd /\ WriteFails /\ UNCHANGED fails

\* sl_collect returns SLTERMINATE: the state is saved and the child exits.
Exits ==
  /\ net = <<>> /\ seqfile' = seqnum
  /\ Gone /\ UNCHANGED <<seqnum, group, fails, unsaved>>

ExitsAtEnd  == child = "run" /\ link = "ended" /\ Exits
ExitsOnTerm == child = "term" /\ Exits

\* The child is killed, perhaps in sl_savestate, which has truncated the file.
Killed ==
  /\ seqfile' \in {seqfile, -1}
  /\ unsaved' = TRUE
  /\ Gone
  /\ UNCHANGED seqnum

Crashes == Alive /\ Fails /\ Killed /\ UNCHANGED group

-----------------------------------------------------------------------------
(* The main process: StationGroup::check and the signals to the child.     *)

\* Mutant: the child starts from nothing.
Recovered_Nothing(n) == -1

\* sl_recoverstate
Recovered(n) == n

OpenConnection ==
  /\ proc = "run" /\ ~pid /\ ~parent_fd /\ child = "none"
  /\ pid' = TRUE /\ parent_fd' = TRUE
  /\ sigterm_sent' = FALSE /\ sigkill_sent' = FALSE
  /\ child' = "run" /\ seqnum' = Recovered(seqfile) /\ pipe' = <<>>
  /\ UNCHANGED <<mode, remote, socket, seqfile, proc, output, server, fails,
                 passed, spilled, unsaved>>

\* close_connection: SIGTERM makes sl_collect disconnect and return what it
\* has received.
CloseConnection ==
  /\ sigterm_sent' = TRUE
  /\ child' = IF child = "run" THEN "term" ELSE child
  /\ link' = "down"
  /\ \E k \in 0..Len(net) : net' = Received(k)

\* Mutant: a child that is to end is not killed.
MayKill_Never == FALSE

MayKill == sigterm_sent /\ ~sigkill_sent

UptimeOver ==
  /\ Fails /\ proc = "run" /\ mode.dialup /\ pid /\ ~sigterm_sent
  /\ CloseConnection
  /\ UNCHANGED <<mode, remote, pos, seqnum, seqfile, pipe, proc, pid, parent_fd,
                 sigkill_sent, output, server, passed, spilled, unsaved>>

\* kill_connection: shutdown_timer has expired, and the child is still there.
KillConnection ==
  /\ proc # "none" /\ pid /\ MayKill /\ Alive
  /\ sigkill_sent' = TRUE
  /\ Killed
  /\ UNCHANGED <<proc, pid, parent_fd, sigterm_sent, fails>>

\* waitpid
Reap ==
  /\ proc # "none" /\ pid /\ child = "zombie"
  /\ pid' = FALSE /\ child' = "none"
  /\ UNCHANGED <<mode, remote, socket, seqnum, seqfile, pipe, proc, parent_fd,
                 sigterm_sent, sigkill_sent, output, server, fails, passed,
                 spilled, unsaved>>

-----------------------------------------------------------------------------
(* The main process: records from the pipe to the server.                  *)

\* Mutant: a tolerance in the wrong unit.
Later_Wide(i) == Start(i) - table.it > -100 * Second

\* What check_overlap takes for the continuation of the entry.
Later(i) ==
  LET dt == Start(i) - table.it
      ds == (i % RecnoMod) - table.recno
  IN  dt > -100 \/ (dt > -Second /\ ds = 0)

Drops(i) == table # NoEntry /\ ~Later(i)

\* The entry that check_overlap leaves after record i has been accepted.
EntryAfter(i) ==
  IF mode.overlap = "full"
  THEN [recno |-> (i + 1) % RecnoMod, it |-> Start(i) + 1]
  ELSE NoEntry

\* process_mseed passes record i on.
PassOn(i) ==
  /\ table' = EntryAfter(i)
  /\ got' = got \cup {i} /\ last' = i
  /\ again' = IF i \in got THEN again \cup {i} ELSE again

\* process_slpacket with a server that reads.
Read ==
  /\ parent_fd /\ pipe # <<>>
  /\ pipe' = Tail(pipe)
  /\ \/ Drops(Head(pipe)) /\ UNCHANGED output
     \/ ~Drops(Head(pipe)) /\ server /\ PassOn(Head(pipe))
  /\ UNCHANGED <<mode, remote, socket, process, seqfile, group, server, fails,
                 passed, spilled, unsaved>>

\* confirm_shutdown: the pipe of a child that is gone has been read to its end
\* and is closed.  A group that was to end is removed, and without groups the
\* main process exits.
ConfirmShutdown ==
  /\ proc # "none" /\ ~pid /\ pipe = <<>>
  /\ parent_fd \/ proc = "shutdown"
  /\ parent_fd' = FALSE /\ pipe' = <<>>
  /\ proc' = IF proc = "shutdown" THEN "none" ELSE proc
  /\ UNCHANGED <<mode, remote, socket, process, seqfile, pid, sigterm_sent,
                 sigkill_sent, output, server, fails, passed, spilled, unsaved>>

-----------------------------------------------------------------------------
(* The main process starts and ends.                                       *)

\* Chain::shutdown
Shutdown ==
  /\ proc = "run" /\ proc' = "shutdown"
  /\ IF pid /\ ~sigterm_sent
     THEN CloseConnection
     ELSE UNCHANGED <<sigterm_sent, child, link, net>>
  /\ UNCHANGED <<mode, remote, pos, seqnum, seqfile, pid, parent_fd,
                 sigkill_sent, got, last, again, server, passed, unsaved>>

\* terminate_proc: the server ends the plugin.
Terminate == Fails /\ Shutdown /\ UNCHANGED <<table, pipe, spilled>>

\* The process is gone, and with it the pipe and what is in it.
MainGone ==
  /\ proc # "none" /\ proc' = "none"
  /\ pid' = FALSE /\ parent_fd' = FALSE
  /\ spilled' = spilled \cup InSeq(pipe) /\ pipe' = <<>>
  /\ child' = IF Alive THEN child ELSE "none"
  /\ UNCHANGED <<mode, remote, socket, seqnum, seqfile, sigterm_sent,
                 sigkill_sent, output, server, passed, unsaved>>

\* The server is gone when a record is passed on: an exception, which shuts the
\* groups down, and the next one in doing so ends the process.
PassFails ==
  /\ parent_fd /\ pipe # <<>> /\ ~Drops(Head(pipe)) /\ ~server
  /\ \/ /\ Shutdown
        /\ table' = EntryAfter(Head(pipe))
        /\ pipe' = Tail(pipe) /\ spilled' = spilled \cup {Head(pipe)}
     \/ proc = "shutdown" /\ MainGone
  /\ UNCHANGED fails

MainKilled == Fails /\ MainGone

ServerGone ==
  /\ Fails /\ server' = FALSE
  /\ UNCHANGED <<mode, remote, socket, process, seqfile, pipe, group, output,
                 passed, spilled, unsaved>>

\* What load_timetable finds after record i: the next number, and the time at
\* which the record ends, which is the start of the next one.
Timetable(i) == [recno |-> (i + 1) % RecnoMod, it |-> Start(i + 1)]

\* The server starts the plugin: setup_timetable, set_start_time.
MainStarts ==
  /\ proc = "none" /\ proc' = "run" /\ server' = TRUE
  /\ table' = IF mode.timetable /\ mode.overlap # "none" /\ last # -1
              THEN Timetable(last) ELSE NoEntry
  /\ sigterm_sent' = FALSE /\ sigkill_sent' = FALSE
  /\ UNCHANGED <<mode, remote, socket, process, seqfile, pipe, pid, parent_fd,
                 got, last, again, fails, passed, spilled, unsaved>>

-----------------------------------------------------------------------------

Init ==
  /\ mode \in Modes
  /\ lo = 0 /\ hi = 0 /\ link = "down" /\ pos = 0 /\ net = <<>>
  /\ child = "none" /\ seqnum = -1 /\ seqfile = -1 /\ pipe = <<>>
  /\ proc = "run" /\ pid = FALSE /\ parent_fd = FALSE
  /\ sigterm_sent = FALSE /\ sigkill_sent = FALSE
  /\ table = NoEntry /\ server = TRUE /\ fails = 0
  /\ got = {} /\ last = -1 /\ again = {} /\ passed = {} /\ spilled = {}
  /\ unsaved = FALSE

\* What goes on by itself, and what the plugin does of its own.
Steps ==
  \/ Produce \/ Connect \/ ServerSends \/ ServerEnds \/ NetTimeout
  \/ Collect \/ BrokenPipe \/ ExitsAtEnd \/ ExitsOnTerm
  \/ OpenConnection \/ KillConnection \/ Reap \/ Read \/ ConfirmShutdown
  \/ PassFails \/ MainStarts

Failures ==
  \/ LinkFails \/ LinkStalls \/ WriteTimeout \/ Crashes \/ UptimeOver
  \/ Terminate \/ MainKilled \/ ServerGone

Next == Steps \/ Failures

Spec == Init /\ [][Next]_vars

\* The peers, the child and the main process go on, and timers expire.  A child
\* that was sent SIGTERM may hang as long as there is a main process to kill it.
Fairness ==
  /\ WF_vars(Connect) /\ WF_vars(ServerSends) /\ WF_vars(ServerEnds)
  /\ WF_vars(NetTimeout) /\ WF_vars(Collect) /\ WF_vars(BrokenPipe)
  /\ WF_vars(ExitsAtEnd) /\ WF_vars(~pid /\ ExitsOnTerm)
  /\ WF_vars(OpenConnection)
  /\ WF_vars(KillConnection) /\ WF_vars(Reap) /\ WF_vars(Read)
  /\ WF_vars(ConfirmShutdown) /\ WF_vars(PassFails) /\ WF_vars(MainStarts)

FairSpec == Spec /\ Fairness

-----------------------------------------------------------------------------
(* Properties.                                                             *)

\* The variables have their types.
Rec == 0..(MaxRec - 1)

TypeOK ==
  /\ mode \in Modes /\ lo \in 0..hi /\ hi \in 0..MaxRec /\ (lo = 0 \/ lo < hi)
  /\ link \in {"down", "up", "stalled", "ended"} /\ pos \in 0..hi
  /\ net \in Seq(Rec) /\ pipe \in Seq(Rec)
  /\ child \in {"none", "run", "term", "zombie"}
  /\ seqnum \in -1..(MaxRec - 1) /\ seqfile \in -1..(MaxRec - 1)
  /\ proc \in {"none", "run", "shutdown"}
  /\ pid \in BOOLEAN /\ parent_fd \in BOOLEAN
  /\ sigterm_sent \in BOOLEAN /\ sigkill_sent \in BOOLEAN
  /\ server \in BOOLEAN /\ unsaved \in BOOLEAN /\ fails \in 0..MaxFails
  /\ table \in [recno : -1..(RecnoMod - 1), it : Int]
  /\ last \in -1..(MaxRec - 1)
  /\ got \subseteq Rec /\ again \subseteq Rec
  /\ passed \subseteq Rec /\ spilled \subseteq Rec

\* What has an account: passed on, or lost for a reason that has a name.
Known == got \cup passed \cup spilled

\* The copy has no gaps of its own: what is missing before a record that was
\* passed on had been given up by the remote server, was skipped for want of a
\* number, or was in the pipe when the main process or the server went away.
NoGap == \A j \in got : \A i \in 0..j : i \in Known

\* The state file never says more than what is known, or in the pipe: a child
\* that resumes from it leaves nothing out.
StateBehind == \A i \in 0..seqfile : i \in Known \cup InSeq(pipe)

\* An orderly end leaves exactly the last record passed on in the state file.
SavedAtEnd ==
  proc = "none" /\ child = "none" /\ ~unsaved /\ spilled = {} => seqfile = last

\* A record is passed on a second time only after a child ended without saving.
AgainOnlyAfterLoss == again # {} => unsaved

\* With overlap_removal "full" and a timetable_loader, a record is never passed
\* on after a later one, whatever the child asks for again, and whoever of the
\* processes was started again in the meantime.
NeverBack ==
  [][mode.overlap = "full" /\ mode.timetable => last' >= last]_vars

\* Each record produced is passed on in the end, or lost as NoGap says.
Arrives == \A i \in 0..(MaxRec - 1) : hi > i ~> i \in Known

\* A plugin that is to end is gone in the end, even if its child hangs.
ShutdownEnds == proc = "shutdown" ~> proc # "shutdown"
=============================================================================
