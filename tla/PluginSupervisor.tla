--------------------------- MODULE PluginSupervisor ---------------------------
(***************************************************************************)
(* The plugins of the SeedLink server (classes Plugin and IOHandler,       *)
(* seedlink.cc): child processes that write packets into a pipe.  The      *)
(* server starts a plugin, shuts it down when it is silent, misbehaves or  *)
(* closes its pipe, kills it when it does not go, starts it again, and     *)
(* ends itself when it was told to and all plugins are gone.               *)
(*                                                                         *)
(* Each turn of the main loop calls IOHandler, which looks at the signals  *)
(* received and then serves plugins: those with something to read, and all *)
(* of them once a second.  Children, timers and signals interleave with    *)
(* these steps.                                                            *)
(***************************************************************************)
EXTENDS Integers

CONSTANTS
  Plugin,      \* the plugins of the configuration
  Timed,       \* those with a "timeout"
  Retried,     \* those with a "start_retry"
  Waited,      \* those with a "shutdown_wait"
  MaxPackets,  \* bound: times that data is written to a pipe
  MaxHups      \* bound: SIGHUPs sent to the server

ASSUME SupervisorAssumption ==
  /\ Timed \subseteq Plugin /\ Retried \subseteq Plugin /\ Waited \subseteq Plugin
  /\ MaxPackets \in Nat /\ MaxHups \in Nat

VARIABLES
  plugins,         \* the plugins that have not been erased from the list
  pl,              \* the fields of each Plugin object
  os,              \* external: its child process and the pipe from it
  terminate_proc,  \* SIGTERM or SIGINT has been received
  restart_proc,    \* SIGHUP has been received
  terminating,     \* IOHandler has told the plugins to end for good
  packets, hups    \* what MaxPackets and MaxHups bound

signals == <<terminate_proc, restart_proc, terminating>>
counts  == <<packets, hups>>
vars    == <<plugins, pl, os, signals, counts>>

\* pid stands for pid > 0, and a timer for its having expired.
PL == [pid: BOOLEAN, child_active: BOOLEAN, sigterm_sent: BOOLEAN,
       sigkill_sent: BOOLEAN, shutdown_requested: BOOLEAN,
       restart_requested: BOOLEAN, read_timer: BOOLEAN,
       start_retry_timer: BOOLEAN, shutdown_timer: BOOLEAN]

\* A packet is good, bad (of a type or size that IOHandler rejects), or broken:
\* its header gives an impossible length, and nothing after it can be read.
Packet == {"good", "bad", "broken"}

\* "unreaped" counts the children that waitpid has not returned yet, "child" is
\* the state of the last one, and the pipe is open while anyone can write to it.
OS == [child: {"none", "runs", "zombie"}, unreaped: Int, open: BOOLEAN,
       data: {"none"} \cup Packet]

-----------------------------------------------------------------------------
(* The operations of a Plugin object.                                      *)

\* shutdown
Shutdown(s, restart) ==
  [s EXCEPT !.sigterm_sent = @ \/ s.pid, !.shutdown_timer = FALSE,
            !.shutdown_requested = TRUE, !.restart_requested = restart]

\* start, in the server and for the child and its pipe.
Started(s) ==
  [s EXCEPT !.pid = TRUE, !.sigterm_sent = FALSE, !.sigkill_sent = FALSE,
            !.shutdown_requested = FALSE, !.restart_requested = FALSE,
            !.read_timer = FALSE]

NewChild(o) ==
  [child |-> "runs", unreaped |-> o.unreaped + 1, open |-> TRUE, data |-> "none"]

\* read_helper until there is no more: what IOHandler makes of the packets, and
\* whether the child is found active.
Received(s, o) ==
  CASE o.data = "good" -> [s EXCEPT !.read_timer = FALSE]
    [] o.data = "bad"  -> Shutdown([s EXCEPT !.read_timer = FALSE], FALSE)
    [] OTHER           -> s

\* Mutant: a child that was killed may be active.
FoundActive_Killed(s, o) == o.data # "broken" /\ o.open

FoundActive(s, o) == o.data # "broken" /\ o.open /\ ~s.sigkill_sent

\* Mutant: only an active child is killed.
KillsNow_Active(s) ==
  s.shutdown_requested /\ ~s.sigkill_sent /\ s.pid /\ s.shutdown_timer
  /\ s.child_active

KillsNow(s) ==
  s.shutdown_requested /\ ~s.sigkill_sent /\ s.pid /\ s.shutdown_timer

ShutsDown(s) == ~s.shutdown_requested /\ (~s.child_active \/ s.read_timer)

\* read, from read_helper to its end.
ReadPipe(s, o) ==
  LET r == Received(s, o)
      a == [r EXCEPT !.child_active = FoundActive(r, o)]
  IN  IF KillsNow(a) THEN [a EXCEPT !.sigkill_sent = TRUE]
      ELSE IF ShutsDown(a) THEN Shutdown(a, FALSE)
      ELSE a

Drained(o) == IF o.data = "broken" THEN o ELSE [o EXCEPT !.data = "none"]

-----------------------------------------------------------------------------
(* IOHandler serves a plugin.                                              *)

\* not running()
Gone(s) == ~s.pid /\ ~s.child_active

\* Plugin p has been served, and is erased if it is gone for good.
Served(p, s, o) ==
  /\ pl' = [pl EXCEPT ![p] = s]
  /\ os' = [os EXCEPT ![p] = o]
  /\ plugins' = IF terminating /\ Gone(s) THEN plugins \ {p} ELSE plugins
  /\ UNCHANGED <<signals, counts>>

\* Mutant: a silent child is replaced as soon as the retry time is over.
CanStart_AnyChild(s) ==
  ~s.child_active /\ (s.restart_requested \/ s.start_retry_timer)

CanStart(s) ==
  ~s.child_active /\ ~s.pid /\ (s.restart_requested \/ s.start_retry_timer)

\* The plugin has no child, and it is not time for another one.
Waits(p) ==
  /\ ~pl[p].child_active /\ ~pl[p].pid /\ ~CanStart(pl[p])
  /\ Served(p, pl[p], os[p])

\* A new child is started, and its pipe is read at once.
Starts(p) ==
  /\ CanStart(pl[p])
  /\ Served(p, ReadPipe(Started(pl[p]), NewChild(os[p])), NewChild(os[p]))

\* Mutant: the child is looked for before its pipe has been read.
CanReap_Early(s) == s.pid

CanReap(s) == ~s.child_active /\ s.pid

\* check_child finds that the child has ended.
Reaps(p) ==
  /\ CanReap(pl[p]) /\ os[p].child = "zombie"
  /\ Served(p, [pl[p] EXCEPT !.pid = FALSE, !.child_active = FALSE,
                             !.start_retry_timer = FALSE],
            [os[p] EXCEPT !.child = "none", !.unreaped = @ - 1])

\* The pipe is read.
Reads(p) ==
  /\ pl[p].child_active \/ (pl[p].pid /\ os[p].child = "runs")
  /\ Served(p, ReadPipe(pl[p], os[p]), Drained(os[p]))

Serve(p) == p \in plugins /\ (Waits(p) \/ Starts(p) \/ Reaps(p) \/ Reads(p))

\* IOHandler sees the signals at the beginning of a turn.
Signalled ==
  /\ plugins # {} /\ ~terminating /\ (terminate_proc \/ restart_proc)
  /\ pl' = [p \in Plugin |->
              IF p \in plugins THEN Shutdown(pl[p], restart_proc) ELSE pl[p]]
  /\ terminating' = terminate_proc
  /\ restart_proc' = FALSE
  /\ UNCHANGED <<plugins, os, terminate_proc, counts>>

-----------------------------------------------------------------------------
(* Signals, time and the children.                                         *)

int_handler ==
  /\ plugins # {} /\ ~terminate_proc
  /\ terminate_proc' = TRUE
  /\ UNCHANGED <<plugins, pl, os, restart_proc, terminating, counts>>

restart_handler ==
  /\ plugins # {} /\ hups < MaxHups
  /\ restart_proc' = TRUE
  /\ hups' = hups + 1
  /\ UNCHANGED <<plugins, pl, os, terminate_proc, terminating, packets>>

\* A timer expires; one with an interval of 0 never does.
Ticks(p, set) == p \in plugins \cap set

Tick(p, set, expired, s) ==
  /\ Ticks(p, set) /\ ~expired
  /\ pl' = [pl EXCEPT ![p] = s]
  /\ UNCHANGED <<plugins, os, signals, counts>>

ReadTick(p) ==
  Tick(p, Timed, pl[p].read_timer, [pl[p] EXCEPT !.read_timer = TRUE])

RetryTick(p) ==
  Tick(p, Retried, pl[p].start_retry_timer, [pl[p] EXCEPT !.start_retry_timer = TRUE])

ShutdownTick(p) ==
  Tick(p, Waited, pl[p].shutdown_timer, [pl[p] EXCEPT !.shutdown_timer = TRUE])

ChildStep(p, o) ==
  /\ p \in plugins
  /\ os' = [os EXCEPT ![p] = o]
  /\ UNCHANGED <<plugins, pl, signals, hups>>

\* The child, or a process that it has left behind, writes a packet.
Write(p, k) ==
  /\ os[p].open /\ os[p].data = "none" /\ packets < MaxPackets
  /\ packets' = packets + 1
  /\ ChildStep(p, [os[p] EXCEPT !.data = k])

\* Nobody can write to the pipe any longer.
Close(p) ==
  /\ os[p].open
  /\ ChildStep(p, [os[p] EXCEPT !.open = FALSE])
  /\ UNCHANGED packets

\* The child ends; a process that it has started may go on with its pipe.
Exit(p) ==
  /\ os[p].child = "runs"
  /\ \E open \in {FALSE, os[p].open} :
       ChildStep(p, [os[p] EXCEPT !.child = "zombie", !.open = open])
  /\ UNCHANGED packets

DiesOfKill(p) == pl[p].sigkill_sent /\ Exit(p)

-----------------------------------------------------------------------------
NewPlugin(p) ==
  [pid |-> TRUE, child_active |-> TRUE, sigterm_sent |-> FALSE,
   sigkill_sent |-> FALSE, shutdown_requested |-> FALSE,
   restart_requested |-> FALSE, read_timer |-> FALSE,
   start_retry_timer |-> p \in Retried, shutdown_timer |-> p \in Waited]

\* start_plugins has started all of them.
Init ==
  /\ plugins = Plugin
  /\ pl = [p \in Plugin |-> NewPlugin(p)]
  /\ os = [p \in Plugin |->
             [child |-> "runs", unreaped |-> 1, open |-> TRUE, data |-> "none"]]
  /\ terminate_proc = FALSE /\ restart_proc = FALSE /\ terminating = FALSE
  /\ packets = 0 /\ hups = 0

Child(p) == (\E k \in Packet : Write(p, k)) \/ Close(p) \/ Exit(p)

Timer(p) == ReadTick(p) \/ RetryTick(p) \/ ShutdownTick(p)

Next ==
  \/ Signalled
  \/ int_handler
  \/ restart_handler
  \/ \E p \in Plugin : Serve(p) \/ Timer(p) \/ Child(p)

Spec == Init /\ [][Next]_vars

\* select returns after a tenth of a second at the latest, and each plugin is
\* read once a second; time passes, and nothing survives SIGKILL.
Fairness ==
  /\ WF_vars(Signalled)
  /\ \A p \in Plugin :
       /\ WF_vars(Serve(p)) /\ WF_vars(DiesOfKill(p))
       /\ WF_vars(ReadTick(p)) /\ WF_vars(RetryTick(p)) /\ WF_vars(ShutdownTick(p))

FairSpec == Spec /\ Fairness

-----------------------------------------------------------------------------
(* Properties.                                                             *)

\* The variables have their types, and a timer of interval 0 never expires.
TypeOK ==
  /\ plugins \subseteq Plugin
  /\ pl \in [Plugin -> PL]
  /\ os \in [Plugin -> OS]
  /\ \A p \in Plugin : /\ pl[p].read_timer => p \in Timed
                       /\ pl[p].start_retry_timer => p \in Retried
                       /\ pl[p].shutdown_timer => p \in Waited
  /\ terminate_proc \in BOOLEAN /\ restart_proc \in BOOLEAN
  /\ terminating \in BOOLEAN
  /\ packets \in 0 .. MaxPackets /\ hups \in 0 .. MaxHups

\* A plugin never has two children: pid is that of its only child, which has not
\* been waited for, so that no signal goes to a process that took over the number.
OneChild ==
  \A p \in Plugin :
    /\ os[p].unreaped = (IF pl[p].pid THEN 1 ELSE 0)
    /\ pl[p].pid <=> os[p].child # "none"

\* SIGKILL is for a child that has been sent SIGTERM, not for its successor.
KillAfterTerm == \A p \in Plugin : pl[p].sigkill_sent => pl[p].sigterm_sent

\* The server ends, and erases a plugin, only when its child has ended.
NoneLeft == \A p \in Plugin \ plugins : os[p].child = "none"

\* When the pipe of a child is given up, for a new child or for good, all that
\* could be read from it has been read, unless the child had to be killed.
GivesUp(p) == p \notin plugins' \/ (~pl[p].pid /\ pl'[p].pid)

NothingLost ==
  [][\A p \in plugins :
       GivesUp(p) => \/ os[p].data \in {"none", "broken"}
                     \/ pl[p].sigkill_sent]_vars

\* A plugin that has ended is started again, even when processes that it has
\* left behind keep its pipe open ("a plugin is automatically restarted if it
\* crashes or a timeout occurs", seedlink.rst).
Restarted ==
  \A p \in Timed \cap Retried \cap Waited :
    os[p].child # "runs" ~> (os[p].child = "runs" \/ terminate_proc)

\* A plugin that runs when the server terminates is gone in the end, whether it
\* obeys SIGTERM or not.
ToldGoes ==
  \A p \in Waited :
    (terminating /\ p \in plugins /\ pl[p].pid /\ pl[p].shutdown_requested)
      ~> p \notin plugins
=============================================================================
