------------------------ MODULE PluginSupervisor_proofs ------------------------
(***************************************************************************)
(* Theorems about the supervision of the plugins, for any set of plugins,  *)
(* any configuration of their timers and any number of packets and         *)
(* signals.  All of them rest on Sound, which ties the fields of one       *)
(* Plugin object to its child process and its pipe.                        *)
(***************************************************************************)
EXTENDS PluginSupervisor, TLAPS

\* A child that is found inactive has nothing more to say.
Quiet(s, o) ==
  ~s.child_active => \/ ~o.open /\ o.data = "none"
                     \/ o.data = "broken"
                     \/ s.sigkill_sent

Timers(p, s) ==
  /\ s.read_timer => p \in Timed
  /\ s.start_retry_timer => p \in Retried
  /\ s.shutdown_timer => p \in Waited

Sound(p, s, o) ==
  /\ s \in PL /\ o \in OS
  /\ o.unreaped = (IF s.pid THEN 1 ELSE 0)
  /\ s.pid <=> o.child # "none"
  /\ s.sigkill_sent => s.sigterm_sent
  /\ s.shutdown_requested /\ s.pid => s.sigterm_sent
  /\ s.child_active => s.pid
  /\ Quiet(s, o)
  /\ Timers(p, s)

ServerOK ==
  /\ plugins \subseteq Plugin
  /\ pl \in [Plugin -> PL] /\ os \in [Plugin -> OS]
  /\ terminate_proc \in BOOLEAN /\ restart_proc \in BOOLEAN
  /\ terminating \in BOOLEAN
  /\ packets \in 0 .. MaxPackets /\ hups \in 0 .. MaxHups

IInv ==
  /\ ServerOK
  /\ \A p \in Plugin : Sound(p, pl[p], os[p])
  /\ NoneLeft

-----------------------------------------------------------------------------
(* What the operations of a Plugin object do to it.                        *)

LEMMA ShutdownSound ==
  ASSUME NEW p, NEW s, NEW o, NEW restart \in BOOLEAN, Sound(p, s, o)
  PROVE  /\ Sound(p, Shutdown(s, restart), o)
         /\ Shutdown(s, restart).pid = s.pid
         /\ Shutdown(s, restart).child_active = s.child_active
         /\ Shutdown(s, restart).sigkill_sent = s.sigkill_sent
  BY DEF Sound, Shutdown, PL, Quiet, Timers

\* Reading the pipe keeps the child, and leaves it active only if it may write.
LEMMA ReadPipeSound ==
  ASSUME NEW p, NEW s, NEW o, Sound(p, s, o), s.pid
  PROVE  Sound(p, ReadPipe(s, o), Drained(o)) /\ ReadPipe(s, o).pid
<1> DEFINE r == Received(s, o)
           a == [r EXCEPT !.child_active = FoundActive(r, o)]
           d == Drained(o)
<1>1. Sound(p, r, o) /\ r.pid /\ r.sigkill_sent = s.sigkill_sent
  <2> DEFINE t == [s EXCEPT !.read_timer = FALSE]
  <2>1. Sound(p, t, o) /\ t.pid /\ t.sigkill_sent = s.sigkill_sent
    BY DEF Sound, PL, Quiet, Timers
  <2>2. Sound(p, Shutdown(t, FALSE), o) /\ Shutdown(t, FALSE).pid
        /\ Shutdown(t, FALSE).sigkill_sent = s.sigkill_sent
    <3> HIDE DEF t
    <3> QED BY <2>1, ShutdownSound
  <2>3. CASE o.data = "good"
    BY <2>1, <2>3 DEF Received
  <2>4. CASE o.data = "bad"
    BY <2>2, <2>4 DEF Received
  <2>5. CASE o.data # "good" /\ o.data # "bad"
    BY <2>5 DEF Received
  <2> QED
    BY <2>3, <2>4, <2>5
<1>2. Sound(p, a, d) /\ a.pid
  <2> HIDE DEF r
  <2>1. d \in OS /\ d.unreaped = o.unreaped /\ d.child = o.child /\ d.open = o.open
        /\ d.data = (IF o.data = "broken" THEN "broken" ELSE "none")
    BY <1>1 DEF Drained, Sound, OS, Packet
  <2>2. FoundActive(r, o) \in BOOLEAN
    BY <1>1 DEF FoundActive, Sound, PL, OS
  <2>3. /\ a \in PL /\ a.pid /\ a.sigkill_sent = r.sigkill_sent
        /\ a.sigterm_sent = r.sigterm_sent /\ a.shutdown_requested = r.shutdown_requested
        /\ a.child_active = FoundActive(r, o)
        /\ a.read_timer = r.read_timer /\ a.shutdown_timer = r.shutdown_timer
        /\ a.start_retry_timer = r.start_retry_timer
    BY <1>1, <2>2 DEF Sound, PL
  <2>4. Quiet(a, d)
    BY <1>1, <2>1, <2>3 DEF Quiet, FoundActive, Sound, PL, OS
  <2> QED
    BY <1>1, <2>1, <2>3, <2>4 DEF Sound, Timers
<1> HIDE DEF r, a, d
<1>3. CASE KillsNow(a)
  <2> DEFINE k == [a EXCEPT !.sigkill_sent = TRUE]
  <2>1. ReadPipe(s, o) = k
    BY <1>3 DEF ReadPipe, a, r
  <2>2. Sound(p, k, d) /\ k.pid
    BY <1>2, <1>3 DEF Sound, PL, Quiet, Timers, KillsNow
  <2> QED
    BY <2>1, <2>2 DEF d
<1>4. CASE ~KillsNow(a) /\ ShutsDown(a)
  <2>1. ReadPipe(s, o) = Shutdown(a, FALSE)
    BY <1>4 DEF ReadPipe, a, r
  <2> QED
    BY <1>2, <2>1, ShutdownSound DEF d
<1>5. CASE ~KillsNow(a) /\ ~ShutsDown(a)
  <2>1. ReadPipe(s, o) = a
    BY <1>5 DEF ReadPipe, a, r
  <2> QED
    BY <1>2, <2>1 DEF d
<1> QED
  BY <1>3, <1>4, <1>5

\* A new child takes nothing over from the one before.
LEMMA StartedSound ==
  ASSUME NEW p, NEW s, NEW o, Sound(p, s, o), ~s.pid
  PROVE  LET t == [Started(s) EXCEPT !.child_active = TRUE]
         IN  /\ Sound(p, t, NewChild(o)) /\ t.pid
             /\ ReadPipe(Started(s), NewChild(o)) = ReadPipe(t, NewChild(o))
<1> DEFINE t == [Started(s) EXCEPT !.child_active = TRUE]
           n == NewChild(o)
<1>1. Sound(p, t, n) /\ t.pid
  <2>1. /\ t \in PL /\ t.pid /\ t.child_active /\ ~t.sigkill_sent
        /\ ~t.shutdown_requested /\ ~t.read_timer
        /\ t.start_retry_timer = s.start_retry_timer
        /\ t.shutdown_timer = s.shutdown_timer
    BY DEF Sound, PL, Started
  <2>2. n \in OS /\ n.child = "runs" /\ n.unreaped = 1
    BY DEF Sound, OS, NewChild, PL
  <2> HIDE DEF t, n
  <2> QED
    BY <2>1, <2>2 DEF Sound, Quiet, Timers
<1>2. n.data = "none"
  BY DEF NewChild
<1>3. Received(t, n) = t /\ Received(Started(s), n) = Started(s)
  BY <1>2 DEF Received
<1>4. FoundActive(t, n) = FoundActive(Started(s), n)
  BY DEF FoundActive, Started, Sound, PL
<1>5. [t EXCEPT !.child_active = FoundActive(t, n)]
        = [Started(s) EXCEPT !.child_active = FoundActive(Started(s), n)]
  BY <1>4 DEF Started, Sound, PL
<1>6. ReadPipe(Started(s), n) = ReadPipe(t, n)
  BY <1>3, <1>5 DEF ReadPipe
<1> QED
  BY <1>1, <1>6

\* Starting a child whose predecessor has been waited for.
LEMMA StartSound ==
  ASSUME NEW p, NEW s, NEW o, Sound(p, s, o), ~s.pid
  PROVE  /\ Sound(p, ReadPipe(Started(s), NewChild(o)), NewChild(o))
         /\ ReadPipe(Started(s), NewChild(o)).pid
<1> DEFINE t == [Started(s) EXCEPT !.child_active = TRUE]
           n == NewChild(o)
<1>1. Sound(p, t, n) /\ t.pid /\ ReadPipe(Started(s), n) = ReadPipe(t, n)
  BY StartedSound
<1>2. Drained(n) = n
  BY DEF Drained, NewChild
<1> QED
  <2> HIDE DEF t, n
  <2>1. Sound(p, ReadPipe(t, n), Drained(n)) /\ ReadPipe(t, n).pid
    BY <1>1, ReadPipeSound
  <2> QED
    BY <1>1, <1>2, <2>1 DEF n

\* Waiting for a child that has ended.
LEMMA ReapSound ==
  ASSUME NEW p, NEW s, NEW o, Sound(p, s, o), CanReap(s), o.child = "zombie"
  PROVE  Sound(p, [s EXCEPT !.pid = FALSE, !.child_active = FALSE,
                            !.start_retry_timer = FALSE],
                  [o EXCEPT !.child = "none", !.unreaped = @ - 1])
<1> DEFINE t == [s EXCEPT !.pid = FALSE, !.child_active = FALSE,
                          !.start_retry_timer = FALSE]
           n == [o EXCEPT !.child = "none", !.unreaped = @ - 1]
<1>1. /\ t \in PL /\ ~t.pid /\ ~t.child_active /\ ~t.start_retry_timer
      /\ t.sigkill_sent = s.sigkill_sent /\ t.sigterm_sent = s.sigterm_sent
      /\ t.read_timer = s.read_timer /\ t.shutdown_timer = s.shutdown_timer
  BY DEF Sound, PL
<1>2. /\ n \in OS /\ n.child = "none" /\ n.unreaped = 0
      /\ n.open = o.open /\ n.data = o.data
  <2>1. o.unreaped = 1 /\ o \in OS
    BY DEF Sound, CanReap, PL
  <2>2. o.open \in BOOLEAN /\ o.data \in {"none"} \cup Packet
    BY <2>1 DEF OS
  <2>3. n = [child |-> "none", unreaped |-> 0, open |-> o.open, data |-> o.data]
    <3>1. n = [o EXCEPT !.child = "none", !.unreaped = 0]
      BY <2>1
    <3> HIDE DEF n
    <3> QED
      BY <2>1, <3>1 DEF OS
  <2> HIDE DEF n
  <2> QED
    BY <2>2, <2>3 DEF OS
<1>3. Quiet(s, o) /\ ~s.child_active /\ Timers(p, s) /\ (s.sigkill_sent => s.sigterm_sent)
  BY DEF Sound, CanReap
<1> HIDE DEF t, n
<1>4. Sound(p, t, n)
  BY <1>1, <1>2, <1>3 DEF Sound, Quiet, Timers
<1> QED
  BY <1>4 DEF t, n

-----------------------------------------------------------------------------
(* The invariant.                                                          *)

LEMMA InitInv == Init => IInv
<1> SUFFICES ASSUME Init PROVE IInv
  OBVIOUS
<1>1. \A p \in Plugin : NewPlugin(p) \in PL
  <2> SUFFICES ASSUME NEW p \in Plugin PROVE NewPlugin(p) \in PL
    OBVIOUS
  <2> DEFINE a == p \in Retried
             b == p \in Waited
  <2>1. a \in BOOLEAN /\ b \in BOOLEAN
    OBVIOUS
  <2>2. NewPlugin(p) = [pid |-> TRUE, child_active |-> TRUE, sigterm_sent |-> FALSE,
          sigkill_sent |-> FALSE, shutdown_requested |-> FALSE,
          restart_requested |-> FALSE, read_timer |-> FALSE,
          start_retry_timer |-> a, shutdown_timer |-> b]
    BY Zenon DEF NewPlugin
  <2> HIDE DEF a, b
  <2> QED
    BY <2>1, <2>2 DEF PL
<1>2. pl \in [Plugin -> PL] /\ os \in [Plugin -> OS]
  <2>1. [child |-> "runs", unreaped |-> 1, open |-> TRUE, data |-> "none"] \in OS
    BY DEF OS
  <2> QED
    BY <1>1, <2>1 DEF Init
<1>4. ServerOK
  <2>1. MaxPackets \in Nat /\ MaxHups \in Nat
    BY SupervisorAssumption DEF SupervisorAssumption
  <2>2. 0 \in 0 .. MaxPackets /\ 0 \in 0 .. MaxHups
    BY <2>1
  <2>3. /\ plugins = Plugin /\ packets = 0 /\ hups = 0
        /\ terminate_proc = FALSE /\ restart_proc = FALSE /\ terminating = FALSE
    BY DEF Init
  <2> QED
    BY <1>2, <2>2, <2>3 DEF ServerOK
<1>3. \A p \in Plugin : Sound(p, pl[p], os[p])
  <2> SUFFICES ASSUME NEW p \in Plugin PROVE Sound(p, pl[p], os[p])
    OBVIOUS
  <2>1. pl[p] = NewPlugin(p)
        /\ os[p] = [child |-> "runs", unreaped |-> 1, open |-> TRUE, data |-> "none"]
    BY DEF Init
  <2>2. pl[p] \in PL /\ os[p] \in OS
    BY <1>2
  <2>3. Timers(p, pl[p])
    <3>1. /\ NewPlugin(p).read_timer = FALSE
          /\ NewPlugin(p).start_retry_timer = (p \in Retried)
          /\ NewPlugin(p).shutdown_timer = (p \in Waited)
      BY Zenon DEF NewPlugin
    <3> QED
      BY <2>1, <3>1, Zenon DEF Timers
  <2> QED
    BY <2>1, <2>2, <2>3 DEF Sound, Quiet, NewPlugin
<1> QED
  BY <1>3, <1>4 DEF Init, IInv, NoneLeft

\* A plugin that is served stays sound, and is erased only without a child.
LEMMA ServedInv ==
  ASSUME IInv, NEW p \in plugins, NEW s, NEW o, Sound(p, s, o), Served(p, s, o)
  PROVE  IInv'
<1>1. p \in Plugin /\ s \in PL /\ o \in OS
  BY DEF IInv, ServerOK, Sound
<1>2. ServerOK'
  BY <1>1 DEF IInv, ServerOK, Served, signals, counts
<1>3. \A q \in Plugin : pl'[q] = (IF q = p THEN s ELSE pl[q])
                       /\ os'[q] = (IF q = p THEN o ELSE os[q])
  BY DEF IInv, ServerOK, Served
<1>4. \A q \in Plugin : Sound(q, pl'[q], os'[q])
  <2> SUFFICES ASSUME NEW q \in Plugin PROVE Sound(q, pl'[q], os'[q])
    OBVIOUS
  <2>1. CASE q = p
    BY <1>3, <2>1
  <2>2. CASE q # p
    BY <1>3, <2>2 DEF IInv
  <2> QED
    BY <2>1, <2>2
<1>5. NoneLeft'
  <2> SUFFICES ASSUME NEW q \in Plugin \ plugins' PROVE os'[q].child = "none"
    BY DEF NoneLeft
  <2>1. CASE q = p
    <3>1. Gone(s)
      BY <2>1 DEF Served
    <3> QED
      BY <1>3, <2>1, <3>1 DEF Gone, Sound
  <2>2. CASE q # p
    <3>1. q \notin plugins
      BY <2>2 DEF Served
    <3> QED
      BY <1>3, <2>2, <3>1 DEF IInv, NoneLeft
  <2> QED
    BY <2>1, <2>2
<1> QED
  BY <1>2, <1>4, <1>5 DEF IInv

\* A step that changes one plugin that has not been erased, and keeps it sound.
LEMMA StepInv ==
  ASSUME IInv, NEW p \in plugins, NEW s, NEW o, Sound(p, s, o),
         pl' = [pl EXCEPT ![p] = s], os' = [os EXCEPT ![p] = o],
         UNCHANGED <<plugins, signals>>,
         packets' \in 0 .. MaxPackets, UNCHANGED hups
  PROVE  IInv'
<1>1. p \in Plugin /\ s \in PL /\ o \in OS
  BY DEF IInv, ServerOK, Sound
<1>2. ServerOK'
  BY <1>1 DEF IInv, ServerOK, signals
<1>3. \A q \in Plugin : pl'[q] = (IF q = p THEN s ELSE pl[q])
                       /\ os'[q] = (IF q = p THEN o ELSE os[q])
  BY DEF IInv, ServerOK
<1>4. \A q \in Plugin : Sound(q, pl'[q], os'[q])
  <2> SUFFICES ASSUME NEW q \in Plugin PROVE Sound(q, pl'[q], os'[q])
    OBVIOUS
  <2>1. CASE q = p
    BY <1>3, <2>1
  <2>2. CASE q # p
    BY <1>3, <2>2 DEF IInv
  <2> QED
    BY <2>1, <2>2
<1>5. NoneLeft'
  BY <1>3 DEF IInv, NoneLeft
<1> QED
  BY <1>2, <1>4, <1>5 DEF IInv

LEMMA ServeInv ==
  ASSUME IInv, NEW p \in Plugin, Serve(p)
  PROVE  IInv'
<1>1. p \in plugins /\ Sound(p, pl[p], os[p])
  BY DEF Serve, IInv
<1>2. CASE Waits(p)
  BY <1>1, <1>2, ServedInv DEF Waits
<1>3. CASE Starts(p)
  <2>1. Sound(p, ReadPipe(Started(pl[p]), NewChild(os[p])), NewChild(os[p]))
    BY <1>1, <1>3, StartSound DEF Starts, CanStart
  <2> QED
    BY <1>1, <1>3, <2>1, ServedInv DEF Starts
<1>4. CASE Reaps(p)
  BY <1>1, <1>4, ReapSound, ServedInv DEF Reaps
<1>5. CASE Reads(p)
  <2>1. pl[p].pid
    BY <1>1, <1>5 DEF Reads, Sound
  <2>2. Sound(p, ReadPipe(pl[p], os[p]), Drained(os[p]))
    BY <1>1, <2>1, ReadPipeSound
  <2> QED
    BY <1>1, <1>5, <2>2, ServedInv DEF Reads
<1> QED
  BY <1>2, <1>3, <1>4, <1>5 DEF Serve

\* The steps of the timers and of the child.
LEMMA TimerInv ==
  ASSUME IInv, NEW p \in Plugin, Timer(p)
  PROVE  IInv'
<1>1. p \in plugins /\ Sound(p, pl[p], os[p])
  BY DEF Timer, ReadTick, RetryTick, ShutdownTick, Tick, Ticks, IInv
<1>2. os' = [os EXCEPT ![p] = os[p]] /\ UNCHANGED <<plugins, signals, counts>>
  BY DEF Timer, ReadTick, RetryTick, ShutdownTick, Tick, IInv, ServerOK
<1>3. packets' \in 0 .. MaxPackets /\ UNCHANGED hups
  BY <1>2 DEF counts, IInv, ServerOK
<1>4. CASE ReadTick(p)
  <2> DEFINE s == [pl[p] EXCEPT !.read_timer = TRUE]
  <2>1. Sound(p, s, os[p])
    BY <1>1, <1>4 DEF ReadTick, Tick, Ticks, Sound, PL, Quiet, Timers
  <2>2. pl' = [pl EXCEPT ![p] = s]
    BY <1>4 DEF ReadTick, Tick
  <2> QED
    BY <1>1, <1>2, <1>3, <2>1, <2>2, StepInv
<1>5. CASE RetryTick(p)
  <2> DEFINE s == [pl[p] EXCEPT !.start_retry_timer = TRUE]
  <2>1. Sound(p, s, os[p])
    BY <1>1, <1>5 DEF RetryTick, Tick, Ticks, Sound, PL, Quiet, Timers
  <2>2. pl' = [pl EXCEPT ![p] = s]
    BY <1>5 DEF RetryTick, Tick
  <2> QED
    BY <1>1, <1>2, <1>3, <2>1, <2>2, StepInv
<1>6. CASE ShutdownTick(p)
  <2> DEFINE s == [pl[p] EXCEPT !.shutdown_timer = TRUE]
  <2>1. Sound(p, s, os[p])
    BY <1>1, <1>6 DEF ShutdownTick, Tick, Ticks, Sound, PL, Quiet, Timers
  <2>2. pl' = [pl EXCEPT ![p] = s]
    BY <1>6 DEF ShutdownTick, Tick
  <2> QED
    BY <1>1, <1>2, <1>3, <2>1, <2>2, StepInv
<1> QED
  BY <1>4, <1>5, <1>6 DEF Timer

LEMMA ChildInv ==
  ASSUME IInv, NEW p \in Plugin, Child(p)
  PROVE  IInv'
<1>1. p \in plugins /\ Sound(p, pl[p], os[p])
  BY DEF Child, Write, Close, Exit, ChildStep, IInv
<1>2. pl' = [pl EXCEPT ![p] = pl[p]] /\ UNCHANGED <<plugins, signals, hups>>
  BY DEF Child, Write, Close, Exit, ChildStep, IInv, ServerOK
<1>3. packets' \in 0 .. MaxPackets
  <2>1. MaxPackets \in Nat /\ packets \in 0 .. MaxPackets
    BY SupervisorAssumption DEF SupervisorAssumption, IInv, ServerOK
  <2>2. packets' = packets \/ (packets < MaxPackets /\ packets' = packets + 1)
    BY DEF Child, Write, Close, Exit
  <2> QED
    BY <2>1, <2>2
<1>4. ASSUME NEW o, Sound(p, pl[p], o), os' = [os EXCEPT ![p] = o]
      PROVE  IInv'
  BY <1>1, <1>2, <1>3, <1>4, StepInv
<1>5. ASSUME NEW k \in Packet, Write(p, k)
      PROVE  IInv'
  <2>1. Sound(p, pl[p], [os[p] EXCEPT !.data = k])
    <3> DEFINE o == [os[p] EXCEPT !.data = k]
    <3>1. /\ o \in OS /\ o.unreaped = os[p].unreaped /\ o.child = os[p].child
          /\ o.open = os[p].open /\ o.data = k
      BY <1>1 DEF Sound, OS
    <3>2. pl[p].child_active \/ pl[p].sigkill_sent
      BY <1>1, <1>5 DEF Write, Sound, Quiet
    <3> HIDE DEF o
    <3>3. Sound(p, pl[p], o)
      BY <1>1, <3>1, <3>2 DEF Sound, Quiet
    <3> QED
      BY <3>3 DEF o
  <2> QED
    BY <1>4, <1>5, <2>1 DEF Write, ChildStep
<1>6. CASE Close(p)
  <2>1. Sound(p, pl[p], [os[p] EXCEPT !.open = FALSE])
    BY <1>1 DEF Sound, OS, Quiet
  <2> QED
    BY <1>4, <1>6, <2>1 DEF Close, ChildStep
<1>7. CASE Exit(p)
  <2>1. PICK open \in {FALSE, os[p].open} :
          ChildStep(p, [os[p] EXCEPT !.child = "zombie", !.open = open])
    BY <1>7 DEF Exit
  <2>2. Sound(p, pl[p], [os[p] EXCEPT !.child = "zombie", !.open = open])
    <3> DEFINE o == [os[p] EXCEPT !.child = "zombie", !.open = open]
    <3>1. /\ o \in OS /\ o.unreaped = os[p].unreaped /\ o.child = "zombie"
          /\ o.open \in {FALSE, os[p].open} /\ o.data = os[p].data
      BY <1>1 DEF Sound, OS
    <3>2. os[p].child = "runs"
      BY <1>7 DEF Exit
    <3> HIDE DEF o
    <3>3. Sound(p, pl[p], o)
      BY <1>1, <3>1, <3>2 DEF Sound, Quiet
    <3> QED
      BY <3>3 DEF o
  <2> QED
    BY <1>4, <2>1, <2>2 DEF ChildStep
<1> QED
  BY <1>5, <1>6, <1>7 DEF Child

LEMMA SignalledInv ==
  ASSUME IInv, Signalled
  PROVE  IInv'
<1>1. restart_proc \in BOOLEAN /\ os' = os /\ plugins' = plugins
      /\ \A p \in Plugin : pl'[p] = (IF p \in plugins THEN Shutdown(pl[p], restart_proc)
                                     ELSE pl[p])
  BY DEF Signalled, IInv, ServerOK
<1>2. \A p \in Plugin : Sound(p, pl'[p], os'[p])
  <2> SUFFICES ASSUME NEW p \in Plugin PROVE Sound(p, pl'[p], os[p])
    BY <1>1
  <2>1. Sound(p, Shutdown(pl[p], restart_proc), os[p])
    BY <1>1, ShutdownSound DEF IInv
  <2> QED
    BY <1>1, <2>1 DEF IInv
<1>3. ServerOK'
  <2>1. \A p \in Plugin : pl'[p] \in PL
    BY <1>2 DEF Sound
  <2>2. pl' \in [Plugin -> PL]
    BY <2>1 DEF Signalled
  <2> QED
    BY <2>2 DEF Signalled, IInv, ServerOK, counts
<1>4. NoneLeft'
  BY <1>1 DEF IInv, NoneLeft
<1> QED
  BY <1>2, <1>3, <1>4 DEF IInv

LEMMA StepPreserves == IInv /\ [Next]_vars => IInv'
<1> SUFFICES ASSUME IInv, [Next]_vars PROVE IInv'
  OBVIOUS
<1>1. CASE Signalled
  BY <1>1, SignalledInv
<1>2. CASE int_handler
  BY <1>2 DEF int_handler, IInv, ServerOK, counts, NoneLeft
<1>3. CASE restart_handler
  BY <1>3, SupervisorAssumption DEF restart_handler, IInv, ServerOK, NoneLeft
<1>4. ASSUME NEW p \in Plugin, Serve(p) PROVE IInv'
  BY <1>4, ServeInv
<1>5. ASSUME NEW p \in Plugin, Timer(p) PROVE IInv'
  BY <1>5, TimerInv
<1>6. ASSUME NEW p \in Plugin, Child(p) PROVE IInv'
  BY <1>6, ChildInv
<1>7. CASE UNCHANGED vars
  BY <1>7 DEF vars, signals, counts, IInv, ServerOK, NoneLeft
<1> QED
  BY <1>1, <1>2, <1>3, <1>4, <1>5, <1>6, <1>7 DEF Next

\* In every reachable state: the types, a plugin has one child at most and pid
\* is its number, SIGKILL follows SIGTERM, and an erased plugin has no child
\* (Plugin::read, check_child and shutdown, IOHandler).
THEOREM Invariance == Spec => [](TypeOK /\ OneChild /\ KillAfterTerm /\ NoneLeft)
<1>1. Spec => []IInv
  BY InitInv, StepPreserves, PTL DEF Spec
<1>2. IInv => TypeOK /\ OneChild /\ KillAfterTerm /\ NoneLeft
  BY DEF IInv, ServerOK, Sound, Timers, TypeOK, OneChild, KillAfterTerm
<1> QED
  BY <1>1, <1>2, PTL

-----------------------------------------------------------------------------
(* What a step gives up has been read.                                     *)

LEMMA StepLosesNothing ==
  ASSUME IInv, Next, NEW p \in plugins, GivesUp(p)
  PROVE  os[p].data \in {"none", "broken"} \/ pl[p].sigkill_sent
<1>1. p \in Plugin /\ Sound(p, pl[p], os[p])
  BY DEF IInv, ServerOK
<1>2. ~pl[p].child_active => os[p].data \in {"none", "broken"} \/ pl[p].sigkill_sent
  BY <1>1 DEF Sound, Quiet
<1>3. ~pl[p].pid => ~pl[p].child_active
  BY <1>1 DEF Sound
<1>4. CASE p \in plugins'
  BY <1>2, <1>3, <1>4 DEF GivesUp
<1>5. CASE p \notin plugins'
  <2>1. PICK q \in Plugin : Serve(q)
    BY <1>5 DEF Next, Signalled, int_handler, restart_handler, Timer, ReadTick,
                RetryTick, ShutdownTick, Tick, Child, Write, Close, Exit, ChildStep
  <2>2. Serve(p)
    BY <1>5, <2>1 DEF Serve, Waits, Starts, Reaps, Reads, Served
  <2>3. CASE Waits(p)
    BY <1>2, <2>3 DEF Waits
  <2>4. CASE Starts(p)
    BY <1>2, <2>4 DEF Starts, CanStart
  <2>5. CASE Reaps(p)
    BY <1>2, <2>5 DEF Reaps, CanReap
  <2>6. CASE Reads(p)
    <3>1. pl[p].pid
      BY <1>3, <2>6 DEF Reads
    <3>2. ReadPipe(pl[p], os[p]).pid
      BY <1>1, <3>1, ReadPipeSound
    <3>3. ~Gone(ReadPipe(pl[p], os[p]))
      BY <3>2 DEF Gone
    <3> QED
      BY <1>5, <2>6, <3>3 DEF Reads, Served
  <2> QED
    BY <2>2, <2>3, <2>4, <2>5, <2>6 DEF Serve
<1> QED
  BY <1>4, <1>5

\* What a child has written before it ended by itself is read before its pipe
\* is closed, for a new child or for good.
THEOREM AllIsRead == Spec => NothingLost
<1>1. Spec => []IInv
  BY InitInv, StepPreserves, PTL DEF Spec
<1>2. IInv /\ [Next]_vars =>
        [\A p \in plugins : GivesUp(p) => \/ os[p].data \in {"none", "broken"}
                                          \/ pl[p].sigkill_sent]_vars
  BY StepLosesNothing
<1> QED
  BY <1>1, <1>2, PTL DEF Spec, NothingLost
=============================================================================
