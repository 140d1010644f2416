------------------------------ MODULE Connection ------------------------------
(***************************************************************************)
(* One TCP connection of the SeedLink server (class Connection,            *)
(* iosystem.cc): the handshake that selects stations, the answers to the   *)
(* commands, and the rounds in which the stations' packets are sent.       *)
(*                                                                         *)
(* What StationIO models in detail is a counter here: todo is the number   *)
(* of records that a station has still to deliver, as far as its queues    *)
(* lead.  The stations are numbered in the order of the map                *)
(* requested_stations; the connection starts with station 1, its default   *)
(* station.                                                                *)
(***************************************************************************)
EXTENDS Integers, FiniteSets

CONSTANTS
  N,            \* stations 1 .. N
  Clients,      \* kinds of client: the stations 1 .. n that it names, the
                \* modes it uses ("data", "fetch" and "time"), a bound on the
                \* commands it sends, and its habits, what it does that it
                \* should not: it "pipelines" commands before it has its
                \* answers, "interrupts" the transfer with commands other
                \* than CAT and INFO
  MaxTodo,      \* bound: records waiting for one station
  MaxArrivals   \* bound: records arriving

ASSUME ConnectionAssumption ==
  /\ N \in Nat \ {0}
  /\ Clients \subseteq [stations: 1 .. N, modes: SUBSET {"data", "fetch", "time"},
                         habits: SUBSET {"pipelines", "interrupts"}, cmds: Nat]
  /\ MaxTodo \in Nat /\ MaxArrivals \in Nat

Station == 1 .. N

VARIABLES
  open,       \* the connection is open
  cx,         \* ConnectionState, and Connection::invalid
  requested,  \* the keys of requested_stations
  current,    \* current_station
  st,         \* StationConnectionState of each station
  infos,      \* packets of a CAT or INFO answer still to send
  cmds,       \* commands received so far
  arrivals,   \* records that have arrived so far
  client,     \* its kind, and as a history what it has asked for and got
  abandoned   \* history: STATION gave up a default station that was active

vars == <<open, cx, requested, current, st, infos, cmds, arrivals, client, abandoned>>

\* eod: ConnectionMonitorImpl::eod, the station has no more data for the client.
Idle == [active |-> FALSE, ready |-> FALSE, mode |-> "data", todo |-> 0, eod |-> FALSE]

\* unanswered: the client waits for an answer; intended: the station it named
\* last, 0 when that was refused; named: it has done so since its last END;
\* started: its last command was END; ended: it got an "END" for what it has
\* asked for; passed: packets of other stations it has got while a station was
\* ready.
NewClient(kind) ==
  [kind |-> kind, unanswered |-> FALSE, intended |-> 1, named |-> TRUE,
   started |-> FALSE, ended |-> FALSE,
   passed |-> [s \in Station |-> 0]]

NewCX ==
  [multi |-> FALSE, handshaking_done |-> FALSE, have_response |-> FALSE,
   batchmode |-> FALSE, invalid |-> FALSE, active |-> 0, ready |-> 0]

-----------------------------------------------------------------------------
(* Commands.                                                               *)

\* A command is read, and what is left of an earlier CAT or INFO is dropped.
Receives ==
  /\ open /\ cmds < client.kind.cmds
  /\ "pipelines" \in client.kind.habits \/ ~client.unanswered
  /\ cmds' = cmds + 1
  /\ UNCHANGED <<open, arrivals>>

Ordinary ==
  Receives /\ ("interrupts" \in client.kind.habits \/ ~cx.handshaking_done)

\* Mutant: once the transfer goes on, commands are not answered any more.
Response_NotInTransfer(x) ==
  IF x.batchmode \/ x.handshaking_done THEN x ELSE [x EXCEPT !.have_response = TRUE]

\* ConnectionState::response: no answers in batch mode.
Response(x) == IF x.batchmode THEN x ELSE [x EXCEPT !.have_response = TRUE]

Waits(cl) ==
  [cl EXCEPT !.unanswered = @ \/ ~cx.batchmode, !.started = FALSE]

\* What is answered and has no effect: HELLO, and with ERROR a command that is
\* unknown, malformed or not allowed.
Error ==
  /\ Ordinary
  /\ cx' = Response(cx)
  /\ infos' = 0
  /\ client' = Waits(client)
  /\ UNCHANGED <<requested, current, st, abandoned>>

Count(b) == IF b THEN 1 ELSE 0

\* The subscription of station s is forgotten, and the counts follow.
Forget(x, s) == [x EXCEPT !.active = @ - Count(st[s].active),
                          !.ready = @ - Count(st[s].ready)]

\* Mutant: the default station stays in stations_ready as well.
StationCommand_ReadyKept(s) ==
  LET gone == ~cx.multi
  IN  /\ Ordinary /\ s <= client.kind.stations
      /\ cx' = Response([cx EXCEPT !.invalid = FALSE, !.multi = TRUE])
      /\ requested' = (IF gone THEN requested \ {current} ELSE requested) \cup {s}
      /\ st' = IF gone THEN [st EXCEPT ![current] = Idle] ELSE st
      /\ current' = s
      /\ infos' = 0
      /\ client' = [Waits(client) EXCEPT !.intended = s,
                       !.named = TRUE, !.passed = [t \in Station |-> 0]]
      /\ abandoned' = (abandoned \/ (gone /\ st[current].active))

\* STATION: in uni-station mode, the default station is given up.  It leaves
\* stations_ready, but a client that has subscribed to it is still counted in
\* stations_active.
StationCommand(s) ==
  LET gone == ~cx.multi
      x == IF gone THEN [cx EXCEPT !.ready = @ - Count(st[current].ready)] ELSE cx
  IN  /\ Ordinary /\ s <= client.kind.stations
      /\ cx' = Response([x EXCEPT !.invalid = FALSE, !.multi = TRUE])
      /\ requested' = (IF gone THEN requested \ {current} ELSE requested) \cup {s}
      /\ st' = IF gone THEN [st EXCEPT ![current] = Idle] ELSE st
      /\ current' = s
      /\ infos' = 0
      /\ client' = [Waits(client) EXCEPT !.intended = s,
                       !.named = TRUE, !.passed = [t \in Station |-> 0]]
      /\ abandoned' = (abandoned \/ (gone /\ st[current].active))

\* STATION with a station that does not exist or is not for this address.
StationRefused ==
  /\ Ordinary
  /\ cx' = Response([cx EXCEPT !.invalid = TRUE])
  /\ infos' = 0
  /\ client' = [Waits(client) EXCEPT !.intended = 0, !.named = TRUE]
  /\ UNCHANGED <<requested, current, st, abandoned>>

\* SELECT, DATA, FETCH and TIME after a refused STATION.
NotForAnyStation == cx.invalid /\ Error

\* Mutant: invalid is not looked at.
ForCurrent_Valid ==
  /\ Ordinary
  /\ cx.multi => client.named /\ ~(cx.handshaking_done /\ cx.batchmode)

\* SELECT, DATA, FETCH and TIME are for current_station, which a round moves:
\* in multi-station mode, a client that interrupts the transfer with one of
\* them has named a station since END, and not in batch mode, where naming it
\* does not stop the rounds.
ForCurrent ==
  /\ Ordinary /\ ~cx.invalid
  /\ cx.multi => client.named /\ ~(cx.handshaking_done /\ cx.batchmode)

\* SELECT; also a DATA, FETCH or TIME that has bad arguments, which is
\* answered with ERROR when the subscription has already been forgotten.
Select ==
  /\ ForCurrent
  /\ cx' = Response(Forget(cx, current))
  /\ st' = [st EXCEPT ![current] = Idle]
  /\ infos' = 0
  /\ client' = Waits(client)
  /\ UNCHANGED <<requested, current, abandoned>>

\* DATA, FETCH, TIME: ready when there may be something to send, of which n
\* records are there, and when the window of TIME may be over already (eod).
Subscribe(mode, ready, n, eod) ==
  LET x == Forget(cx, current)
      y == [x EXCEPT !.active = @ + 1, !.ready = @ + Count(ready)]
  IN  /\ ForCurrent
      /\ mode \in client.kind.modes /\ (n > 0 => ready) /\ (mode = "time" => ready)
      /\ eod => mode = "time" /\ n = 0
      /\ st' = [st EXCEPT ![current] = [active |-> TRUE, ready |-> ready,
                             mode |-> mode, todo |-> n, eod |-> eod]]
      /\ infos' = 0
      /\ \/ /\ cx.multi
            /\ cx' = Response(y)
            /\ client' = [Waits(client) EXCEPT !.ended = FALSE]
         \/ /\ ~cx.multi
            /\ cx' = [y EXCEPT !.handshaking_done = TRUE]
            /\ client' = [client EXCEPT !.ended = FALSE, !.started = FALSE]
      /\ UNCHANGED <<requested, current, abandoned>>

\* Mutant: END is answered like the other commands.
End_Answered ==
  /\ Ordinary
  /\ cx' = Response([cx EXCEPT !.handshaking_done = TRUE, !.batchmode = FALSE])
  /\ infos' = 0
  /\ client' = [client EXCEPT !.started = TRUE, !.named = FALSE]
  /\ UNCHANGED <<requested, current, st, abandoned>>

\* END
End ==
  /\ Ordinary
  /\ cx' = [cx EXCEPT !.handshaking_done = TRUE, !.batchmode = FALSE]
  /\ infos' = 0
  /\ client' = [client EXCEPT !.started = TRUE, !.named = FALSE]
  /\ UNCHANGED <<requested, current, st, abandoned>>

\* BATCH, the last command that is answered before END.
Batch ==
  /\ Ordinary
  /\ cx' = [Response(cx) EXCEPT !.batchmode = TRUE]
  /\ infos' = 0
  /\ client' = Waits(client)
  /\ UNCHANGED <<requested, current, st, abandoned>>

\* CAT and INFO
Info ==
  /\ Receives
  /\ infos' \in 1 .. 2
  /\ UNCHANGED <<cx, requested, current, st, client, abandoned>>

Reset ==
  /\ cx' = NewCX
  /\ requested' = {1}
  /\ current' = 1
  /\ st' = [s \in Station |-> Idle]
  /\ infos' = 0
  /\ client' = NewClient(client.kind)
  /\ abandoned' = FALSE

\* BYE, the client closes its socket, or a write fails.
Disconnect ==
  /\ open
  /\ open' = FALSE
  /\ Reset
  /\ UNCHANGED <<cmds, arrivals>>

Connect ==
  /\ ~open
  /\ open' = TRUE
  /\ UNCHANGED <<cx, requested, current, st, infos, cmds, arrivals, client, abandoned>>

-----------------------------------------------------------------------------
(* StationIO::new_buffer, for the client: a record of station s arrives.   *)
(* It matters to a client without a place in the queues if it matches; the *)
(* record that ends a time window does not.                                *)

Woken(t) == Count(~t.ready)

Arrive(s, matches, over) ==
  LET t == st[s]
      queued == t.todo + Count(matches /\ ~over)
  IN  /\ open /\ s \in requested /\ t.active /\ arrivals < MaxArrivals
      /\ queued <= MaxTodo
      /\ over => t.mode = "time" /\ t.todo = 0 /\ ~t.eod
      /\ arrivals' = arrivals + 1
      /\ \/ /\ queued > 0 /\ cx.handshaking_done
            /\ st' = [st EXCEPT ![s].todo = queued, ![s].ready = TRUE]
            /\ cx' = [cx EXCEPT !.ready = @ + Woken(t)]
         \/ /\ queued = 0 \/ ~cx.handshaking_done
            /\ st' = [st EXCEPT ![s].todo = queued, ![s].eod = @ \/ over]
            /\ UNCHANGED cx
      /\ UNCHANGED <<open, requested, current, infos, cmds, client, abandoned>>

-----------------------------------------------------------------------------
(* Connection::deliver, called when the socket can be written.             *)

SendResponse ==
  /\ open /\ cx.have_response
  /\ cx' = [cx EXCEPT !.have_response = FALSE, !.handshaking_done = FALSE]
  /\ client' = [client EXCEPT !.unanswered = FALSE]
  /\ UNCHANGED <<open, requested, current, st, infos, cmds, arrivals, abandoned>>

SendInfo ==
  /\ open /\ ~cx.have_response /\ infos > 0
  /\ infos' = infos - 1
  /\ UNCHANGED <<open, cx, requested, current, st, cmds, arrivals, client, abandoned>>

\* A round: from the station after current_station on, each ready station is
\* asked for a packet, until one sends it or none is ready any more.  For the
\* stations in over, the next record ends the time window.
Ready == {s \in requested : st[s].ready}
\* Mutant: a round starts with current_station itself.
Distance_Stays(s) == (s - current) % N

Distance(s) == (s - current - 1) % N

Sends(s, over) == st[s].todo > 0 /\ ~st[s].eod /\ s \notin over

\* A station that has nothing to send is no longer ready; it stays active when
\* it is in real-time mode, or waits for the end of its time window.
Finished(s, over) == st[s].eod \/ s \in over \/ st[s].mode = "fetch"

After(s, over) ==
  [st[s] EXCEPT !.ready = FALSE, !.todo = 0, !.active = ~Finished(s, over),
                !.eod = Finished(s, over)]

\* Mutant: the stations that have ended stay in stations_active.
Round_ActiveKept(done, over) ==
  /\ cx' = [cx EXCEPT !.ready = @ - Cardinality(done)]
  /\ UNCHANGED <<open, requested, infos, cmds, arrivals, abandoned>>

\* The stations in done have been asked in vain.
Round(done, over) ==
  LET ended == {s \in done : Finished(s, over)} IN
  /\ cx' = [cx EXCEPT !.ready = @ - Cardinality(done),
                      !.active = @ - Cardinality(ended)]
  /\ UNCHANGED <<open, requested, infos, cmds, arrivals, abandoned>>

\* Mutant: "END" is sent when no station is ready.
GotEnd_Ready(cl, done) ==
  [cl EXCEPT !.ended = @ \/ (done # {} /\ cx'.ready = 0)]

GotEnd(cl, done) ==
  [cl EXCEPT !.ended = @ \/ (done # {} /\ cx'.active = 0)]

SendPacket(s, over) ==
  LET done == {t \in Ready : Distance(t) < Distance(s)} IN
  /\ s \in Ready /\ Sends(s, over)
  /\ \A t \in done : ~Sends(t, over)
  /\ Round(done, over)
  /\ st' = [t \in Station |->
              IF t \in done THEN After(t, over)
              ELSE IF t = s THEN [st[t] EXCEPT !.todo = @ - 1]
              ELSE st[t]]
  /\ current' = s
  /\ client' = [GotEnd(client, done) EXCEPT
                  !.passed = [t \in Station |->
                     IF t # s /\ t \in Ready \ done THEN @[t] + 1 ELSE 0]]

SendNothing(over) ==
  /\ Ready # {} /\ \A s \in Ready : ~Sends(s, over)
  /\ Round(Ready, over)
  /\ st' = [s \in Station |-> IF s \in Ready THEN After(s, over) ELSE st[s]]
  /\ current' \in {s \in Ready : \A t \in Ready : Distance(t) <= Distance(s)}
  /\ client' = [GotEnd(client, Ready) EXCEPT !.passed = [s \in Station |-> 0]]

Windows == {s \in requested : st[s].mode = "time" /\ st[s].todo > 0}

SendData ==
  /\ open /\ ~cx.have_response /\ infos = 0
  /\ cx.handshaking_done /\ cx.ready > 0
  /\ \E over \in SUBSET Windows :
       SendNothing(over) \/ \E s \in Station : SendPacket(s, over)

-----------------------------------------------------------------------------
Init ==
  /\ open = TRUE /\ cx = NewCX /\ requested = {1} /\ current = 1
  /\ st = [s \in Station |-> Idle]
  /\ infos = 0 /\ cmds = 0 /\ arrivals = 0
  /\ client \in {NewClient(kind) : kind \in Clients}
  /\ abandoned = FALSE

Command ==
  \/ \E s \in Station : StationCommand(s)
  \/ \E mode \in {"data", "fetch", "time"}, ready \in BOOLEAN, n \in 0 .. MaxTodo, eod \in BOOLEAN :
       Subscribe(mode, ready, n, eod)
  \/ StationRefused \/ NotForAnyStation \/ Select \/ End \/ Batch \/ Info \/ Error

Next ==
  \/ Command \/ Connect \/ Disconnect
  \/ \E s \in Station, matches, over \in BOOLEAN : Arrive(s, matches, over)
  \/ SendResponse \/ SendInfo \/ SendData

Spec == Init /\ [][Next]_vars

\* The main loop calls deliver whenever the socket of a client that reads can
\* be written.
Fairness == WF_vars(SendResponse \/ SendInfo \/ SendData)

FairSpec == Spec /\ Fairness

-----------------------------------------------------------------------------
(* Properties.                                                             *)

\* stations_ready and stations_active are the numbers of stations that are
\* ready and active, whatever is subscribed to, forgotten, given up or ended;
\* only a default station that was active when STATION gave it up stays
\* counted, once, in stations_active.  The loop of a round ends only because of
\* the first count, and "END" is sent only because of the second.
CountsMatch ==
  /\ cx.ready = Cardinality(Ready)
  /\ cx.active = Cardinality({s \in requested : st[s].active}) + Count(abandoned)

\* The packets of the stations take turns: no ready station has to let pass
\* more packets than there are other stations.
TakeTurns == \A s \in Station : client.passed[s] < Cardinality(requested)

\* When the last station that is active has no more data for the client, it
\* gets "END" with that, unless stations_active still counts the default
\* station.
Ends(s) == st[s].active /\ ~st'[s].active /\ st'[s].eod

EndWhenDone ==
  [][(\E s \in requested : Ends(s)) /\ (\A s \in requested : ~st'[s].active)
       /\ ~abandoned => client'.ended]_vars

\* "END" is sent only when no station has anything to send any more.
EndAfterAll ==
  [][~client.ended /\ client'.ended =>
       \A s \in requested : ~st'[s].active /\ st'[s].todo = 0]_vars

\* A command never touches the subscription of another station than the one
\* that the client has named last, and none when that one was refused.
OnlyIntended ==
  [][Command => \A s \in Station :
       st'[s] # st[s] => \/ client.intended = s
                         \/ ~cx.multi /\ s = current]_vars

\* Every command that has an answer is answered, also one that interrupts the
\* transfer, when the client waits for its answers.
Waiting == "pipelines" \notin client.kind.habits

Answered == Waiting /\ client.unanswered ~> ~client.unanswered

\* In dial-up mode, a client that waits for its answers and has sent END, or
\* that gets data already, gets its "END", unless it sends another command or
\* closes the connection: if all its stations were found ready, and it has not
\* given up an active default station.  (A station that is not ready is left
\* active, and its "END" comes after the next record only.)
DialUp ==
  /\ open /\ ~abandoned
  /\ client.started \/ (cx.handshaking_done /\ ~cx.have_response)
  /\ \E s \in requested : st[s].active
  /\ \A s \in requested : st[s].active => st[s].mode = "fetch"

AllReady == \A s \in requested : st[s].active => st[s].ready

EndComes ==
  \A n \in UNION {0 .. kind.cmds : kind \in Clients} :
    (Waiting /\ DialUp /\ AllReady /\ cmds = n) ~> (client.ended \/ cmds # n \/ ~open)

=============================================================================
