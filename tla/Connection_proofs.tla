--------------------------- MODULE Connection_proofs ---------------------------
(***************************************************************************)
(* Proofs about Connection, for any number of stations and any clients,    *)
(* whatever commands, records and rounds come in what order:               *)
(* stations_ready and stations_active are the numbers of stations that are *)
(* ready and active (but for a default station that is given up), the      *)
(* stations take turns, a command is for the station that the client has   *)
(* named, and "END" comes with the end of the data and not before.         *)
(***************************************************************************)
EXTENDS Connection, FiniteSetTheorems, TLAPS

\* The stations that stations_active counts.
Active == {s \in requested : st[s].active}

CXType == [multi: BOOLEAN, handshaking_done: BOOLEAN, have_response: BOOLEAN,
           batchmode: BOOLEAN, invalid: BOOLEAN, active: Int, ready: Int]
STType == [active: BOOLEAN, ready: BOOLEAN, mode: {"data", "fetch", "time"},
           todo: Int, eod: BOOLEAN]

Types == /\ cx \in CXType /\ st \in [Station -> STType]
         /\ requested \subseteq Station /\ current \in requested
         /\ abandoned \in BOOLEAN

\* What the counts rest on: before STATION, the default station is the only one
\* and has not been given up; only an active station is ready; a station that
\* is not requested is not active.
Shape == /\ ~cx.multi => requested = {current} /\ ~abandoned
         /\ \A s \in Station : st[s].ready => st[s].active
         /\ \A s \in Station \ requested : ~st[s].active

\* The inductive invariant.
IInv == Types /\ Shape /\ CountsMatch

-----------------------------------------------------------------------------
(* Counting.                                                               *)

\* Two sets that differ in one element at most differ by it in number.
LEMMA OneChanges ==
  ASSUME NEW A, NEW B, NEW c, IsFiniteSet(A), A \ {c} = B \ {c}
  PROVE  /\ IsFiniteSet(B)
         /\ Cardinality(B) = Cardinality(A) - Count(c \in A) + Count(c \in B)
<1> DEFINE R == A \ {c}
<1>1. IsFiniteSet(R) /\ Cardinality(R) = IF c \in A THEN Cardinality(A) - 1 ELSE Cardinality(A)
  BY FS_RemoveElement
<1>2. c \notin R /\ R = B \ {c}
  OBVIOUS
<1>3. IsFiniteSet(R \cup {c}) /\ Cardinality(R \cup {c}) = Cardinality(R) + 1
  <2> HIDE DEF R
  <2> QED
    BY <1>1, <1>2, FS_AddElement
<1>4. Cardinality(A) \in Int /\ Cardinality(R) \in Int
  BY <1>1, FS_CardinalityType
<1>5. CASE c \in B
  <2>1. B = R \cup {c}
    BY <1>2, <1>5
  <2> HIDE DEF R
  <2> QED
    BY <1>1, <1>3, <1>4, <1>5, <2>1 DEF Count
<1>6. CASE c \notin B
  <2>1. B = R
    BY <1>2, <1>6
  <2> HIDE DEF R
  <2> QED
    BY <1>1, <1>4, <1>6, <2>1 DEF Count
<1> QED
  BY <1>5, <1>6

\* What is left when some of the elements are taken away.
LEMMA SomeGo ==
  ASSUME NEW A, NEW D, IsFiniteSet(A), D \subseteq A
  PROVE  Cardinality(A \ D) = Cardinality(A) - Cardinality(D)
<1>1. A \cap D = D
  OBVIOUS
<1> QED
  BY <1>1, FS_Difference

LEMMA Finite ==
  ASSUME Types
  PROVE  /\ IsFiniteSet(Ready) /\ IsFiniteSet(Active)
         /\ \A s \in Station : Distance(s) \in Int
<1>1. IsFiniteSet(Station)
  BY FS_Interval, ConnectionAssumption DEF Station
<1>2. Ready \in SUBSET Station /\ Active \in SUBSET Station
  BY DEF Types, Ready, Active
<1>3. current \in Int /\ N \in Nat \ {0}
  BY ConnectionAssumption DEF Types, Station
<1>4. ASSUME NEW s \in Station PROVE Distance(s) \in Int
  BY <1>3, <1>4 DEF Distance, Station
<1> QED
  BY <1>1, <1>2, <1>4, FS_Subset

-----------------------------------------------------------------------------
(* Commands.                                                               *)

\* An answer does not touch the counts.
LEMMA ResponseKeeps ==
  ASSUME NEW x \in CXType
  PROVE  /\ Response(x) \in CXType
         /\ Response(x).active = x.active /\ Response(x).ready = x.ready
         /\ Response(x).multi = x.multi
BY DEF Response, CXType

\* The invariant is about these parts of the state only.
LEMMA Keeps ==
  ASSUME IInv, cx' \in CXType, cx'.active = cx.active, cx'.ready = cx.ready,
         cx'.multi = cx.multi, UNCHANGED <<requested, current, st, abandoned>>
  PROVE  IInv'
BY DEF IInv, Types, Shape, CountsMatch, Ready, Station

\* Both counts are set.
LEMMA CountsSet ==
  \A x \in CXType, a, r \in Int :
    LET y == [x EXCEPT !.active = a, !.ready = r] IN
    y \in CXType /\ y.active = a /\ y.ready = r /\ y.multi = x.multi
BY DEF CXType

\* A subscription that is forgotten is not counted.
LEMMA ForgetCounts ==
  ASSUME Types, NEW s \in requested
  PROVE  /\ Forget(cx, s) \in CXType /\ Forget(cx, s).multi = cx.multi
         /\ Forget(cx, s).active = cx.active - Count(st[s].active)
         /\ Forget(cx, s).ready = cx.ready - Count(st[s].ready)
<1>1. Count(st[s].active) \in Int /\ Count(st[s].ready) \in Int
  BY DEF Count
<1>2. cx \in CXType /\ cx.active \in Int /\ cx.ready \in Int
  BY DEF Types, CXType
<1> DEFINE a == cx.active - Count(st[s].active)
           r == cx.ready - Count(st[s].ready)
<1>3. Forget(cx, s) = [cx EXCEPT !.active = a, !.ready = r]
  BY DEF Forget
<1>4. a \in Int /\ r \in Int
  BY <1>1, <1>2
<1> HIDE DEF a, r
<1>5. LET y == [cx EXCEPT !.active = a, !.ready = r] IN
      y \in CXType /\ y.active = a /\ y.ready = r /\ y.multi = cx.multi
  BY <1>2, <1>4, CountsSet, ZenonT(30)
<1> QED
  BY <1>3, <1>5 DEF a, r

\* One requested station changes, and the counts with it.
LEMMA StationChanges ==
  ASSUME IInv, NEW s \in requested, NEW t \in STType, t.ready => t.active,
         st' = [st EXCEPT ![s] = t], UNCHANGED <<requested, current, abandoned>>,
         cx' \in CXType, cx'.multi = cx.multi,
         cx'.active = cx.active - Count(st[s].active) + Count(t.active),
         cx'.ready = cx.ready - Count(st[s].ready) + Count(t.ready)
  PROVE  IInv'
<1>1. Types' /\ Shape'
  BY DEF IInv, Types, Shape, Station
<1>2. /\ Ready' \ {s} = Ready \ {s} /\ (s \in Ready <=> st[s].ready)
      /\ (s \in Ready' <=> t.ready)
  BY DEF IInv, Types, Ready, Station
<1>3. /\ Active' \ {s} = Active \ {s} /\ (s \in Active <=> st[s].active)
      /\ (s \in Active' <=> t.active)
  BY DEF IInv, Types, Active, Station
<1>4. IsFiniteSet(Ready) /\ IsFiniteSet(Active)
  BY Finite DEF IInv
<1>5. /\ Cardinality(Ready') = Cardinality(Ready) - Count(s \in Ready) + Count(s \in Ready')
      /\ Cardinality(Active') = Cardinality(Active) - Count(s \in Active) + Count(s \in Active')
  BY <1>2, <1>3, <1>4, OneChanges
<1>6. /\ Count(s \in Ready) = Count(st[s].ready) /\ Count(s \in Ready') = Count(t.ready)
      /\ Count(s \in Active) = Count(st[s].active) /\ Count(s \in Active') = Count(t.active)
  BY <1>2, <1>3 DEF Count
<1>7. cx.ready = Cardinality(Ready) /\ cx.active = Cardinality(Active) + Count(abandoned)
  BY DEF IInv, CountsMatch, Active
<1>8. /\ Cardinality(Ready) \in Int /\ Cardinality(Active) \in Int
      /\ \A b \in BOOLEAN : Count(b) \in Int
  BY <1>4, FS_CardinalityType DEF Count
<1>9. CountsMatch'
  <2>1. /\ cx'.ready = Cardinality(Ready')
        /\ cx'.active = Cardinality(Active') + Count(abandoned)
    BY <1>5, <1>6, <1>7, <1>8 DEF IInv, Types, STType
  <2> QED
    BY <2>1 DEF CountsMatch, Active
<1> QED
  BY <1>1, <1>9 DEF IInv

LEMMA IdleType == Idle \in STType /\ ~Idle.ready /\ ~Idle.active
BY DEF Idle, STType

LEMMA OneStation == 1 \in Station
BY ConnectionAssumption DEF Station

\* A connection begins with nothing ready or active.
LEMMA Empty ==
  LET f == [s \in Station |-> Idle] IN
  /\ Cardinality({s \in {1} : f[s].ready}) = 0
  /\ Cardinality({s \in {1} : f[s].active}) = 0
<1> DEFINE f == [s \in Station |-> Idle]
<1>1. {s \in {1} : f[s].ready} = {} /\ {s \in {1} : f[s].active} = {}
  BY IdleType, OneStation
<1> QED
  BY <1>1, FS_EmptySet

LEMMA InitIInv == Init => IInv
<1> SUFFICES ASSUME Init PROVE IInv
  OBVIOUS
<1>1. /\ st = [s \in Station |-> Idle] /\ requested = {1} /\ current = 1
      /\ cx = NewCX /\ abandoned = FALSE
  BY DEF Init
<1>2. NewCX \in CXType
  BY DEF NewCX, CXType
<1>3. Types
  BY <1>1, <1>2, IdleType, OneStation DEF Types
<1>4. Shape
  BY <1>1, IdleType, OneStation DEF Shape
<1>5. CountsMatch
  BY <1>1, Empty DEF CountsMatch, Ready, NewCX, Count
<1> QED
  BY <1>3, <1>4, <1>5 DEF IInv

LEMMA ResetKeeps == IInv /\ Disconnect => IInv'
<1> SUFFICES ASSUME IInv, Disconnect PROVE IInv'
  OBVIOUS
<1>1. /\ cx' = NewCX /\ requested' = {1} /\ current' = 1 /\ st' = [s \in Station |-> Idle]
      /\ abandoned' = FALSE
  BY DEF Disconnect, Reset
<1>2. Types' /\ Shape'
  <2>1. NewCX \in CXType
    BY DEF NewCX, CXType
  <2>2. Types'
    BY <1>1, <2>1, IdleType, OneStation DEF Types
  <2> QED
    BY <1>1, <2>2, IdleType, OneStation DEF Shape
<1>3. /\ Cardinality({s \in requested' : st'[s].ready}) = 0
      /\ Cardinality({s \in requested' : st'[s].active}) = 0
  BY <1>1, Empty
<1>4. cx'.ready = 0 /\ cx'.active = 0 /\ Count(abandoned') = 0
  BY <1>1 DEF NewCX, Count
<1>5. CountsMatch'
  BY <1>3, <1>4 DEF CountsMatch, Ready
<1> QED
  BY <1>2, <1>5 DEF IInv

LEMMA SelectKeeps == IInv /\ Select => IInv'
<1> SUFFICES ASSUME IInv, Select PROVE IInv'
  OBVIOUS
<1> DEFINE x == Forget(cx, current)
<1>1. /\ cx' = Response(x) /\ st' = [st EXCEPT ![current] = Idle]
      /\ UNCHANGED <<requested, current, abandoned>>
  BY DEF Select
<1>2. /\ x \in CXType /\ x.multi = cx.multi
      /\ x.active = cx.active - Count(st[current].active)
      /\ x.ready = cx.ready - Count(st[current].ready)
  BY ForgetCounts DEF IInv, Types
<1>3. /\ cx' \in CXType /\ cx'.multi = cx.multi
      /\ cx'.active = cx.active - Count(st[current].active)
      /\ cx'.ready = cx.ready - Count(st[current].ready)
  <2> HIDE DEF x
  <2> QED
    BY <1>1, <1>2, ResponseKeeps
<1>4. current \in requested /\ Count(Idle.active) = 0 /\ Count(Idle.ready) = 0
  BY IdleType DEF IInv, Types, Count
<1>5. /\ cx'.active = cx.active - Count(st[current].active) + Count(Idle.active)
      /\ cx'.ready = cx.ready - Count(st[current].ready) + Count(Idle.ready)
  <2>1. cx'.active \in Int /\ cx'.ready \in Int
    BY <1>3 DEF CXType
  <2> QED
    BY <1>3, <1>4, <2>1
<1>6. Idle.ready => Idle.active
  BY IdleType
<1> QED
  BY <1>1, <1>3, <1>4, <1>5, <1>6, IdleType, StationChanges

LEMMA SubscribeKeeps ==
  ASSUME IInv, NEW mode \in {"data", "fetch", "time"}, NEW ready \in BOOLEAN,
         NEW n \in 0 .. MaxTodo, NEW eod \in BOOLEAN, Subscribe(mode, ready, n, eod)
  PROVE  IInv'
<1> DEFINE x == Forget(cx, current)
           y == [x EXCEPT !.active = @ + 1, !.ready = @ + Count(ready)]
           t == [active |-> TRUE, ready |-> ready, mode |-> mode, todo |-> n, eod |-> eod]
<1>1. /\ st' = [st EXCEPT ![current] = t] /\ UNCHANGED <<requested, current, abandoned>>
      /\ cx' = Response(y) \/ cx' = [y EXCEPT !.handshaking_done = TRUE]
  BY DEF Subscribe
<1>2. /\ y \in CXType /\ y.multi = cx.multi
      /\ y.active = cx.active - Count(st[current].active) + 1
      /\ y.ready = cx.ready - Count(st[current].ready) + Count(ready)
  <2>1. /\ x \in CXType /\ x.multi = cx.multi /\ Count(ready) \in Int
        /\ x.active = cx.active - Count(st[current].active)
        /\ x.ready = cx.ready - Count(st[current].ready)
    BY ForgetCounts DEF IInv, Types, Count
  <2> HIDE DEF x
  <2>2. x.active \in Int /\ x.ready \in Int
    BY <2>1 DEF CXType
  <2> DEFINE a == x.active + 1
             r == x.ready + Count(ready)
  <2>3. y = [x EXCEPT !.active = a, !.ready = r]
    OBVIOUS
  <2>4. a \in Int /\ r \in Int
    BY <2>1, <2>2
  <2>5. /\ y \in CXType /\ y.multi = x.multi
        /\ y.active = x.active + 1 /\ y.ready = x.ready + Count(ready)
    <3> HIDE DEF a, r, y
    <3>1. LET z == [x EXCEPT !.active = a, !.ready = r] IN
          z \in CXType /\ z.active = a /\ z.ready = r /\ z.multi = x.multi
      BY <2>1, <2>4 DEF CXType
    <3> QED
      BY <2>3, <3>1 DEF a, r
  <2> HIDE DEF y
  <2>6. Count(st[current].active) \in Int /\ Count(st[current].ready) \in Int
        /\ cx.active \in Int /\ cx.ready \in Int
    BY DEF IInv, Types, CXType, Count
  <2> QED
    BY <2>1, <2>5, <2>6
<1>3. /\ cx' \in CXType /\ cx'.multi = cx.multi
      /\ cx'.active = cx.active - Count(st[current].active) + 1
      /\ cx'.ready = cx.ready - Count(st[current].ready) + Count(ready)
  <2> HIDE DEF y
  <2>1. CASE cx' = Response(y)
    BY <1>2, <2>1, ResponseKeeps
  <2>2. CASE cx' = [y EXCEPT !.handshaking_done = TRUE]
    BY <1>2, <2>2 DEF CXType
  <2> QED
    BY <1>1, <2>1, <2>2
<1>4. current \in requested /\ t \in STType /\ t.active /\ t.ready = ready /\ Count(t.active) = 1
  BY ConnectionAssumption DEF IInv, Types, STType, Count
<1> QED
  <2> HIDE DEF t
  <2> QED
    BY <1>1, <1>3, <1>4, StationChanges

LEMMA ArriveKeeps ==
  ASSUME IInv, NEW s \in Station, NEW matches \in BOOLEAN, NEW over \in BOOLEAN,
         Arrive(s, matches, over)
  PROVE  IInv'
<1> DEFINE queued == st[s].todo + Count(matches /\ ~over)
<1>1. s \in requested /\ st[s].active /\ UNCHANGED <<requested, current, abandoned>>
  BY DEF Arrive
<1>2. queued \in Int /\ st[s] \in STType
  BY DEF IInv, Types, STType, Count
<1>3. CASE st' = [st EXCEPT ![s].todo = queued, ![s].ready = TRUE]
           /\ cx' = [cx EXCEPT !.ready = @ + Woken(st[s])]
  <2> DEFINE t == [st[s] EXCEPT !.todo = queued, !.ready = TRUE]
  <2>1. st' = [st EXCEPT ![s] = t]
    BY <1>3 DEF IInv, Types
  <2>2. t \in STType /\ t.active = st[s].active /\ t.ready = TRUE
    BY <1>2 DEF STType
  <2>3. /\ cx' \in CXType /\ cx'.multi = cx.multi /\ cx'.active = cx.active
        /\ cx'.ready = cx.ready + Count(~st[s].ready)
    BY <1>3 DEF IInv, Types, CXType, Woken, Count
  <2>4. /\ cx.active = cx.active - Count(st[s].active) + Count(t.active)
        /\ cx.ready + Count(~st[s].ready) = cx.ready - Count(st[s].ready) + Count(t.ready)
    <3> HIDE DEF t
    <3> QED
      BY <2>2, <1>2 DEF IInv, Types, CXType, STType, Count
  <2> QED
    <3> HIDE DEF t
    <3> QED
      BY <1>1, <2>1, <2>2, <2>3, <2>4, StationChanges
<1>4. CASE st' = [st EXCEPT ![s].todo = queued, ![s].eod = @ \/ over] /\ UNCHANGED cx
  <2> DEFINE t == [st[s] EXCEPT !.todo = queued, !.eod = @ \/ over]
  <2>1. st' = [st EXCEPT ![s] = t]
    BY <1>4 DEF IInv, Types
  <2>2. t \in STType /\ t.active = st[s].active /\ t.ready = st[s].ready
    BY <1>2 DEF STType
  <2>3. /\ cx.active = cx.active - Count(st[s].active) + Count(t.active)
        /\ cx.ready = cx.ready - Count(st[s].ready) + Count(t.ready)
    <3> HIDE DEF t
    <3> QED
      BY <2>2 DEF IInv, Types, CXType, Count
  <2>4. cx' \in CXType /\ cx' = cx /\ (t.ready => t.active)
    <3> HIDE DEF t
    <3> QED
      BY <1>1, <1>4, <2>2 DEF IInv, Types, Shape
  <2> QED
    <3> HIDE DEF t
    <3> QED
      BY <1>1, <2>1, <2>2, <2>3, <2>4, StationChanges
<1> QED
  BY <1>3, <1>4 DEF Arrive

\* STATION: of a default station that is given up, only its being active is
\* still counted; nothing is counted for a station that is new.
LEMMA StationCommandKeeps ==
  ASSUME IInv, NEW s \in Station, StationCommand(s)
  PROVE  IInv'
<1>1. cx \in CXType /\ cx.ready \in Int /\ cx.active \in Int
  BY DEF IInv, Types, CXType
<1> current' = s
  BY DEF StationCommand
<1>2. CASE ~cx.multi
  <2> DEFINE r == cx.ready - Count(st[current].ready)
             x == [cx EXCEPT !.ready = r]
             z == [x EXCEPT !.invalid = FALSE, !.multi = TRUE]
  <2>1. /\ requested' = (requested \ {current}) \cup {s}
        /\ st' = [st EXCEPT ![current] = Idle]
        /\ cx' = Response(z)
        /\ abandoned' = (abandoned \/ st[current].active)
    BY <1>2 DEF StationCommand
  <2>2. /\ requested = {current} /\ current \in Station /\ ~abandoned
        /\ \A t \in Station \ {current} : ~st[t].active /\ ~st[t].ready
        /\ st[current].active \in BOOLEAN /\ st[current].ready \in BOOLEAN
    BY <1>2 DEF IInv, Types, Shape, STType
  <2>3. /\ r \in Int /\ Count(FALSE) = 0 /\ Count(TRUE) = 1
        /\ abandoned' = st[current].active
    BY <1>1, <2>1, <2>2 DEF Count
  <2>4. z \in CXType /\ z.active = cx.active /\ z.ready = r /\ z.multi = TRUE
    <3> HIDE DEF r
    <3> QED
      BY <1>1, <2>3 DEF CXType
  <2>5. cx' \in CXType /\ cx'.active = cx.active /\ cx'.ready = r /\ cx'.multi = TRUE
    <3> HIDE DEF z
    <3> QED
      BY <2>1, <2>4, ResponseKeeps
  <2>6. /\ st' \in [Station -> STType] /\ \A t \in Station : ~st'[t].active /\ ~st'[t].ready
        /\ requested' = {s}
    BY <2>1, <2>2, IdleType DEF IInv, Types
  <2>7. Types' /\ Shape'
    <3>1. current' \in requested' /\ requested' \subseteq Station
      BY <2>6
    <3>2. abandoned' \in BOOLEAN
      BY <2>2, <2>3
    <3>3. Types'
      BY <2>5, <2>6, <3>1, <3>2 DEF Types
    <3> QED
      BY <2>5, <2>6, <3>3 DEF Types, Shape
  <2>8. Cardinality(Ready) = Count(st[current].ready)
        /\ Cardinality(Active) = Count(st[current].active)
    <3>1. /\ Ready = IF st[current].ready THEN {current} ELSE {}
          /\ Active = IF st[current].active THEN {current} ELSE {}
      BY <2>2 DEF Ready, Active
    <3> QED
      BY <3>1, FS_EmptySet, FS_Singleton DEF Count
  <2>9. Ready' = {} /\ Active' = {}
    BY <2>6 DEF Ready, Active
  <2>10. cx.ready = Cardinality(Ready) /\ cx.active = Cardinality(Active) + Count(abandoned)
    BY DEF IInv, CountsMatch, Active
  <2>11. CountsMatch'
    <3>1. cx'.ready = 0 /\ cx'.active = 0 + Count(abandoned')
      BY <2>2, <2>3, <2>5, <2>8, <2>10 DEF Count
    <3> QED
      BY <2>9, <3>1, FS_EmptySet DEF CountsMatch, Active
  <2> QED
    BY <2>7, <2>11 DEF IInv
<1>3. CASE cx.multi
  <2> DEFINE z == [cx EXCEPT !.invalid = FALSE, !.multi = TRUE]
  <2>1. /\ requested' = requested \cup {s} /\ st' = st /\ cx' = Response(z)
        /\ abandoned' = abandoned
    BY <1>3 DEF StationCommand, IInv, Types
  <2>2. z \in CXType /\ z.active = cx.active /\ z.ready = cx.ready /\ z.multi = TRUE
    BY <1>1 DEF CXType
  <2>3. cx' \in CXType /\ cx'.active = cx.active /\ cx'.ready = cx.ready /\ cx'.multi = TRUE
    <3> HIDE DEF z
    <3> QED
      BY <2>1, <2>2, ResponseKeeps
  <2>4. Types' /\ Shape'
    <3>1. current' \in requested' /\ requested' \subseteq Station
      BY <2>1 DEF IInv, Types
    <3>2. st' \in [Station -> STType] /\ abandoned' \in BOOLEAN
      BY <2>1 DEF IInv, Types
    <3>3. Types'
      BY <2>3, <3>1, <3>2 DEF Types
    <3>4. Shape'
      BY <2>1, <2>3 DEF IInv, Shape
    <3> QED
      BY <3>3, <3>4
  <2>5. Ready' = Ready /\ Active' = Active
    BY <2>1 DEF IInv, Types, Shape, Ready, Active
  <2>6. CountsMatch'
    BY <2>1, <2>3, <2>5 DEF IInv, CountsMatch, Active
  <2> QED
    BY <2>4, <2>6 DEF IInv
<1> QED
  BY <1>2, <1>3

\* The commands that do not change a subscription.
LEMMA OthersKeep ==
  ASSUME IInv, Error \/ StationRefused \/ NotForAnyStation \/ End \/ Batch \/ Info
               \/ Connect \/ SendResponse \/ SendInfo
  PROVE  IInv'
<1>1. cx \in CXType
  BY DEF IInv, Types
<1>2. UNCHANGED <<requested, current, st, abandoned>>
  BY DEF Error, StationRefused, NotForAnyStation, End, Batch, Info, Connect,
         SendResponse, SendInfo
<1>3. CASE Error \/ NotForAnyStation
  BY <1>1, <1>2, <1>3, ResponseKeeps, Keeps DEF Error, NotForAnyStation
<1>4. CASE StationRefused
  <2> DEFINE z == [cx EXCEPT !.invalid = TRUE]
  <2>1. z \in CXType /\ z.active = cx.active /\ z.ready = cx.ready /\ z.multi = cx.multi
    BY <1>1 DEF CXType
  <2>2. cx' = Response(z)
    BY <1>4 DEF StationRefused
  <2> HIDE DEF z
  <2> QED
    BY <1>2, <2>1, <2>2, ResponseKeeps, Keeps
<1>5. CASE End
  BY <1>1, <1>2, <1>5, Keeps DEF End, CXType
<1>6. CASE Batch
  <2> DEFINE z == Response(cx)
  <2>1. z \in CXType /\ z.active = cx.active /\ z.ready = cx.ready /\ z.multi = cx.multi
    BY <1>1, ResponseKeeps
  <2>2. cx' = [z EXCEPT !.batchmode = TRUE]
    BY <1>6 DEF Batch
  <2> HIDE DEF z
  <2>3. cx' \in CXType /\ cx'.active = z.active /\ cx'.ready = z.ready /\ cx'.multi = z.multi
    BY <2>1, <2>2 DEF CXType
  <2> QED
    BY <1>2, <2>1, <2>3, Keeps
<1>7. CASE SendResponse
  BY <1>1, <1>2, <1>7, Keeps DEF SendResponse, CXType
<1>8. CASE Info \/ Connect \/ SendInfo
  BY <1>1, <1>2, <1>8, Keeps DEF Info, Connect, SendInfo
<1> QED
  BY <1>3, <1>4, <1>5, <1>6, <1>7, <1>8

-----------------------------------------------------------------------------
(* Rounds.                                                                 *)

\* The stations in done are asked in vain; what else a round does to a station
\* does not change whether it is ready or active.
LEMMA RoundKeeps ==
  ASSUME IInv, NEW over, NEW done, done \subseteq Ready, Round(done, over),
         st' \in [Station -> STType], current' \in requested,
         requested' = requested, cx.multi \/ current' = current,
         \A t \in Station : IF t \in done THEN st'[t] = After(t, over)
                            ELSE st'[t].active = st[t].active /\ st'[t].ready = st[t].ready
  PROVE  IInv'
<1> DEFINE ended == {t \in done : Finished(t, over)}
           a == cx.active - Cardinality(ended)
           r == cx.ready - Cardinality(done)
<1>1. IsFiniteSet(Ready) /\ IsFiniteSet(Active)
  BY Finite DEF IInv
<1>2. Ready \subseteq Active /\ done \subseteq Station /\ done \subseteq requested
  BY DEF IInv, Types, Shape, Ready, Active
<1>3. ended \subseteq done /\ ended \subseteq Active
  BY <1>2
<1>4. \A t \in done : ~st'[t].ready /\ (st'[t].active <=> ~Finished(t, over))
  BY <1>2 DEF After, IInv, Types, STType
<1>5. Ready' = Ready \ done
  BY <1>2, <1>4 DEF Ready, IInv, Types
<1>6. Active' = Active \ ended
  <2>1. \A t \in requested : t \in Active <=> st[t].active
    BY DEF Active
  <2>2. \A t \in requested : t \in Active' <=> st'[t].active
    BY DEF Active
  <2>3. \A t \in requested : t \in done => (t \in Active' <=> t \in Active \ ended)
    BY <1>2, <1>4, <2>2
  <2>4. \A t \in requested : t \notin done => (t \in Active' <=> t \in Active \ ended)
    BY <1>3, <2>1, <2>2 DEF IInv, Types
  <2>5. Active' \subseteq requested /\ Active \subseteq requested
    BY DEF Active
  <2> QED
    BY <2>3, <2>4, <2>5
<1>7. /\ Cardinality(Ready') = Cardinality(Ready) - Cardinality(done)
      /\ Cardinality(Active') = Cardinality(Active) - Cardinality(ended)
  <2> HIDE DEF ended
  <2> QED
    BY <1>1, <1>3, <1>5, <1>6, SomeGo
<1>8. Cardinality(done) \in Int /\ Cardinality(ended) \in Int
  <2>1. IsFiniteSet(done) /\ IsFiniteSet(ended)
    BY <1>1, <1>3, FS_Subset
  <2> HIDE DEF ended
  <2> QED
    BY <2>1, FS_CardinalityType
<1>9. /\ cx' \in CXType /\ cx'.active = a /\ cx'.ready = r /\ cx'.multi = cx.multi
  <2>1. cx' = [cx EXCEPT !.ready = r, !.active = a] /\ cx \in CXType
    BY DEF Round, IInv, Types
  <2>2. a \in Int /\ r \in Int
    <3> HIDE DEF ended
    <3> QED
      BY <1>8, <2>1 DEF CXType
  <2> HIDE DEF a, r
  <2> QED
    BY <2>1, <2>2 DEF CXType
<1>10. CountsMatch'
  <2>1. cx.ready = Cardinality(Ready) /\ cx.active = Cardinality(Active) + Count(abandoned)
    BY DEF IInv, CountsMatch, Active
  <2>2. /\ Cardinality(Active) \in Int /\ Count(abandoned) \in Int
        /\ abandoned' = abandoned
    BY <1>1, FS_CardinalityType DEF Count, Round
  <2>3. /\ cx'.ready = Cardinality(Ready')
        /\ cx'.active = Cardinality(Active') + Count(abandoned')
    <3> HIDE DEF ended
    <3> QED
      BY <1>7, <1>8, <1>9, <2>1, <2>2
  <2> QED
    BY <2>3 DEF CountsMatch, Active
<1>11. Types'
  BY <1>9 DEF IInv, Types, Round
<1>12. Shape'
  <2>1. ~cx'.multi => requested' = {current'} /\ ~abandoned'
    BY <1>9 DEF IInv, Shape, Round
  <2>2. \A t \in Station : st'[t].ready => st'[t].active
    BY <1>4 DEF IInv, Shape
  <2>3. \A t \in Station \ requested' : ~st'[t].active
    BY <1>2 DEF IInv, Shape
  <2> QED
    BY <2>1, <2>2, <2>3 DEF Shape
<1> QED
  BY <1>10, <1>11, <1>12 DEF IInv

\* A station that has been asked in vain.
LEMMA FourFields ==
  ASSUME NEW x \in STType, NEW r \in BOOLEAN, NEW n \in Int, NEW a \in BOOLEAN, NEW e \in BOOLEAN
  PROVE  [x EXCEPT !.ready = r, !.todo = n, !.active = a, !.eod = e] \in STType
<1> DEFINE y == [x EXCEPT !.ready = r, !.todo = n]
<1>1. y \in STType
  BY DEF STType
<1>2. [x EXCEPT !.ready = r, !.todo = n, !.active = a, !.eod = e]
        = [y EXCEPT !.active = a, !.eod = e]
  OBVIOUS
<1> HIDE DEF y
<1> QED
  BY <1>1, <1>2 DEF STType

LEMMA SendDataKeeps == IInv /\ SendData => IInv'
<1> SUFFICES ASSUME IInv, SendData PROVE IInv'
  OBVIOUS
<1>1. ASSUME NEW t \in Station, NEW over PROVE After(t, over) \in STType /\ st[t] \in STType
  <2>1. st[t] \in STType
    BY DEF IInv, Types
  <2>2. Finished(t, over) \in BOOLEAN
    BY <2>1 DEF Finished, STType
  <2>3. After(t, over) \in STType
    <3>1. PICK r \in BOOLEAN, n \in Int, a \in BOOLEAN, e \in BOOLEAN :
            After(t, over) = [st[t] EXCEPT !.ready = r, !.todo = n, !.active = a, !.eod = e]
      <4> DEFINE a == ~Finished(t, over)
                 e == Finished(t, over)
      <4>1. /\ FALSE \in BOOLEAN /\ 0 \in Int /\ a \in BOOLEAN /\ e \in BOOLEAN
            /\ After(t, over) = [st[t] EXCEPT !.ready = FALSE, !.todo = 0, !.active = a, !.eod = e]
        BY <2>2 DEF After
      <4> HIDE DEF a, e
      <4> QED
        BY <4>1, Zenon
    <3> DEFINE x == st[t]
    <3>2. x \in STType /\ After(t, over) = [x EXCEPT !.ready = r, !.todo = n, !.active = a, !.eod = e]
      BY <2>1, <3>1
    <3> HIDE DEF x
    <3>3. [x EXCEPT !.ready = r, !.todo = n, !.active = a, !.eod = e] \in STType
      BY <3>2, FourFields
    <3> QED
      BY <3>2, <3>3
  <2> QED
    BY <2>1, <2>3
<1>2. Ready \subseteq requested /\ requested \subseteq Station /\ st \in [Station -> STType]
  BY DEF Ready, IInv, Types
<1>3. PICK over \in SUBSET Windows :
        SendNothing(over) \/ \E s \in Station : SendPacket(s, over)
  BY DEF SendData
<1>4. CASE SendNothing(over)
  <2>1. /\ Round(Ready, over) /\ current' \in Ready
        /\ st' = [s \in Station |-> IF s \in Ready THEN After(s, over) ELSE st[s]]
    BY <1>4 DEF SendNothing
  <2>2. st' \in [Station -> STType]
    BY <1>1, <2>1
  <2>3. requested' = requested
    BY <2>1 DEF Round
  <2>4. cx.multi \/ current' = current
    BY <1>2, <2>1 DEF IInv, Shape
  <2>5. \A t \in Station : IF t \in Ready THEN st'[t] = After(t, over)
                           ELSE st'[t].active = st[t].active /\ st'[t].ready = st[t].ready
    BY <2>1
  <2> QED
    BY <1>2, <2>1, <2>2, <2>3, <2>4, <2>5, RoundKeeps
<1>5. ASSUME NEW s \in Station, SendPacket(s, over) PROVE IInv'
  <2> DEFINE done == {t \in Ready : Distance(t) < Distance(s)}
             sent == [st[s] EXCEPT !.todo = @ - 1]
  <2>1. /\ Round(done, over) /\ s \in Ready /\ current' = s
        /\ st' = [t \in Station |->
                    IF t \in done THEN After(t, over) ELSE IF t = s THEN sent ELSE st[t]]
    BY <1>5 DEF SendPacket
  <2>2. sent \in STType /\ sent.active = st[s].active /\ sent.ready = st[s].ready
    BY <1>1 DEF STType
  <2> HIDE DEF sent
  <2>3. st' \in [Station -> STType]
    <3> HIDE DEF done
    <3> QED
      BY <1>1, <2>1, <2>2
  <2>4. requested' = requested
    BY <2>1 DEF Round
  <2>5. cx.multi \/ current' = current
    BY <1>2, <2>1 DEF IInv, Shape
  <2>6. \A t \in Station : IF t \in done THEN st'[t] = After(t, over)
                           ELSE st'[t].active = st[t].active /\ st'[t].ready = st[t].ready
    <3> HIDE DEF done
    <3> QED
      BY <2>1, <2>2
  <2>7. done \subseteq Ready
    OBVIOUS
  <2> HIDE DEF done
  <2> QED
    BY <1>2, <2>1, <2>3, <2>4, <2>5, <2>6, <2>7, RoundKeeps
<1> QED
  BY <1>3, <1>4, <1>5

-----------------------------------------------------------------------------
LEMMA NextKeeps == IInv /\ [Next]_vars => IInv'
<1> SUFFICES ASSUME IInv, [Next]_vars PROVE IInv'
  OBVIOUS
<1>1. ASSUME NEW s \in Station, StationCommand(s) PROVE IInv'
  BY <1>1, StationCommandKeeps
<1>2. ASSUME NEW mode \in {"data", "fetch", "time"}, NEW ready \in BOOLEAN,
             NEW n \in 0 .. MaxTodo, NEW eod \in BOOLEAN, Subscribe(mode, ready, n, eod)
      PROVE  IInv'
  BY <1>2, SubscribeKeeps
<1>3. CASE StationRefused \/ NotForAnyStation \/ End \/ Batch \/ Info \/ Error
           \/ Connect \/ SendResponse \/ SendInfo
  BY <1>3, OthersKeep
<1>4. CASE Select
  BY <1>4, SelectKeeps
<1>5. CASE Disconnect
  BY <1>5, ResetKeeps
<1>6. ASSUME NEW s \in Station, NEW matches \in BOOLEAN, NEW over \in BOOLEAN,
             Arrive(s, matches, over)
      PROVE  IInv'
  BY <1>6, ArriveKeeps
<1>7. CASE SendData
  BY <1>7, SendDataKeeps
<1>8. CASE UNCHANGED vars
  BY <1>8 DEF vars, IInv, Types, Shape, CountsMatch, Ready
<1> QED
  BY <1>1, <1>2, <1>3, <1>4, <1>5, <1>6, <1>7, <1>8 DEF Next, Command

\* The loop of a round ends (deliver, iosystem.cc) because stations_ready is the
\* number of stations that are ready, and "END" is sent because
\* stations_active is the number of those that are active: however commands,
\* records, rounds and disconnections follow, the first is never wrong, and the
\* second only by the default station, after STATION has given it up while it
\* was active.
THEOREM CountsRight == Spec => []CountsMatch
<1>1. IInv => CountsMatch
  BY DEF IInv
<1> QED
  BY InitIInv, NextKeeps, <1>1, PTL DEF Spec

-----------------------------------------------------------------------------
(* What the client has asked for and got.                                  *)

ClientType ==
  [kind: Clients, unanswered: BOOLEAN, intended: 0 .. N, named: BOOLEAN,
   started: BOOLEAN, ended: BOOLEAN, passed: [Station -> Nat]]

\* Where a command that is for current_station is for the station that the
\* client has named: the rounds that move current_station do not go on between
\* the STATION that names it and its answer, and after the answer only when END
\* or batch mode starts them again.
Intends ==
  /\ cx.multi /\ client.named /\ cx.handshaking_done => cx.have_response \/ cx.batchmode
  /\ cx.multi /\ client.named /\ ~cx.invalid /\ (~cx.handshaking_done \/ cx.have_response)
       => current = client.intended

\* A station that is not active has no records for the client.
Quiet == \A s \in Station : ~st[s].active => st[s].todo = 0

\* The requested stations that a round from current_station on comes to before
\* it has passed station t.
UpTo(t) == {u \in requested : Distance(u) <= Distance(t)}

\* A station lets pass a packet only of a station that the next round comes to
\* later than to itself.
Turns ==
  \A t \in Station :
    IF t \in requested
    THEN client.passed[t] + Cardinality(UpTo(t)) <= Cardinality(requested)
    ELSE client.passed[t] = 0

\* The inductive invariant of the action properties and of TakeTurns.
JInv == IInv /\ client \in ClientType /\ Intends /\ Quiet /\ Turns

LEMMA WaitsType ==
  ASSUME NEW c \in ClientType
  PROVE  /\ Waits(c) \in ClientType /\ Waits(c).intended = c.intended
         /\ Waits(c).named = c.named /\ Waits(c).passed = c.passed
         /\ Waits(c).ended = c.ended
BY DEF Waits, ClientType

LEMMA ZeroPassed == [t \in Station |-> 0] \in [Station -> Nat]
OBVIOUS

LEMMA NewClientType ==
  ASSUME NEW kind \in Clients
  PROVE  NewClient(kind) \in ClientType
<1>1. 1 \in 0 .. N
  BY ConnectionAssumption
<1> QED
  BY <1>1, ZeroPassed DEF NewClient, ClientType

\* What a command that names a station leaves of the client.
LEMMA NamesType ==
  ASSUME NEW c \in ClientType, NEW i \in 0 .. N, NEW p \in [Station -> Nat]
  PROVE  /\ [c EXCEPT !.intended = i, !.named = TRUE, !.passed = p] \in ClientType
         /\ [c EXCEPT !.intended = i, !.named = TRUE] \in ClientType
BY DEF ClientType

LEMMA GotEndType ==
  ASSUME NEW c \in ClientType, NEW done, NEW p \in [Station -> Nat]
  PROVE  /\ GotEnd(c, done) \in ClientType
         /\ [GotEnd(c, done) EXCEPT !.passed = p] \in ClientType
BY DEF GotEnd, ClientType

LEMMA ClientTypeKept == IInv /\ client \in ClientType /\ [Next]_vars => client' \in ClientType
<1> SUFFICES ASSUME IInv, client \in ClientType, [Next]_vars PROVE client' \in ClientType
  OBVIOUS
<1>1. Waits(client) \in ClientType
  BY WaitsType
<1>2. ASSUME NEW s \in Station, StationCommand(s) PROVE client' \in ClientType
  <2>1. s \in 0 .. N
    BY DEF Station
  <2> DEFINE w == Waits(client)
             p == [t \in Station |-> 0]
  <2>2. client' = [w EXCEPT !.intended = s, !.named = TRUE, !.passed = p]
    BY <1>2 DEF StationCommand
  <2>3. w \in ClientType /\ p \in [Station -> Nat]
    BY <1>1
  <2> HIDE DEF w, p
  <2> QED
    BY <2>1, <2>2, <2>3, NamesType
<1>3. ASSUME NEW mode, NEW ready, NEW n, NEW eod, Subscribe(mode, ready, n, eod)
      PROVE  client' \in ClientType
  <2> DEFINE w == Waits(client)
  <2>1. \/ client' = [w EXCEPT !.ended = FALSE]
        \/ client' = [client EXCEPT !.ended = FALSE, !.started = FALSE]
    BY <1>3 DEF Subscribe
  <2>2. w \in ClientType
    BY <1>1
  <2> HIDE DEF w
  <2> QED
    BY <2>1, <2>2 DEF ClientType
<1>4. CASE StationRefused
  <2> DEFINE w == Waits(client)
  <2>1. client' = [w EXCEPT !.intended = 0, !.named = TRUE]
    BY <1>4 DEF StationRefused
  <2>2. w \in ClientType /\ 0 \in 0 .. N
    BY <1>1, ConnectionAssumption
  <2> HIDE DEF w
  <2> QED
    BY <2>1, <2>2, NamesType, ZeroPassed
<1>5. CASE NotForAnyStation \/ Error \/ Select \/ Batch
  BY <1>1, <1>5 DEF NotForAnyStation, Error, Select, Batch
<1>6. CASE End
  BY <1>6 DEF End, ClientType
<1>7. CASE Info \/ Connect \/ SendInfo \/ UNCHANGED vars
  BY <1>7 DEF Info, Connect, SendInfo, vars
<1>8. CASE Disconnect
  <2>1. client' = NewClient(client.kind) /\ client.kind \in Clients
    BY <1>8 DEF Disconnect, Reset, ClientType
  <2> QED
    BY <2>1, NewClientType
<1>9. ASSUME NEW s, NEW matches, NEW over, Arrive(s, matches, over) PROVE client' \in ClientType
  BY <1>9 DEF Arrive
<1>10. CASE SendResponse
  BY <1>10 DEF SendResponse, ClientType
<1>11. CASE SendData
  <2>1. PICK over \in SUBSET Windows :
          SendNothing(over) \/ \E s \in Station : SendPacket(s, over)
    BY <1>11 DEF SendData
  <2>2. CASE SendNothing(over)
    BY <2>2, ZeroPassed, GotEndType DEF SendNothing
  <2>3. ASSUME NEW s \in Station, SendPacket(s, over) PROVE client' \in ClientType
    <3> DEFINE done == {t \in Ready : Distance(t) < Distance(s)}
               g == GotEnd(client, done)
               p == [t \in Station |-> IF t # s /\ t \in Ready \ done THEN client.passed[t] + 1 ELSE 0]
    <3>1. g \in ClientType /\ g.passed = client.passed
      BY GotEndType DEF GotEnd, ClientType
    <3>2. client' = [g EXCEPT !.passed = p]
      <4>1. client' = [g EXCEPT !.passed =
                         [t \in Station |-> IF t # s /\ t \in Ready \ done THEN g.passed[t] + 1 ELSE 0]]
        BY <2>3 DEF SendPacket
      <4> HIDE DEF g, done
      <4> QED
        BY <3>1, <4>1
    <3>3. p \in [Station -> Nat]
      BY DEF ClientType
    <3> HIDE DEF done, p
    <3> QED
      BY <3>2, <3>3, GotEndType
  <2> QED
    BY <2>1, <2>2, <2>3
<1> QED
  BY <1>2, <1>3, <1>4, <1>5, <1>6, <1>7, <1>8, <1>9, <1>10, <1>11 DEF Next, Command

\* An answer changes nothing else.
LEMMA ResponseParts ==
  ASSUME NEW x \in CXType
  PROVE  /\ Response(x).handshaking_done = x.handshaking_done
         /\ Response(x).batchmode = x.batchmode /\ Response(x).invalid = x.invalid
         /\ Response(x).have_response = (x.have_response \/ ~x.batchmode)
BY DEF Response, CXType

LEMMA ForgetParts ==
  ASSUME Types, NEW s \in requested
  PROVE  /\ Forget(cx, s) \in CXType /\ Forget(cx, s).multi = cx.multi
         /\ Forget(cx, s).handshaking_done = cx.handshaking_done
         /\ Forget(cx, s).batchmode = cx.batchmode /\ Forget(cx, s).invalid = cx.invalid
         /\ Forget(cx, s).have_response = cx.have_response
<1>1. cx \in CXType
  BY DEF Types
<1>2. Forget(cx, s) \in CXType
  BY ForgetCounts
<1> QED
  BY <1>1, <1>2, ForgetCounts DEF Forget, CXType

\* SELECT, DATA, FETCH and TIME after the station that they are for.
LEMMA IntendedHere ==
  ASSUME IInv, Intends, ForCurrent, cx.multi
  PROVE  client.intended = current
BY DEF Intends, ForCurrent

LEMMA IntendsKept ==
  IInv /\ client \in ClientType /\ Intends /\ [Next]_vars => Intends'
<1> SUFFICES ASSUME IInv, client \in ClientType, Intends, [Next]_vars PROVE Intends'
  OBVIOUS
<1>0. cx \in CXType /\ current \in requested /\ Types
  BY DEF IInv, Types
<1>a. /\ Waits(client) \in ClientType /\ Waits(client).intended = client.intended
      /\ Waits(client).named = client.named
  BY WaitsType
<1>b. /\ Response(cx) \in CXType /\ Response(cx).multi = cx.multi
      /\ Response(cx).handshaking_done = cx.handshaking_done
      /\ Response(cx).batchmode = cx.batchmode /\ Response(cx).invalid = cx.invalid
      /\ Response(cx).have_response = (cx.have_response \/ ~cx.batchmode)
  BY <1>0, ResponseKeeps, ResponseParts
<1>2. ASSUME NEW s \in Station, StationCommand(s) PROVE Intends'
  <2> DEFINE w == Waits(client)
             p == [t \in Station |-> 0]
             y == [cx EXCEPT !.ready = cx.ready - Count(st[current].ready)]
             x == IF ~cx.multi THEN y ELSE cx
             z == [x EXCEPT !.invalid = FALSE, !.multi = TRUE]
  <2>1. /\ client' = [w EXCEPT !.intended = s, !.named = TRUE, !.passed = p]
        /\ cx' = Response(z) /\ current' = s
    BY <1>2 DEF StationCommand
  <2>2. client'.intended = s
    <3> HIDE DEF w, p
    <3> QED
      BY <1>a, <2>1 DEF ClientType, w
  <2>3. cx.ready - Count(st[current].ready) \in Int
    BY <1>0 DEF CXType, Count
  <2>4. y \in CXType /\ y.handshaking_done = cx.handshaking_done /\ y.batchmode = cx.batchmode
    BY <1>0, <2>3 DEF CXType
  <2>5. x \in CXType /\ x.handshaking_done = cx.handshaking_done /\ x.batchmode = cx.batchmode
    <3> HIDE DEF y
    <3> QED
      BY <1>0, <2>4
  <2>6. z \in CXType /\ z.handshaking_done = cx.handshaking_done /\ z.batchmode = cx.batchmode
    <3> HIDE DEF x
    <3> QED
      BY <2>5 DEF CXType
  <2>7. cx'.have_response \/ cx'.batchmode
    <3> HIDE DEF z
    <3> QED
      BY <2>1, <2>6, ResponseParts
  <2> QED
    BY <2>1, <2>2, <2>7 DEF Intends
<1>3. ASSUME NEW mode, NEW ready \in BOOLEAN, NEW n, NEW eod, Subscribe(mode, ready, n, eod)
      PROVE  Intends'
  <2> DEFINE w == Waits(client)
             x == Forget(cx, current)
             y == [x EXCEPT !.active = @ + 1, !.ready = @ + Count(ready)]
  <2>1. /\ \/ client' = [w EXCEPT !.ended = FALSE] /\ cx' = Response(y)
           \/ /\ client' = [client EXCEPT !.ended = FALSE, !.started = FALSE]
              /\ cx' = [y EXCEPT !.handshaking_done = TRUE] /\ ~cx.multi
        /\ current' = current
    BY <1>3 DEF Subscribe
  <2>2. /\ x \in CXType /\ x.multi = cx.multi /\ x.handshaking_done = cx.handshaking_done
        /\ x.batchmode = cx.batchmode /\ x.invalid = cx.invalid
        /\ x.have_response = cx.have_response
    BY <1>0, ForgetParts
  <2>3. /\ y \in CXType /\ y.multi = cx.multi /\ y.handshaking_done = cx.handshaking_done
        /\ y.batchmode = cx.batchmode /\ y.invalid = cx.invalid
        /\ y.have_response = cx.have_response
    <3> DEFINE a == x.active + 1
               r == x.ready + Count(ready)
    <3>1. y = [x EXCEPT !.active = a, !.ready = r]
      OBVIOUS
    <3> HIDE DEF x, y
    <3>2. a \in Int /\ r \in Int
      BY <2>2 DEF CXType, Count
    <3> HIDE DEF a, r
    <3> QED
      BY <2>2, <3>1, <3>2 DEF CXType
  <2>4. CASE client' = [w EXCEPT !.ended = FALSE] /\ cx' = Response(y)
    <3>1. client'.intended = client.intended /\ client'.named = client.named
      <4> HIDE DEF w
      <4> QED
        BY <1>a, <2>4 DEF ClientType, w
    <3>2. /\ cx'.multi = cx.multi /\ cx'.handshaking_done = cx.handshaking_done
          /\ cx'.batchmode = cx.batchmode /\ cx'.invalid = cx.invalid
          /\ cx'.have_response = (cx.have_response \/ ~cx.batchmode)
      <4> HIDE DEF y
      <4> QED
        BY <2>3, <2>4, ResponseKeeps, ResponseParts
    <3> QED
      BY <2>1, <3>1, <3>2 DEF Intends
  <2>5. CASE cx' = [y EXCEPT !.handshaking_done = TRUE] /\ ~cx.multi
    <3>1. ~cx'.multi
      <4> HIDE DEF y
      <4> QED
        BY <2>3, <2>5 DEF CXType
    <3> QED
      BY <3>1 DEF Intends
  <2> QED
    BY <2>1, <2>4, <2>5
<1>4. CASE StationRefused
  <2> DEFINE z == [cx EXCEPT !.invalid = TRUE]
  <2>1. cx' = Response(z)
    BY <1>4 DEF StationRefused
  <2>2. z \in CXType /\ z.invalid = TRUE
    BY <1>0 DEF CXType
  <2>3. cx'.invalid /\ (cx'.have_response \/ cx'.batchmode)
    <3> HIDE DEF z
    <3> QED
      BY <2>1, <2>2, ResponseParts, ZenonT(30)
  <2> QED
    BY <2>3 DEF Intends
<1>5. CASE NotForAnyStation \/ Error
  <2>1. client' = Waits(client) /\ cx' = Response(cx) /\ current' = current
    BY <1>5 DEF NotForAnyStation, Error
  <2> QED
    BY <1>a, <1>b, <2>1 DEF Intends
<1>6. CASE Select
  <2> DEFINE x == Forget(cx, current)
  <2>1. client' = Waits(client) /\ cx' = Response(x) /\ current' = current
    BY <1>6 DEF Select
  <2>2. /\ x \in CXType /\ x.multi = cx.multi /\ x.handshaking_done = cx.handshaking_done
        /\ x.batchmode = cx.batchmode /\ x.invalid = cx.invalid
        /\ x.have_response = cx.have_response
    BY <1>0, ForgetParts
  <2>3. /\ cx'.multi = cx.multi /\ cx'.handshaking_done = cx.handshaking_done
        /\ cx'.batchmode = cx.batchmode /\ cx'.invalid = cx.invalid
        /\ cx'.have_response = (cx.have_response \/ ~cx.batchmode)
    <3> HIDE DEF x
    <3> QED
      BY <2>1, <2>2, ResponseKeeps, ResponseParts
  <2> QED
    BY <1>a, <2>1, <2>3 DEF Intends
<1>7. CASE Batch
  <2> DEFINE z == Response(cx)
  <2>1. client' = Waits(client) /\ cx' = [z EXCEPT !.batchmode = TRUE] /\ current' = current
    BY <1>7 DEF Batch
  <2>2. /\ cx'.multi = cx.multi /\ cx'.handshaking_done = cx.handshaking_done
        /\ cx'.batchmode /\ cx'.invalid = cx.invalid
        /\ cx'.have_response = (cx.have_response \/ ~cx.batchmode)
    <3> HIDE DEF z
    <3> QED
      BY <1>b, <2>1 DEF CXType, z
  <2> QED
    BY <1>a, <2>1, <2>2 DEF Intends
<1>8. CASE End
  <2>1. ~client'.named
    BY <1>8 DEF End, ClientType
  <2> QED
    BY <2>1 DEF Intends
<1>9. CASE Info \/ Connect \/ SendInfo \/ UNCHANGED vars
  BY <1>9 DEF Info, Connect, SendInfo, vars, Intends
<1>10. CASE Disconnect
  BY <1>10 DEF Disconnect, Reset, NewCX, Intends
<1>11. ASSUME NEW s, NEW matches, NEW over, Arrive(s, matches, over) PROVE Intends'
  BY <1>0, <1>11 DEF Arrive, CXType, Intends
<1>12. CASE SendResponse
  BY <1>0, <1>12 DEF SendResponse, CXType, ClientType, Intends
<1>13. CASE SendData
  <2>1. cx.handshaking_done /\ ~cx.have_response
    BY <1>13 DEF SendData
  <2>2. PICK over, done : Round(done, over)
    BY <1>13 DEF SendData, SendNothing, SendPacket
  <2>3. PICK a, r : cx' = [cx EXCEPT !.ready = r, !.active = a]
    BY <2>2 DEF Round
  <2>4. /\ cx'.handshaking_done /\ ~cx'.have_response
        /\ cx'.multi = cx.multi /\ cx'.batchmode = cx.batchmode
    BY <1>0, <2>1, <2>3 DEF CXType
  <2>5. client'.named = client.named
    BY <1>13 DEF SendData, SendNothing, SendPacket, GotEnd, ClientType
  <2> QED
    BY <2>1, <2>4, <2>5 DEF Intends
<1> QED
  BY <1>2, <1>3, <1>4, <1>5, <1>6, <1>7, <1>8, <1>9, <1>10, <1>11, <1>12, <1>13
  DEF Next, Command

-----------------------------------------------------------------------------
(* What happens to the subscriptions.                                      *)

LEMMA StationRecord == IInv => \A s \in Station : st[s] \in STType
BY DEF IInv, Types

LEMMA RequestedStations ==
  IInv => /\ current \in Station /\ requested \subseteq Station
          /\ Ready \subseteq requested /\ st \in [Station -> STType]
BY DEF IInv, Types, Ready

\* A command changes the subscription of current_station only, and leaves it
\* forgotten or active.
LEMMA CommandChanges ==
  ASSUME IInv, Command, NEW s \in Station, st'[s] # st[s]
  PROVE  /\ s = current /\ (~cx.multi \/ ForCurrent)
         /\ st'[s] = Idle \/ st'[s].active
<1>1. current \in Station /\ st \in [Station -> STType]
  BY RequestedStations
<1>2. ASSUME NEW t \in Station, StationCommand(t)
      PROVE  s = current /\ ~cx.multi /\ st'[s] = Idle
  <2>1. ~cx.multi /\ st' = [st EXCEPT ![current] = Idle]
    BY <1>2 DEF StationCommand
  <2> QED
    BY <1>1, <2>1
<1>3. ASSUME NEW mode, NEW ready, NEW n, NEW eod, Subscribe(mode, ready, n, eod)
      PROVE  s = current /\ ForCurrent /\ st'[s].active
  <2> DEFINE t == [active |-> TRUE, ready |-> ready, mode |-> mode, todo |-> n, eod |-> eod]
  <2>1. ForCurrent /\ st' = [st EXCEPT ![current] = t] /\ t.active
    BY <1>3 DEF Subscribe
  <2> HIDE DEF t
  <2> QED
    BY <1>1, <2>1
<1>4. CASE Select
  <2>1. ForCurrent /\ st' = [st EXCEPT ![current] = Idle]
    BY <1>4 DEF Select
  <2> QED
    BY <1>1, <2>1
<1>5. ~(StationRefused \/ NotForAnyStation \/ End \/ Batch \/ Info \/ Error)
  BY DEF StationRefused, NotForAnyStation, End, Batch, Info, Error
<1> QED
  BY <1>2, <1>3, <1>4, <1>5 DEF Command

\* A record that arrives leaves the station active.
LEMMA ArriveChanges ==
  ASSUME IInv, NEW s \in Station, NEW matches, NEW over, Arrive(s, matches, over),
         NEW t \in Station
  PROVE  st'[t] = st[t] \/ (t = s /\ st'[t].active)
<1>1. st \in [Station -> STType] /\ st[s].active
  BY RequestedStations DEF Arrive
<1> DEFINE queued == st[s].todo + Count(matches /\ ~over)
<1>2. \/ st' = [st EXCEPT ![s].todo = queued, ![s].ready = TRUE]
      \/ st' = [st EXCEPT ![s].todo = queued, ![s].eod = @ \/ over]
  BY DEF Arrive
<1> HIDE DEF queued
<1>3. CASE st' = [st EXCEPT ![s].todo = queued, ![s].ready = TRUE]
  BY <1>1, <1>3 DEF STType
<1>4. CASE st' = [st EXCEPT ![s].todo = queued, ![s].eod = @ \/ over]
  BY <1>1, <1>4 DEF STType
<1> QED
  BY <1>2, <1>3, <1>4

LEMMA AfterFields ==
  ASSUME IInv, NEW s \in Station, NEW over
  PROVE  /\ After(s, over).todo = 0 /\ ~After(s, over).ready
         /\ After(s, over).active = ~Finished(s, over)
         /\ After(s, over).eod = Finished(s, over)
BY StationRecord DEF After, STType

\* A round: the stations in done are asked in vain, the others stay as they
\* are, but for the packet that one of them sends.
LEMMA SendDataChanges ==
  ASSUME IInv, SendData
  PROVE  \E over, done :
           /\ done \subseteq Ready /\ Round(done, over)
           /\ client'.ended = (client.ended \/ (done # {} /\ cx'.active = 0))
              \/ client \notin ClientType
           /\ \A t \in Station : IF t \in done THEN st'[t] = After(t, over)
                                 ELSE st'[t] = st[t] \/ (t \in Ready /\ st'[t].active)
<1>1. Ready \subseteq requested /\ requested \subseteq Station /\ st \in [Station -> STType]
  BY RequestedStations
<1>2. PICK over \in SUBSET Windows :
        SendNothing(over) \/ \E s \in Station : SendPacket(s, over)
  BY DEF SendData
<1>3. CASE SendNothing(over)
  <2>1. Ready \subseteq Ready /\ Round(Ready, over)
    BY <1>3 DEF SendNothing
  <2>2. client \in ClientType => client'.ended = (client.ended \/ (Ready # {} /\ cx'.active = 0))
    BY <1>3 DEF SendNothing, GotEnd, ClientType
  <2>3. \A t \in Station : IF t \in Ready THEN st'[t] = After(t, over) ELSE st'[t] = st[t]
    BY <1>3 DEF SendNothing
  <2> QED
    BY <2>1, <2>2, <2>3
<1>4. ASSUME NEW s \in Station, SendPacket(s, over)
      PROVE  \E done :
           /\ done \subseteq Ready /\ Round(done, over)
           /\ client'.ended = (client.ended \/ (done # {} /\ cx'.active = 0))
              \/ client \notin ClientType
           /\ \A t \in Station : IF t \in done THEN st'[t] = After(t, over)
                                 ELSE st'[t] = st[t] \/ (t \in Ready /\ st'[t].active)
  <2> DEFINE done == {t \in Ready : Distance(t) < Distance(s)}
             sent == [st[s] EXCEPT !.todo = @ - 1]
  <2>1. /\ Round(done, over) /\ s \in Ready /\ done \subseteq Ready
        /\ st' = [t \in Station |->
                    IF t \in done THEN After(t, over) ELSE IF t = s THEN sent ELSE st[t]]
    BY <1>4 DEF SendPacket
  <2>2. client \in ClientType => client'.ended = (client.ended \/ (done # {} /\ cx'.active = 0))
    <3> DEFINE g == GotEnd(client, done)
    <3>1. PICK p : client' = [g EXCEPT !.passed = p]
      BY <1>4 DEF SendPacket
    <3>2. g = [client EXCEPT !.ended = @ \/ (done # {} /\ cx'.active = 0)]
      BY DEF GotEnd
    <3> HIDE DEF done, g
    <3> QED
      BY <3>1, <3>2 DEF ClientType
  <2>3. sent.active = st[s].active
    BY <1>1 DEF STType
  <2>4. st[s].active
    BY <1>1, <2>1 DEF IInv, Shape, Ready
  <2> HIDE DEF done, sent
  <2>5. \A t \in Station : IF t \in done THEN st'[t] = After(t, over)
                           ELSE st'[t] = st[t] \/ (t \in Ready /\ st'[t].active)
    BY <2>1, <2>3, <2>4
  <2> QED
    BY <2>1, <2>2, <2>5
<1> QED
  BY <1>2, <1>3, <1>4

LEMMA QuietKept == IInv /\ Quiet /\ [Next]_vars => Quiet'
<1> SUFFICES ASSUME IInv, Quiet, [Next]_vars, NEW t \in Station, ~st'[t].active
             PROVE  st'[t].todo = 0
  BY DEF Quiet
<1>1. CASE st'[t] = st[t]
  BY <1>1 DEF Quiet
<1>2. CASE st'[t] = Idle
  BY <1>2 DEF Idle
<1>3. CASE Command
  BY <1>1, <1>2, <1>3, CommandChanges
<1>4. CASE Disconnect
  BY <1>2, <1>4 DEF Disconnect, Reset
<1>5. ASSUME NEW s \in Station, NEW matches, NEW over, Arrive(s, matches, over)
      PROVE  st'[t].todo = 0
  BY <1>1, <1>5, ArriveChanges
<1>6. CASE Connect \/ SendResponse \/ SendInfo \/ UNCHANGED vars
  BY <1>1, <1>6 DEF Connect, SendResponse, SendInfo, vars
<1>7. CASE SendData
  BY <1>1, <1>7, SendDataChanges, AfterFields
<1> QED
  BY <1>3, <1>4, <1>5, <1>6, <1>7 DEF Next

-----------------------------------------------------------------------------
(* The order of a round.                                                   *)

LEMMA RemainderOf ==
  ASSUME NEW m \in Nat \ {0}, NEW x \in Int
  PROVE  /\ x \in 0 .. m - 1 => x % m = x
         /\ x \in -m .. -1 => x % m = x + m
OBVIOUS

\* The stations after station c come first, then those from the first one up to
\* c itself.
Order(c, s) == IF s > c THEN s - c - 1 ELSE s - c - 1 + N

LEMMA OrderIs ==
  ASSUME NEW c \in Station, NEW s \in Station
  PROVE  (s - c - 1) % N = Order(c, s)
<1>1. N \in Nat \ {0} /\ c \in 1 .. N /\ s \in 1 .. N
  BY ConnectionAssumption DEF Station
<1> DEFINE x == s - c - 1
<1>2. x \in Int /\ (s > c => x \in 0 .. N - 1) /\ (~(s > c) => x \in -N .. -1)
  BY <1>1
<1> HIDE DEF x
<1>3. (s > c => x % N = x) /\ (~(s > c) => x % N = x + N)
  BY <1>1, <1>2, RemainderOf
<1> QED
  BY <1>3 DEF x, Order

\* Once a round stands at s, it comes only to stations before t that it would
\* have come to before, and to s no more.
LEMMA OrderGoesOn ==
  ASSUME NEW c \in Station, NEW s \in Station, NEW t \in Station, NEW u \in Station,
         Order(c, s) < Order(c, t), Order(s, u) <= Order(s, t)
  PROVE  Order(c, u) <= Order(c, t) /\ u # s
<1>1. N \in Nat \ {0} /\ c \in 1 .. N /\ s \in 1 .. N /\ t \in 1 .. N /\ u \in 1 .. N
  BY ConnectionAssumption DEF Station
<1> QED
  BY <1>1 DEF Order

LEMMA OrderDiffers ==
  ASSUME NEW c \in Station, NEW s \in Station, NEW t \in Station, s # t,
         ~(Order(c, t) < Order(c, s))
  PROVE  Order(c, s) < Order(c, t)
<1>1. N \in Nat \ {0} /\ c \in 1 .. N /\ s \in 1 .. N /\ t \in 1 .. N
  BY ConnectionAssumption DEF Station
<1> QED
  BY <1>1 DEF Order

LEMMA UpToSize ==
  ASSUME IInv, NEW U, U \subseteq requested
  PROVE  /\ IsFiniteSet(requested) /\ IsFiniteSet(U)
         /\ Cardinality(U) \in Nat /\ Cardinality(requested) \in Nat
         /\ Cardinality(U) <= Cardinality(requested)
<1>1. IsFiniteSet(Station)
  BY FS_Interval, ConnectionAssumption DEF Station
<1>2. IsFiniteSet(requested)
  BY <1>1, RequestedStations, FS_Subset
<1> QED
  BY <1>2, FS_Subset, FS_CardinalityType

\* Whoever has let pass nothing has not waited too long.
LEMMA NothingPassed ==
  ASSUME IInv, \A t \in Station : client.passed[t] = 0
  PROVE  Turns
<1> SUFFICES ASSUME NEW t \in requested
             PROVE  client.passed[t] + Cardinality(UpTo(t)) <= Cardinality(requested)
  BY RequestedStations DEF Turns
<1>1. /\ UpTo(t) \subseteq requested
      /\ client.passed[t] = 0
  BY RequestedStations DEF UpTo
<1> QED
  BY <1>1, UpToSize

LEMMA TurnsKept ==
  ASSUME IInv, IInv', client \in ClientType, Turns, [Next]_vars
  PROVE  Turns' \/ \A t \in Station : client'.passed[t] = 0
<1>1. ASSUME client'.passed = client.passed, UNCHANGED <<requested, current>> PROVE Turns'
  BY <1>1 DEF Turns, UpTo, Distance
<1>2. Waits(client) \in ClientType /\ Waits(client).passed = client.passed
  BY WaitsType
<1>3. ASSUME NEW s \in Station, StationCommand(s) PROVE \A t \in Station : client'.passed[t] = 0
  <2> DEFINE w == Waits(client)
             p == [t \in Station |-> 0]
  <2>1. client' = [w EXCEPT !.intended = s, !.named = TRUE, !.passed = p]
    BY <1>3 DEF StationCommand
  <2>2. client'.passed = p
    <3> HIDE DEF w, p
    <3> QED
      BY <1>2, <2>1 DEF ClientType, w
  <2> QED
    BY <2>2
<1>4. ASSUME NEW mode, NEW ready, NEW n, NEW eod, Subscribe(mode, ready, n, eod)
      PROVE  Turns'
  <2> DEFINE w == Waits(client)
  <2>1. /\ \/ client' = [w EXCEPT !.ended = FALSE]
           \/ client' = [client EXCEPT !.ended = FALSE, !.started = FALSE]
        /\ UNCHANGED <<requested, current>>
    BY <1>4 DEF Subscribe
  <2>2. client'.passed = client.passed
    <3> HIDE DEF w
    <3> QED
      BY <1>2, <2>1 DEF ClientType, w
  <2> QED
    BY <1>1, <2>1, <2>2
<1>5. CASE StationRefused
  <2> DEFINE w == Waits(client)
  <2>1. /\ client' = [w EXCEPT !.intended = 0, !.named = TRUE]
        /\ UNCHANGED <<requested, current>>
    BY <1>5 DEF StationRefused
  <2>2. client'.passed = client.passed
    <3> HIDE DEF w
    <3> QED
      BY <1>2, <2>1 DEF ClientType, w
  <2> QED
    BY <1>1, <2>1, <2>2
<1>6. CASE NotForAnyStation \/ Error \/ Select \/ Batch
  <2>1. client' = Waits(client) /\ UNCHANGED <<requested, current>>
    BY <1>6 DEF NotForAnyStation, Error, Select, Batch
  <2> QED
    BY <1>1, <1>2, <2>1
<1>7. CASE End \/ SendResponse
  <2>1. client'.passed = client.passed /\ UNCHANGED <<requested, current>>
    BY <1>7 DEF End, SendResponse, ClientType
  <2> QED
    BY <1>1, <2>1
<1>8. CASE Info \/ Connect \/ SendInfo \/ UNCHANGED vars
  <2>1. client'.passed = client.passed /\ UNCHANGED <<requested, current>>
    BY <1>8 DEF Info, Connect, SendInfo, vars
  <2> QED
    BY <1>1, <2>1
<1>9. ASSUME NEW s, NEW matches, NEW over, Arrive(s, matches, over) PROVE Turns'
  <2>1. client'.passed = client.passed /\ UNCHANGED <<requested, current>>
    BY <1>9 DEF Arrive
  <2> QED
    BY <1>1, <2>1
<1>10. CASE Disconnect
  BY <1>10 DEF Disconnect, Reset, NewClient
<1>11. ASSUME NEW over, SendNothing(over) PROVE \A t \in Station : client'.passed[t] = 0
  <2> DEFINE g == GotEnd(client, Ready)
             p == [t \in Station |-> 0]
  <2>1. client' = [g EXCEPT !.passed = p]
    BY <1>11 DEF SendNothing
  <2>2. g \in ClientType
    BY GotEndType, ZeroPassed
  <2>3. client'.passed = p
    <3> HIDE DEF g, p
    <3> QED
      BY <2>1, <2>2 DEF ClientType
  <2> QED
    BY <2>3
<1>12. ASSUME NEW over, NEW s \in Station, SendPacket(s, over) PROVE Turns'
  <2> DEFINE done == {t \in Ready : Distance(t) < Distance(s)}
             g == GotEnd(client, done)
             p == [t \in Station |-> IF t # s /\ t \in Ready \ done THEN g.passed[t] + 1 ELSE 0]
  <2>1. /\ client' = [g EXCEPT !.passed = p] /\ current' = s /\ s \in Ready
        /\ Round(done, over)
    BY <1>12 DEF SendPacket
  <2>2. g \in ClientType /\ g.passed = client.passed
    BY GotEndType, ZeroPassed DEF GotEnd, ClientType
  <2>3. client'.passed = p
    <3> HIDE DEF g, p
    <3> QED
      BY <2>1, <2>2 DEF ClientType
  <2>4. requested' = requested /\ current \in Station
    BY <2>1, RequestedStations DEF Round
  <2>5. \A t \in Station : Distance(t) = Order(current, t) /\ Distance(t)' = Order(s, t)
    BY <2>1, <2>4, OrderIs DEF Distance
  <2>6. ASSUME NEW t \in Station, t \notin requested PROVE client'.passed[t] = 0
    BY <2>3, <2>6, RequestedStations
  <2>7. ASSUME NEW t \in requested
        PROVE  client'.passed[t] + Cardinality(UpTo(t)') <= Cardinality(requested)
    <3>1. t \in Station /\ UpTo(t)' \subseteq requested
      BY <2>4, RequestedStations DEF UpTo
    <3>2. CASE t = s \/ t \notin Ready \ done
      <4>1. client'.passed[t] = 0
        BY <2>3, <3>1, <3>2
      <4> QED
        BY <3>1, <4>1, UpToSize
    <3>3. CASE t # s /\ t \in Ready \ done
      <4>1. client'.passed[t] = client.passed[t] + 1 /\ client.passed[t] \in Nat
        BY <2>2, <2>3, <3>1, <3>3 DEF ClientType
      <4>2. Order(current, s) < Order(current, t)
        BY <2>4, <2>5, <3>1, <3>3, OrderDiffers
      <4>3. s \in UpTo(t)
        <5>1. Order(current, s) <= Order(current, t)
          BY <2>4, <3>1, <4>2, ConnectionAssumption DEF Order, Station
        <5> QED
          BY <2>1, <2>5, <3>1, <5>1, RequestedStations DEF UpTo
      <4>4. ASSUME NEW u \in UpTo(t)' PROVE u \in UpTo(t) \ {s}
        <5>1. u \in requested /\ u \in Station /\ Distance(u)' <= Distance(t)'
          BY <2>4, RequestedStations DEF UpTo
        <5>2. Order(s, u) <= Order(s, t)
          BY <2>5, <3>1, <5>1
        <5>3. Order(current, u) <= Order(current, t) /\ u # s
          BY <2>4, <3>1, <4>2, <5>1, <5>2, OrderGoesOn
        <5> QED
          BY <2>5, <3>1, <5>1, <5>3 DEF UpTo
      <4>5. UpTo(t) \subseteq requested /\ UpTo(t)' \subseteq UpTo(t) \ {s}
        BY <4>4 DEF UpTo
      <4> DEFINE U == UpTo(t)
                 V == UpTo(t)'
      <4>6. IsFiniteSet(U) /\ Cardinality(U) \in Nat /\ Cardinality(requested) \in Nat
        BY <4>5, UpToSize
      <4>7. client.passed[t] + Cardinality(U) <= Cardinality(requested)
        BY <3>1 DEF Turns
      <4>8. s \in U /\ V \subseteq U \ {s}
        BY <4>3, <4>5
      <4> HIDE DEF U, V
      <4>9. IsFiniteSet(U \ {s}) /\ Cardinality(U \ {s}) = Cardinality(U) - 1
        BY <4>6, <4>8, FS_RemoveElement
      <4>10. Cardinality(V) <= Cardinality(U \ {s}) /\ Cardinality(V) \in Nat
        BY <4>8, <4>9, FS_Subset, FS_CardinalityType
      <4>11. client'.passed[t] + Cardinality(V) <= Cardinality(requested)
        BY <4>1, <4>6, <4>7, <4>9, <4>10
      <4> QED
        BY <4>11 DEF V
    <3> QED
      BY <3>2, <3>3
  <2> HIDE DEF done, g, p
  <2> QED
    BY <2>4, <2>6, <2>7 DEF Turns
<1> QED
  BY <1>3, <1>4, <1>5, <1>6, <1>7, <1>8, <1>9, <1>10, <1>11, <1>12
  DEF Next, Command, SendData

-----------------------------------------------------------------------------
LEMMA InitJInv == Init => JInv
<1> SUFFICES ASSUME Init PROVE JInv
  OBVIOUS
<1>1. IInv
  BY InitIInv
<1>2. PICK kind \in Clients : client = NewClient(kind)
  BY DEF Init
<1>3. client \in ClientType
  BY <1>2, NewClientType
<1>4. Intends /\ Quiet
  BY DEF Init, NewCX, Idle, Intends, Quiet
<1>5. \A t \in Station : client.passed[t] = 0
  BY <1>2 DEF NewClient
<1> QED
  BY <1>1, <1>3, <1>4, <1>5, NothingPassed DEF JInv

\* What TurnsKept leaves open: a client whose stations have let pass nothing.
Fresh == \A t \in Station : client.passed[t] = 0

LEMMA JInvKept == JInv /\ IInv' /\ [Next]_vars =>
                    /\ client' \in ClientType /\ Intends' /\ Quiet' /\ (Turns' \/ Fresh')
BY ClientTypeKept, IntendsKept, QuietKept, TurnsKept DEF JInv, Fresh

LEMMA FreshTurns == IInv /\ Fresh => Turns
BY NothingPassed DEF Fresh

LEMMA AlwaysJInv == Spec => []JInv
<1> DEFINE Typed == client \in ClientType
<1>1. JInv => IInv
  BY DEF JInv
<1>2. JInv /\ IInv' /\ [Next]_vars => Typed' /\ Intends' /\ Quiet' /\ (Turns' \/ Fresh')
  BY JInvKept
<1>3. IInv /\ Typed /\ Intends /\ Quiet /\ Turns => JInv
  BY DEF JInv
<1> HIDE DEF Typed
<1> QED
  BY InitJInv, NextKeeps, <1>1, <1>2, <1>3, FreshTurns, PTL DEF Spec

\* A round asks the ready stations in their order from the one after
\* current_station on (deliver, iosystem.cc), so that no ready station lets pass
\* more packets than there are other requested stations, however the stations
\* become ready, are subscribed again, or run out of records meanwhile.
THEOREM StationsTakeTurns == Spec => []TakeTurns
<1>1. JInv => TakeTurns
  <2> SUFFICES ASSUME JInv, NEW s \in Station
               PROVE  client.passed[s] < Cardinality(requested)
    BY DEF TakeTurns
  <2>1. IInv /\ client.passed[s] \in Nat
    BY DEF JInv, ClientType
  <2>2. CASE s \in requested
    <3>1. /\ UpTo(s) \subseteq requested
          /\ client.passed[s] + Cardinality(UpTo(s)) <= Cardinality(requested)
      BY <2>2 DEF JInv, Turns, UpTo
    <3>2. /\ IsFiniteSet(UpTo(s)) /\ Cardinality(UpTo(s)) \in Nat
          /\ Cardinality(requested) \in Nat
      BY <2>1, <3>1, UpToSize
    <3>3. s \in UpTo(s)
      <4>1. Distance(s) <= Distance(s)
        BY <2>1, Finite DEF IInv
      <4> QED
        BY <2>2, <4>1 DEF UpTo
    <3>4. Cardinality(UpTo(s)) # 0
      BY <3>2, <3>3, FS_EmptySet
    <3> QED
      BY <2>1, <3>1, <3>2, <3>4
  <2>3. CASE s \notin requested
    <3>1. client.passed[s] = 0
      BY <2>3 DEF JInv, Turns
    <3>2. {current} \subseteq requested
      BY <2>1 DEF IInv, Types
    <3>3. Cardinality({current}) <= Cardinality(requested) /\ Cardinality(requested) \in Nat
      BY <2>1, <3>2, UpToSize
    <3>4. Cardinality({current}) = 1
      BY FS_Singleton
    <3> QED
      BY <3>1, <3>3, <3>4
  <2> QED
    BY <2>2, <2>3
<1> QED
  BY AlwaysJInv, <1>1, PTL

-----------------------------------------------------------------------------
(* The action properties.                                                  *)

\* A command touches the subscription of the station that the client has named
\* last only, although SELECT, DATA, FETCH and TIME are for current_station
\* (process_command, iosystem.cc), which the rounds move: between STATION and
\* the rounds there is always its answer or the batch mode.
THEOREM IntendedOnly == Spec => OnlyIntended
<1> DEFINE Touched == Command => \A s \in Station :
             st'[s] # st[s] => \/ client.intended = s
                               \/ ~cx.multi /\ s = current
<1>1. JInv /\ [Next]_vars => [Touched]_vars
  <2> SUFFICES ASSUME JInv, Command, NEW s \in Station, st'[s] # st[s]
               PROVE  client.intended = s \/ (~cx.multi /\ s = current)
    OBVIOUS
  <2>1. s = current /\ (~cx.multi \/ ForCurrent)
    BY CommandChanges DEF JInv
  <2>2. cx.multi => client.intended = current
    BY <2>1, IntendedHere DEF JInv
  <2> QED
    BY <2>1, <2>2
<1>2. Spec => [][Touched]_vars
  <2> HIDE DEF Touched
  <2> QED
    BY AlwaysJInv, <1>1, PTL DEF Spec
<1> QED
  BY <1>2 DEF OnlyIntended

\* The stations that stations_active counts are the active ones, and the
\* default station that was given up.
LEMMA NoneActive ==
  ASSUME IInv
  PROVE  /\ cx.active = 0 => \A s \in requested : ~st[s].active
         /\ ~abandoned /\ (\A s \in requested : ~st[s].active) => cx.active = 0
<1>1. cx.active = Cardinality(Active) + Count(abandoned) /\ IsFiniteSet(Active)
  BY Finite DEF IInv, CountsMatch, Active
<1>2. /\ Cardinality(Active) = 0 <=> Active = {}
      /\ Cardinality(Active) \in Nat
  BY <1>1, FS_EmptySet, FS_CardinalityType
<1>3. Count(abandoned) \in {0, 1} /\ (~abandoned => Count(abandoned) = 0)
  BY DEF Count
<1>4. /\ cx.active = 0 => Cardinality(Active) = 0
      /\ ~abandoned /\ Cardinality(Active) = 0 => cx.active = 0
  BY <1>1, <1>2, <1>3
<1> QED
  BY <1>2, <1>4 DEF Active

\* NoneActive for both ends of a step.
NoneCounted ==
  /\ cx.active = 0 => \A s \in requested : ~st[s].active
  /\ ~abandoned /\ (\A s \in requested : ~st[s].active) => cx.active = 0

\* Only a round tells a client that its data is over.
LEMMA OnlyRoundsEnd ==
  ASSUME JInv, [Next]_vars, ~SendData
  PROVE  /\ \A s \in Station : ~Ends(s)
         /\ client'.ended => client.ended
<1> USE DEF JInv
<1>1. ASSUME NEW s \in Station PROVE ~Ends(s)
  <2>1. CASE st'[s] = st[s] \/ st'[s] = Idle \/ st'[s].active
    BY <2>1 DEF Ends, Idle
  <2>2. CASE Command
    BY <2>1, <2>2, CommandChanges
  <2>3. CASE Disconnect
    BY <2>1, <2>3 DEF Disconnect, Reset
  <2>4. ASSUME NEW u \in Station, NEW matches, NEW over, Arrive(u, matches, over)
        PROVE  ~Ends(s)
    BY <2>1, <2>4, ArriveChanges
  <2>5. CASE Connect \/ SendResponse \/ SendInfo \/ UNCHANGED vars
    BY <2>1, <2>5 DEF Connect, SendResponse, SendInfo, vars
  <2> QED
    BY <2>2, <2>3, <2>4, <2>5 DEF Next
<1>2. client'.ended => client.ended
  <2>0. Waits(client) \in ClientType /\ Waits(client).ended = client.ended
    BY WaitsType
  <2>1. ASSUME NEW s \in Station, StationCommand(s) PROVE client'.ended = client.ended
    <3> DEFINE w == Waits(client)
               p == [t \in Station |-> 0]
    <3>1. client' = [w EXCEPT !.intended = s, !.named = TRUE, !.passed = p]
      BY <2>1 DEF StationCommand
    <3> HIDE DEF w, p
    <3> QED
      BY <2>0, <3>1 DEF ClientType, w
  <2>2. ASSUME NEW mode, NEW ready, NEW n, NEW eod, Subscribe(mode, ready, n, eod)
        PROVE  ~client'.ended
    <3> DEFINE w == Waits(client)
    <3>1. \/ client' = [w EXCEPT !.ended = FALSE]
          \/ client' = [client EXCEPT !.ended = FALSE, !.started = FALSE]
      BY <2>2 DEF Subscribe
    <3>2. w \in ClientType
      BY <2>0
    <3> HIDE DEF w
    <3> QED
      BY <3>1, <3>2 DEF ClientType
  <2>3. CASE StationRefused
    <3> DEFINE w == Waits(client)
    <3>1. client' = [w EXCEPT !.intended = 0, !.named = TRUE]
      BY <2>3 DEF StationRefused
    <3> HIDE DEF w
    <3> QED
      BY <2>0, <3>1 DEF ClientType, w
  <2>4. CASE NotForAnyStation \/ Error \/ Select \/ Batch
    BY <2>0, <2>4 DEF NotForAnyStation, Error, Select, Batch
  <2>5. CASE End \/ SendResponse
    BY <2>5 DEF End, SendResponse, ClientType
  <2>6. CASE Info \/ Connect \/ SendInfo \/ UNCHANGED vars
    BY <2>6 DEF Info, Connect, SendInfo, vars
  <2>7. CASE Disconnect
    BY <2>7 DEF Disconnect, Reset, NewClient
  <2>8. ASSUME NEW s, NEW matches, NEW over, Arrive(s, matches, over)
        PROVE  client'.ended = client.ended
    BY <2>8 DEF Arrive
  <2> QED
    BY <2>1, <2>2, <2>3, <2>4, <2>5, <2>6, <2>7, <2>8 DEF Next, Command
<1> QED
  BY <1>1, <1>2

\* In a round with which the last active station ends, the client gets "END"
\* (deliver, iosystem.cc), since stations_active is then 0, if it does not count
\* a default station that was given up.
THEOREM EndIsSent == Spec => EndWhenDone
<1> DEFINE Told == (\E s \in requested : Ends(s)) /\ (\A s \in requested : ~st'[s].active)
                     /\ ~abandoned => client'.ended
<1>1. JInv /\ IInv' /\ NoneCounted' /\ [Next]_vars => [Told]_vars
  <2> SUFFICES ASSUME JInv, IInv', NoneCounted', [Next]_vars, NEW s \in requested, Ends(s),
                      \A t \in requested : ~st'[t].active, ~abandoned
               PROVE  client'.ended
    OBVIOUS
  <2>1. IInv /\ s \in Station /\ client \in ClientType
    BY RequestedStations DEF JInv
  <2>2. SendData
    BY <2>1, OnlyRoundsEnd
  <2>3. PICK over, done :
           /\ done \subseteq Ready /\ Round(done, over)
           /\ client'.ended = (client.ended \/ (done # {} /\ cx'.active = 0))
           /\ \A t \in Station : IF t \in done THEN st'[t] = After(t, over)
                                 ELSE st'[t] = st[t] \/ (t \in Ready /\ st'[t].active)
    BY <2>1, <2>2, SendDataChanges
  <2>4. s \in done
    BY <2>1, <2>3 DEF Ends
  <2>5. requested' = requested /\ ~abandoned'
    BY <2>3 DEF Round
  <2>6. cx'.active = 0
    BY <2>5 DEF NoneCounted
  <2> QED
    BY <2>3, <2>4, <2>6
<1>2. IInv => NoneCounted
  BY NoneActive DEF NoneCounted
<1>3. JInv => IInv
  BY DEF JInv
<1>4. Spec => [][Told]_vars
  <2> HIDE DEF Told
  <2> QED
    BY AlwaysJInv, <1>1, <1>2, <1>3, PTL DEF Spec
<1> QED
  BY <1>4 DEF EndWhenDone

\* "END" is sent with the round after which stations_active is 0: no requested
\* station is active any more, and none has records left for the client.
THEOREM EndIsLast == Spec => EndAfterAll
<1> DEFINE Over == ~client.ended /\ client'.ended =>
                     \A s \in requested : ~st'[s].active /\ st'[s].todo = 0
<1>1. JInv /\ Quiet' /\ NoneCounted' /\ [Next]_vars => [Over]_vars
  <2> SUFFICES ASSUME JInv, Quiet', NoneCounted', [Next]_vars, ~client.ended, client'.ended,
                      NEW s \in requested
               PROVE  ~st'[s].active /\ st'[s].todo = 0
    OBVIOUS
  <2>1. IInv /\ s \in Station /\ client \in ClientType
    BY RequestedStations DEF JInv
  <2>2. SendData
    BY OnlyRoundsEnd
  <2>3. PICK over, done :
           /\ Round(done, over)
           /\ client'.ended = (client.ended \/ (done # {} /\ cx'.active = 0))
    BY <2>1, <2>2, SendDataChanges
  <2>4. requested' = requested /\ cx'.active = 0
    BY <2>3 DEF Round
  <2>5. ~st'[s].active
    BY <2>4 DEF NoneCounted
  <2> QED
    BY <2>1, <2>5 DEF Quiet
<1>2. IInv => NoneCounted
  BY NoneActive DEF NoneCounted
<1>3. JInv => IInv /\ Quiet
  BY DEF JInv
<1>4. Spec => [][Over]_vars
  <2> HIDE DEF Over
  <2> QED
    BY AlwaysJInv, <1>1, <1>2, <1>3, PTL DEF Spec
<1> QED
  BY <1>4 DEF EndAfterAll

=============================================================================
