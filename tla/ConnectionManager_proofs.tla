---------------------- MODULE ConnectionManager_proofs ----------------------
(***************************************************************************)
(* Proofs about ConnectionManager, for any clients, addresses and limits.  *)
(* The counts are right in every state (CountsOpen), and that makes the    *)
(* comparison of a count with the limit a comparison of the number of open *)
(* connections with the limit.                                             *)
(***************************************************************************)
EXTENDS ConnectionManager, FiniteSetTheorems, TLAPS

\* The inductive invariant of the connection manager.
IInv == TypeOK /\ CountsOpen /\ WithinLimits

\* One address's connections when a client comes or goes: those of its own
\* address change by that client, those of the others do not change.
LEMMA OpenAdd ==
  ASSUME NEW S \in SUBSET Conn, NEW c \in Conn \ S, NEW a \in Addr
  PROVE  Cardinality(Open(S \cup {c}, a)) =
           Cardinality(Open(S, a)) + (IF IpOf[c] = a THEN 1 ELSE 0)
<1>1. IsFiniteSet(Open(S, a))
  BY FS_Subset, ManagerAssumption DEF Open
<1>2. CASE IpOf[c] = a
  <2>1. Open(S \cup {c}, a) = Open(S, a) \cup {c} /\ c \notin Open(S, a)
    BY <1>2 DEF Open
  <2> DEFINE T == Open(S, a)
  <2>2. Cardinality(T \cup {c}) = Cardinality(T) + 1
    <3>1. IsFiniteSet(T) /\ c \notin T
      BY <1>1, <2>1
    <3> HIDE DEF T
    <3> QED
      BY <3>1, FS_AddElement
  <2> QED
    BY <1>2, <2>1, <2>2
<1>3. CASE IpOf[c] # a
  <2>1. Open(S \cup {c}, a) = Open(S, a)
    BY <1>3 DEF Open
  <2> QED
    BY <1>1, <1>3, <2>1, FS_CardinalityType
<1> QED
  BY <1>2, <1>3

LEMMA OpenRemove ==
  ASSUME NEW S \in SUBSET Conn, NEW c \in S, NEW a \in Addr
  PROVE  Cardinality(Open(S \ {c}, a)) =
           Cardinality(Open(S, a)) - (IF IpOf[c] = a THEN 1 ELSE 0)
<1>1. IsFiniteSet(Open(S, a))
  BY FS_Subset, ManagerAssumption DEF Open
<1>2. CASE IpOf[c] = a
  <2>1. Open(S \ {c}, a) = Open(S, a) \ {c} /\ c \in Open(S, a)
    BY <1>2 DEF Open
  <2> DEFINE T == Open(S, a)
  <2>2. Cardinality(T \ {c}) = Cardinality(T) - 1
    <3>1. IsFiniteSet(T) /\ c \in T
      BY <1>1, <2>1
    <3> HIDE DEF T
    <3> QED
      BY <3>1, FS_RemoveElement
  <2> QED
    BY <1>2, <2>1, <2>2
<1>3. CASE IpOf[c] # a
  <2>1. Open(S \ {c}, a) = Open(S, a)
    BY <1>3 DEF Open
  <2> QED
    BY <1>1, <1>3, <2>1, FS_CardinalityType
<1> QED
  BY <1>2, <1>3

LEMMA OpenCount ==
  ASSUME NEW S \in SUBSET Conn, NEW a \in Addr
  PROVE  Cardinality(Open(S, a)) \in Nat
BY FS_Subset, FS_CardinalityType, ManagerAssumption DEF Open

LEMMA InitIInv == Init => IInv
<1> SUFFICES ASSUME Init PROVE IInv
  OBVIOUS
<1>1. TypeOK
  BY DEF Init, TypeOK
<1>2. \A a \in Addr : Open(connections, a) = {}
  BY DEF Init, Open
<1>3. CountsOpen
  BY <1>2, FS_EmptySet, ManagerAssumption
  DEF Init, CountsOpen, Clamped, OverLimit
<1>4. WithinLimits
  BY <1>2, FS_EmptySet, ManagerAssumption DEF Init, WithinLimits
<1> QED
  BY <1>1, <1>3, <1>4 DEF IInv

LEMMA StepIInv == IInv /\ [Next]_vars => IInv'
<1> SUFFICES ASSUME IInv, [Next]_vars PROVE IInv'
  OBVIOUS
<1> USE ManagerAssumption DEF IInv
<1>0. Cardinality(connections) \in Nat /\ IsFiniteSet(connections)
  BY FS_Subset, FS_CardinalityType DEF TypeOK
<1>1. ASSUME NEW c \in Conn, client_connect(c) PROVE IInv'
  <2> DEFINE n == nconn_per_ip[IpOf[c]] + 1
  <2>1. TypeOK'
    BY <1>1 DEF client_connect, TypeOK, Refuse, Accept
  <2>2. CASE TotalFull \/ OverLimit(n)
    <3>1. connections' = connections
      BY <1>1, <2>2 DEF client_connect, Refuse
    <3>2. \A a \in Addr : Clamped(nconn_per_ip'[a]) = Clamped(nconn_per_ip[a])
      <4> SUFFICES ASSUME NEW a \in Addr
                   PROVE  Clamped(nconn_per_ip'[a]) = Clamped(nconn_per_ip[a])
        OBVIOUS
      <4>1. CASE TotalFull
        BY <1>1, <4>1 DEF client_connect
      <4>2. CASE ~TotalFull /\ a # IpOf[c]
        BY <1>1, <4>2 DEF client_connect, TypeOK
      <4>3. CASE ~TotalFull /\ a = IpOf[c]
        <5>1. nconn_per_ip'[a] = nconn_per_ip[a] + 1
          BY <1>1, <4>3 DEF client_connect, TypeOK
        <5>2. OverLimit(nconn_per_ip[a] + 1) /\ nconn_per_ip[a] \in Nat
          BY <2>2, <4>3 DEF TypeOK
        <5> QED
          BY <5>1, <5>2 DEF Clamped, OverLimit
      <4> QED
        BY <4>1, <4>2, <4>3
    <3>3. CountsOpen'
      BY <3>1, <3>2 DEF CountsOpen, Clamped, OverLimit, Open
    <3>4. WithinLimits'
      BY <3>1 DEF WithinLimits, Open
    <3> QED
      BY <2>1, <3>3, <3>4
  <2>3. CASE ~TotalFull /\ ~OverLimit(n)
    <3>1. /\ connections' = connections \cup {c} /\ c \notin connections
          /\ nconn_per_ip' = [nconn_per_ip EXCEPT ![IpOf[c]] = n]
      BY <1>1, <2>3 DEF client_connect, Accept
    <3>2. \A a \in Addr :
            Cardinality(Open(connections', a)) =
              Cardinality(Open(connections, a)) + (IF IpOf[c] = a THEN 1 ELSE 0)
      BY <3>1, OpenAdd DEF TypeOK
    <3>3. \A a \in Addr :
            Cardinality(Open(connections', a)) = Clamped(nconn_per_ip'[a])
      <4> SUFFICES ASSUME NEW a \in Addr
                   PROVE  Cardinality(Open(connections', a)) =
                            Clamped(nconn_per_ip'[a])
        OBVIOUS
      <4>1. Cardinality(Open(connections, a)) = Clamped(nconn_per_ip[a])
        BY DEF CountsOpen
      <4>2. nconn_per_ip[a] \in Nat
        BY DEF TypeOK
      <4>3. nconn_per_ip'[a] = IF IpOf[c] = a THEN nconn_per_ip[a] + 1
                               ELSE nconn_per_ip[a]
        BY <3>1 DEF TypeOK
      <4> QED
        BY <2>3, <3>2, <4>1, <4>2, <4>3 DEF Clamped, OverLimit
    <3>4. Cardinality(connections') = Cardinality(connections) + 1
      BY <1>0, <3>1, FS_AddElement
    <3>5. WithinLimits'
      <4>1. \A a \in Addr : max_conn_per_ip # 0 =>
              Cardinality(Open(connections', a)) <= max_conn_per_ip
        <5>1. \A a \in Addr : nconn_per_ip'[a] \in Nat
          BY <2>1 DEF TypeOK
        <5> QED
          BY <3>3, <5>1 DEF Clamped, OverLimit
      <4>2. max_conn # 0 => Cardinality(connections') <= max_conn
        BY <1>0, <2>3, <3>4 DEF TotalFull
      <4> QED
        BY <4>1, <4>2 DEF WithinLimits, Open
    <3>6. CountsOpen'
      BY <3>3 DEF CountsOpen, Clamped, OverLimit, Open
    <3> QED
      BY <2>1, <3>5, <3>6
  <2> QED
    BY <2>2, <2>3
<1>2. ASSUME NEW c \in Conn, client_disconnect(c) PROVE IInv'
  <2>1. /\ c \in connections /\ connections' = connections \ {c}
        /\ nconn_per_ip' = [nconn_per_ip EXCEPT ![IpOf[c]] = Clamped(@) - 1]
    BY <1>2 DEF client_disconnect
  <2>2. \A a \in Addr :
          Cardinality(Open(connections', a)) =
            Cardinality(Open(connections, a)) - (IF IpOf[c] = a THEN 1 ELSE 0)
    BY <2>1, OpenRemove DEF TypeOK
  <2>3. \A a \in Addr : /\ Cardinality(Open(connections, a)) \in Nat
                        /\ Cardinality(Open(connections', a)) \in Nat
    BY <2>1, OpenCount DEF TypeOK
  <2>4. Clamped(nconn_per_ip[IpOf[c]]) - 1 \in Nat
    BY <2>1, <2>2, <2>3 DEF CountsOpen
  <2>5. TypeOK'
    BY <1>2, <2>4 DEF client_disconnect, TypeOK
  <2>6. \A a \in Addr :
          Cardinality(Open(connections', a)) = Clamped(nconn_per_ip'[a])
    <3> SUFFICES ASSUME NEW a \in Addr
                 PROVE  Cardinality(Open(connections', a)) =
                          Clamped(nconn_per_ip'[a])
      OBVIOUS
    <3>1. /\ Cardinality(Open(connections, a)) = Clamped(nconn_per_ip[a])
          /\ nconn_per_ip[a] \in Nat
      BY DEF CountsOpen, TypeOK
    <3>2. nconn_per_ip'[a] = IF IpOf[c] = a THEN Clamped(nconn_per_ip[a]) - 1
                             ELSE nconn_per_ip[a]
      BY <2>1 DEF TypeOK
    <3> QED
      BY <2>2, <2>3, <3>1, <3>2 DEF Clamped, OverLimit
  <2>7. CountsOpen'
    BY <2>6 DEF CountsOpen, Clamped, OverLimit, Open
  <2>8. Cardinality(connections') = Cardinality(connections) - 1
    BY <1>0, <2>1, FS_RemoveElement
  <2>9. WithinLimits'
    <3>1. max_conn # 0 => Cardinality(connections') <= max_conn
      BY <1>0, <2>8 DEF WithinLimits
    <3>2. max_conn_per_ip # 0 => \A a \in Addr :
            Cardinality(Open(connections', a)) <= max_conn_per_ip
      BY <2>2, <2>3 DEF WithinLimits
    <3> QED
      BY <3>1, <3>2 DEF WithinLimits, Open
  <2> QED
    BY <2>5, <2>7, <2>9
<1>3. CASE Shutdown
  BY <1>3 DEF Shutdown, TypeOK, CountsOpen, WithinLimits, Open, Clamped, OverLimit
<1>4. CASE Stop
  BY <1>4 DEF Stop, TypeOK, CountsOpen, WithinLimits, Open, Clamped, OverLimit
<1>5. CASE UNCHANGED vars
  BY <1>5 DEF vars, TypeOK, CountsOpen, WithinLimits, Open, Clamped, OverLimit
<1> QED
  BY <1>1, <1>2, <1>3, <1>4, <1>5 DEF Next

\* The count of an address is right in every state, and no limit is exceeded:
\* client_connect and client_disconnect together never lose or leak a place.
THEOREM Invariance == Spec => [](TypeOK /\ CountsOpen /\ WithinLimits)
<1>1. Init => IInv
  BY InitIInv
<1>2. IInv /\ [Next]_vars => IInv'
  BY StepIInv
<1>3. IInv => TypeOK /\ CountsOpen /\ WithinLimits
  BY DEF IInv
<1> QED
  BY <1>1, <1>2, <1>3, PTL DEF Spec

\* A client is refused only when a limit is reached by open connections.
THEOREM NoUnjustRefusal == Spec => RefusedOnlyWhenFull
<1>1. ASSUME IInv, Next, NEW c \in Conn,
             answer[c] # "refused", answer'[c] = "refused"
      PROVE  \/ TotalFull
             \/ /\ max_conn_per_ip # 0
                /\ Cardinality(Open(connections, IpOf[c])) = max_conn_per_ip
  <2>1. PICK d \in Conn : client_connect(d) \/ client_disconnect(d)
    BY <1>1 DEF Next, Shutdown, Stop
  <2>2. client_connect(d) /\ d = c /\ Refuse(c)
    BY <1>1, <2>1 DEF client_connect, client_disconnect, Refuse, Accept, IInv, TypeOK
  <2>3. TotalFull \/ OverLimit(nconn_per_ip[IpOf[c]] + 1)
    BY <1>1, <2>2 DEF client_connect, Accept, Refuse, IInv, TypeOK
  <2>4. /\ Cardinality(Open(connections, IpOf[c])) =
             Clamped(nconn_per_ip[IpOf[c]])
        /\ nconn_per_ip[IpOf[c]] \in Nat
    BY <1>1, ManagerAssumption DEF IInv, CountsOpen, TypeOK
  <2> QED
    BY <2>3, <2>4, ManagerAssumption DEF Clamped, OverLimit
<1>2. IInv /\ [Next]_vars =>
        [\A c \in Conn :
           (answer[c] # "refused" /\ answer'[c] = "refused") =>
             \/ TotalFull
             \/ /\ max_conn_per_ip # 0
                /\ Cardinality(Open(connections, IpOf[c])) = max_conn_per_ip]_vars
  BY <1>1
<1>3. Init => IInv
  BY InitIInv
<1>4. IInv /\ [Next]_vars => IInv'
  BY StepIInv
<1> QED
  BY <1>2, <1>3, <1>4, PTL DEF Spec, RefusedOnlyWhenFull
=============================================================================
