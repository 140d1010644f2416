-------------------------- MODULE ConnectionManager --------------------------
(***************************************************************************)
(* Which clients the SeedLink server lets in (class ConnectionManagerImpl, *)
(* iosystem.cc): at most max_conn at a time, and at most max_conn_per_ip   *)
(* from one address.  A client that is refused because of the second limit *)
(* is counted all the same, and client_disconnect corrects the count.      *)
(***************************************************************************)
EXTENDS Integers, FiniteSets

CONSTANTS
  Conn,             \* the connections that clients may open
  Addr,             \* IP addresses
  IpOf,             \* the address from which a connection comes
  max_conn,         \* "connections": 0 means any number
  max_conn_per_ip,  \* "connections_per_ip": 0 means any number
  MaxCount          \* bound: connections counted for one address

ASSUME ManagerAssumption ==
  /\ IsFiniteSet(Conn)
  /\ IpOf \in [Conn -> Addr]
  /\ max_conn \in Nat /\ max_conn_per_ip \in Nat
  /\ MaxCount \in Nat

VARIABLES
  phase,         \* "serving" (the loop of start), "closing" or "stopped"
  connections,
  nconn_per_ip,  \* 0: the map has no entry
  answer         \* what a client has seen last: "none", "open" or "refused"

vars == <<phase, connections, nconn_per_ip, answer>>

Open(S, a) == {c \in S : IpOf[c] = a}

TotalFull == max_conn # 0 /\ Cardinality(connections) >= max_conn

\* Mutant: the last connection that is allowed is refused.
OverLimit_Early(n) == max_conn_per_ip # 0 /\ n >= max_conn_per_ip

OverLimit(n) == max_conn_per_ip # 0 /\ n > max_conn_per_ip

Refuse(c) ==
  /\ answer' = [answer EXCEPT ![c] = "refused"]
  /\ UNCHANGED connections

Accept(c) ==
  /\ answer' = [answer EXCEPT ![c] = "open"]
  /\ connections' = connections \cup {c}

\* client_connect, once the connection is accepted from the listening socket.
client_connect(c) ==
  LET n == nconn_per_ip[IpOf[c]] + 1 IN
  /\ phase = "serving" /\ c \notin connections /\ n <= MaxCount
  /\ \/ TotalFull /\ Refuse(c) /\ UNCHANGED nconn_per_ip
     \/ /\ ~TotalFull
        /\ nconn_per_ip' = [nconn_per_ip EXCEPT ![IpOf[c]] = n]
        /\ \/ OverLimit(n) /\ Refuse(c)
           \/ ~OverLimit(n) /\ Accept(c)
  /\ UNCHANGED phase

\* Mutant: the refused connections stay in the count.
Clamped_Never(n) == n

\* client_disconnect: the refused connections are taken out of the count.
Clamped(n) == IF OverLimit(n) THEN max_conn_per_ip ELSE n

client_disconnect(c) ==
  /\ phase \in {"serving", "closing"} /\ c \in connections
  /\ nconn_per_ip' = [nconn_per_ip EXCEPT ![IpOf[c]] = Clamped(@) - 1]
  /\ connections' = connections \ {c}
  /\ answer' = [answer EXCEPT ![c] = "none"]
  /\ UNCHANGED phase

\* The loop of start ends when the handler asks for it; the connections are
\* then closed one after the other.
Shutdown ==
  /\ phase = "serving"
  /\ phase' = "closing"
  /\ UNCHANGED <<connections, nconn_per_ip, answer>>

Stop ==
  /\ phase = "closing" /\ connections = {}
  /\ phase' = "stopped"
  /\ UNCHANGED <<connections, nconn_per_ip, answer>>

Init ==
  /\ phase = "serving"
  /\ connections = {}
  /\ nconn_per_ip = [a \in Addr |-> 0]
  /\ answer = [c \in Conn |-> "none"]

Next ==
  \/ \E c \in Conn : client_connect(c) \/ client_disconnect(c)
  \/ Shutdown \/ Stop

Spec == Init /\ [][Next]_vars

-----------------------------------------------------------------------------
(* Properties.                                                             *)

\* The variables have their types.
TypeOK ==
  /\ phase \in {"serving", "closing", "stopped"}
  /\ connections \in SUBSET Conn
  /\ nconn_per_ip \in [Addr -> Nat]
  /\ answer \in [Conn -> {"none", "open", "refused"}]

\* The count of an address, cut to the limit, is the number of its open
\* connections: a refused connection never takes a place for good, and
\* client_disconnect always finds an entry in the map.
CountsOpen ==
  \A a \in Addr :
    Cardinality(Open(connections, a)) = Clamped(nconn_per_ip[a])

\* There are never more connections than allowed.
WithinLimits ==
  /\ max_conn # 0 => Cardinality(connections) <= max_conn
  /\ max_conn_per_ip # 0 =>
       \A a \in Addr : Cardinality(Open(connections, a)) <= max_conn_per_ip

\* A client is refused only when one of the limits is reached by connections
\* that are really open.
RefusedOnlyWhenFull ==
  [][\A c \in Conn :
       (answer[c] # "refused" /\ answer'[c] = "refused") =>
         \/ TotalFull
         \/ /\ max_conn_per_ip # 0
            /\ Cardinality(Open(connections, IpOf[c])) = max_conn_per_ip]_vars
=============================================================================
