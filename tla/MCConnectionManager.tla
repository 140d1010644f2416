------------------------ MODULE MCConnectionManager ------------------------
(* ConnectionManager with five clients at two addresses. *)
EXTENDS ConnectionManager

CONSTANTS c1, c2, c3, c4, c5, here, there

MCConn == {c1, c2, c3, c4, c5}
MCIpOf == [c \in MCConn |-> IF c \in {c4, c5} THEN there ELSE here]
=============================================================================
