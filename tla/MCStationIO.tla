----------------------------- MODULE MCStationIO -----------------------------
(* StationIO with a client, which does not depend on what the others do.     *)
EXTENDS StationIO
=============================================================================
