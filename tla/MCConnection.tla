----------------------------- MODULE MCConnection -----------------------------
(* Connection for TLC, with a client that names three stations, one that      *)
(* does not wait for its answers, and one that uses every mode.               *)
EXTENDS Connection

MCClients ==
  {[stations |-> 3, modes |-> {"data"}, habits |-> {}, cmds |-> 7],
   [stations |-> 2, modes |-> {"data"},
    habits |-> {"pipelines", "interrupts"}, cmds |-> 6],
   [stations |-> 2, modes |-> {"data", "fetch", "time"},
    habits |-> {"interrupts"}, cmds |-> 6]}
=============================================================================
