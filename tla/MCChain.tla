------------------------------- MODULE MCChain --------------------------------
(* Chain for TLC: records of five seconds.                                 *)
EXTENDS Chain

MCStart(i) == 5000000 * i

\* Settings that differ in what they remember.
MCModes ==
  {[dialup |-> d, overlap |-> o, timetable |-> t] :
     d \in BOOLEAN, o \in {"full"}, t \in {TRUE}}
  \cup {[dialup |-> TRUE, overlap |-> "none", timetable |-> FALSE],
        [dialup |-> FALSE, overlap |-> "initial", timetable |-> TRUE]}
=============================================================================
