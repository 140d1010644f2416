------------------------------ MODULE MCRawInput ------------------------------
(* RawInput for TLC.                                                       *)
EXTENDS RawInput

Raw(c, t, o, w) ==
  [kind |-> "raw", capacity |-> c, timed |-> t, own |-> o, spw |-> w]

MSeed(c) == [Raw(c, TRUE, TRUE, 1) EXCEPT !.kind = "mseed"]

\* Records as they come, samples with a time each, and samples without; once
\* with the stream processor of the station.
MCModes == {MSeed(4), Raw(4, TRUE, TRUE, 2), Raw(0, TRUE, FALSE, 3),
            Raw(0, FALSE, TRUE, 2)}

\* Samples without a time, with backfilling.
ContinuedModes == {Raw(4, FALSE, TRUE, 1)}
=============================================================================
