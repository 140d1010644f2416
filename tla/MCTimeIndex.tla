------------------------------ MODULE MCTimeIndex ------------------------------
(* TimeIndex for TLC: the records of two streams span different times.     *)
EXTENDS TimeIndex

CONSTANTS a, b

MCLength == (a :> 1) @@ (b :> 2)
=============================================================================
