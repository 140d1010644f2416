--------------------------- MODULE MCBufferStore ---------------------------
(* BufferStore on small pools. *)
EXTENDS BufferStore
=============================================================================
