---------------------------- MODULE RecordWindow ----------------------------
(***************************************************************************)
(* What a station's memory promises to the rest of the server: it holds    *)
(* the records lo .. hi - 1, the newest ones, as many as the pool has      *)
(* buffers for that are not in the hands of an encoder.  While the server  *)
(* is up, a record leaves the memory in one way only: an encoder takes a   *)
(* buffer and all of them hold records.  BufferStore shows that the linked *)
(* list of the code keeps this promise, and StationIO uses the promise in  *)
(* place of the list.                                                      *)
(***************************************************************************)
EXTENDS Integers

VARIABLES
  lo, hi,   \* the window: records lo .. hi - 1 are in memory
  held,     \* buffers taken and not put back
  size,     \* buffers of the pool
  phase     \* "down", "starting" or "up"

vars == <<lo, hi, held, size, phase>>

Full == hi - lo = size - held

\* An encoder takes a buffer, never the last one; when all hold records, the
\* oldest record goes.
Take ==
  /\ phase = "up" /\ held + 1 < size
  /\ held' = held + 1
  /\ lo' = IF Full THEN lo + 1 ELSE lo
  /\ UNCHANGED <<hi, size, phase>>

\* An encoder puts its buffer back, as the newest record.
Put ==
  /\ phase = "up" /\ held > 0
  /\ held' = held - 1
  /\ hi' = hi + 1
  /\ UNCHANGED <<lo, size, phase>>

Grow ==
  /\ phase = "up" /\ size' > size
  /\ UNCHANGED <<lo, hi, held, phase>>

\* At startup, a record is made in one step.  When that takes the oldest
\* buffer, the window starts again at the new record.
Make ==
  /\ phase = "starting" /\ held = 0
  /\ hi' = hi + 1
  /\ lo' = IF Full THEN hi ELSE lo
  /\ phase' \in {"starting", "up"}
  /\ UNCHANGED <<held, size>>

Ready ==
  /\ phase = "starting" /\ phase' = "up"
  /\ UNCHANGED <<lo, hi, held, size>>

\* The process ends, and the memory with it; a crash may lose the newest
\* records on disk as well.
Stop ==
  /\ phase # "down" /\ phase' = "down"
  /\ hi' \in 0 .. hi
  /\ lo' = hi' /\ held' = 0
  /\ UNCHANGED size

\* The process is started again and loads the newest records, no more than it
\* has buffers for.
Start ==
  /\ phase = "down" /\ phase' \in {"starting", "up"}
  /\ lo' \in 0 .. hi /\ hi - lo' <= size
  /\ UNCHANGED <<hi, held, size>>

Init == lo = 0 /\ hi = 0 /\ held = 0 /\ size >= 2 /\ phase \in {"starting", "up"}

Next == Take \/ Put \/ Grow \/ Make \/ Ready \/ Stop \/ Start

Spec == Init /\ [][Next]_vars
=============================================================================
