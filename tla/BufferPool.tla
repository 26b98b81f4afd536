----------------------------- MODULE BufferPool -----------------------------
(***************************************************************************)
(* What a pool of buffers promises its clients: a buffer is free or in     *)
(* use, a client is only ever given a free one, and one that is given back *)
(* is free again.  LockFreeBuffer implements it.                           *)
(***************************************************************************)
CONSTANT Buffers

VARIABLES
  free,   \* the buffers AllocBuffer may return
  inUse   \* the buffers in a client's hands

Init == free = Buffers /\ inUse = {}

Alloc(n) ==
  /\ n \in free
  /\ free' = free \ {n}
  /\ inUse' = inUse \cup {n}

Release(n) ==
  /\ n \in inUse
  /\ inUse' = inUse \ {n}
  /\ free' = free \cup {n}

Next == \E n \in Buffers : Alloc(n) \/ Release(n)

Spec == Init /\ [][Next]_<<free, inUse>>
=============================================================================
