------------------------ MODULE MCLockFreeListQueue ------------------------
(* LockFreeListQueue with three threads. *)
EXTENDS LockFreeListQueue

CONSTANTS p, c, d

MCThreads == {p, c, d}
Quota(i, j, k, pops) ==
  [t \in MCThreads |->
     [push |-> IF t = p THEN i ELSE IF t = c THEN j ELSE k, pops |-> t \in pops]]

\* One thread pushes and three or two pop, or two threads push and two pop.
FewProducers == {Quota(2, 0, 0, {p, c, d}), Quota(3, 0, 0, {c, d}), Quota(1, 1, 0, {c, d})}

\* Two threads push, one of them twice.
TwoProducers == {Quota(2, 1, 0, {d})}
=============================================================================
