--------------------------- MODULE LockFreeBuffer ---------------------------
(***************************************************************************)
(* The lock-free pool of equal buffers (misc/LockFreeBuffer.h,             *)
(* misc/src/LockFreeBuffer.cc): a free list of buffers.  Any thread may    *)
(* release a buffer, whoever allocated it.                                 *)
(***************************************************************************)
EXTENDS FreeList

CONSTANT MaxId   \* bound on id_: the number of releases explored

ASSUME LockFreeBufferAssumption == MaxId \in Nat

VARIABLES
  owned,    \* [Nodes -> Nat]  how many clients hold the buffer
  reused    \* history: a head was put back that a stalled AllocBuffer has read

vars == <<listVars, owned, reused>>

TypeOK ==
  /\ ListTypeOK
  /\ pc \in [Threads -> ListPC \cup {"idle"}]
  /\ owned \in [Nodes -> Nat]

Init == ListInit(0) /\ owned = [n \in Nodes |-> 0] /\ reused = FALSE

\* A client calls AllocBuffer, which returns NULL from an empty list.
AllocBuffer(t) ==
  /\ Goto(t, "idle", "alloc")
  /\ UNCHANGED <<head, next, id, old, new, owned, reused>>

ReadList(t) == ReadHead(t, "idle") /\ UNCHANGED owned

\* AllocBuffer returns a buffer.
ReturnBuffer(t) ==
  /\ ClearNext(t, "idle")
  /\ owned' = [owned EXCEPT ![old[t].node] = @ + 1]

\* A client gives a buffer it holds back.
ReleaseBuffer(t, n) ==
  /\ id < MaxId
  /\ owned[n] > 0
  /\ owned' = [owned EXCEPT ![n] = @ - 1]
  /\ FetchId(t, "idle", n)
  /\ UNCHANGED reused

Step(t) ==
  /\ ReadList(t) \/ ReturnBuffer(t) \/ (ListStep(t) /\ UNCHANGED owned)
  /\ reused' = (reused \/ PutsStale(t))

Next ==
  \E t \in Threads :
    \/ Step(t)
    \/ AllocBuffer(t)
    \/ \E n \in Nodes : ReleaseBuffer(t, n)

SafetySpec == Init /\ [][Next]_vars

\* A thread inside AllocBuffer or ReleaseBuffer goes on, except that those of Stalling may
\* stop for ever at any point; nobody must call them.
Spec == SafetySpec /\ \A t \in Threads \ Stalling : WF_vars(Step(t))

-----------------------------------------------------------------------------
\* Who has taken node n off the list and not yet put it back.
Taking(n) == {t \in Threads : pc[t] = "clear" /\ old[t].node = n}
Putting(n) ==
  {t \in Threads : pc[t] \in {"release", "linkid", "linknode", "put"} /\ new[t].node = n}
Users(n) == owned[n] + Cardinality(Taking(n)) + Cardinality(Putting(n))

\* What the threads of the unit test verify with their candy: nobody else has
\* been given a buffer that a client still holds.
Exclusive == \A n \in Nodes : Users(n) <= 1

\* Every buffer is on the free list exactly when nobody has it, and otherwise in
\* the hands of one: none is lost, none is on the list while a client holds it,
\* none is handed out twice; the list has no cycle.
Conserved ==
  /\ FreeListEnds
  /\ Exclusive
  /\ \A n \in Nodes : n \in FreeNodes <=> Users(n) = 0

\* The pool the clients see.
InUse == {n \in Nodes : Users(n) > 0}
Pool == INSTANCE BufferPool WITH Buffers <- Nodes, free <- FreeNodes, inUse <- InUse

\* AllocBuffer's and ReleaseBuffer's successful swaps are the atomic operations of
\* a buffer pool, in every interleaving of two threads; three can put a head back
\* that one of them has read before (reused), and PoolUntilReused is what holds of
\* any number.
ImplementsPool == Pool!Spec

\* The same until such a head is put back.
PoolUntilReused == Pool!Init /\ [][reused' \/ Pool!Next]_<<FreeNodes, InUse>>

\* A call of AllocBuffer or ReleaseBuffer returns even if other threads have stopped for
\* ever in the middle of theirs: a loop goes round again only because another
\* call has got further, and the calls explored are finite in number.
CallReturns ==
  \A t \in Threads \ Stalling : pc[t] # "idle" ~> pc[t] = "idle"
=============================================================================
