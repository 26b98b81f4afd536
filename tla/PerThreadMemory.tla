--------------------------- MODULE PerThreadMemory ---------------------------
(***************************************************************************)
(* The per-thread buffer allocator (misc/PerThreadMemory.h,                *)
(* misc/src/PerThreadMemory.cc).  A thread's first AllocBuffer builds its  *)
(* own list of population_ + 1 nodes, one of which is set aside as a dummy *)
(* until the thread exits.  Only the owner takes nodes from its list; any  *)
(* thread puts them back.  node_number counts the nodes of the list, but   *)
(* it is changed before the list is.                                       *)
(***************************************************************************)
EXTENDS Integers, FiniteSets, Links, ProgramCounter

CONSTANTS
  Population,   \* population_
  MaxList,      \* bound on the lists built (NodeHeads)
  MaxRelease    \* bound on the calls of ReleaseBuffer

ASSUME PerThreadAssumption ==
  /\ IsFiniteSet(Threads)
  /\ Population \in Nat \ {0} /\ MaxList \in Nat /\ MaxRelease \in Nat

Lists == 1..MaxList
Nodes == 0..Population
Dummy == 0              \* the first node of a list becomes its dummy
NIL == Population + 1   \* the null Node*
NoList == 0             \* the null NodeHead*

VARIABLES
  built,     \* number of lists built so far
  key,       \* [Threads -> Lists \cup {NoList}]  pthread_getspecific(key_)
  alive,     \* [Threads -> BOOLEAN]
  first,     \* [Lists -> Nodes \cup {NIL}]            pHead->next
  next,      \* [Lists -> [Nodes -> Nodes \cup {NIL}]]  next of each node
  number,    \* [Lists -> Int]                          node_number
  freed,     \* the lists Cleaner has freed
  inUse,     \* the buffers <<list, node>> in clients' hands
  releases,  \* calls of ReleaseBuffer so far
  list,      \* [Threads -> Lists \cup {NoList}]  pHead, NoList once it is dead
  node,      \* [Threads -> Nodes \cup {NIL}]     node, NIL once it is dead
  oldHead,   \* [Threads -> Nodes \cup {NIL}]     node->next / old_head
  sz         \* [Threads -> Int]                  no / sz, 0 once it is dead

memoryVars ==
  <<built, key, alive, first, next, number, freed, inUse, releases, pc, list, node, oldHead, sz>>

MemoryInit ==
  /\ built = 0
  /\ key = [t \in Threads |-> NoList]
  /\ alive = [t \in Threads |-> TRUE]
  /\ first = [l \in Lists |-> NIL]
  /\ next = [l \in Lists |-> [n \in Nodes |-> NIL]]
  /\ number = [l \in Lists |-> 0]
  /\ freed = {}
  /\ inUse = {}
  /\ releases = 0
  /\ pc = [t \in Threads |-> "idle"]
  /\ list = [t \in Threads |-> NoList]
  /\ node = [t \in Threads |-> NIL]
  /\ oldHead = [t \in Threads |-> NIL]
  /\ sz = [t \in Threads |-> 0]

EndCall(t) ==
  /\ list' = [list EXCEPT ![t] = NoList]
  /\ node' = [node EXCEPT ![t] = NIL]
  /\ oldHead' = [oldHead EXCEPT ![t] = NIL]
  /\ sz' = [sz EXCEPT ![t] = 0]

-----------------------------------------------------------------------------
(* AllocBuffer *)

\* InitPerThreadList, unless malloc fails (then AllocBuffer returns NULL).
\* Nobody else knows the list yet, so building it and taking its dummy off is
\* one step; AllocBuffer goes on to take a buffer.
InitPerThreadList(t) ==
  LET l == built + 1 IN
  /\ alive[t] /\ key[t] = NoList
  /\ built < MaxList
  /\ Goto(t, "idle", "get")
  /\ built' = l
  /\ key' = [key EXCEPT ![t] = l]
  /\ next' = [next EXCEPT ![l] =
                [n \in Nodes |-> IF n = Dummy THEN NIL ELSE n + 1]]
  /\ first' = [first EXCEPT ![l] = Dummy + 1]
  /\ number' = [number EXCEPT ![l] = Population]
  /\ list' = [list EXCEPT ![t] = l]
  /\ UNCHANGED <<alive, freed, inUse, releases, node, oldHead, sz>>

AllocBuffer(t) ==
  /\ alive[t] /\ key[t] # NoList
  /\ Goto(t, "idle", "get")
  /\ list' = [list EXCEPT ![t] = key[t]]
  /\ UNCHANGED <<built, key, alive, first, next, number, freed, inUse, releases, node, oldHead, sz>>

\* GetFreeBufferFromList returns NULL from an empty list.
TestEmpty(t) ==
  /\ pc[t] = "get"
  /\ \/ first[list[t]] = NIL /\ Goto(t, "get", "idle") /\ EndCall(t)
     \/ first[list[t]] # NIL /\ Goto(t, "get", "count") /\ UNCHANGED <<list, node, oldHead, sz>>
  /\ UNCHANGED <<built, key, alive, first, next, number, freed, inUse, releases>>

\* no = atomic_decrement(&pHead->node_number)
CountDown(t) ==
  /\ Goto(t, "count", "deq")
  /\ sz' = [sz EXCEPT ![t] = number[list[t]]]
  /\ number' = [number EXCEPT ![list[t]] = @ - 1]
  /\ UNCHANGED <<built, key, alive, first, next, freed, inUse, releases, list, node, oldHead>>

\* The first node and its next are read ...
ReadFirst(t) ==
  /\ pc[t] = "deq"
  /\ first[list[t]] # NIL
  /\ Goto(t, "deq", "deqcas")
  /\ node' = [node EXCEPT ![t] = first[list[t]]]
  /\ oldHead' = [oldHead EXCEPT ![t] = next[list[t]][first[list[t]]]]
  /\ UNCHANGED <<built, key, alive, first, next, number, freed, inUse, releases, list, sz>>

\* Mutation: the list is cut without checking that its first node is the same.
DequeueBlindly(t) ==
  /\ Goto(t, "deqcas", "idle")
  /\ first' = [first EXCEPT ![list[t]] = oldHead[t]]
  /\ next' = [next EXCEPT ![list[t]][node[t]] = NIL]
  /\ inUse' = inUse \cup {<<list[t], node[t]>>}
  /\ EndCall(t)
  /\ UNCHANGED <<built, key, alive, number, freed, releases>>

\* Mutation: a failed swap counts the node down again.
DequeueRecounts(t) ==
  /\ pc[t] = "deqcas"
  /\ \/ /\ first[list[t]] = node[t]
        /\ Goto(t, "deqcas", "idle")
        /\ first' = [first EXCEPT ![list[t]] = oldHead[t]]
        /\ next' = [next EXCEPT ![list[t]][node[t]] = NIL]
        /\ inUse' = inUse \cup {<<list[t], node[t]>>}
        /\ EndCall(t)
     \/ /\ first[list[t]] # node[t]
        /\ Goto(t, "deqcas", "count")
        /\ UNCHANGED <<first, next, inUse, list, node, oldHead, sz>>
  /\ UNCHANGED <<built, key, alive, number, freed, releases>>

\* ... and swapped, or around the loop; the node is the caller's.
Dequeue(t) ==
  /\ pc[t] = "deqcas"
  /\ \/ /\ first[list[t]] = node[t]
        /\ Goto(t, "deqcas", "idle")
        /\ first' = [first EXCEPT ![list[t]] = oldHead[t]]
        /\ next' = [next EXCEPT ![list[t]][node[t]] = NIL]
        /\ inUse' = inUse \cup {<<list[t], node[t]>>}
        /\ EndCall(t)
     \/ /\ first[list[t]] # node[t]
        /\ Goto(t, "deqcas", "deq")
        /\ node' = [node EXCEPT ![t] = NIL]
        /\ oldHead' = [oldHead EXCEPT ![t] = NIL]
        /\ UNCHANGED <<first, next, inUse, list, sz>>
  /\ UNCHANGED <<built, key, alive, number, freed, releases>>

-----------------------------------------------------------------------------
(* DoReleaseBuffer and its callers *)

\* sz = atomic_increment(&pHead->node_number): the value before.
DoReleaseBuffer(t, l, n) ==
  /\ Goto(t, "idle", "enq")
  /\ list' = [list EXCEPT ![t] = l]
  /\ node' = [node EXCEPT ![t] = n]
  /\ sz' = [sz EXCEPT ![t] = number[l]]
  /\ number' = [number EXCEPT ![l] = @ + 1]
  /\ UNCHANGED <<built, first, next, freed, oldHead>>

\* A client, in any thread, gives a buffer back.
ReleaseBuffer(t, l, n) ==
  /\ alive[t]
  /\ releases < MaxRelease
  /\ <<l, n>> \in inUse
  /\ inUse' = inUse \ {<<l, n>>}
  /\ releases' = releases + 1
  /\ DoReleaseBuffer(t, l, n)
  /\ UNCHANGED <<key, alive>>

\* FreeCurThreadMemory releases the dummy if node_number says that all buffers
\* are back, and forgets the list.
FreeCurThreadMemory(t) ==
  /\ alive[t] /\ key[t] # NoList
  /\ number[key[t]] >= Population
  /\ DoReleaseBuffer(t, key[t], Dummy)
  /\ key' = [key EXCEPT ![t] = NoList]
  /\ UNCHANGED <<alive, inUse, releases>>

\* The thread exits: OnThreadExit, if it has a list, releases the dummy.
OnThreadExit(t) ==
  /\ alive[t] /\ key[t] # NoList
  /\ alive' = [alive EXCEPT ![t] = FALSE]
  /\ key' = [key EXCEPT ![t] = NoList]
  /\ DoReleaseBuffer(t, key[t], Dummy)
  /\ UNCHANGED <<inUse, releases>>

\* old_head = pHead->next; node->next = old_head
ReadHead(t) ==
  /\ Goto(t, "enq", "enqcas")
  /\ oldHead' = [oldHead EXCEPT ![t] = first[list[t]]]
  /\ next' = [next EXCEPT ![list[t]][node[t]] = first[list[t]]]
  /\ UNCHANGED <<built, key, alive, first, number, freed, inUse, releases, list, node, sz>>

\* The node is put in front, or around the loop; Cleaner frees the list when
\* the count before this release was population_ + 1.
Enqueue(t) ==
  /\ pc[t] = "enqcas"
  /\ \/ /\ first[list[t]] = oldHead[t]
        /\ Goto(t, "enqcas", "idle")
        /\ first' = [first EXCEPT ![list[t]] = node[t]]
        /\ freed' = IF sz[t] = Population + 1 THEN freed \cup {list[t]} ELSE freed
        /\ EndCall(t)
     \/ /\ first[list[t]] # oldHead[t]
        /\ Goto(t, "enqcas", "enq")
        /\ oldHead' = [oldHead EXCEPT ![t] = NIL]
        /\ UNCHANGED <<first, freed, list, node, sz>>
  /\ UNCHANGED <<built, key, alive, next, number, inUse, releases>>

-----------------------------------------------------------------------------
MemoryStep(t) ==
  \/ TestEmpty(t) \/ CountDown(t) \/ ReadFirst(t) \/ Dequeue(t)
  \/ ReadHead(t) \/ Enqueue(t)

MemoryNext ==
  \E t \in Threads :
    \/ MemoryStep(t)
    \/ InitPerThreadList(t) \/ AllocBuffer(t) \/ FreeCurThreadMemory(t) \/ OnThreadExit(t)
    \/ \E l \in Lists, n \in Nodes : ReleaseBuffer(t, l, n)

MemorySafetySpec == MemoryInit /\ [][MemoryNext]_memoryVars

MemorySpec == MemorySafetySpec /\ \A t \in Threads : WF_memoryVars(MemoryStep(t))

-----------------------------------------------------------------------------
\* The nodes of list l from the first on.
Linked(l) == Reached(next[l], first[l], NIL, Population + 1)

Taking(l) == {t \in Threads : list[t] = l /\ pc[t] \in {"deq", "deqcas"}}
Putting(l) == {t \in Threads : list[t] = l /\ pc[t] \in {"enq", "enqcas"}}

\* GetFreeBufferFromList's assertions: once it has seen a node, the list still
\* has one when it comes to take it ("accessed from current thread only, node
\* should not be NULL") and the count was not zero.
TakerFindsNode ==
  \A t \in Threads : pc[t] = "deq" => first[list[t]] # NIL /\ sz[t] > 0

\* node_number is the length of the list, but for the nodes counted in and not
\* yet linked, and the one counted out and not yet unlinked; so the assertions
\* on it hold, who takes a node finds one, and FreeCurThreadMemory and Size
\* never take a buffer a client holds for a free one.
CountMatches ==
  /\ TakerFindsNode
  /\ \A l \in 1..built :
       number[l] = Cardinality(Linked(l)) + Cardinality(Putting(l)) - Cardinality(Taking(l))

\* The owner of the dummy: the thread whose key names the list.
HasDummy(l) == \E t \in Threads : key[t] = l

\* A node is in exactly one place: on the list, in a client's hands, about to
\* be put back, or, the dummy, with its thread.
NodeInOnePlace ==
  \A l \in 1..built, n \in Nodes :
    LET places ==
          (IF n \in Linked(l) THEN {"linked"} ELSE {})
            \cup (IF <<l, n>> \in inUse THEN {"held"} ELSE {})
            \cup {t \in Putting(l) : node[t] = n}
            \cup (IF n = Dummy /\ HasDummy(l) THEN {"dummy"} ELSE {})
    IN  Cardinality(places) = 1

\* What the comment on NodeHead promises of the dummy ("ensuring that when the
\* last buffer is released by other thread, all buffers will be free"): a list
\* that its thread has given up and whose buffers are all back has been freed.
MemoryFreed ==
  \A l \in 1..built :
    (Linked(l) = Nodes /\ ~HasDummy(l) /\ Putting(l) = {}) => l \in freed
=============================================================================
