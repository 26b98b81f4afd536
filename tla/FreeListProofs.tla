--------------------------- MODULE FreeListProofs ---------------------------
(***************************************************************************)
(* Theorems about the lock-free pool of buffers and the lock-free list     *)
(* queue, for any number of buffers, nodes and calls.  The free list of    *)
(* the pool can be corrupted in one way: a release puts a pointer back     *)
(* that a stalled taker has read as the head before (reused records it).   *)
(* Until then the pool is right for any number of threads; only the        *)
(* first tag handed out can do it; and two threads never come to it.  The  *)
(* queue has two such lists.  With one producer and any number of          *)
(* consumers it is first-in first-out and loses no node.                   *)
(***************************************************************************)
EXTENDS LockFreeBuffer, LockFreeListQueue, LinkProofs

\* The next of each node, without its tag.
Link == [n \in Nodes |-> next[n].node]

\* A pointer of the list: its head, or the next of a node of it.
Live(p) == p = head \/ \E n \in FreeNodes : p = next[n]

\* Inside ReleaseBuffer, after the fetch of the tag.
PutPC == {"release", "linkid", "linknode", "put"}

\* Node n is with t, which has taken it off the list or will put it there.
With(t, n) ==
  \/ pc[t] = "clear" /\ old[t].node = n
  \/ pc[t] \in PutPC /\ new[t].node = n

\* The free list is one: it ends and visits no node twice.
BufferList == ListOf(Nodes, Link, head.node, NIL, FreeNodes)

\* A null node is in the null pointer only, and nobody dereferences it.
NullEnds ==
  /\ \A p \in DoublePointer : Live(p) /\ p.node = NIL => p = Null
  /\ \A t \in Threads : old[t].node = NIL => old[t] = Null
  /\ \A t \in Threads : Reading(t) \/ pc[t] = "clear" => old[t].node # NIL
  /\ \A t \in Threads : pc[t] \in PutPC => new[t].node # NIL

\* What a reader of a pointer of the list has read of its next is still true.
ReaderKnows ==
  \A t \in Threads, p \in DoublePointer : Reading(t) /\ old[t] = p /\ Live(p) => Knows(t)

\* What a putter has written to its node's next is still there.
PutterLinks ==
  \A t \in Threads :
    /\ pc[t] = "linknode" => next[new[t].node].id = old[t].id
    /\ pc[t] = "put" => next[new[t].node] = old[t]

\* A node is on the list, with a client or with a thread inside a call.
OnePlace ==
  /\ \A n \in Nodes : owned[n] \in {0, 1}
  /\ \A n \in Nodes : n \in FreeNodes => owned[n] = 0 /\ \A t \in Threads : ~With(t, n)
  /\ \A n \in Nodes : owned[n] = 1 => \A t \in Threads : ~With(t, n)
  /\ \A n \in Nodes, t, u \in Threads : With(t, n) /\ With(u, n) => t = u
  /\ \A n \in Nodes : n \in FreeNodes \/ owned[n] = 1 \/ \E t \in Threads : With(t, n)

\* The inductive invariant, as long as no stale head is put back.
BufferIInv ==
  /\ TypeOK /\ BufferList /\ NullEnds /\ ReaderKnows /\ PutterLinks /\ OnePlace

\* All that a reader has read is of a next that is Null.
NullCopy(t) ==
  /\ pc[t] = "readnode" => new[t].id = Null.id
  /\ pc[t] = "take" => new[t] = Null

\* Before the first release.
Early ==
  id = Size - 1 =>
    /\ next[Size - 1] = Null
    /\ FreeNodes = {} \/ Size - 1 \in FreeNodes
    /\ \A t \in Threads : pc[t] \notin PutPC
    /\ \A p \in DoublePointer : Live(p) /\ p # Null => p.id = p.node
    /\ \A t \in Threads : Reading(t) => /\ old[t].id = old[t].node
                                        /\ old[t].node = Size - 1 => NullCopy(t)

\* The first release, of a node a reader has for the head.
Collision ==
  \A t, u \in Threads :
    pc[u] \in PutPC /\ Reading(t) /\ old[t] = new[u] =>
      /\ NullCopy(t)
      /\ head = Null /\ next[new[u].node] = Null
      /\ pc[u] # "release" => old[u] = Null

\* What two threads need beside.
TwoInv == Early /\ Collision

-----------------------------------------------------------------------------
\* A list of nodes of the pool is no longer than Size.
LEMMA FreeIs ==
  ASSUME NEW link, NEW p, NEW S, ListOf(Nodes, link, p, NIL, S)
  PROVE  Reached(link, p, NIL, Size) = S
<1>1. IsFiniteSet(S) /\ S \in SUBSET Nodes
  BY ListFacts
<1>2. IsFiniteSet(Nodes) /\ Cardinality(Nodes) = Size
  <2>1. 0 \in Int /\ Size - 1 \in Int
    BY FreeListAssumption
  <2>2. IsFiniteSet(0..(Size - 1))
        /\ Cardinality(0..(Size - 1)) = IF 0 > Size - 1 THEN 0 ELSE (Size - 1) - 0 + 1
    BY <2>1, FS_Interval, Zenon
  <2> QED  BY <2>2, FreeListAssumption DEF Nodes
<1>3. Cardinality(S) \in Nat /\ Cardinality(S) <= Size
  BY <1>1, <1>2, FS_Subset, FS_CardinalityType
<1>4. Size \in Nat /\ Cardinality(S) <= Size + 1
  BY <1>3, FreeListAssumption
<1> QED  BY <1>4, ListReached

\* A step that changes neither the head nor a next on the list leaves the list as it is.
LEMMA FreeFrame ==
  ASSUME BufferIInv, head' = head, next' \in [Nodes -> DoublePointer],
         \A n \in FreeNodes : next'[n] = next[n]
  PROVE  FreeNodes' = FreeNodes /\ BufferList' /\ \A p : Live(p)' <=> Live(p)
<1>1. ListOf(Nodes, Link, head.node, NIL, FreeNodes)
  BY DEF BufferIInv, BufferList
<1>2. FreeNodes \subseteq Nodes
  BY <1>1, ListFacts
<1>3. PICK S : S = FreeNodes
  OBVIOUS
<1>4. \A n \in S : Link'[n] = Link[n]
  BY <1>2, <1>3 DEF Link
<1>5. ListOf(Nodes, Link', head'.node, NIL, S)
  BY <1>1, <1>3, <1>4, ListFrame
<1>6. FreeNodes' = S
  BY <1>5, FreeIs DEF FreeNodes, NodesFrom, Link
<1>7. BufferList'
  BY <1>5, <1>6 DEF BufferList
<1>8. \A p : Live(p)' <=> Live(p)
  BY <1>3, <1>6 DEF Live
<1> QED  BY <1>3, <1>6, <1>7, <1>8

\* The step of a thread that moves no node.
LEMMA PlaceFrame ==
  ASSUME BufferIInv, owned' = owned, FreeNodes' = FreeNodes, NEW t \in Threads,
         \A u \in Threads : u # t => pc'[u] = pc[u] /\ old'[u] = old[u] /\ new'[u] = new[u],
         \A n \in Nodes : With(t, n)' <=> With(t, n)
  PROVE  OnePlace'
<1>1. \A u \in Threads, n \in Nodes : With(u, n)' <=> With(u, n)
  <2> SUFFICES ASSUME NEW u \in Threads, NEW n \in Nodes, u # t PROVE With(u, n)' <=> With(u, n)
    OBVIOUS
  <2> QED  BY DEF With
<1> QED  BY <1>1, Zenon DEF BufferIInv, OnePlace

\* The types of what the list's steps use.
LEMMA BufferTypes ==
  ASSUME BufferIInv, NEW t \in Threads
  PROVE  /\ head \in DoublePointer /\ old[t] \in DoublePointer /\ new[t] \in DoublePointer
         /\ next \in [Nodes -> DoublePointer] /\ id \in Nat /\ FreeNodes \subseteq Nodes
         /\ NIL \notin Nodes /\ Null \in DoublePointer /\ Null.node = NIL
         /\ (Reading(t) \/ pc[t] = "clear" => old[t].node \in Nodes)
         /\ (pc[t] \in PutPC => new[t].node \in Nodes)
<1>1. /\ head \in DoublePointer /\ old[t] \in DoublePointer /\ new[t] \in DoublePointer
      /\ next \in [Nodes -> DoublePointer] /\ id \in Nat
  BY DEF BufferIInv, TypeOK, ListTypeOK
<1>2. FreeNodes \subseteq Nodes
  BY ListFacts DEF BufferIInv, BufferList
<1>3. NIL \notin Nodes /\ Null \in DoublePointer /\ Null.node = NIL
  BY FreeListAssumption DEF Nodes, NIL, Null, DoublePointer
<1>4. /\ Reading(t) \/ pc[t] = "clear" => old[t].node \in Nodes
      /\ pc[t] \in PutPC => new[t].node \in Nodes
  BY <1>1 DEF BufferIInv, NullEnds, DoublePointer
<1> QED  BY <1>1, <1>2, <1>3, <1>4

\* Who has read the head dereferences a node, never the null pointer.
LEMMA ReadsNode ==
  ASSUME BufferIInv, NEW t \in Threads, ReadNextId(t)
  PROVE  /\ Goto(t, "readid", "readnode") /\ old[t].node \in Nodes
         /\ new' = [new EXCEPT ![t].id = next[old[t].node].id]
<1>1. pc[t] = "readid"
  BY DEF ReadNextId, Crash, Goto
<1>2. old[t].node \in Nodes /\ old[t].node # NIL
  BY <1>1, BufferTypes DEF Reading
<1> QED  BY <1>2 DEF ReadNextId

\* A node in a thread's hands is not on the list, nor with another thread.
LEMMA WithFacts ==
  ASSUME BufferIInv, NEW t \in Threads, NEW n \in Nodes, With(t, n)
  PROVE  n \notin FreeNodes /\ owned[n] = 0 /\ \A u \in Threads : With(u, n) => u = t
BY DEF BufferIInv, OnePlace

\* The pool as InitList leaves it: every buffer is free.
LEMMA BufferInit == Init => BufferIInv
<1> SUFFICES ASSUME Init PROVE BufferIInv
  OBVIOUS
<1>0. Size \in Nat /\ Size # 0 /\ 0 # Size /\ NIL = Size /\ NIL \notin Nodes /\ 0 \in Nodes
  BY FreeListAssumption DEF NIL, Nodes
<1>1. /\ head = [id |-> 0, node |-> 0]
      /\ next = [n \in Nodes |-> IF n = Size - 1 THEN Null ELSE [id |-> n + 1, node |-> n + 1]]
      /\ id = Size - 1 /\ owned = [n \in Nodes |-> 0]
      /\ pc = [t \in Threads |-> "idle"]
      /\ old = [t \in Threads |-> Null] /\ new = [t \in Threads |-> Null]
  BY <1>0 DEF Init, ListInit, Nodes
<1>2. TypeOK
  <2>1. \A n \in Nodes : n # Size - 1 => n + 1 \in Nodes /\ n + 1 \in Nat
    BY <1>0 DEF Nodes
  <2>2. Null \in DoublePointer /\ head \in DoublePointer
    BY <1>0, <1>1 DEF Null, DoublePointer
  <2>3. next \in [Nodes -> DoublePointer]
    BY <1>1, <2>1, <2>2 DEF DoublePointer
  <2> QED  BY <1>0, <1>1, <2>2, <2>3 DEF TypeOK, ListTypeOK
<1>3. ListOf(Nodes, Link, head.node, NIL, Nodes)
  <2>1. PICK m \in Nat : m = Size
    BY <1>0
  <2>2. PICK s : s = [i \in 1..m |-> i - 1]
    OBVIOUS
  <2>3. /\ s \in Seq(Nodes) /\ Len(s) = m /\ DOMAIN s = 1..m /\ s # <<>>
        /\ \A i \in 1..m : s[i] = i - 1
    <3>1. \A i \in 1..m : i - 1 \in Nodes
      BY <2>1 DEF Nodes
    <3> QED  BY <1>0, <2>1, <2>2, <3>1
  <2>4. \A n \in Nodes : Link[n] = IF n = Size - 1 THEN NIL ELSE n + 1
    BY <1>1 DEF Link, Null
  <2>5. \A i \in DOMAIN s : s[i] # NIL /\ Link[s[i]] = IF i = Len(s) THEN NIL ELSE s[i + 1]
    <3> SUFFICES ASSUME NEW i \in 1..m
                 PROVE  s[i] # NIL /\ Link[s[i]] = IF i = m THEN NIL ELSE s[i + 1]
      BY <2>3
    <3>1. i - 1 \in Nodes /\ s[i] = i - 1 /\ (i - 1 = Size - 1 <=> i = m) /\ (i - 1) + 1 = i
      BY <2>1, <2>3 DEF Nodes
    <3>2. i # m => s[i + 1] = i
      BY <2>1, <2>3
    <3>3. Link[s[i]] = IF i = m THEN NIL ELSE i
      BY <2>4, <3>1
    <3> QED  BY <1>0, <3>1, <3>2, <3>3
  <2>6. IsChain(s, Link, head.node, NIL)
    <3>1. head.node = s[1]
      BY <1>0, <1>1, <2>1, <2>3
    <3>2. \A i, j \in DOMAIN s : s[i] = s[j] => i = j
      BY <2>3
    <3> QED  BY <2>3, <2>5, <3>1, <3>2 DEF IsChain
  <2>7. ToSet(s) = Nodes
    <3>1. ASSUME NEW n \in Nodes PROVE \E i \in DOMAIN s : s[i] = n
      <4>1. n + 1 \in 1..m /\ (n + 1) - 1 = n
        BY <1>0, <2>1 DEF Nodes
      <4>2. s[n + 1] = n
        BY <2>3, <4>1
      <4> QED  BY <2>3, <4>1, <4>2
    <3>2. \A i \in DOMAIN s : s[i] \in Nodes
      BY <2>3
    <3> QED  BY <3>1, <3>2 DEF ToSet
  <2> QED  BY <2>3, <2>6, <2>7 DEF ListOf
<1>4. FreeNodes = Nodes
  BY <1>3, FreeIs DEF FreeNodes, NodesFrom, Link
<1>5. BufferList
  BY <1>3, <1>4 DEF BufferList
<1>6. NullEnds
  <2>1. \A p \in DoublePointer : Live(p) /\ p.node = NIL => p = Null
    <3> SUFFICES ASSUME NEW p \in DoublePointer, Live(p), p.node = NIL PROVE p = Null
      OBVIOUS
    <3>1. CASE p = head
      BY <1>0, <1>1, <3>1
    <3>2. ASSUME NEW n \in Nodes, p = next[n] PROVE p = Null
      <4>1. n # Size - 1 => p.node = n + 1 /\ n + 1 # NIL
        BY <1>0, <1>1, <3>2 DEF Nodes
      <4> QED  BY <1>1, <3>2, <4>1
    <3> QED  BY <1>4, <3>1, <3>2 DEF Live
  <2> QED  BY <1>1, <2>1 DEF NullEnds, Reading, PutPC
<1>7. ReaderKnows /\ PutterLinks
  BY <1>1 DEF ReaderKnows, PutterLinks, Reading
<1>8. OnePlace
  BY <1>1, <1>4 DEF OnePlace, With, PutPC
<1> QED  BY <1>2, <1>5, <1>6, <1>7, <1>8 DEF BufferIInv

\* What the step of thread t leaves alone.
Others(t) ==
  \A u \in Threads : u # t => pc'[u] = pc[u] /\ old'[u] = old[u] /\ new'[u] = new[u]

\* A step that leaves the list alone keeps the invariant if the thread's own part holds.
LEMMA LocalPart ==
  ASSUME BufferIInv, NEW t \in Threads, Others(t), TypeOK', FreeNodes' = FreeNodes, BufferList',
         \A p : Live(p)' <=> Live(p), OnePlace',
         \A u \in Threads : u # t /\ Reading(u) => next'[old[u].node] = next[old[u].node]
                                                   \/ ~Live(old[u]),
         \A u \in Threads : u # t /\ pc[u] \in PutPC => next'[new[u].node] = next[new[u].node],
         old'[t].node = NIL => old'[t] = Null,
         (Reading(t) \/ pc[t] = "clear")' => old'[t].node # NIL,
         pc'[t] \in PutPC => new'[t].node # NIL,
         Reading(t)' /\ Live(old'[t]) => Knows(t)',
         pc'[t] = "linknode" => next'[new'[t].node].id = old'[t].id,
         pc'[t] = "put" => next'[new'[t].node] = old'[t]
  PROVE  BufferIInv'
<1>1. NullEnds'
  <2>1. \A p \in DoublePointer : Live(p)' /\ p.node = NIL => p = Null
    BY DEF BufferIInv, NullEnds
  <2>2. \A u \in Threads : old'[u].node = NIL => old'[u] = Null
    BY DEF BufferIInv, NullEnds, Others
  <2>3. \A u \in Threads : (Reading(u) \/ pc[u] = "clear")' => old'[u].node # NIL
    BY DEF BufferIInv, NullEnds, Others, Reading
  <2>4. \A u \in Threads : pc'[u] \in PutPC => new'[u].node # NIL
    BY DEF BufferIInv, NullEnds, Others
  <2> QED  BY <2>1, <2>2, <2>3, <2>4 DEF NullEnds
<1>2. ReaderKnows'
  <2> SUFFICES ASSUME NEW u \in Threads, NEW p \in DoublePointer, Reading(u)', old'[u] = p, Live(p)'
               PROVE  Knows(u)'
    BY DEF ReaderKnows
  <2>1. CASE u = t
    BY <2>1
  <2>2. CASE u # t
    <3>1. pc'[u] = pc[u] /\ old'[u] = old[u] /\ new'[u] = new[u]
      BY <2>2 DEF Others
    <3>2. Reading(u) /\ Live(old[u]) /\ old[u] = p
      BY <3>1 DEF Reading
    <3>3. Knows(u) /\ next'[old[u].node] = next[old[u].node]
      BY <2>2, <3>2 DEF BufferIInv, ReaderKnows
    <3> QED  BY <3>1, <3>3 DEF Knows
  <2> QED  BY <2>1, <2>2
<1>3. PutterLinks'
  <2> SUFFICES ASSUME NEW u \in Threads, u # t
               PROVE  /\ pc'[u] = "linknode" => next'[new'[u].node].id = old'[u].id
                      /\ pc'[u] = "put" => next'[new'[u].node] = old'[u]
    BY DEF PutterLinks
  <2>1. /\ pc[u] = "linknode" => next[new[u].node].id = old[u].id
        /\ pc[u] = "put" => next[new[u].node] = old[u]
    BY DEF BufferIInv, PutterLinks
  <2>2. pc[u] \in PutPC => next'[new[u].node] = next[new[u].node]
    OBVIOUS
  <2> QED  BY <2>1, <2>2 DEF Others, PutPC
<1> QED  BY <1>1, <1>2, <1>3 DEF BufferIInv

\* The steps that only read the list: the whole call of AllocBuffer but its swap, and
\* the reading of the old head and the failed swap of ReleaseBuffer.
LEMMA ReadStepInv ==
  ASSUME BufferIInv, NEW t \in Threads, UNCHANGED owned,
         \/ Goto(t, "idle", "alloc") /\ UNCHANGED <<head, next, id, old, new>>
         \/ ReadHead(t, "idle") \/ ReadNextId(t) \/ ReadNextNode(t) \/ ReadOldHead(t)
         \/ TakeHead(t) /\ head # old[t]
         \/ PutHead(t) /\ head # old[t]
  PROVE  BufferIInv' /\ FreeNodes' = FreeNodes
<1>0. /\ head \in DoublePointer /\ old[t] \in DoublePointer /\ new[t] \in DoublePointer
      /\ next \in [Nodes -> DoublePointer]
      /\ (Reading(t) \/ pc[t] = "clear" => old[t].node \in Nodes)
      /\ pc \in [Threads -> ListPC \cup {"idle"}]
      /\ old \in [Threads -> DoublePointer] /\ new \in [Threads -> DoublePointer]
  BY BufferTypes DEF BufferIInv, TypeOK, ListTypeOK
<1>1. UNCHANGED <<head, next, id, owned>>
  BY DEF ReadHead, ReadNextId, ReadNextNode, ReadOldHead, TakeHead, PutHead
<1>2. FreeNodes' = FreeNodes /\ BufferList' /\ \A p : Live(p)' <=> Live(p)
  BY <1>0, <1>1, FreeFrame
<1>3. Live(head)
  BY DEF Live
<1>4. head.node = NIL => head = Null
  BY <1>0, <1>3 DEF BufferIInv, NullEnds
<1>5. CASE Goto(t, "idle", "alloc") /\ UNCHANGED <<head, next, id, old, new>>
  <2>1. Others(t) /\ pc[t] = "idle" /\ pc'[t] = "alloc"
    BY <1>0, <1>5 DEF Goto, Others
  <2>2. TypeOK'
    BY <1>1, <1>5 DEF BufferIInv, TypeOK, ListTypeOK, Goto, ListPC
  <2>3. OnePlace'
    BY <1>1, <1>2, <1>5, <2>1, PlaceFrame DEF Others, With, PutPC
  <2> QED  BY <1>1, <1>2, <1>5, <2>1, <2>2, <2>3, LocalPart
           DEF Reading, PutPC, BufferIInv, NullEnds
<1>6. CASE ReadHead(t, "idle") \/ ReadOldHead(t)
  <2>1. /\ Others(t) /\ old'[t] = head /\ new' = new
        /\ \/ pc[t] = "alloc" /\ (pc'[t] = "idle" \/ (pc'[t] = "readid" /\ head # Null))
           \/ pc[t] = "release" /\ pc'[t] = "linkid"
    BY <1>0, <1>6 DEF ReadHead, ReadOldHead, Goto, Others
  <2>2. TypeOK'
    <3>1. old' \in [Threads -> DoublePointer] /\ pc' \in [Threads -> ListPC \cup {"idle"}]
      BY <1>0, <1>6 DEF ReadHead, ReadOldHead, Goto, ListPC
    <3> QED  BY <1>0, <1>1, <2>1, <3>1 DEF BufferIInv, TypeOK, ListTypeOK
  <2>3. \A n \in Nodes : With(t, n)' <=> With(t, n)
    BY <2>1 DEF With, PutPC
  <2>4. OnePlace'
    BY <1>1, <1>2, <2>1, <2>3, PlaceFrame DEF Others
  <2>5. /\ old'[t].node = NIL => old'[t] = Null
        /\ (Reading(t) \/ pc[t] = "clear")' => old'[t].node # NIL
        /\ pc'[t] \in PutPC => new'[t].node # NIL
        /\ Knows(t)' /\ pc'[t] # "linknode" /\ pc'[t] # "put"
    BY <1>4, <2>1 DEF Reading, PutPC, Knows, BufferIInv, NullEnds
  <2> QED  BY <1>1, <1>2, <2>1, <2>2, <2>4, <2>5, LocalPart
<1>7. CASE ReadNextId(t)
  <2>1. /\ Others(t) /\ old' = old /\ new'[t].id = next[old[t].node].id
        /\ pc[t] = "readid" /\ pc'[t] = "readnode"
    BY <1>0, <1>7, ReadsNode DEF ReadNextId, Goto, Others, DoublePointer
  <2>2. TypeOK'
    <3>1. next[old[t].node].id \in Nat
      BY <1>0, <2>1 DEF Reading, DoublePointer
    <3>2. [new[t] EXCEPT !.id = next[old[t].node].id] \in DoublePointer
      BY <1>0, <3>1 DEF DoublePointer
    <3>3. new' = [new EXCEPT ![t] = [new[t] EXCEPT !.id = next[old[t].node].id]]
      BY <1>7, ReadsNode
    <3>4. new' \in [Threads -> DoublePointer]
      BY <1>0, <3>2, <3>3
    <3>5. pc' \in [Threads -> ListPC \cup {"idle"}]
      BY <1>0, <1>7, ReadsNode DEF Goto, ListPC
    <3> QED  BY <1>0, <1>1, <2>1, <3>4, <3>5 DEF BufferIInv, TypeOK, ListTypeOK
  <2>3. \A n \in Nodes : With(t, n)' <=> With(t, n)
    BY <2>1 DEF With, PutPC
  <2>4. OnePlace'
    BY <1>1, <1>2, <2>1, <2>3, PlaceFrame DEF Others
  <2>5. /\ old'[t].node = NIL => old'[t] = Null
        /\ (Reading(t) \/ pc[t] = "clear")' => old'[t].node # NIL
        /\ pc'[t] \notin PutPC /\ Knows(t)'
    BY <1>1, <2>1 DEF Reading, PutPC, Knows, BufferIInv, NullEnds
  <2> QED  BY <1>1, <1>2, <2>1, <2>2, <2>4, <2>5, LocalPart
<1>8. CASE ReadNextNode(t)
  <2>1. /\ Others(t) /\ old' = old /\ new'[t].node = next[old[t].node].node
        /\ new'[t].id = new[t].id /\ new'[t] \in DoublePointer
        /\ pc[t] = "readnode" /\ pc'[t] = "take" /\ new' \in [Threads -> DoublePointer]
    <3>0. pc[t] = "readnode"
      BY <1>8 DEF ReadNextNode, Goto
    <3>1. next[old[t].node].node \in Nodes \cup {NIL}
      BY <1>0, <3>0 DEF Reading, DoublePointer
    <3>2. [new[t] EXCEPT !.node = next[old[t].node].node] \in DoublePointer
      BY <1>0, <3>1 DEF DoublePointer
    <3>3. new' = [new EXCEPT ![t] = [new[t] EXCEPT !.node = next[old[t].node].node]]
      BY <1>8 DEF ReadNextNode
    <3>4. new' \in [Threads -> DoublePointer]
      BY <1>0, <3>2, <3>3
    <3>5. Others(t) /\ old' = old /\ pc'[t] = "take"
      BY <1>0, <1>8 DEF ReadNextNode, Goto, Others
    <3>6. new'[t].node = next[old[t].node].node /\ new'[t].id = new[t].id
      BY <1>0, <3>1, <3>3 DEF DoublePointer
    <3> QED  BY <3>0, <3>4, <3>5, <3>6
  <2>2. TypeOK'
    <3>5. pc' \in [Threads -> ListPC \cup {"idle"}]
      BY <1>0, <1>8 DEF ReadNextNode, Goto, ListPC
    <3> QED  BY <1>0, <1>1, <2>1, <3>5 DEF BufferIInv, TypeOK, ListTypeOK
  <2>3. \A n \in Nodes : With(t, n)' <=> With(t, n)
    BY <2>1 DEF With, PutPC
  <2>4. OnePlace'
    BY <1>1, <1>2, <2>1, <2>3, PlaceFrame DEF Others
  <2>5. /\ old'[t].node = NIL => old'[t] = Null
        /\ (Reading(t) \/ pc[t] = "clear")' => old'[t].node # NIL
        /\ pc'[t] \notin PutPC
    BY <1>1, <2>1 DEF Reading, PutPC, BufferIInv, NullEnds
  <2>6. Live(old'[t]) => Knows(t)'
    <3> SUFFICES ASSUME Live(old[t]) PROVE new'[t] = next[old[t].node]
      BY <1>1, <2>1 DEF Knows
    <3>1. new[t].id = next[old[t].node].id
      BY <1>0, <2>1 DEF BufferIInv, ReaderKnows, Reading, Knows
    <3>2. next[old[t].node] \in DoublePointer
      BY <1>0, <2>1 DEF Reading
    <3> QED  BY <2>1, <3>1, <3>2 DEF DoublePointer
  <2> QED  BY <1>1, <1>2, <2>1, <2>2, <2>4, <2>5, <2>6, LocalPart DEF PutPC
<1>9. CASE (TakeHead(t) \/ PutHead(t)) /\ head # old[t]
  <2>1. /\ Others(t) /\ old' = old /\ new' = new
        /\ \/ pc[t] = "take" /\ pc'[t] = "alloc"
           \/ pc[t] = "put" /\ pc'[t] = "release"
    BY <1>0, <1>9 DEF TakeHead, PutHead, Goto, Others
  <2>2. TypeOK'
    <3>5. pc' \in [Threads -> ListPC \cup {"idle"}]
      BY <1>0, <1>9 DEF TakeHead, PutHead, Goto, ListPC
    <3> QED  BY <1>0, <1>1, <2>1, <3>5 DEF BufferIInv, TypeOK, ListTypeOK
  <2>3. \A n \in Nodes : With(t, n)' <=> With(t, n)
    BY <2>1 DEF With, PutPC
  <2>4. OnePlace'
    BY <1>1, <1>2, <2>1, <2>3, PlaceFrame DEF Others
  <2>5. /\ old'[t].node = NIL => old'[t] = Null
        /\ ~(Reading(t) \/ pc[t] = "clear")'
        /\ pc'[t] \in PutPC => new'[t].node # NIL
        /\ pc'[t] # "linknode" /\ pc'[t] # "put"
    BY <2>1 DEF Reading, PutPC, BufferIInv, NullEnds
  <2> QED  BY <1>1, <1>2, <2>1, <2>2, <2>4, <2>5, LocalPart
<1> QED  BY <1>2, <1>5, <1>6, <1>7, <1>8, <1>9

\* A client gives a buffer back, and the tag of its pointer is fetched.
LEMMA ReleaseBufferInv ==
  ASSUME BufferIInv, NEW t \in Threads, NEW n \in Nodes, ReleaseBuffer(t, n)
  PROVE  BufferIInv' /\ FreeNodes' = FreeNodes
<1>0. /\ next \in [Nodes -> DoublePointer] /\ id \in Nat /\ NIL \notin Nodes
      /\ pc \in [Threads -> ListPC \cup {"idle"}] /\ owned \in [Nodes -> Nat]
      /\ old \in [Threads -> DoublePointer] /\ new \in [Threads -> DoublePointer]
  BY BufferTypes DEF BufferIInv, TypeOK, ListTypeOK
<1>1. /\ Others(t) /\ UNCHANGED <<head, next, old>> /\ owned[n] > 0
      /\ new'[t] = [id |-> id, node |-> n] /\ pc[t] = "idle" /\ pc'[t] = "release"
      /\ owned' = [owned EXCEPT ![n] = owned[n] - 1] /\ id' = id + 1
  BY <1>0 DEF ReleaseBuffer, FetchId, Goto, Others
<1>2. FreeNodes' = FreeNodes /\ BufferList' /\ \A p : Live(p)' <=> Live(p)
  BY <1>0, <1>1, FreeFrame
<1>3. owned[n] = 1 /\ n \notin FreeNodes /\ \A u \in Threads : ~With(u, n)
  BY <1>1 DEF BufferIInv, OnePlace
<1>4. owned'[n] = 0 /\ \A m \in Nodes : m # n => owned'[m] = owned[m]
  BY <1>0, <1>1, <1>3
<1>5. TypeOK'
  <2>1. [id |-> id, node |-> n] \in DoublePointer
    BY <1>0 DEF DoublePointer
  <2>2. new' \in [Threads -> DoublePointer]
    BY <1>0, <2>1 DEF ReleaseBuffer, FetchId
  <2>3. owned' \in [Nodes -> Nat]
    BY <1>0, <1>1, <1>3
  <2>4. pc' \in [Threads -> ListPC \cup {"idle"}]
    BY <1>0 DEF ReleaseBuffer, FetchId, Goto, ListPC
  <2> QED  BY <1>0, <1>1, <2>2, <2>3, <2>4 DEF BufferIInv, TypeOK, ListTypeOK
<1>6. \A u \in Threads, m \in Nodes : With(u, m)' <=> IF u = t THEN m = n ELSE With(u, m)
  BY <1>1 DEF With, PutPC, Others
<1>7. \A m \in Nodes : ~With(t, m)
  BY <1>1 DEF With, PutPC
<1>8. OnePlace'
  <2>1. \A m \in Nodes : owned'[m] \in {0, 1}
    BY <1>4 DEF BufferIInv, OnePlace
  <2>2. \A m \in Nodes : m \in FreeNodes => owned'[m] = 0 /\ \A u \in Threads : ~With(u, m)'
    BY <1>3, <1>4, <1>6 DEF BufferIInv, OnePlace
  <2>3. \A m \in Nodes : owned'[m] = 1 => \A u \in Threads : ~With(u, m)'
    BY <1>4, <1>6 DEF BufferIInv, OnePlace
  <2>4. \A m \in Nodes, u, v \in Threads : With(u, m)' /\ With(v, m)' => u = v
    BY <1>3, <1>6 DEF BufferIInv, OnePlace
  <2>5. \A m \in Nodes : m \in FreeNodes \/ owned'[m] = 1 \/ \E u \in Threads : With(u, m)'
    BY <1>4, <1>6, <1>7 DEF BufferIInv, OnePlace
  <2> QED  BY <1>2, <2>1, <2>2, <2>3, <2>4, <2>5 DEF OnePlace
<1>9. /\ old'[t].node = NIL => old'[t] = Null
      /\ ~(Reading(t) \/ pc[t] = "clear")'
      /\ new'[t].node # NIL /\ pc'[t] # "linknode" /\ pc'[t] # "put"
  BY <1>0, <1>1 DEF Reading, BufferIInv, NullEnds
<1> QED  BY <1>1, <1>2, <1>5, <1>8, <1>9, LocalPart

\* AllocBuffer returns the buffer it has taken.
LEMMA ReturnBufferInv ==
  ASSUME BufferIInv, NEW t \in Threads, ReturnBuffer(t)
  PROVE  BufferIInv' /\ FreeNodes' = FreeNodes
<1>0. /\ next \in [Nodes -> DoublePointer] /\ NIL \notin Nodes /\ Null \in DoublePointer
      /\ pc \in [Threads -> ListPC \cup {"idle"}] /\ owned \in [Nodes -> Nat]
      /\ old \in [Threads -> DoublePointer] /\ new \in [Threads -> DoublePointer]
      /\ FreeNodes \subseteq Nodes
  BY BufferTypes DEF BufferIInv, TypeOK, ListTypeOK
<1>1. PICK n \in Nodes : n = old[t].node /\ With(t, n)
  BY BufferTypes DEF ReturnBuffer, ClearNext, Goto, With
<1>2. n \notin FreeNodes /\ owned[n] = 0 /\ \A u \in Threads : With(u, n) => u = t
  BY <1>1, WithFacts
<1>3. /\ Others(t) /\ UNCHANGED <<head, id>> /\ next' = [next EXCEPT ![n] = Null]
      /\ old'[t] = Null /\ new'[t] = Null /\ pc[t] = "clear" /\ pc'[t] = "idle"
      /\ owned' = [owned EXCEPT ![n] = owned[n] + 1]
  BY <1>0, <1>1 DEF ReturnBuffer, ClearNext, Goto, Others
<1>4. next' \in [Nodes -> DoublePointer] /\ \A m \in Nodes : m # n => next'[m] = next[m]
  BY <1>0, <1>3
<1>5. FreeNodes' = FreeNodes /\ BufferList' /\ \A p : Live(p)' <=> Live(p)
  BY <1>0, <1>2, <1>3, <1>4, FreeFrame
<1>6. owned'[n] = 1 /\ \A m \in Nodes : m # n => owned'[m] = owned[m]
  BY <1>0, <1>2, <1>3
<1>7. TypeOK'
  <2>1. new' \in [Threads -> DoublePointer] /\ old' \in [Threads -> DoublePointer]
    BY <1>0 DEF ReturnBuffer, ClearNext
  <2>2. owned' \in [Nodes -> Nat]
    BY <1>0, <1>3
  <2>3. pc' \in [Threads -> ListPC \cup {"idle"}]
    BY <1>0 DEF ReturnBuffer, ClearNext, Goto, ListPC
  <2> QED  BY <1>3, <1>4, <2>1, <2>2, <2>3 DEF BufferIInv, TypeOK, ListTypeOK
<1>8. \A u \in Threads, m \in Nodes : With(u, m)' <=> (u # t /\ With(u, m))
  BY <1>3 DEF With, PutPC, Others
<1>9. \A m \in Nodes : With(t, m) => m = n
  BY <1>1, <1>3 DEF With, PutPC
<1>10. OnePlace'
  <2>1. \A m \in Nodes : owned'[m] \in {0, 1}
    BY <1>6 DEF BufferIInv, OnePlace
  <2>2. \A m \in Nodes : m \in FreeNodes => owned'[m] = 0 /\ \A u \in Threads : ~With(u, m)'
    BY <1>2, <1>6, <1>8 DEF BufferIInv, OnePlace
  <2>3. \A m \in Nodes : owned'[m] = 1 => \A u \in Threads : ~With(u, m)'
    BY <1>2, <1>6, <1>8 DEF BufferIInv, OnePlace
  <2>4. \A m \in Nodes, u, v \in Threads : With(u, m)' /\ With(v, m)' => u = v
    BY <1>8 DEF BufferIInv, OnePlace
  <2>5. \A m \in Nodes : m \in FreeNodes \/ owned'[m] = 1 \/ \E u \in Threads : With(u, m)'
    BY <1>6, <1>8, <1>9 DEF BufferIInv, OnePlace
  <2> QED  BY <1>5, <2>1, <2>2, <2>3, <2>4, <2>5 DEF OnePlace
<1>11. \A u \in Threads : u # t /\ Reading(u) => next'[old[u].node] = next[old[u].node]
                                                 \/ ~Live(old[u])
  <2> SUFFICES ASSUME NEW u \in Threads, Reading(u), Live(old[u])
               PROVE  next'[old[u].node] = next[old[u].node]
    OBVIOUS
  <2>1. old[u].node \in Nodes
    BY BufferTypes
  <2>2. old[u].node \in FreeNodes
    <3>1. /\ head.node \in FreeNodes \cup {NIL}
          /\ \A m \in FreeNodes : Link[m] \in FreeNodes \cup {NIL}
      BY ListFacts DEF BufferIInv, BufferList
    <3> QED  BY <1>0, <2>1, <3>1 DEF Live, Link
  <2> QED  BY <1>2, <1>4, <2>1, <2>2
<1>12. \A u \in Threads : u # t /\ pc[u] \in PutPC => next'[new[u].node] = next[new[u].node]
  <2> SUFFICES ASSUME NEW u \in Threads, u # t, pc[u] \in PutPC
               PROVE  next'[new[u].node] = next[new[u].node]
    OBVIOUS
  <2>1. new[u].node \in Nodes /\ With(u, new[u].node)
    BY BufferTypes DEF With
  <2> QED  BY <1>2, <1>4, <2>1
<1>13. /\ ~(Reading(t) \/ pc[t] = "clear")' /\ pc'[t] \notin PutPC
       /\ pc'[t] # "linknode" /\ pc'[t] # "put"
  BY <1>3 DEF Reading, PutPC
<1> QED  BY <1>3, <1>5, <1>7, <1>10, <1>11, <1>12, <1>13, LocalPart

\* Every live pointer but NULL is to a node of the list.
LEMMA LiveOnList ==
  ASSUME BufferIInv, NEW p \in DoublePointer, Live(p), p.node \in Nodes
  PROVE  p.node \in FreeNodes
<1>1. /\ head.node \in FreeNodes \cup {NIL} /\ FreeNodes \subseteq Nodes
      /\ \A m \in FreeNodes : Link[m] \in FreeNodes \cup {NIL}
  BY ListFacts DEF BufferIInv, BufferList
<1>2. NIL \notin Nodes
  BY FreeListAssumption DEF Nodes, NIL
<1> QED  BY <1>1, <1>2 DEF Live, Link

\* The next of the node to be put back is written, word by word.
LEMMA LinkStepInv ==
  ASSUME BufferIInv, NEW t \in Threads, LinkId(t) \/ LinkNode(t), UNCHANGED owned
  PROVE  BufferIInv' /\ FreeNodes' = FreeNodes
<1>0. /\ next \in [Nodes -> DoublePointer] /\ NIL \notin Nodes
      /\ pc \in [Threads -> ListPC \cup {"idle"}] /\ owned \in [Nodes -> Nat]
      /\ old[t] \in DoublePointer /\ new[t] \in DoublePointer /\ FreeNodes \subseteq Nodes
  BY BufferTypes DEF BufferIInv, TypeOK, ListTypeOK
<1>1. PICK n \in Nodes : n = new[t].node /\ With(t, n)
  BY BufferTypes DEF LinkId, LinkNode, Goto, With, PutPC
<1>2. n \notin FreeNodes /\ owned[n] = 0 /\ \A u \in Threads : With(u, n) => u = t
  BY <1>1, WithFacts
<1>3. /\ Others(t) /\ UNCHANGED <<head, id, old, new>>
      /\ \/ pc[t] = "linkid" /\ pc'[t] = "linknode"
         \/ pc[t] = "linknode" /\ pc'[t] = "put"
  BY <1>0 DEF LinkId, LinkNode, Goto, Others
<1>4. PICK q \in DoublePointer :
        /\ next' = [next EXCEPT ![n] = q]
        /\ pc[t] = "linkid" => q.id = old[t].id
        /\ pc[t] = "linknode" => q = old[t]
  <2>1. CASE LinkId(t)
    <3>1. PICK q : q = [next[n] EXCEPT !.id = old[t].id]
      OBVIOUS
    <3>2. q \in DoublePointer /\ q.id = old[t].id
      BY <1>0, <3>1 DEF DoublePointer
    <3>3. next' = [next EXCEPT ![n] = q] /\ pc[t] = "linkid"
      BY <1>1, <2>1, <3>1 DEF LinkId, Goto
    <3> QED  BY <3>2, <3>3
  <2>2. CASE LinkNode(t)
    <3>1. PICK q : q = [next[n] EXCEPT !.node = old[t].node]
      OBVIOUS
    <3>2. next' = [next EXCEPT ![n] = q] /\ pc[t] = "linknode"
      BY <1>1, <2>2, <3>1 DEF LinkNode, Goto
    <3>3. next[n].id = old[t].id
      BY <1>1, <3>2 DEF BufferIInv, PutterLinks
    <3>4. q \in DoublePointer /\ q = old[t]
      BY <1>0, <3>1, <3>3 DEF DoublePointer
    <3> QED  BY <3>2, <3>4
  <2> QED  BY <2>1, <2>2
<1>5. /\ next' \in [Nodes -> DoublePointer] /\ next'[n] = q
      /\ \A m \in Nodes : m # n => next'[m] = next[m]
  BY <1>0, <1>4
<1>6. FreeNodes' = FreeNodes /\ BufferList' /\ \A p : Live(p)' <=> Live(p)
  BY <1>0, <1>2, <1>3, <1>5, FreeFrame
<1>7. TypeOK'
  <2>1. pc' \in [Threads -> ListPC \cup {"idle"}]
    BY <1>0 DEF LinkId, LinkNode, Goto, ListPC
  <2> QED  BY <1>3, <1>5, <2>1 DEF BufferIInv, TypeOK, ListTypeOK
<1>8. OnePlace'
  <2>1. \A m \in Nodes : With(t, m)' <=> With(t, m)
    BY <1>3 DEF With, PutPC
  <2> QED  BY <1>3, <1>6, <2>1, PlaceFrame DEF Others
<1>9. \A u \in Threads : u # t /\ Reading(u) => next'[old[u].node] = next[old[u].node]
                                                \/ ~Live(old[u])
  <2> SUFFICES ASSUME NEW u \in Threads, Reading(u), Live(old[u])
               PROVE  next'[old[u].node] = next[old[u].node]
    OBVIOUS
  <2>1. old[u].node \in Nodes /\ old[u] \in DoublePointer
    BY BufferTypes
  <2>2. old[u].node \in FreeNodes
    BY <2>1, LiveOnList
  <2> QED  BY <1>2, <1>5, <2>1, <2>2
<1>10. \A u \in Threads : u # t /\ pc[u] \in PutPC => next'[new[u].node] = next[new[u].node]
  <2> SUFFICES ASSUME NEW u \in Threads, u # t, pc[u] \in PutPC
               PROVE  next'[new[u].node] = next[new[u].node]
    OBVIOUS
  <2>1. new[u].node \in Nodes /\ With(u, new[u].node)
    BY BufferTypes DEF With
  <2> QED  BY <1>2, <1>5, <2>1
<1>11. /\ ~(Reading(t) \/ pc[t] = "clear")' /\ new'[t].node # NIL
       /\ pc'[t] = "linknode" => next'[new'[t].node].id = old'[t].id
       /\ pc'[t] = "put" => next'[new'[t].node] = old'[t]
       /\ old'[t].node = NIL => old'[t] = Null
  BY <1>0, <1>1, <1>3, <1>4, <1>5 DEF Reading, BufferIInv, NullEnds
<1> QED  BY <1>3, <1>6, <1>7, <1>8, <1>9, <1>10, <1>11, LocalPart

\* The swap that takes the first node off the list.
LEMMA TakeHeadInv ==
  ASSUME BufferIInv, NEW t \in Threads, TakeHead(t), head = old[t], UNCHANGED owned
  PROVE  BufferIInv' /\ head.node \in FreeNodes /\ FreeNodes' = FreeNodes \ {head.node}
<1>0. /\ next \in [Nodes -> DoublePointer] /\ NIL \notin Nodes /\ head \in DoublePointer
      /\ pc \in [Threads -> ListPC \cup {"idle"}]
      /\ new[t] \in DoublePointer /\ FreeNodes \subseteq Nodes
  BY BufferTypes DEF BufferIInv, TypeOK, ListTypeOK
<1>1. /\ Others(t) /\ UNCHANGED <<next, id, old, new, owned>>
      /\ pc[t] = "take" /\ pc'[t] = "clear" /\ head' = new[t]
  BY <1>0 DEF TakeHead, Goto, Others
<1>2. PICK n \in Nodes : n = head.node /\ n = old[t].node
  BY <1>1, BufferTypes DEF Reading
<1>3. n \in FreeNodes
  BY <1>0, <1>2, LiveOnList DEF Live
<1>4. head' = next[n]
  BY <1>0, <1>1, <1>2 DEF BufferIInv, ReaderKnows, Reading, Live, Knows
<1>5. ListOf(Nodes, Link', head'.node, NIL, FreeNodes') /\ FreeNodes' = FreeNodes \ {n}
  <2>1. ListOf(Nodes, Link, n, NIL, FreeNodes) /\ n # NIL
    BY <1>0, <1>2 DEF BufferIInv, BufferList
  <2>2. PICK R : R = FreeNodes \ {n}
    OBVIOUS
  <2>3. head'.node = Link[n] /\ Link' = Link
    BY <1>1, <1>4 DEF Link
  <2>4. ListOf(Nodes, Link, head'.node, NIL, R)
    BY <2>1, <2>2, <2>3, ListPop
  <2>5. FreeNodes' = R
    BY <2>3, <2>4, FreeIs DEF FreeNodes, NodesFrom, Link
  <2> QED  BY <2>2, <2>3, <2>4, <2>5
<1>6. \A p : Live(p)' => Live(p)
  BY <1>1, <1>3, <1>4, <1>5 DEF Live
<1>7. TypeOK'
  <2>1. pc' \in [Threads -> ListPC \cup {"idle"}]
    BY <1>0, <1>1 DEF TakeHead, Goto, ListPC
  <2> QED  BY <1>0, <1>1, <2>1 DEF BufferIInv, TypeOK, ListTypeOK
<1>8. NullEnds'
  <2>1. \A p \in DoublePointer : Live(p)' /\ p.node = NIL => p = Null
    BY <1>6 DEF BufferIInv, NullEnds
  <2>2. \A u \in Threads : (Reading(u) \/ pc[u] = "clear")' => old'[u].node # NIL
    BY <1>0, <1>1, <1>2 DEF BufferIInv, NullEnds, Others, Reading
  <2>3. \A u \in Threads : pc'[u] \in PutPC => new'[u].node # NIL
    BY <1>1 DEF BufferIInv, NullEnds, Others, PutPC
  <2> QED  BY <1>1, <2>1, <2>2, <2>3 DEF BufferIInv, NullEnds
<1>9. ReaderKnows'
  <2> SUFFICES ASSUME NEW u \in Threads, NEW p \in DoublePointer, Reading(u)', old'[u] = p, Live(p)'
               PROVE  Knows(u)'
    BY DEF ReaderKnows
  <2>1. u # t /\ pc'[u] = pc[u] /\ Reading(u) /\ old[u] = p /\ Live(p)
    BY <1>1, <1>6 DEF Reading, Others
  <2>2. Knows(u)
    BY <2>1 DEF BufferIInv, ReaderKnows
  <2> QED  BY <1>1, <2>1, <2>2 DEF Knows
<1>10. PutterLinks'
  BY <1>1 DEF BufferIInv, PutterLinks, Others
<1>11. \A u \in Threads, m \in Nodes : With(u, m)' <=> IF u = t THEN m = n ELSE With(u, m)
  BY <1>1, <1>2 DEF With, PutPC, Others
<1>12. \A m \in Nodes : ~With(t, m)
  BY <1>1 DEF With, PutPC
<1>13. owned[n] = 0 /\ \A u \in Threads : ~With(u, n)
  BY <1>3 DEF BufferIInv, OnePlace
<1>14. OnePlace'
  <2>1. \A m \in Nodes : m \in FreeNodes' => owned[m] = 0 /\ \A u \in Threads : ~With(u, m)'
    BY <1>5, <1>11 DEF BufferIInv, OnePlace
  <2>2. \A m \in Nodes : owned[m] = 1 => \A u \in Threads : ~With(u, m)'
    BY <1>11, <1>13 DEF BufferIInv, OnePlace
  <2>3. \A m \in Nodes, u, v \in Threads : With(u, m)' /\ With(v, m)' => u = v
    BY <1>11, <1>13 DEF BufferIInv, OnePlace
  <2>4. \A m \in Nodes : m \in FreeNodes' \/ owned[m] = 1 \/ \E u \in Threads : With(u, m)'
    BY <1>5, <1>11, <1>12 DEF BufferIInv, OnePlace
  <2> QED  BY <1>1, <2>1, <2>2, <2>3, <2>4 DEF BufferIInv, OnePlace
<1>15. BufferList'
  BY <1>5 DEF BufferList
<1> QED  BY <1>2, <1>3, <1>5, <1>7, <1>8, <1>9, <1>10, <1>14, <1>15 DEF BufferIInv

\* The swap that puts a node in front of the list.
LEMMA PutHeadInv ==
  ASSUME BufferIInv, NEW t \in Threads, ~PutsStale(t), PutHead(t), head = old[t], UNCHANGED owned
  PROVE  /\ BufferIInv' /\ new[t].node \in Nodes \ FreeNodes
         /\ FreeNodes' = FreeNodes \cup {new[t].node}
<1>0. /\ next \in [Nodes -> DoublePointer] /\ NIL \notin Nodes /\ head \in DoublePointer
      /\ pc \in [Threads -> ListPC \cup {"idle"}] /\ Null \in DoublePointer
      /\ old \in [Threads -> DoublePointer] /\ new \in [Threads -> DoublePointer]
      /\ FreeNodes \subseteq Nodes /\ new[t] \in DoublePointer
  BY BufferTypes DEF BufferIInv, TypeOK, ListTypeOK
<1>1. /\ Others(t) /\ UNCHANGED <<next, id, owned>>
      /\ pc[t] = "put" /\ pc'[t] = "idle" /\ head' = new[t]
      /\ old'[t] = Null /\ new'[t] = Null
  BY <1>0 DEF PutHead, Goto, Others
<1>2. PICK n \in Nodes : n = new[t].node /\ With(t, n)
  BY <1>1, BufferTypes DEF With, PutPC
<1>3. n \notin FreeNodes /\ owned[n] = 0 /\ \A u \in Threads : With(u, n) => u = t
  BY <1>2, WithFacts
<1>4. next[n] = head
  BY <1>1, <1>2 DEF BufferIInv, PutterLinks
<1>5. ListOf(Nodes, Link', head'.node, NIL, FreeNodes') /\ FreeNodes' = FreeNodes \cup {n}
  <2>1. ListOf(Nodes, Link, head.node, NIL, FreeNodes) /\ n # NIL /\ Link[n] = head.node
    BY <1>0, <1>4 DEF BufferIInv, BufferList, Link
  <2>2. PICK R : R = FreeNodes \cup {n}
    OBVIOUS
  <2>3. head'.node = n /\ Link' = Link
    BY <1>1, <1>2 DEF Link
  <2>4. ListOf(Nodes, Link, n, NIL, R)
    BY <1>3, <2>1, <2>2, ListPush
  <2>5. FreeNodes' = R
    BY <2>3, <2>4, FreeIs DEF FreeNodes, NodesFrom, Link
  <2> QED  BY <2>2, <2>3, <2>4, <2>5
<1>6. \A p : Live(p)' => Live(p) \/ p = new[t]
  BY <1>1, <1>4, <1>5 DEF Live
<1>7. TypeOK'
  <2>1. pc' \in [Threads -> ListPC \cup {"idle"}]
    BY <1>0, <1>1 DEF PutHead, Goto, ListPC
  <2>2. old' \in [Threads -> DoublePointer] /\ new' \in [Threads -> DoublePointer]
    BY <1>0 DEF PutHead
  <2> QED  BY <1>0, <1>1, <2>1, <2>2 DEF BufferIInv, TypeOK, ListTypeOK
<1>8. NullEnds'
  <2>1. \A p \in DoublePointer : Live(p)' /\ p.node = NIL => p = Null
    BY <1>0, <1>2, <1>6 DEF BufferIInv, NullEnds
  <2>2. \A u \in Threads : (Reading(u) \/ pc[u] = "clear")' => old'[u].node # NIL
    BY <1>1 DEF BufferIInv, NullEnds, Others, Reading
  <2>3. \A u \in Threads : pc'[u] \in PutPC => new'[u].node # NIL
    BY <1>1 DEF BufferIInv, NullEnds, Others, PutPC
  <2>4. \A u \in Threads : old'[u].node = NIL => old'[u] = Null
    BY <1>1 DEF BufferIInv, NullEnds, Others
  <2> QED  BY <2>1, <2>2, <2>3, <2>4 DEF NullEnds
<1>9. ReaderKnows'
  <2> SUFFICES ASSUME NEW u \in Threads, NEW p \in DoublePointer, Reading(u)', old'[u] = p, Live(p)'
               PROVE  Knows(u)'
    BY DEF ReaderKnows
  <2>1. /\ u # t /\ pc'[u] = pc[u] /\ Reading(u) /\ old[u] = p /\ new'[u] = new[u]
        /\ Live(p) \/ p = new[t]
    BY <1>1, <1>6 DEF Reading, Others
  <2>2. Live(p) => Knows(u)
    BY <2>1 DEF BufferIInv, ReaderKnows
  <2>3. p = new[t] => Knows(u)
    BY <1>1, <2>1, Zenon DEF PutsStale
  <2> QED  BY <1>1, <2>1, <2>2, <2>3 DEF Knows
<1>10. PutterLinks'
  BY <1>1 DEF BufferIInv, PutterLinks, Others
<1>11. \A u \in Threads, m \in Nodes : With(u, m)' <=> (u # t /\ With(u, m))
  BY <1>1 DEF With, PutPC, Others
<1>12. \A m \in Nodes : With(t, m) => m = n
  BY <1>1, <1>2 DEF With, PutPC
<1>13. OnePlace'
  <2>1. \A m \in Nodes : m \in FreeNodes' => owned[m] = 0 /\ \A u \in Threads : ~With(u, m)'
    BY <1>3, <1>5, <1>11 DEF BufferIInv, OnePlace
  <2>2. \A m \in Nodes : owned[m] = 1 => \A u \in Threads : ~With(u, m)'
    BY <1>11 DEF BufferIInv, OnePlace
  <2>3. \A m \in Nodes, u, v \in Threads : With(u, m)' /\ With(v, m)' => u = v
    BY <1>11 DEF BufferIInv, OnePlace
  <2>4. \A m \in Nodes : m \in FreeNodes' \/ owned[m] = 1 \/ \E u \in Threads : With(u, m)'
    BY <1>5, <1>11, <1>12 DEF BufferIInv, OnePlace
  <2> QED  BY <1>1, <2>1, <2>2, <2>3, <2>4 DEF BufferIInv, OnePlace
<1>14. BufferList'
  BY <1>5 DEF BufferList
<1> QED  BY <1>2, <1>3, <1>5, <1>7, <1>8, <1>9, <1>10, <1>13, <1>14 DEF BufferIInv

\* What a step does to the list: nothing, or it takes or puts one node.
LEMMA BufferStep ==
  ASSUME BufferIInv, [Next]_vars, ~reused'
  PROVE  /\ BufferIInv'
         /\ \/ FreeNodes' = FreeNodes
            \/ \E n \in FreeNodes : FreeNodes' = FreeNodes \ {n}
            \/ \E n \in Nodes \ FreeNodes : FreeNodes' = FreeNodes \cup {n}
<1>1. CASE UNCHANGED vars
  <2>1. UNCHANGED <<head, next, id, pc, old, new, owned>>
    BY <1>1 DEF vars, listVars
  <2>2. FreeNodes' = FreeNodes
    BY <2>1 DEF FreeNodes, NodesFrom
  <2>3. TypeOK' /\ BufferList' /\ PutterLinks'
    BY <2>1, <2>2 DEF BufferIInv, TypeOK, ListTypeOK, BufferList, PutterLinks, Link
  <2>4. /\ \A p : Live(p)' <=> Live(p)
        /\ \A t : (Reading(t)' <=> Reading(t)) /\ (Knows(t)' <=> Knows(t))
        /\ \A t, n : With(t, n)' <=> With(t, n)
    BY <2>1, <2>2 DEF Live, Reading, Knows, With
  <2>5. NullEnds' /\ ReaderKnows'
    BY <2>1, <2>4 DEF BufferIInv, NullEnds, ReaderKnows
  <2>6. OnePlace'
    BY <2>1, <2>2, <2>4, Zenon DEF BufferIInv, OnePlace
  <2> QED  BY <2>2, <2>3, <2>5, <2>6 DEF BufferIInv
<1>2. ASSUME NEW t \in Threads, Step(t)
      PROVE  /\ BufferIInv'
             /\ \/ FreeNodes' = FreeNodes
                \/ \E n \in FreeNodes : FreeNodes' = FreeNodes \ {n}
                \/ \E n \in Nodes \ FreeNodes : FreeNodes' = FreeNodes \cup {n}
  <2>0. ~PutsStale(t)
    BY <1>2, Zenon DEF Step
  <2>1. CASE ReadList(t)
    BY <2>1, ReadStepInv DEF ReadList
  <2>2. CASE ReturnBuffer(t)
    BY <2>2, ReturnBufferInv
  <2>3. CASE (ReadNextId(t) \/ ReadNextNode(t) \/ ReadOldHead(t)) /\ UNCHANGED owned
    BY <2>3, ReadStepInv
  <2>4. CASE (LinkId(t) \/ LinkNode(t)) /\ UNCHANGED owned
    BY <2>4, LinkStepInv
  <2>5. CASE TakeHead(t) /\ UNCHANGED owned
    BY <2>5, ReadStepInv, TakeHeadInv
  <2>6. CASE PutHead(t) /\ UNCHANGED owned
    BY <2>0, <2>6, ReadStepInv, PutHeadInv
  <2> QED  BY <1>2, <2>1, <2>2, <2>3, <2>4, <2>5, <2>6 DEF Step, ListStep
<1>3. ASSUME NEW t \in Threads, AllocBuffer(t) PROVE BufferIInv' /\ FreeNodes' = FreeNodes
  BY <1>3, ReadStepInv DEF AllocBuffer
<1>4. ASSUME NEW t \in Threads, NEW n \in Nodes, ReleaseBuffer(t, n)
      PROVE  BufferIInv' /\ FreeNodes' = FreeNodes
  BY <1>4, ReleaseBufferInv
<1> QED  BY <1>1, <1>2, <1>3, <1>4 DEF Next

\* Once a stale head was put back this stays so.
LEMMA ReusedStays ==
  ASSUME reused, [Next]_vars
  PROVE  reused'
<1>1. CASE UNCHANGED vars
  BY <1>1, Zenon DEF vars
<1>2. CASE Next
  BY <1>2, Zenon DEF Next, Step, AllocBuffer, ReleaseBuffer
<1> QED  BY <1>1, <1>2

\* The pool's invariant, for any number of threads: it holds until ReleaseBuffer puts
\* a head back that a stalled AllocBuffer has read and whose next has changed since.
THEOREM BufferInvariant == SafetySpec => [](reused \/ BufferIInv)
<1>1. (reused \/ BufferIInv) /\ [Next]_vars => (reused \/ BufferIInv)'
  BY BufferStep, ReusedStays, Zenon
<1>2. Init => reused \/ BufferIInv
  BY BufferInit
<1> QED  BY <1>1, <1>2, PTL DEF SafetySpec

\* The users of a node are none when it is free and one when it is not.
LEMMA UsersOf ==
  ASSUME BufferIInv, NEW n \in Nodes
  PROVE  Users(n) = IF n \in FreeNodes THEN 0 ELSE 1
<1>1. \A t : t \in Taking(n) \cup Putting(n) <=> t \in Threads /\ With(t, n)
  BY DEF Taking, Putting, With, PutPC
<1>2. Taking(n) \cap Putting(n) = {}
  BY DEF Taking, Putting
<1>3. Cardinality({}) = 0 /\ \A x : Cardinality({x}) = 1
  BY FS_EmptySet, FS_Singleton
<1>4. CASE \A t \in Threads : ~With(t, n)
  <2>1. Taking(n) = {} /\ Putting(n) = {}
    BY <1>1, <1>4
  <2>2. Cardinality(Taking(n)) = 0 /\ Cardinality(Putting(n)) = 0
    BY <1>3, <2>1
  <2>3. owned[n] = IF n \in FreeNodes THEN 0 ELSE 1
    BY <1>4 DEF BufferIInv, OnePlace
  <2> QED  BY <2>2, <2>3 DEF Users
<1>5. ASSUME NEW t \in Threads, With(t, n) PROVE Users(n) = 1 /\ n \notin FreeNodes
  <2>1. n \notin FreeNodes /\ owned[n] = 0 /\ \A u \in Threads : With(u, n) => u = t
    BY <1>5, WithFacts
  <2>2. \/ Taking(n) = {t} /\ Putting(n) = {}
        \/ Taking(n) = {} /\ Putting(n) = {t}
    BY <1>1, <1>2, <1>5, <2>1
  <2>3. \/ Cardinality(Taking(n)) = 1 /\ Cardinality(Putting(n)) = 0
        \/ Cardinality(Taking(n)) = 0 /\ Cardinality(Putting(n)) = 1
    BY <1>3, <2>2
  <2> QED  BY <2>1, <2>3 DEF Users
<1> QED  BY <1>4, <1>5

\* The invariant gives the pool's promise.
LEMMA InvConserved == BufferIInv => Conserved
<1> SUFFICES ASSUME BufferIInv PROVE Conserved
  OBVIOUS
<1>1. FreeListEnds
  <2>1. PICK s \in Seq(Nodes) : IsChain(s, Link, head.node, NIL) /\ ToSet(s) = FreeNodes
    BY DEF BufferIInv, BufferList, ListOf
  <2>2. Len(s) <= Size /\ Len(s) \in Nat
    <3>1. \A i, j \in DOMAIN s : s[i] = s[j] => i = j
      BY <2>1 DEF IsChain
    <3>2. Cardinality(FreeNodes) = Len(s)
      BY <2>1, <3>1, CountDistinct
    <3>3. 0 \in Int /\ Size - 1 \in Int
      BY FreeListAssumption
    <3>4. IsFiniteSet(0..(Size - 1))
          /\ Cardinality(0..(Size - 1)) = IF 0 > Size - 1 THEN 0 ELSE (Size - 1) - 0 + 1
      BY <3>3, FS_Interval, Zenon
    <3>5. IsFiniteSet(Nodes) /\ Cardinality(Nodes) = Size
      BY <3>4, FreeListAssumption DEF Nodes
    <3>6. FreeNodes \in SUBSET Nodes
      BY ListFacts DEF BufferIInv, BufferList
    <3> QED  BY <3>2, <3>5, <3>6, FS_Subset
  <2>3. Size \in Nat /\ Size \in 0..Size
    BY FreeListAssumption
  <2>4. Follow(Link, head.node, NIL, Size)[Size] = IF Size < Len(s) THEN s[Size + 1] ELSE NIL
    BY <2>1, <2>3, FollowChain
  <2>5. ~(Size < Len(s))
    BY <2>2, <2>3
  <2> QED  BY <2>4, <2>5 DEF FreeListEnds, Walk, Link
<1>2. Exclusive /\ \A n \in Nodes : n \in FreeNodes <=> Users(n) = 0
  BY UsersOf DEF Exclusive
<1> QED  BY <1>1, <1>2 DEF Conserved

\* No buffer is lost and none is handed out twice, with any number of threads,
\* until a stale head is put back.
THEOREM BuffersConserved == SafetySpec => [](reused \/ Conserved)
<1> QED  BY BufferInvariant, InvConserved, PTL

\* In the states of the invariant the buffers in use are those not on the list.
LEMMA InUseIs ==
  BufferIInv => InUse = Nodes \ FreeNodes
BY UsersOf DEF InUse

\* Until then the successful swaps of AllocBuffer and ReleaseBuffer are the operations
\* of a buffer pool, with any number of threads.
THEOREM BufferImplementsPool == SafetySpec => PoolUntilReused
<1>1. Init => Pool!Init
  <2> SUFFICES ASSUME Init PROVE Pool!Init
    OBVIOUS
  <2>1. BufferIInv
    BY BufferInit
  <2>2. FreeNodes = Nodes
    <3>1. pc = [t \in Threads |-> "idle"] /\ owned = [n \in Nodes |-> 0]
      BY DEF Init, ListInit
    <3>2. \A t \in Threads, n \in Nodes : ~With(t, n)
      BY <3>1 DEF With, PutPC
    <3>3. FreeNodes \subseteq Nodes
      BY <2>1, ListFacts DEF BufferIInv, BufferList
    <3> QED  BY <2>1, <3>1, <3>2, <3>3 DEF BufferIInv, OnePlace
  <2>3. InUse = {}
    BY <2>1, <2>2, InUseIs
  <2> QED  BY <2>2, <2>3 DEF Pool!Init
<1>2. BufferIInv /\ ~reused' /\ [Next]_vars => [Pool!Next]_<<FreeNodes, InUse>>
  <2> SUFFICES ASSUME BufferIInv, ~reused', [Next]_vars
               PROVE  [Pool!Next]_<<FreeNodes, InUse>>
    OBVIOUS
  <2>1. BufferIInv'
    BY BufferStep
  <2>2. FreeNodes \subseteq Nodes
    BY ListFacts DEF BufferIInv, BufferList
  <2>3. InUse = Nodes \ FreeNodes
    BY InUseIs
  <2>4. InUse' = Nodes \ FreeNodes'
    <3>1. (InUse = Nodes \ FreeNodes)'
      BY <2>1, InUseIs, PTL
    <3> QED  BY <3>1
  <2>5. CASE FreeNodes' = FreeNodes
    BY <2>3, <2>4, <2>5
  <2>6. ASSUME NEW n \in FreeNodes, FreeNodes' = FreeNodes \ {n} PROVE Pool!Next
    <3>1. Pool!Alloc(n)
      BY <2>2, <2>3, <2>4, <2>6 DEF Pool!Alloc
    <3> QED  BY <2>2, <3>1 DEF Pool!Next
  <2>7. ASSUME NEW n \in Nodes \ FreeNodes, FreeNodes' = FreeNodes \cup {n} PROVE Pool!Next
    <3>1. Pool!Release(n)
      BY <2>2, <2>3, <2>4, <2>7 DEF Pool!Release
    <3> QED  BY <3>1 DEF Pool!Next
  <2> QED  BY <2>5, <2>6, <2>7, BufferStep
<1>3. (reused \/ BufferIInv) /\ [Next]_vars => [reused' \/ Pool!Next]_<<FreeNodes, InUse>>
  BY <1>2, ReusedStays, Zenon
<1> QED  BY <1>1, <1>3, BufferInvariant, PTL DEF SafetySpec, PoolUntilReused

-----------------------------------------------------------------------------
\* Tag i is somewhere else than in the pointer that u will put.
Elsewhere(u, i) ==
  \/ head.id = i
  \/ \E n \in Nodes : next[n].id = i
  \/ \E t \in Threads : old[t].id = i
  \/ \E t \in Threads : t # u /\ new[t].id = i

\* A tag is only found once it has been handed out, and a tag handed out is first
\* in the pointer to be put and nowhere else; but for the tags of InitList, of
\* which the counter hands the last one out again.
Tags ==
  /\ TypeOK /\ id >= Size - 1
  /\ \A t \in Threads : pc[t] \in {"readnode", "take", "clear"} => old[t].node # NIL
  /\ \A t \in Threads : pc[t] \in PutPC => new[t].node # NIL
  /\ \A u \in Threads : pc[u] \in PutPC =>
       new[u].id >= Size - 1 /\ (new[u].id # Size - 1 => ~Elsewhere(u, new[u].id))
  /\ \A i \in Nat, u \in Threads : Elsewhere(u, i) \/ new[u].id = i => i < id \/ i <= Size - 1

\* Of all tags handed out, only the first one can be in the head of a reader.
FirstTagOnly ==
  \A t, u \in Threads : pc[u] = "put" /\ Reading(t) /\ old[t] = new[u] => new[u].id = Size - 1

\* A step that copies tags makes none appear where it was not.
LEMMA TagCopy ==
  ASSUME Tags, NEW t \in Threads, Others(t), TypeOK', id' = id,
         head'.id = head.id \/ (head'.id = new[t].id /\ pc'[t] \notin PutPC),
         \A m \in Nodes : next'[m].id \in {next[m].id, old[t].id, 0},
         old'[t].id \in {old[t].id, head.id, 0},
         \/ new'[t].id \in {new[t].id, 0} \/ \E m \in Nodes : new'[t].id = next[m].id,
         pc'[t] \in PutPC => pc[t] \in PutPC /\ new'[t] = new[t],
         pc'[t] \in {"readnode", "take", "clear"} => old'[t].node # NIL
  PROVE  Tags'
<1>1. Size \in Nat /\ Size # 0 /\ 0 <= Size - 1 /\ Size - 1 \in Nat
  BY FreeListAssumption
<1>2. ASSUME NEW u \in Threads, NEW i \in Nat, u # t \/ pc'[t] \in PutPC, Elsewhere(u, i)'
      PROVE  Elsewhere(u, i) \/ i = 0
  <2>1. CASE head'.id = i
    BY <1>2, <2>1 DEF Elsewhere
  <2>2. ASSUME NEW n \in Nodes, next'[n].id = i PROVE Elsewhere(u, i) \/ i = 0
    BY <2>2 DEF Elsewhere
  <2>3. ASSUME NEW v \in Threads, old'[v].id = i PROVE Elsewhere(u, i) \/ i = 0
    BY <2>3 DEF Elsewhere, Others
  <2>4. ASSUME NEW v \in Threads, v # u, new'[v].id = i PROVE Elsewhere(u, i) \/ i = 0
    <3>1. CASE v # t
      BY <2>4, <3>1 DEF Elsewhere, Others
    <3>2. CASE v = t
      BY <2>4, <3>2 DEF Elsewhere
    <3> QED  BY <3>1, <3>2
  <2> QED  BY <1>2, <2>1, <2>2, <2>3, <2>4 DEF Elsewhere
<1>3. ASSUME NEW u \in Threads, NEW i \in Nat, Elsewhere(u, i)' \/ new'[u].id = i
      PROVE  i < id \/ i <= Size - 1
  <2>1. Elsewhere(t, i) \/ new[t].id = i \/ i = 0
    <3>1. CASE head'.id = i
      BY <3>1 DEF Elsewhere
    <3>2. ASSUME NEW n \in Nodes, next'[n].id = i PROVE Elsewhere(t, i) \/ i = 0
      BY <3>2 DEF Elsewhere
    <3>3. ASSUME NEW v \in Threads, old'[v].id = i PROVE Elsewhere(t, i) \/ i = 0
      BY <3>3 DEF Elsewhere, Others
    <3>4. ASSUME NEW v \in Threads, new'[v].id = i
          PROVE  Elsewhere(t, i) \/ new[t].id = i \/ i = 0
      <4>1. CASE v # t
        BY <3>4, <4>1 DEF Elsewhere, Others
      <4>2. CASE v = t
        BY <3>4, <4>2 DEF Elsewhere
      <4> QED  BY <4>1, <4>2
    <3> QED  BY <1>3, <3>1, <3>2, <3>3, <3>4 DEF Elsewhere
  <2> QED  BY <1>1, <2>1 DEF Tags
<1>4. ASSUME NEW u \in Threads, pc'[u] \in PutPC
      PROVE  /\ new'[u] = new[u] /\ pc[u] \in PutPC /\ new[u].id \in Nat
             /\ u # t \/ pc'[t] \in PutPC
  BY <1>4 DEF Others, Tags, TypeOK, ListTypeOK, DoublePointer
<1>5. \A u \in Threads : pc'[u] \in PutPC =>
        new'[u].id >= Size - 1 /\ (new'[u].id # Size - 1 => ~Elsewhere(u, new[u].id)')
  <2> SUFFICES ASSUME NEW u \in Threads, pc'[u] \in PutPC
               PROVE  new[u].id >= Size - 1 /\ (new[u].id # Size - 1 => ~Elsewhere(u, new[u].id)')
    BY <1>4
  <2>1. PICK i \in Nat : i = new[u].id /\ i = new'[u].id
    BY <1>4
  <2>2. i >= Size - 1 /\ (i # Size - 1 => ~Elsewhere(u, i))
    BY <1>4, <2>1 DEF Tags
  <2>3. i # Size - 1 => ~Elsewhere(u, i)'
    BY <1>1, <1>2, <1>4, <2>2
  <2> QED  BY <2>1, <2>2, <2>3
<1>6. \A u \in Threads : pc'[u] \in {"readnode", "take", "clear"} => old'[u].node # NIL
  BY DEF Others, Tags
<1>7. \A u \in Threads : pc'[u] \in PutPC => new'[u].node # NIL
  BY <1>4 DEF Tags
<1> QED  BY <1>3, <1>5, <1>6, <1>7 DEF Tags

\* The types, and the nodes a thread may dereference.
LEMMA TagTypes ==
  ASSUME Tags, NEW t \in Threads
  PROVE  /\ head \in DoublePointer /\ next \in [Nodes -> DoublePointer] /\ id \in Nat
         /\ pc \in [Threads -> ListPC \cup {"idle"}] /\ owned \in [Nodes -> Nat]
         /\ old \in [Threads -> DoublePointer] /\ new \in [Threads -> DoublePointer]
         /\ old[t] \in DoublePointer /\ new[t] \in DoublePointer
         /\ NIL \notin Nodes /\ Null \in DoublePointer /\ Null.id = 0 /\ Null.node = NIL
         /\ (pc[t] \in {"readnode", "take", "clear"} => old[t].node \in Nodes)
         /\ (pc[t] \in PutPC => new[t].node \in Nodes)
<1>1. /\ head \in DoublePointer /\ next \in [Nodes -> DoublePointer] /\ id \in Nat
      /\ pc \in [Threads -> ListPC \cup {"idle"}] /\ owned \in [Nodes -> Nat]
      /\ old \in [Threads -> DoublePointer] /\ new \in [Threads -> DoublePointer]
  BY DEF Tags, TypeOK, ListTypeOK
<1>2. NIL \notin Nodes /\ Null \in DoublePointer /\ Null.id = 0 /\ Null.node = NIL
  BY FreeListAssumption DEF Nodes, NIL, Null, DoublePointer
<1>3. old[t] \in DoublePointer /\ new[t] \in DoublePointer
  BY <1>1
<1>4. /\ pc[t] \in {"readnode", "take", "clear"} => old[t].node \in Nodes
      /\ pc[t] \in PutPC => new[t].node \in Nodes
  BY <1>3 DEF Tags, DoublePointer
<1> QED  BY <1>1, <1>2, <1>3, <1>4

\* The steps that take or put nothing of the list's memory.
LEMMA TagRead ==
  ASSUME Tags, NEW t \in Threads, UNCHANGED owned,
         \/ Goto(t, "idle", "alloc") /\ UNCHANGED <<head, next, id, old, new>>
         \/ ReadHead(t, "idle") \/ ReadNextId(t) \/ ReadNextNode(t) \/ ReadOldHead(t)
  PROVE  Tags'
<1>0. /\ head \in DoublePointer /\ next \in [Nodes -> DoublePointer] /\ id \in Nat
      /\ pc \in [Threads -> ListPC \cup {"idle"}] /\ owned \in [Nodes -> Nat]
      /\ old \in [Threads -> DoublePointer] /\ new \in [Threads -> DoublePointer]
      /\ old[t] \in DoublePointer /\ new[t] \in DoublePointer
      /\ (pc[t] \in {"readnode", "take", "clear"} => old[t].node \in Nodes)
      /\ NIL \notin Nodes
  BY TagTypes
<1>1. UNCHANGED <<head, next, id, owned>>
  BY DEF ReadHead, ReadNextId, ReadNextNode, ReadOldHead
<1>2. pc' \in [Threads -> ListPC \cup {"idle"}]
  BY <1>0 DEF Goto, ReadHead, ReadNextId, Crash, ReadNextNode, ReadOldHead, ListPC
<1>3. CASE \/ Goto(t, "idle", "alloc") /\ UNCHANGED <<head, next, id, old, new>>
           \/ ReadHead(t, "idle") \/ ReadOldHead(t)
  <2>1. /\ Others(t) /\ new' = new /\ (old'[t] = old[t] \/ old'[t] = head)
        /\ \/ pc'[t] \in {"idle", "alloc", "readid"}
           \/ pc[t] = "release" /\ pc'[t] = "linkid"
    BY <1>0, <1>3 DEF Goto, ReadHead, ReadOldHead, Others
  <2>2. old' \in [Threads -> DoublePointer]
    BY <1>0, <1>3 DEF ReadHead, ReadOldHead
  <2>3. TypeOK'
    BY <1>0, <1>1, <1>2, <2>1, <2>2 DEF TypeOK, ListTypeOK
  <2>4. /\ pc'[t] \in PutPC => pc[t] \in PutPC
        /\ pc'[t] \notin {"readnode", "take", "clear"}
    BY <2>1 DEF PutPC
  <2> QED  BY <1>1, <2>1, <2>3, <2>4, TagCopy
<1>7. CASE ReadNextId(t) /\ old[t].node = NIL
  <2>1. UNCHANGED <<head, next, id, owned, old, new>> /\ pc' = [u \in Threads |-> "crashed"]
    BY <1>1, <1>7 DEF ReadNextId, Crash
  <2>2. TypeOK'
    BY <1>0, <1>2, <2>1 DEF TypeOK, ListTypeOK
  <2>3. \A u \in Threads : pc'[u] \notin PutPC /\ pc'[u] \notin {"readnode", "take", "clear"}
    BY <2>1 DEF PutPC
  <2>4. \A i \in Nat, u \in Threads : Elsewhere(u, i)' => Elsewhere(u, i)
    BY <2>1 DEF Elsewhere
  <2> QED  BY <2>1, <2>2, <2>3, <2>4 DEF Tags
<1>4. CASE ReadNextId(t) /\ old[t].node # NIL
  <2>1. /\ Others(t) /\ old' = old /\ pc'[t] = "readnode"
    BY <1>0, <1>4 DEF Goto, ReadNextId, Others
  <2>2. PICK m \in Nodes : m = old[t].node
    BY <1>0, <1>4 DEF DoublePointer
  <2>3. PICK q : q = [new[t] EXCEPT !.id = next[m].id]
    OBVIOUS
  <2>4. q \in DoublePointer /\ q.id = next[m].id
    BY <1>0, <2>3 DEF DoublePointer
  <2>5. new' = [new EXCEPT ![t] = q]
    BY <1>4, <2>2, <2>3 DEF ReadNextId
  <2>6. new' \in [Threads -> DoublePointer] /\ new'[t] = q
    BY <1>0, <2>4, <2>5
  <2>7. TypeOK'
    BY <1>0, <1>1, <1>2, <2>1, <2>6 DEF TypeOK, ListTypeOK
  <2>8. pc'[t] \notin PutPC /\ old'[t].node # NIL
    BY <1>4, <2>1 DEF PutPC
  <2> QED  BY <1>1, <2>1, <2>4, <2>6, <2>7, <2>8, TagCopy
<1>5. CASE ReadNextNode(t)
  <2>1. /\ Others(t) /\ old' = old /\ pc'[t] = "take" /\ pc[t] = "readnode"
    BY <1>0, <1>5 DEF Goto, ReadNextNode, Others
  <2>2. PICK m \in Nodes : m = old[t].node /\ m # NIL
    BY <1>0, <2>1
  <2>3. PICK q : q = [new[t] EXCEPT !.node = next[m].node]
    OBVIOUS
  <2>4. q \in DoublePointer /\ q.id = new[t].id
    BY <1>0, <2>3 DEF DoublePointer
  <2>5. new' = [new EXCEPT ![t] = q]
    BY <1>5, <2>2, <2>3 DEF ReadNextNode
  <2>6. new' \in [Threads -> DoublePointer] /\ new'[t] = q
    BY <1>0, <2>4, <2>5
  <2>7. TypeOK'
    BY <1>0, <1>1, <1>2, <2>1, <2>6 DEF TypeOK, ListTypeOK
  <2>8. pc'[t] \notin PutPC /\ old'[t].node # NIL
    BY <2>1, <2>2 DEF PutPC
  <2> QED  BY <1>1, <2>1, <2>4, <2>6, <2>7, <2>8, TagCopy
<1> QED  BY <1>3, <1>4, <1>5, <1>7

\* The swaps.
LEMMA TagSwap ==
  ASSUME Tags, NEW t \in Threads, UNCHANGED owned, TakeHead(t) \/ PutHead(t)
  PROVE  Tags'
<1>0. /\ head \in DoublePointer /\ next \in [Nodes -> DoublePointer] /\ id \in Nat
      /\ pc \in [Threads -> ListPC \cup {"idle"}] /\ owned \in [Nodes -> Nat]
      /\ old \in [Threads -> DoublePointer] /\ new \in [Threads -> DoublePointer]
      /\ old[t] \in DoublePointer /\ new[t] \in DoublePointer
      /\ (pc[t] \in {"readnode", "take", "clear"} => old[t].node \in Nodes)
      /\ NIL \notin Nodes /\ Null \in DoublePointer /\ Null.id = 0
  BY TagTypes
<1>1. UNCHANGED <<next, id, owned>> /\ (head' = head \/ head' = new[t])
  BY DEF TakeHead, PutHead
<1>2. pc' \in [Threads -> ListPC \cup {"idle"}]
  BY <1>0 DEF Goto, TakeHead, PutHead, ListPC
<1>3. old' \in [Threads -> DoublePointer] /\ new' \in [Threads -> DoublePointer]
  BY <1>0 DEF TakeHead, PutHead
<1>4. TypeOK'
  BY <1>0, <1>1, <1>2, <1>3 DEF TypeOK, ListTypeOK
<1>5. /\ Others(t)
      /\ \/ old' = old /\ new' = new
         \/ old'[t] = Null /\ new'[t] = Null
      /\ \/ pc[t] = "take" /\ old' = old /\ pc'[t] \in {"clear", "alloc"}
         \/ pc[t] = "put" /\ pc'[t] = "idle"
         \/ pc[t] = "put" /\ pc'[t] = "release" /\ new' = new /\ head' = head
  BY <1>0 DEF Goto, TakeHead, PutHead, Others
<1>6. /\ head'.id = head.id \/ (head'.id = new[t].id /\ pc'[t] \notin PutPC)
      /\ pc'[t] \in PutPC => pc[t] \in PutPC /\ new'[t] = new[t]
      /\ pc'[t] \in {"readnode", "take", "clear"} => old'[t].node # NIL
  BY <1>0, <1>1, <1>5 DEF PutPC
<1>7. old'[t].id \in {old[t].id, head.id, 0} /\ new'[t].id \in {new[t].id, 0}
  BY <1>0, <1>5
<1> QED  BY <1>1, <1>4, <1>5, <1>6, <1>7, TagCopy

\* The writes of a node's next.
LEMMA TagWrite ==
  ASSUME Tags, NEW t \in Threads,
         ReturnBuffer(t) \/ ((LinkId(t) \/ LinkNode(t)) /\ UNCHANGED owned)
  PROVE  Tags'
<1>0. /\ head \in DoublePointer /\ next \in [Nodes -> DoublePointer] /\ id \in Nat
      /\ pc \in [Threads -> ListPC \cup {"idle"}] /\ owned \in [Nodes -> Nat]
      /\ old \in [Threads -> DoublePointer] /\ new \in [Threads -> DoublePointer]
      /\ old[t] \in DoublePointer /\ new[t] \in DoublePointer
      /\ (pc[t] \in {"readnode", "take", "clear"} => old[t].node \in Nodes)
      /\ (pc[t] \in PutPC => new[t].node \in Nodes)
      /\ NIL \notin Nodes /\ Null \in DoublePointer /\ Null.id = 0
  BY TagTypes
<1>1. UNCHANGED <<head, id>>
  BY DEF ReturnBuffer, ClearNext, LinkId, LinkNode
<1>2. pc' \in [Threads -> ListPC \cup {"idle"}]
  BY <1>0 DEF Goto, ReturnBuffer, ClearNext, LinkId, LinkNode, ListPC
<1>3. CASE ReturnBuffer(t)
  <2>1. /\ Others(t) /\ old'[t] = Null /\ new'[t] = Null /\ pc[t] = "clear" /\ pc'[t] = "idle"
        /\ next' = [next EXCEPT ![old[t].node] = Null]
        /\ owned' = [owned EXCEPT ![old[t].node] = @ + 1]
    BY <1>0, <1>3 DEF Goto, ReturnBuffer, ClearNext, Others
  <2>2. old' \in [Threads -> DoublePointer] /\ new' \in [Threads -> DoublePointer]
    BY <1>0, <1>3 DEF ReturnBuffer, ClearNext
  <2>3. next' \in [Nodes -> DoublePointer] /\ \A m \in Nodes : next'[m] \in {next[m], Null}
    BY <1>0, <2>1
  <2>4. owned' \in [Nodes -> Nat]
    BY <1>0, <2>1
  <2>5. TypeOK'
    BY <1>0, <1>1, <1>2, <2>2, <2>3, <2>4 DEF TypeOK, ListTypeOK
  <2>6. pc'[t] \notin PutPC
    BY <2>1 DEF PutPC
  <2>7. \A m \in Nodes : next'[m].id \in {next[m].id, old[t].id, 0}
    BY <1>0, <2>3
  <2> QED  BY <1>0, <1>1, <2>1, <2>5, <2>6, <2>7, TagCopy
<1>4. CASE (LinkId(t) \/ LinkNode(t)) /\ UNCHANGED owned
  <2>1. /\ Others(t) /\ old' = old /\ new' = new
        /\ pc[t] \in {"linkid", "linknode"} /\ pc'[t] \in {"linknode", "put"}
    BY <1>0, <1>4 DEF Goto, LinkId, LinkNode, Others
  <2>2. PICK m \in Nodes : m = new[t].node
    BY <1>0, <2>1 DEF PutPC
  <2>3. PICK q : q = IF LinkId(t) THEN [next[m] EXCEPT !.id = old[t].id]
                                  ELSE [next[m] EXCEPT !.node = old[t].node]
    OBVIOUS
  <2>4. q \in DoublePointer /\ q.id \in {next[m].id, old[t].id}
    BY <1>0, <2>3 DEF DoublePointer
  <2>5. next' = [next EXCEPT ![m] = q]
    BY <1>4, <2>2, <2>3 DEF LinkId, LinkNode
  <2>6. next' \in [Nodes -> DoublePointer]
        /\ \A k \in Nodes : next'[k].id \in {next[k].id, old[t].id, 0}
    BY <1>0, <2>4, <2>5
  <2>7. TypeOK'
    BY <1>0, <1>1, <1>2, <1>4, <2>1, <2>6 DEF TypeOK, ListTypeOK
  <2>8. pc[t] \in PutPC /\ pc'[t] \notin {"readnode", "take", "clear"}
    BY <2>1 DEF PutPC
  <2> QED  BY <1>1, <2>1, <2>6, <2>7, <2>8, TagCopy
<1> QED  BY <1>3, <1>4

\* A release fetches a tag that is nowhere yet, unless it is the first.
LEMMA TagFetch ==
  ASSUME Tags, NEW t \in Threads, NEW n \in Nodes, ReleaseBuffer(t, n)
  PROVE  Tags'
<1>0. /\ head \in DoublePointer /\ next \in [Nodes -> DoublePointer] /\ id \in Nat
      /\ pc \in [Threads -> ListPC \cup {"idle"}] /\ owned \in [Nodes -> Nat]
      /\ old \in [Threads -> DoublePointer] /\ new \in [Threads -> DoublePointer]
      /\ NIL \notin Nodes /\ Size - 1 \in Nat /\ id >= Size - 1
  BY TagTypes, FreeListAssumption DEF Tags
<1>1. /\ Others(t) /\ UNCHANGED <<head, next, old>> /\ owned[n] > 0
      /\ new'[t] = [id |-> id, node |-> n] /\ pc[t] = "idle" /\ pc'[t] = "release"
      /\ owned' = [owned EXCEPT ![n] = owned[n] - 1] /\ id' = id + 1
  BY <1>0 DEF ReleaseBuffer, FetchId, Goto, Others
<1>2. TypeOK'
  <2>1. [id |-> id, node |-> n] \in DoublePointer
    BY <1>0 DEF DoublePointer
  <2>2. new' \in [Threads -> DoublePointer]
    BY <1>0, <2>1 DEF ReleaseBuffer, FetchId
  <2>3. owned' \in [Nodes -> Nat]
    BY <1>0, <1>1
  <2>4. pc' \in [Threads -> ListPC \cup {"idle"}]
    BY <1>0 DEF ReleaseBuffer, FetchId, Goto, ListPC
  <2> QED  BY <1>0, <1>1, <2>2, <2>3, <2>4 DEF TypeOK, ListTypeOK
<1>3. new'[t].id = id /\ new'[t].node = n
  BY <1>1
<1>4. ASSUME NEW u \in Threads, NEW i \in Nat, Elsewhere(u, i)'
      PROVE  Elsewhere(u, i) \/ (u # t /\ i = id)
  BY <1>1, <1>3, <1>4 DEF Elsewhere, Others
<1>5. \A u \in Threads : pc'[u] \in PutPC =>
        new'[u].id >= Size - 1 /\ (new'[u].id # Size - 1 => ~Elsewhere(u, new[u].id)')
  <2> SUFFICES ASSUME NEW u \in Threads, pc'[u] \in PutPC, NEW i \in Nat, i = new'[u].id
               PROVE  i >= Size - 1 /\ (i # Size - 1 => ~Elsewhere(u, i)')
    <3>1. \A u \in Threads : new'[u].id \in Nat
      BY <1>2 DEF TypeOK, ListTypeOK, DoublePointer
    <3> QED  BY <3>1
  <2>1. CASE u = t
    <3>1. i = id
      BY <1>3, <2>1
    <3>2. i # Size - 1 => ~Elsewhere(t, i)
      BY <1>0, <3>1 DEF Tags
    <3> QED  BY <1>0, <1>4, <2>1, <3>1, <3>2
  <2>2. CASE u # t
    <3>1. pc[u] \in PutPC /\ i = new[u].id
      BY <1>1, <2>2 DEF Others
    <3>2. i >= Size - 1 /\ (i # Size - 1 => ~Elsewhere(u, i))
      BY <3>1 DEF Tags
    <3>3. i # Size - 1 => i # id
      BY <1>0, <3>1 DEF Tags
    <3> QED  BY <1>4, <3>2, <3>3
  <2> QED  BY <2>1, <2>2
<1>6. ASSUME NEW u \in Threads, NEW i \in Nat, Elsewhere(u, i)' \/ new'[u].id = i
      PROVE  i < id' \/ i <= Size - 1
  <2>1. CASE Elsewhere(u, i)'
    <3>1. CASE Elsewhere(u, i)
      BY <1>0, <1>1, <3>1 DEF Tags
    <3>2. CASE i = id
      BY <1>0, <1>1, <3>2
    <3> QED  BY <1>4, <2>1, <3>1, <3>2
  <2>2. CASE new'[u].id = i
    <3>1. CASE u = t
      BY <1>0, <1>1, <1>3, <2>2, <3>1
    <3>2. CASE u # t
      <4>1. new[u].id = i
        BY <1>1, <2>2, <3>2 DEF Others
      <4>2. i < id \/ i <= Size - 1
        BY <4>1 DEF Tags
      <4> QED  BY <1>0, <1>1, <4>2
    <3> QED  BY <3>1, <3>2
  <2> QED  BY <1>6, <2>1, <2>2
<1>7. /\ \A u \in Threads : pc'[u] \in {"readnode", "take", "clear"} => old'[u].node # NIL
      /\ \A u \in Threads : pc'[u] \in PutPC => new'[u].node # NIL
  BY <1>0, <1>1, <1>3 DEF Others, Tags
<1>8. id' >= Size - 1
  BY <1>0, <1>1
<1> QED  BY <1>2, <1>5, <1>6, <1>7, <1>8 DEF Tags

\* Every step, whatever heads are put back.
LEMMA TagsNext == Tags /\ [Next]_vars => Tags'
<1> SUFFICES ASSUME Tags, [Next]_vars PROVE Tags'
  OBVIOUS
<1>1. ASSUME NEW t \in Threads, Step(t) PROVE Tags'
  BY <1>1, TagRead, TagSwap, TagWrite DEF Step, ReadList, ListStep
<1>2. ASSUME NEW t \in Threads, AllocBuffer(t) PROVE Tags'
  BY <1>2, TagRead DEF AllocBuffer
<1>3. CASE UNCHANGED vars
  <2>1. UNCHANGED <<head, next, id, pc, old, new, owned>>
    BY <1>3 DEF vars, listVars
  <2>2. TypeOK' /\ \A u, i : Elsewhere(u, i)' <=> Elsewhere(u, i)
    BY <2>1 DEF Tags, TypeOK, ListTypeOK, Elsewhere
  <2> QED  BY <2>1, <2>2 DEF Tags
<1> QED  BY <1>1, <1>2, <1>3, TagFetch DEF Next

\* The tags of the initial list.
LEMMA TagsInit == Init => Tags
<1> SUFFICES ASSUME Init PROVE Tags
  OBVIOUS
<1>0. Size - 1 \in Nat
  BY FreeListAssumption
<1>1. TypeOK
  BY BufferInit DEF BufferIInv
<1>2. /\ id = Size - 1 /\ head.id = 0
      /\ \A n \in Nodes : next[n].id = 0 \/ (n # Size - 1 /\ next[n].id = n + 1)
      /\ \A t \in Threads : pc[t] = "idle" /\ old[t].id = 0 /\ new[t].id = 0
  BY FreeListAssumption DEF Init, ListInit, Null, Nodes
<1>3. \A i \in Nat, u \in Threads : Elsewhere(u, i) \/ new[u].id = i => i <= Size - 1
  BY <1>0, <1>2 DEF Elsewhere, Nodes
<1>4. \A t \in Threads : pc[t] \notin PutPC /\ pc[t] \notin {"readnode", "take", "clear"}
  BY <1>2 DEF PutPC
<1> QED  BY <1>0, <1>1, <1>2, <1>3, <1>4 DEF Tags

\* The counter of tags: a reader has the pointer that a release is about to put
\* only if it is put under the first tag handed out, which InitList has used.
THEOREM OnlyFirstTagRepeats == SafetySpec => []FirstTagOnly
<1>1. Tags => FirstTagOnly
  <2> SUFFICES ASSUME Tags, NEW t \in Threads, NEW u \in Threads, pc[u] = "put", old[t] = new[u]
               PROVE  new[u].id = Size - 1
    BY DEF FirstTagOnly
  <2>1. Elsewhere(u, new[u].id)
    BY DEF Elsewhere
  <2> QED  BY <2>1 DEF Tags, PutPC
<1> QED  BY <1>1, TagsInit, TagsNext, PTL DEF SafetySpec

-----------------------------------------------------------------------------
\* A swap of the head by a taker leaves fewer pointers live.
LEMMA TakenLive ==
  ASSUME BufferIInv, NEW t \in Threads, TakeHead(t), head = old[t], UNCHANGED owned
  PROVE  /\ \A p : Live(p)' => Live(p)
         /\ head' = next[head.node] /\ head.node \in FreeNodes
         /\ FreeNodes' = FreeNodes \ {head.node}
<1>1. head.node \in FreeNodes /\ FreeNodes' = FreeNodes \ {head.node}
  BY TakeHeadInv
<1>2. next' = next /\ pc[t] = "take" /\ head' = new[t]
  BY DEF TakeHead, Goto
<1>3. head' = next[head.node]
  BY <1>2, BufferTypes DEF BufferIInv, ReaderKnows, Reading, Live, Knows
<1> QED  BY <1>1, <1>2, <1>3 DEF Live

\* Before the first release, a step that is none keeps Early if the thread's part holds.
LEMMA EarlyLocal ==
  ASSUME Early, id = Size - 1, NEW t \in Threads, Others(t), id' = id,
         next'[Size - 1] = Null, FreeNodes' = {} \/ Size - 1 \in FreeNodes',
         \A p : Live(p)' => Live(p), pc'[t] \notin PutPC,
         Reading(t)' => /\ old'[t].id = old'[t].node
                        /\ old'[t].node = Size - 1 => NullCopy(t)'
  PROVE  Early'
<1>1. \A u \in Threads : pc'[u] \notin PutPC
  BY DEF Early, Others
<1>2. \A p \in DoublePointer : Live(p)' /\ p # Null => p.id = p.node
  BY DEF Early
<1>3. ASSUME NEW u \in Threads, Reading(u)'
      PROVE  old'[u].id = old'[u].node /\ (old'[u].node = Size - 1 => NullCopy(u)')
  <2>1. CASE u = t
    BY <1>3, <2>1
  <2>2. CASE u # t
    <3>1. pc'[u] = pc[u] /\ old'[u] = old[u] /\ new'[u] = new[u]
      BY <2>2 DEF Others
    <3>2. Reading(u)
      BY <1>3, <3>1 DEF Reading
    <3> QED  BY <3>1, <3>2 DEF Early, NullCopy
  <2> QED  BY <2>1, <2>2
<1> QED  BY <1>1, <1>2, <1>3 DEF Early

\* Nothing but a release ends the time before the first release.
LEMMA EarlyNext ==
  ASSUME BufferIInv, Tags, Early, NEW t \in Threads,
         Step(t) \/ AllocBuffer(t) \/ \E n \in Nodes : ReleaseBuffer(t, n)
  PROVE  Early'
<1> SUFFICES ASSUME id' = Size - 1 PROVE Early'
  BY DEF Early
<1>0. /\ head \in DoublePointer /\ old[t] \in DoublePointer /\ new[t] \in DoublePointer
      /\ next \in [Nodes -> DoublePointer] /\ id \in Nat /\ id >= Size - 1
      /\ FreeNodes \subseteq Nodes /\ Null = [id |-> 0, node |-> NIL]
      /\ NIL \notin Nodes /\ Null \in DoublePointer /\ Size - 1 \in Nodes /\ Size - 1 \in Nat
      /\ (Reading(t) \/ pc[t] = "clear" => old[t].node \in Nodes)
      /\ pc \in [Threads -> ListPC \cup {"idle"}]
      /\ old \in [Threads -> DoublePointer] /\ new \in [Threads -> DoublePointer]
  BY BufferTypes, FreeListAssumption DEF BufferIInv, TypeOK, ListTypeOK, Tags, Nodes, Null
<1>1. ASSUME NEW n \in Nodes, ReleaseBuffer(t, n) PROVE FALSE
  <2>1. id' = id + 1
    BY <1>1 DEF ReleaseBuffer, FetchId
  <2> QED  BY <1>0, <2>1
<1>2. id = Size - 1
  <2>1. CASE Step(t) \/ AllocBuffer(t)
    BY <2>1 DEF Step, ReadList, ReadHead, ReturnBuffer, ClearNext, ListStep, ReadNextId,
                ReadNextNode, TakeHead, ReadOldHead, LinkId, LinkNode, PutHead, AllocBuffer
  <2> QED  BY <1>1, <2>1
<1>3. /\ next[Size - 1] = Null /\ (FreeNodes = {} \/ Size - 1 \in FreeNodes)
      /\ pc[t] \notin PutPC
      /\ \A p \in DoublePointer : Live(p) /\ p # Null => p.id = p.node
      /\ Reading(t) => /\ old[t].id = old[t].node
                       /\ old[t].node = Size - 1 => NullCopy(t)
  BY <1>2 DEF Early
<1>4. CASE AllocBuffer(t)
  <2>1. /\ Others(t) /\ UNCHANGED <<head, next, id, old, new>> /\ pc'[t] = "alloc"
    BY <1>0, <1>4 DEF AllocBuffer, Goto, Others
  <2>2. FreeNodes' = FreeNodes /\ \A p : Live(p)' <=> Live(p)
    BY <1>0, <2>1, FreeFrame
  <2>3. pc'[t] \notin PutPC /\ ~Reading(t)'
    BY <2>1 DEF PutPC, Reading
  <2> QED  BY <1>2, <1>3, <2>1, <2>2, <2>3, EarlyLocal
<1>5. CASE ReadList(t)
  <2>1. /\ Others(t) /\ UNCHANGED <<head, next, id, new>> /\ old'[t] = head
        /\ pc'[t] = "idle" \/ (pc'[t] = "readid" /\ head # Null)
    BY <1>0, <1>5 DEF ReadList, ReadHead, Goto, Others
  <2>2. FreeNodes' = FreeNodes /\ \A p : Live(p)' <=> Live(p)
    BY <1>0, <2>1, FreeFrame
  <2>3. pc'[t] \notin PutPC /\ (Reading(t)' => head # Null) /\ NullCopy(t)'
    BY <2>1 DEF PutPC, Reading, NullCopy
  <2>4. head # Null => head.id = head.node
    BY <1>0, <1>3 DEF Live
  <2> QED  BY <1>2, <1>3, <2>1, <2>2, <2>3, <2>4, EarlyLocal
<1>6. CASE ReadNextId(t)
  <2>1. /\ Others(t) /\ UNCHANGED <<head, next, id, old>> /\ new'[t].id = next[old[t].node].id
        /\ pc[t] = "readid" /\ pc'[t] = "readnode"
    BY <1>0, <1>6, ReadsNode DEF ReadNextId, Goto, Others, DoublePointer
  <2>2. FreeNodes' = FreeNodes /\ \A p : Live(p)' <=> Live(p)
    BY <1>0, <2>1, FreeFrame
  <2>3. pc'[t] \notin PutPC /\ Reading(t) /\ (old[t].node = Size - 1 => NullCopy(t)')
    BY <1>3, <2>1 DEF PutPC, Reading, NullCopy
  <2> QED  BY <1>2, <1>3, <2>1, <2>2, <2>3, EarlyLocal
<1>7. CASE ReadNextNode(t)
  <2>1. /\ Others(t) /\ UNCHANGED <<head, next, id, old>>
        /\ pc[t] = "readnode" /\ pc'[t] = "take"
        /\ new' = [new EXCEPT ![t] = [new[t] EXCEPT !.node = next[old[t].node].node]]
    BY <1>0, <1>7 DEF ReadNextNode, Goto, Others
  <2>2. FreeNodes' = FreeNodes /\ \A p : Live(p)' <=> Live(p)
    BY <1>0, <2>1, FreeFrame
  <2>3. pc'[t] \notin PutPC /\ Reading(t)
    BY <2>1 DEF PutPC, Reading
  <2>4. old[t].node = Size - 1 => new'[t] = Null
    <3> SUFFICES ASSUME old[t].node = Size - 1 PROVE new'[t] = Null
      OBVIOUS
    <3>1. new[t].id = 0 /\ next[old[t].node].node = NIL
      BY <1>0, <1>3, <2>1, <2>3 DEF NullCopy
    <3>2. new'[t] = [new[t] EXCEPT !.node = NIL]
      BY <1>0, <2>1, <3>1
    <3> QED  BY <1>0, <3>1, <3>2 DEF DoublePointer
  <2>5. old[t].node = Size - 1 => NullCopy(t)'
    BY <2>1, <2>4 DEF NullCopy
  <2> QED  BY <1>2, <1>3, <2>1, <2>2, <2>3, <2>5, EarlyLocal
<1>8. CASE TakeHead(t) /\ head # old[t] /\ UNCHANGED owned
  <2>1. /\ Others(t) /\ UNCHANGED <<head, next, id, old, new>> /\ pc'[t] = "alloc"
    BY <1>0, <1>8 DEF TakeHead, Goto, Others
  <2>2. FreeNodes' = FreeNodes /\ \A p : Live(p)' <=> Live(p)
    BY <1>0, <2>1, FreeFrame
  <2>3. pc'[t] \notin PutPC /\ ~Reading(t)'
    BY <2>1 DEF PutPC, Reading
  <2> QED  BY <1>2, <1>3, <2>1, <2>2, <2>3, EarlyLocal
<1>9. CASE TakeHead(t) /\ head = old[t] /\ UNCHANGED owned
  <2>1. /\ Others(t) /\ UNCHANGED <<next, id, old, new>> /\ pc'[t] = "clear"
    BY <1>0, <1>9 DEF TakeHead, Goto, Others
  <2>2. /\ \A p : Live(p)' => Live(p)
        /\ head' = next[head.node] /\ head.node \in FreeNodes
        /\ FreeNodes' = FreeNodes \ {head.node}
    BY <1>9, TakenLive
  <2>3. pc'[t] \notin PutPC /\ ~Reading(t)'
    BY <2>1 DEF PutPC, Reading
  <2>4. FreeNodes' = {} \/ Size - 1 \in FreeNodes'
    <3>1. CASE head.node = Size - 1
      <4>1. head'.node = NIL
        BY <1>0, <1>3, <2>2, <3>1
      <4>2. ListOf(Nodes, Link', head'.node, NIL, FreeNodes')
        BY <1>9, TakeHeadInv DEF BufferIInv, BufferList
      <4>3. PICK S : S = FreeNodes'
        OBVIOUS
      <4>4. S = {}
        BY <4>1, <4>2, <4>3, ListFacts
      <4> QED  BY <4>3, <4>4
    <3>2. CASE head.node # Size - 1
      BY <1>3, <2>2, <3>2
    <3> QED  BY <3>1, <3>2
  <2> QED  BY <1>2, <1>3, <2>1, <2>2, <2>3, <2>4, EarlyLocal
<1>10. CASE ReturnBuffer(t)
  <2>1. PICK n \in Nodes : n = old[t].node /\ With(t, n)
    BY <1>10, BufferTypes DEF ReturnBuffer, ClearNext, Goto, With
  <2>2. n \notin FreeNodes
    BY <2>1, WithFacts
  <2>3. /\ Others(t) /\ UNCHANGED <<head, id>> /\ next' = [next EXCEPT ![n] = Null]
        /\ pc'[t] = "idle"
    BY <1>0, <1>10, <2>1 DEF ReturnBuffer, ClearNext, Goto, Others
  <2>4. /\ next' \in [Nodes -> DoublePointer] /\ \A m \in Nodes : m # n => next'[m] = next[m]
        /\ next'[n] = Null
    BY <1>0, <2>3
  <2>5. FreeNodes' = FreeNodes /\ \A p : Live(p)' <=> Live(p)
    BY <1>0, <2>2, <2>3, <2>4, FreeFrame
  <2>6. pc'[t] \notin PutPC /\ ~Reading(t)' /\ next'[Size - 1] = Null
    BY <1>0, <1>3, <2>3, <2>4 DEF PutPC, Reading
  <2> QED  BY <1>2, <1>3, <2>3, <2>5, <2>6, EarlyLocal
<1>11. CASE ReadOldHead(t) \/ LinkId(t) \/ LinkNode(t) \/ PutHead(t)
  BY <1>3, <1>11 DEF ReadOldHead, LinkId, LinkNode, PutHead, Goto, PutPC
<1> QED  BY <1>1, <1>4, <1>5, <1>6, <1>7, <1>8, <1>9, <1>10, <1>11 DEF Step, ListStep

\* Of three threads two are the same.
TwoThreads == \A a, b, c \in Threads : a = b \/ a = c \/ b = c

\* The putter's step, while the reader stays where it is.
LEMMA CollisionPutter ==
  ASSUME BufferIInv, Tags, TwoInv, NEW t \in Threads, NEW u \in Threads, t # u,
         Step(u) \/ AllocBuffer(u) \/ \E n \in Nodes : ReleaseBuffer(u, n),
         pc'[u] \in PutPC, Reading(t)', old'[t] = new'[u]
  PROVE  /\ NullCopy(t)'
         /\ head' = Null /\ next'[new'[u].node] = Null
         /\ pc'[u] # "release" => old'[u] = Null
<1>0. /\ head \in DoublePointer /\ old[u] \in DoublePointer /\ new[u] \in DoublePointer
      /\ next \in [Nodes -> DoublePointer] /\ id \in Nat /\ id >= Size - 1
      /\ FreeNodes \subseteq Nodes /\ Null = [id |-> 0, node |-> NIL]
      /\ NIL \notin Nodes /\ Null \in DoublePointer /\ Size - 1 \in Nat
      /\ (pc[u] \in PutPC => new[u].node \in Nodes)
      /\ pc \in [Threads -> ListPC \cup {"idle"}]
      /\ old \in [Threads -> DoublePointer] /\ new \in [Threads -> DoublePointer]
  BY BufferTypes, FreeListAssumption DEF BufferIInv, TypeOK, ListTypeOK, Tags, Nodes, Null
<1>1. ASSUME NEW n \in Nodes, ReleaseBuffer(u, n)
      PROVE  /\ NullCopy(t)' /\ head' = Null /\ next'[new'[u].node] = Null
             /\ pc'[u] = "release"
  <2>1. /\ Others(u) /\ UNCHANGED <<head, next, old>> /\ owned[n] > 0
        /\ new'[u] = [id |-> id, node |-> n] /\ pc'[u] = "release"
    BY <1>0, <1>1 DEF ReleaseBuffer, FetchId, Goto, Others
  <2>2. pc'[t] = pc[t] /\ old'[t] = old[t] /\ new'[t] = new[t] /\ Reading(t)
    BY <2>1 DEF Others, Reading
  <2>3. old[t].id = id /\ old[t].node = n
    BY <2>1, <2>2
  <2>4. id = Size - 1
    <3>1. Elsewhere(u, id)
      BY <2>3 DEF Elsewhere
    <3> QED  BY <1>0, <3>1 DEF Tags
  <2>5. n = Size - 1 /\ NullCopy(t) /\ next[n] = Null /\ (FreeNodes = {} \/ n \in FreeNodes)
    BY <2>2, <2>3, <2>4 DEF TwoInv, Early
  <2>6. n \notin FreeNodes
    BY <2>1 DEF BufferIInv, OnePlace
  <2>7. head.node = NIL
    BY <2>5, <2>6, ListFacts DEF BufferIInv, BufferList
  <2>8. head = Null
    BY <1>0, <2>7 DEF BufferIInv, NullEnds, Live
  <2> QED  BY <2>1, <2>2, <2>5, <2>8 DEF NullCopy
<1>2. ASSUME Others(u), pc[u] \in PutPC, new' = new
      PROVE  /\ NullCopy(t) /\ NullCopy(t)' /\ head = Null /\ next[new[u].node] = Null
             /\ pc[u] # "release" => old[u] = Null
  <2>1. pc'[t] = pc[t] /\ old'[t] = old[t] /\ new'[t] = new[t] /\ Reading(t)
    BY <1>2 DEF Others, Reading
  <2>2. old[t] = new[u]
    BY <1>2, <2>1
  <2> QED  BY <1>2, <2>1, <2>2 DEF TwoInv, Collision, NullCopy
<1>3. CASE ReadOldHead(u)
  <2>1. /\ Others(u) /\ UNCHANGED <<head, next, new>> /\ old'[u] = head
        /\ pc[u] = "release"
    BY <1>0, <1>3 DEF ReadOldHead, Goto, Others
  <2>2. pc[u] \in PutPC
    BY <2>1 DEF PutPC
  <2> QED  BY <1>2, <2>1, <2>2
<1>4. CASE LinkId(u) \/ LinkNode(u)
  <2>1. Others(u) /\ UNCHANGED <<head, old, new>> /\ pc[u] \in {"linkid", "linknode"}
    BY <1>0, <1>4 DEF LinkId, LinkNode, Goto, Others
  <2>2. pc[u] \in PutPC /\ pc[u] # "release"
    BY <2>1 DEF PutPC
  <2>3. NullCopy(t)' /\ head = Null /\ next[new[u].node] = Null /\ old[u] = Null
    BY <1>2, <2>1, <2>2
  <2>4. PICK n \in Nodes : n = new[u].node
    BY <1>0, <2>2
  <2>5. next' = [next EXCEPT ![n] = Null]
    <3>1. \/ next' = [next EXCEPT ![n] = [next[n] EXCEPT !.id = old[u].id]]
          \/ next' = [next EXCEPT ![n] = [next[n] EXCEPT !.node = old[u].node]]
      BY <1>4, <2>4 DEF LinkId, LinkNode
    <3>2. [Null EXCEPT !.id = Null.id] = Null /\ [Null EXCEPT !.node = Null.node] = Null
      BY <1>0
    <3> QED  BY <2>3, <2>4, <3>1, <3>2
  <2> QED  BY <1>0, <2>1, <2>3, <2>4, <2>5
<1>5. CASE PutHead(u)
  <2>1. pc[u] = "put" /\ (head = old[u] => pc'[u] = "idle")
    BY <1>0, <1>5 DEF PutHead, Goto
  <2>2. pc[u] \in PutPC /\ head # old[u]
    BY <2>1 DEF PutPC
  <2>3. Others(u) /\ new' = new
    BY <1>0, <1>5, <2>2 DEF PutHead, Goto, Others
  <2>4. head = Null /\ old[u] = Null
    BY <1>2, <2>1, <2>2, <2>3
  <2> QED  BY <2>2, <2>4
<1>6. CASE \/ ReadList(u) \/ ReturnBuffer(u) \/ AllocBuffer(u)
           \/ ReadNextId(u) \/ ReadNextNode(u) \/ TakeHead(u)
  <2>1. pc'[u] \in {"idle", "readid", "alloc", "readnode", "take", "clear"}
    BY <1>0, <1>6, ReadsNode DEF ReadList, ReadHead, ReturnBuffer, ClearNext, AllocBuffer,
                                 ReadNextNode, TakeHead, Goto
  <2> QED  BY <2>1 DEF PutPC
<1> QED  BY <1>1, <1>3, <1>4, <1>5, <1>6 DEF Step, ListStep

\* The reader's step, while the putter stays where it is.
LEMMA CollisionReader ==
  ASSUME BufferIInv, Tags, TwoInv, NEW t \in Threads, NEW u \in Threads, t # u,
         Step(t) \/ AllocBuffer(t) \/ \E n \in Nodes : ReleaseBuffer(t, n),
         pc'[u] \in PutPC, Reading(t)', old'[t] = new'[u]
  PROVE  /\ NullCopy(t)'
         /\ head' = Null /\ next'[new'[u].node] = Null
         /\ pc'[u] # "release" => old'[u] = Null
<1>0. /\ head \in DoublePointer /\ old[t] \in DoublePointer /\ new[t] \in DoublePointer
      /\ next \in [Nodes -> DoublePointer] /\ Null = [id |-> 0, node |-> NIL]
      /\ NIL \notin Nodes /\ Null \in DoublePointer
      /\ pc \in [Threads -> ListPC \cup {"idle"}]
      /\ old \in [Threads -> DoublePointer] /\ new \in [Threads -> DoublePointer]
  BY BufferTypes DEF BufferIInv, TypeOK, ListTypeOK, Null
<1>1. CASE ReadList(t)
  <2>1. Others(t) /\ old'[t] = head
    BY <1>0, <1>1 DEF ReadList, ReadHead, Goto, Others
  <2>2. pc[u] \in PutPC /\ new[u] = head
    BY <2>1 DEF Others
  <2>3. new[u].node \in Nodes /\ With(u, new[u].node)
    BY <2>2, BufferTypes DEF With
  <2>4. head.node \in FreeNodes
    BY <1>0, <2>2, <2>3, LiveOnList DEF Live
  <2> QED  BY <2>2, <2>3, <2>4, WithFacts
<1>2. ASSUME Others(t), Reading(t), UNCHANGED <<head, next, old>>
      PROVE  /\ NullCopy(t) /\ head' = Null /\ next'[new'[u].node] = Null
             /\ pc'[u] # "release" => old'[u] = Null
             /\ next[old[t].node] = Null
  <2>1. pc'[u] = pc[u] /\ new'[u] = new[u] /\ old'[u] = old[u]
    BY <1>2 DEF Others
  <2>2. pc[u] \in PutPC /\ old[t] = new[u]
    BY <1>2, <2>1
  <2> QED  BY <1>2, <2>1, <2>2 DEF TwoInv, Collision
<1>3. CASE ReadNextId(t)
  <2>1. /\ Others(t) /\ UNCHANGED <<head, next, old>> /\ new'[t].id = next[old[t].node].id
        /\ pc[t] = "readid" /\ pc'[t] = "readnode"
    BY <1>0, <1>3, ReadsNode DEF ReadNextId, Goto, Others, DoublePointer
  <2>2. Reading(t)
    BY <2>1 DEF Reading
  <2>3. NullCopy(t)'
    BY <1>2, <2>1, <2>2 DEF NullCopy
  <2> QED  BY <1>2, <2>1, <2>2, <2>3
<1>4. CASE ReadNextNode(t)
  <2>1. /\ Others(t) /\ UNCHANGED <<head, next, old>>
        /\ new' = [new EXCEPT ![t] = [new[t] EXCEPT !.node = next[old[t].node].node]]
        /\ pc[t] = "readnode" /\ pc'[t] = "take"
    BY <1>0, <1>4 DEF ReadNextNode, Goto, Others
  <2>2. Reading(t)
    BY <2>1 DEF Reading
  <2>3. new[t].id = 0 /\ next[old[t].node].node = NIL
    BY <1>0, <1>2, <2>1, <2>2 DEF NullCopy
  <2>4. new'[t] = [new[t] EXCEPT !.node = NIL]
    BY <1>0, <2>1, <2>3
  <2>5. new'[t] = Null
    BY <1>0, <2>3, <2>4 DEF DoublePointer
  <2>6. NullCopy(t)'
    BY <2>1, <2>5 DEF NullCopy
  <2> QED  BY <1>2, <2>1, <2>2, <2>6
<1>5. ASSUME NEW n \in Nodes, ReleaseBuffer(t, n) PROVE pc'[t] = "release"
  BY <1>0, <1>5 DEF ReleaseBuffer, FetchId, Goto
<1>6. CASE \/ ReturnBuffer(t) \/ AllocBuffer(t) \/ TakeHead(t)
           \/ ReadOldHead(t) \/ LinkId(t) \/ LinkNode(t) \/ PutHead(t)
  BY <1>0, <1>6 DEF ReturnBuffer, ClearNext, AllocBuffer, TakeHead, ReadOldHead, LinkId,
                    LinkNode, PutHead, Goto, Reading
<1>7. pc'[t] # "release"
  BY DEF Reading
<1> QED  BY <1>1, <1>3, <1>4, <1>5, <1>6, <1>7 DEF Step, ListStep

\* With two threads a reader of the head that is put back has read the truth of it.
LEMMA TwoNoStale ==
  ASSUME BufferIInv, TwoInv, NEW u \in Threads
  PROVE  ~PutsStale(u)
<1> SUFFICES ASSUME NEW t \in Threads, pc[u] = "put", Reading(t), old[t] = new[u]
             PROVE  Knows(t)
  BY Zenon DEF PutsStale
<1>1. pc[u] \in PutPC
  BY DEF PutPC
<1>2. NullCopy(t) /\ next[old[t].node] = Null
  BY <1>1 DEF TwoInv, Collision
<1> QED  BY <1>2 DEF NullCopy, Knows

\* The invariant of a pool that two threads use.
TwoIInv == ~reused /\ BufferIInv /\ Tags /\ TwoInv

\* Every step of one of the two.
LEMMA TwoNext == TwoThreads /\ TwoIInv /\ [Next]_vars => TwoIInv'
<1> SUFFICES ASSUME TwoThreads, ~reused, BufferIInv, Tags, TwoInv, [Next]_vars PROVE TwoIInv'
  BY DEF TwoIInv
<1>0. ~reused'
  BY TwoNoStale, Zenon DEF Next, Step, AllocBuffer, ReleaseBuffer, vars
<1>1. ~reused' /\ BufferIInv' /\ Tags'
  BY <1>0, BufferStep, TagsNext
<1>2. ASSUME NEW w \in Threads,
             Step(w) \/ AllocBuffer(w) \/ \E n \in Nodes : ReleaseBuffer(w, n)
      PROVE  TwoInv'
  <2>1. Early'
    BY <1>2, EarlyNext DEF TwoInv
  <2>2. ASSUME NEW t \in Threads, NEW u \in Threads,
               pc'[u] \in PutPC, Reading(t)', old'[t] = new'[u]
        PROVE  /\ NullCopy(t)'
               /\ head' = Null /\ next'[new'[u].node] = Null
               /\ pc'[u] # "release" => old'[u] = Null
    <3>1. t # u
      BY <2>2 DEF Reading, PutPC
    <3>2. w = t \/ w = u
      BY <3>1 DEF TwoThreads
    <3>3. CASE w = t
      BY <1>2, <2>2, <3>1, <3>3, CollisionReader
    <3>4. CASE w = u
      BY <1>2, <2>2, <3>1, <3>4, CollisionPutter
    <3> QED  BY <3>2, <3>3, <3>4
  <2> QED  BY <2>1, <2>2 DEF TwoInv, Collision
<1>3. CASE UNCHANGED vars
  <2>1. UNCHANGED <<head, next, id, pc, old, new>>
    BY <1>3 DEF vars, listVars
  <2>2. FreeNodes' = FreeNodes
    BY <2>1 DEF FreeNodes, NodesFrom
  <2>3. /\ \A p : Live(p)' <=> Live(p)
        /\ \A t : (Reading(t)' <=> Reading(t)) /\ (NullCopy(t)' <=> NullCopy(t))
    BY <2>1, <2>2 DEF Live, Reading, NullCopy
  <2>4. Early'
    BY <2>1, <2>2, <2>3 DEF TwoInv, Early
  <2>5. Collision'
    BY <2>1, <2>3 DEF TwoInv, Collision
  <2> QED  BY <1>1, <2>4, <2>5 DEF TwoInv, TwoIInv
<1> QED  BY <1>1, <1>2, <1>3 DEF TwoIInv, Next

\* The initial list is one before the first release.
LEMMA TwoInit == Init => TwoIInv
<1> SUFFICES ASSUME Init PROVE TwoIInv
  OBVIOUS
<1>1. ~reused /\ BufferIInv /\ Tags
  BY BufferInit, TagsInit DEF Init
<1>2. /\ \A t \in Threads : pc[t] = "idle"
      /\ head = [id |-> 0, node |-> 0]
      /\ \A n \in Nodes : next[n] = IF n = Size - 1 THEN Null ELSE [id |-> n + 1, node |-> n + 1]
      /\ Size - 1 \in Nodes
  BY FreeListAssumption DEF Init, ListInit, Nodes
<1>3. \A t \in Threads : ~Reading(t) /\ pc[t] \notin PutPC
  BY <1>2 DEF Reading, PutPC
<1>4. Size - 1 \in FreeNodes
  <2>1. owned[Size - 1] = 0
    BY <1>2 DEF Init
  <2> QED  BY <1>1, <1>2, <1>3, <2>1 DEF BufferIInv, OnePlace, With
<1>5. \A p \in DoublePointer : Live(p) /\ p # Null => p.id = p.node
  <2>1. FreeNodes \subseteq Nodes
    BY <1>1, ListFacts DEF BufferIInv, BufferList
  <2>2. \A n \in FreeNodes : next[n] # Null => next[n].id = next[n].node
    <3> SUFFICES ASSUME NEW n \in FreeNodes, next[n] # Null PROVE next[n].id = next[n].node
      OBVIOUS
    <3>1. next[n] = [id |-> n + 1, node |-> n + 1]
      BY <1>2, <2>1
    <3> QED  BY <3>1
  <2> QED  BY <1>2, <2>2 DEF Live
<1>6. Early
  BY <1>2, <1>3, <1>4, <1>5 DEF Early
<1>7. Collision
  BY <1>3 DEF Collision
<1> QED  BY <1>1, <1>6, <1>7 DEF TwoIInv, TwoInv

\* With at most two threads no stale head is put back at all, although the first
\* tag is handed out twice.
THEOREM TwoThreadsNeverReuse == ASSUME TwoThreads PROVE SafetySpec => []~reused
<1>1. TwoIInv /\ [Next]_vars => TwoIInv'
  BY TwoNext
<1>2. TwoIInv => ~reused
  BY DEF TwoIInv
<1> QED  BY <1>1, <1>2, TwoInit, PTL DEF SafetySpec

-----------------------------------------------------------------------------
\* The list queue.

PopPC == {"readout", "popin", "popnext", "pophelp", "readdata", "advance", "drop"}

ListQueueTypes ==
  /\ ListTypeOK
  /\ pc \in [Threads -> InPush \cup PopPC \cup PutPC \cup {"idle"}]
  /\ in \in DoublePointer /\ out \in DoublePointer
  /\ qid \in Nat /\ count \in Nat
  /\ data \in [Nodes -> Nat]
  /\ quota \in [Threads -> [push : Nat, pops : BOOLEAN]] /\ item \in [Threads -> Nat]
  /\ inL \in [Threads -> DoublePointer] /\ outL \in [Threads -> DoublePointer]
  /\ nextL \in [Threads -> DoublePointer] /\ mine \in [Threads -> DoublePointer]
  /\ pushed \in Seq(Nat) /\ popped \in Seq(Nat)

\* A thread inside Push.
Producer(t) == pc[t] \in InPush

\* Push has its node ready and not yet linked.
Filled(t) == pc[t] \in {"readin", "tailnext", "link"}

\* Node n is with t, in a call that has taken it off one list and not put it on the other.
Carries(t, n) ==
  \/ pc[t] = "clear" /\ old[t].node = n
  \/ (pc[t] = "fill" \/ Filled(t)) /\ mine[t].node = n
  \/ pc[t] = "drop" /\ outL[t].node = n
  \/ pc[t] \in PutPC /\ new[t].node = n

SoleProducer == \A t, u \in Threads : Producer(t) /\ Producer(u) => t = u

\* The unused list is one, and a null node is in the null pointer only.
UnusedList ==
  /\ ListOf(Nodes, Link, head.node, NIL, FreeNodes)
  /\ \A p \in DoublePointer : Live(p) /\ p.node = NIL => p = Null

\* What a thread inside the unused list's code knows: nobody else takes a node.
UnusedKnows(t) ==
  /\ old[t].node = NIL => old[t] = Null
  /\ Reading(t) => old[t].node \in FreeNodes /\ Knows(t)
  /\ pc[t] = "clear" => old[t].node # NIL
  /\ pc[t] = "fill" \/ Filled(t) => mine[t].node # NIL
  /\ Filled(t) => next[mine[t].node] = Null /\ data[mine[t].node] = item[t]
  /\ pc[t] \in PutPC => new[t].node # NIL
  /\ pc[t] = "linknode" => next[new[t].node].id = old[t].id
  /\ pc[t] = "put" => next[new[t].node] = old[t]

\* The queue: the pointers from out_ on, under increasing tags.
QueueChain(q) ==
  /\ q \in Seq(DoublePointer) /\ Len(q) > 0 /\ q[1] = out
  /\ \A i \in 1..Len(q) :
       q[i].node \in Nodes /\ next[q[i].node] = IF i = Len(q) THEN Null ELSE q[i + 1]
  /\ \A i, j \in 1..Len(q) : q[i].node = q[j].node => i = j
  /\ \A i, j \in 1..Len(q) : i < j => q[i].id < q[j].id

\* A tag of the queue has been handed out before, and that of the node to be linked last.
QueueTags(q) ==
  /\ \A i \in 1..Len(q) : q[i].id < qid
  /\ \A i \in 1..Len(q), t \in Threads : Filled(t) => q[i].id < mine[t].id
  /\ \A t \in Threads : Filled(t) => mine[t].id < qid

\* What was pushed and not popped is in the queue.
QueueItems(q) ==
  pushed = popped \o [i \in 1..(Len(q) - 1) |-> data[q[i + 1].node]]

\* in_ points to the last node, or to the one before it while Push is about to move it.
QueueIn(q) ==
  /\ \/ in = q[Len(q)]
     \/ Len(q) > 1 /\ in = q[Len(q) - 1] /\ \E t \in Threads : pc[t] = "swing" /\ inL[t] = in
  /\ \A t \in Threads : pc[t] = "swing" => mine[t] = q[Len(q)] /\ inL[t].id < mine[t].id
  /\ \A t \in Threads : pc[t] \in {"tailnext", "link"} => inL[t] = in
  /\ \A t \in Threads : pc[t] # "help"

\* A node is in one place.
QueuePlaces(q) ==
  /\ \A i \in 1..Len(q) : q[i].node \notin FreeNodes /\ \A t \in Threads : ~Carries(t, q[i].node)
  /\ \A n \in FreeNodes, t \in Threads : ~Carries(t, n)
  /\ \A n \in Nodes, t, u \in Threads : Carries(t, n) /\ Carries(u, n) => t = u
  /\ \A n \in Nodes : \/ n \in FreeNodes \/ \E t \in Threads : Carries(t, n)
                      \/ \E i \in 1..Len(q) : q[i].node = n

\* What Pop has read is true as long as out_ is what it has read.
PopKnows(t) ==
  /\ pc[t] \in PopPC \ {"readout"} => outL[t].node \in Nodes
  /\ pc[t] \in PopPC \ {"readout", "drop"} =>
       outL[t].id <= out.id /\ (outL[t].id = out.id => outL[t] = out)
  /\ pc[t] = "popnext" /\ outL[t] = out /\ inL[t] # outL[t] => in.id > out.id
  /\ pc[t] = "pophelp" => inL[t] = outL[t]
  /\ pc[t] \in {"readdata", "advance"} /\ outL[t] = out => in.id > out.id
  /\ pc[t] \in {"pophelp", "readdata", "advance"} /\ outL[t] = out =>
       nextL[t] = next[out.node] /\ nextL[t] # Null
  /\ pc[t] = "advance" /\ outL[t] = out => item[t] = data[nextL[t].node]

QueueParts(q) == QueueChain(q) /\ QueueTags(q) /\ QueueItems(q) /\ QueueIn(q) /\ QueuePlaces(q)

ListQueueIInv ==
  /\ ListQueueTypes /\ SoleProducer /\ UnusedList
  /\ \A t \in Threads : UnusedKnows(t) /\ PopKnows(t)
  /\ \E q \in Seq(DoublePointer) : QueueParts(q)

-----------------------------------------------------------------------------
\* What the step of thread t leaves to the others.
OtherCalls(t) ==
  \A u \in Threads : u # t =>
    /\ pc'[u] = pc[u] /\ old'[u] = old[u] /\ new'[u] = new[u] /\ quota'[u] = quota[u]
    /\ inL'[u] = inL[u] /\ outL'[u] = outL[u] /\ nextL'[u] = nextL[u]
    /\ mine'[u] = mine[u] /\ item'[u] = item[u]

\* The types of what the steps use.
LEMMA ListQueueFacts ==
  ASSUME ListQueueIInv, NEW t \in Threads
  PROVE  /\ head \in DoublePointer /\ in \in DoublePointer /\ out \in DoublePointer
         /\ old[t] \in DoublePointer /\ new[t] \in DoublePointer /\ mine[t] \in DoublePointer
         /\ inL[t] \in DoublePointer /\ outL[t] \in DoublePointer /\ nextL[t] \in DoublePointer
         /\ next \in [Nodes -> DoublePointer] /\ id \in Nat /\ qid \in Nat
         /\ data \in [Nodes -> Nat] /\ FreeNodes \subseteq Nodes
         /\ NIL \notin Nodes /\ Null \in DoublePointer /\ Null.node = NIL
<1>1. /\ head \in DoublePointer /\ in \in DoublePointer /\ out \in DoublePointer
      /\ old[t] \in DoublePointer /\ new[t] \in DoublePointer /\ mine[t] \in DoublePointer
      /\ inL[t] \in DoublePointer /\ outL[t] \in DoublePointer /\ nextL[t] \in DoublePointer
      /\ next \in [Nodes -> DoublePointer] /\ id \in Nat /\ qid \in Nat /\ data \in [Nodes -> Nat]
  BY DEF ListQueueIInv, ListQueueTypes, ListTypeOK
<1>2. FreeNodes \subseteq Nodes
  BY ListFacts DEF ListQueueIInv, UnusedList
<1>3. NIL \notin Nodes /\ Null \in DoublePointer /\ Null.node = NIL
  BY FreeListAssumption DEF Nodes, NIL, Null, DoublePointer
<1> QED  BY <1>1, <1>2, <1>3

\* No other thread becomes a producer, and t only if nobody is.
LEMMA SoleFrame ==
  ASSUME SoleProducer, NEW t \in Threads, OtherCalls(t),
         Producer(t)' => Producer(t) \/ \A u \in Threads : ~Producer(u)
  PROVE  SoleProducer'
<1>1. \A u \in Threads : u # t => (Producer(u)' => Producer(u))
  BY DEF OtherCalls, Producer
<1> QED  BY <1>1 DEF SoleProducer

\* A step that does not touch the unused list leaves it as it is.
LEMMA UnusedFrame ==
  ASSUME UnusedList, head' = head, next' \in [Nodes -> DoublePointer],
         \A n \in FreeNodes : next'[n] = next[n]
  PROVE  FreeNodes' = FreeNodes /\ UnusedList'
<1>1. ListOf(Nodes, Link, head.node, NIL, FreeNodes)
  BY DEF UnusedList
<1>2. FreeNodes \subseteq Nodes
  BY <1>1, ListFacts
<1>3. PICK S : S = FreeNodes
  OBVIOUS
<1>4. \A n \in S : Link'[n] = Link[n]
  BY <1>2, <1>3 DEF Link
<1>5. ListOf(Nodes, Link', head'.node, NIL, S)
  BY <1>1, <1>3, <1>4, ListFrame
<1>6. FreeNodes' = S
  BY <1>5, FreeIs DEF FreeNodes, NodesFrom, Link
<1>7. \A p : Live(p)' <=> Live(p)
  BY <1>3, <1>6 DEF Live
<1> QED  BY <1>3, <1>5, <1>6, <1>7 DEF UnusedList

\* What the others know of the unused list stays true if nobody else touches their nodes.
LEMMA UnusedOthers ==
  ASSUME \A u \in Threads : UnusedKnows(u), NEW t \in Threads, OtherCalls(t),
         \A u \in Threads : u # t /\ Reading(u) =>
           old[u].node \in FreeNodes' /\ next'[old[u].node] = next[old[u].node],
         \A u \in Threads : u # t /\ pc[u] \in PutPC => next'[new[u].node] = next[new[u].node],
         \A u \in Threads : u # t /\ Filled(u) => /\ next'[mine[u].node] = next[mine[u].node]
                                                 /\ data'[mine[u].node] = data[mine[u].node]
  PROVE  \A u \in Threads : u # t => UnusedKnows(u)'
<1> SUFFICES ASSUME NEW u \in Threads, u # t PROVE UnusedKnows(u)'
  OBVIOUS
<1>1. UnusedKnows(u)
  OBVIOUS
<1>2. /\ pc'[u] = pc[u] /\ old'[u] = old[u] /\ new'[u] = new[u] /\ mine'[u] = mine[u]
      /\ item'[u] = item[u]
  BY DEF OtherCalls
<1>3. Reading(u)' => old'[u].node \in FreeNodes' /\ Knows(u)'
  <2> SUFFICES ASSUME Reading(u)' PROVE old'[u].node \in FreeNodes' /\ Knows(u)'
    OBVIOUS
  <2>1. Reading(u)
    BY <1>2 DEF Reading
  <2>2. Knows(u)
    BY <1>1, <2>1 DEF UnusedKnows
  <2>3. old[u].node \in FreeNodes' /\ next'[old[u].node] = next[old[u].node]
    BY <2>1
  <2> QED  BY <1>2, <2>2, <2>3 DEF Knows
<1>4. pc[u] \in PutPC => next'[new[u].node] = next[new[u].node]
  OBVIOUS
<1>5. Filled(u)' => /\ Filled(u) /\ next'[mine[u].node] = next[mine[u].node]
                    /\ data'[mine[u].node] = data[mine[u].node]
  BY <1>2 DEF Filled
<1>6. Filled(u)' => next'[mine'[u].node] = Null /\ data'[mine'[u].node] = item'[u]
  BY <1>1, <1>2, <1>5 DEF UnusedKnows
<1> QED  BY <1>1, <1>2, <1>3, <1>4, <1>6 DEF UnusedKnows, Filled, PutPC

\* What the others know of the queue stays true while out_ is the same, or they notice.
LEMMA PopOthers ==
  ASSUME ListQueueTypes, ListQueueTypes', \A u \in Threads : PopKnows(u),
         NEW t \in Threads, OtherCalls(t),
         \/ /\ out' = out /\ in.id <= in'.id
            /\ next[out.node] # Null => /\ next'[out.node] = next[out.node]
                                        /\ data'[next[out.node].node] = data[next[out.node].node]
         \/ out.id < out'.id
  PROVE  \A u \in Threads : u # t => PopKnows(u)'
<1> SUFFICES ASSUME NEW u \in Threads, u # t PROVE PopKnows(u)'
  OBVIOUS
<1>1. PopKnows(u)
  OBVIOUS
<1>2. /\ pc'[u] = pc[u] /\ outL'[u] = outL[u] /\ inL'[u] = inL[u] /\ nextL'[u] = nextL[u]
      /\ item'[u] = item[u]
  BY DEF OtherCalls
<1>3. out.id \in Nat /\ out'.id \in Nat /\ outL[u].id \in Nat /\ in.id \in Nat /\ in'.id \in Nat
  BY DEF ListQueueTypes, DoublePointer
<1>4. CASE out.id < out'.id
  <2>1. pc[u] \in PopPC \ {"readout", "drop"} => outL[u].id < out'.id
    BY <1>1, <1>3, <1>4 DEF PopKnows
  <2>2. pc[u] \in PopPC \ {"readout", "drop"} => outL[u] # out'
    BY <1>3, <2>1
  <2>3. pc[u] \in PopPC \ {"readout", "drop"} =>
          outL[u].id <= out'.id /\ (outL[u].id = out'.id => outL[u] = out')
    BY <1>3, <2>1
  <2> QED  BY <1>1, <1>2, <2>2, <2>3 DEF PopKnows, PopPC
<1>5. CASE /\ out' = out /\ in.id <= in'.id
           /\ next[out.node] # Null => /\ next'[out.node] = next[out.node]
                                       /\ data'[next[out.node].node] = data[next[out.node].node]
  <2>1. in.id > out.id => in'.id > out'.id
    BY <1>3, <1>5
  <2>2. /\ pc[u] = "popnext" /\ outL[u] = out /\ inL[u] # outL[u] => in'.id > out'.id
        /\ pc[u] \in {"readdata", "advance"} /\ outL[u] = out => in'.id > out'.id
    BY <1>1, <2>1 DEF PopKnows
  <2>3. pc[u] \in {"pophelp", "readdata", "advance"} /\ outL[u] = out =>
          nextL[u] = next'[out.node] /\ nextL[u] # Null
    BY <1>1, <1>5 DEF PopKnows
  <2>4. pc[u] = "advance" /\ outL[u] = out => item[u] = data'[nextL[u].node]
    BY <1>1, <1>5 DEF PopKnows
  <2> QED  BY <1>1, <1>2, <1>5, <2>2, <2>3, <2>4 DEF PopKnows
<1> QED  BY <1>4, <1>5

\* The queue is the same if no node of it and neither end is touched.
LEMMA QueueSide ==
  ASSUME NEW q \in Seq(DoublePointer), QueueParts(q), ListQueueTypes, ListQueueTypes',
         NEW t \in Threads, OtherCalls(t), UNCHANGED <<in, out, pushed, popped>>, qid <= qid',
         \A i \in 1..Len(q) : /\ next'[q[i].node] = next[q[i].node]
                              /\ data'[q[i].node] = data[q[i].node],
         Filled(t)' => \/ Filled(t) /\ mine'[t] = mine[t]
                       \/ qid <= mine'[t].id /\ mine'[t].id < qid',
         pc'[t] = "swing" <=> pc[t] = "swing",
         pc[t] = "swing" => inL'[t] = inL[t] /\ mine'[t] = mine[t],
         pc'[t] \in {"tailnext", "link"} => inL'[t] = in,
         pc'[t] # "help"
  PROVE  QueueChain(q)' /\ QueueTags(q)' /\ QueueItems(q)' /\ QueueIn(q)'
<1>0. QueueChain(q) /\ QueueTags(q) /\ QueueItems(q) /\ QueueIn(q)
  BY DEF QueueParts
<1>1. QueueChain(q)'
  BY <1>0 DEF QueueChain
<1>2. /\ Len(q) \in Nat /\ qid \in Nat /\ qid' \in Nat
      /\ \A i \in 1..Len(q) : q[i] \in DoublePointer
      /\ \A i \in 1..Len(q) : q[i].id \in Nat
      /\ \A u \in Threads : mine[u].id \in Nat /\ mine'[u].id \in Nat
  <2>1. Len(q) \in Nat /\ \A i \in 1..Len(q) : q[i] \in DoublePointer
    OBVIOUS
  <2>2. \A u \in Threads : mine[u].id \in Nat /\ mine'[u].id \in Nat
    BY DEF ListQueueTypes, DoublePointer
  <2>3. qid \in Nat /\ qid' \in Nat
    BY DEF ListQueueTypes
  <2> QED  BY <2>1, <2>2, <2>3 DEF DoublePointer
<1>3. QueueTags(q)'
  <2>1. \A i \in 1..Len(q) : q[i].id < qid
    BY <1>0 DEF QueueTags
  <2>2. \A i \in 1..Len(q) : q[i].id < qid'
    BY <1>2, <2>1
  <2>3. ASSUME NEW u \in Threads, Filled(u)'
        PROVE  mine'[u].id < qid' /\ \A i \in 1..Len(q) : q[i].id < mine'[u].id
    <3>1. CASE Filled(u) /\ mine'[u] = mine[u]
      <4>1. mine[u].id < qid /\ \A i \in 1..Len(q) : q[i].id < mine[u].id
        BY <1>0, <3>1 DEF QueueTags
      <4> QED  BY <1>2, <3>1, <4>1
    <3>2. CASE u = t /\ qid <= mine'[t].id /\ mine'[t].id < qid'
      BY <1>2, <2>1, <3>2
    <3>3. CASE u # t
      BY <2>3, <3>1, <3>3 DEF OtherCalls, Filled
    <3> QED  BY <2>3, <3>1, <3>2, <3>3
  <2> QED  BY <2>2, <2>3 DEF QueueTags
<1>4. QueueItems(q)'
  <2>1. \A i \in 1..(Len(q) - 1) : data'[q[i + 1].node] = data[q[i + 1].node]
    BY <1>2
  <2>2. [i \in 1..(Len(q) - 1) |-> data'[q[i + 1].node]]
          = [i \in 1..(Len(q) - 1) |-> data[q[i + 1].node]]
    BY <2>1
  <2> QED  BY <1>0, <2>2 DEF QueueItems
<1>5. QueueIn(q)'
  <2>1. \A u \in Threads : pc'[u] = "swing" <=> pc[u] = "swing"
    BY DEF OtherCalls
  <2>2. \A u \in Threads : pc[u] = "swing" => inL'[u] = inL[u] /\ mine'[u] = mine[u]
    BY DEF OtherCalls
  <2>3. \A u \in Threads : pc'[u] \in {"tailnext", "link"} => inL'[u] = in
    BY <1>0 DEF QueueIn, OtherCalls
  <2>4. \A u \in Threads : pc'[u] # "help"
    BY <1>0 DEF QueueIn, OtherCalls
  <2>5. \/ in = q[Len(q)]
        \/ Len(q) > 1 /\ in = q[Len(q) - 1] /\ \E u \in Threads : pc'[u] = "swing" /\ inL'[u] = in
    BY <1>0, <2>1, <2>2 DEF QueueIn
  <2>6. \A u \in Threads : pc'[u] = "swing" => mine'[u] = q[Len(q)] /\ inL'[u].id < mine'[u].id
    BY <1>0, <2>1, <2>2 DEF QueueIn
  <2> QED  BY <2>3, <2>4, <2>5, <2>6 DEF QueueIn
<1> QED  BY <1>1, <1>3, <1>4, <1>5

\* The others carry what they carried.
LEMMA CarriesOthers ==
  ASSUME NEW t \in Threads, OtherCalls(t)
  PROVE  \A u \in Threads : u # t => \A n : Carries(u, n)' <=> Carries(u, n)
<1> SUFFICES ASSUME NEW u \in Threads, u # t, NEW n PROVE Carries(u, n)' <=> Carries(u, n)
  OBVIOUS
<1> QED  BY DEF OtherCalls, Carries, Filled

\* No node moves.
LEMMA PlacesSame ==
  ASSUME NEW q \in Seq(DoublePointer), QueueChain(q), QueuePlaces(q), FreeNodes' = FreeNodes,
         FreeNodes \subseteq Nodes, NEW t \in Threads, OtherCalls(t),
         \A n \in Nodes : Carries(t, n)' <=> Carries(t, n)
  PROVE  QueuePlaces(q)'
<1>1. \A u \in Threads, n \in Nodes : Carries(u, n)' <=> Carries(u, n)
  BY CarriesOthers
<1>2. \A i \in 1..Len(q) : q[i].node \in Nodes
  BY DEF QueueChain
<1>3. \A i \in 1..Len(q) : q[i].node \notin FreeNodes /\ \A u \in Threads : ~Carries(u, q[i].node)'
  BY <1>1, <1>2, Zenon DEF QueuePlaces
<1>4. \A n \in FreeNodes, u \in Threads : ~Carries(u, n)'
  BY <1>1, Zenon DEF QueuePlaces
<1>5. \A n \in Nodes, u, v \in Threads : Carries(u, n)' /\ Carries(v, n)' => u = v
  BY <1>1, Zenon DEF QueuePlaces
<1>6. \A n \in Nodes : \/ n \in FreeNodes \/ \E u \in Threads : Carries(u, n)'
                       \/ \E i \in 1..Len(q) : q[i].node = n
  BY <1>1, Zenon DEF QueuePlaces
<1> QED  BY <1>3, <1>4, <1>5, <1>6 DEF QueuePlaces

\* A step that moves no node and neither end of the queue keeps the invariant if the
\* thread's own part holds.
LEMMA LocalStep ==
  ASSUME ListQueueIInv, ListQueueTypes', NEW t \in Threads, OtherCalls(t),
         UNCHANGED <<head, in, out, pushed, popped>>, qid <= qid',
         \A n \in Nodes : next'[n] # next[n] \/ data'[n] # data[n] => Carries(t, n),
         \A n \in Nodes : Carries(t, n)' <=> Carries(t, n),
         Producer(t)' => Producer(t) \/ \A u \in Threads : ~Producer(u),
         Filled(t)' => \/ Filled(t) /\ mine'[t] = mine[t]
                       \/ qid <= mine'[t].id /\ mine'[t].id < qid',
         pc'[t] = "swing" <=> pc[t] = "swing",
         pc[t] = "swing" => inL'[t] = inL[t] /\ mine'[t] = mine[t],
         pc'[t] \in {"tailnext", "link"} => inL'[t] = in,
         pc'[t] # "help",
         FreeNodes' = FreeNodes => UnusedKnows(t)', PopKnows(t)'
  PROVE  ListQueueIInv'
<1>0. /\ ListQueueTypes /\ SoleProducer /\ UnusedList
      /\ \A u \in Threads : UnusedKnows(u) /\ PopKnows(u)
      /\ FreeNodes \subseteq Nodes
  BY ListQueueFacts DEF ListQueueIInv
<1>1. PICK q \in Seq(DoublePointer) : QueueParts(q)
  BY DEF ListQueueIInv
<1>2. QueueChain(q) /\ QueuePlaces(q)
  BY <1>1 DEF QueueParts
<1>3. \A n \in FreeNodes : next'[n] = next[n] /\ data'[n] = data[n]
  BY <1>0, <1>2 DEF QueuePlaces
<1>4. FreeNodes' = FreeNodes /\ UnusedList'
  <2>1. next' \in [Nodes -> DoublePointer]
    BY DEF ListQueueTypes, ListTypeOK
  <2> QED  BY <1>0, <1>3, <2>1, UnusedFrame
<1>5. \A i \in 1..Len(q) : q[i].node \in Nodes /\ ~Carries(t, q[i].node)
  BY <1>2 DEF QueueChain, QueuePlaces
<1>6. \A i \in 1..Len(q) : next'[q[i].node] = next[q[i].node] /\ data'[q[i].node] = data[q[i].node]
  BY <1>5
<1>7. QueueChain(q)' /\ QueueTags(q)' /\ QueueItems(q)' /\ QueueIn(q)'
  BY <1>0, <1>1, <1>6, QueueSide
<1>8. QueuePlaces(q)'
  BY <1>0, <1>2, <1>4, PlacesSame
<1>9. SoleProducer'
  BY <1>0, SoleFrame
<1>10. \A u \in Threads : u # t => UnusedKnows(u)'
  <2>1. ASSUME NEW u \in Threads, u # t, Reading(u)
        PROVE  old[u].node \in FreeNodes' /\ next'[old[u].node] = next[old[u].node]
    BY <1>0, <1>3, <1>4, <2>1 DEF UnusedKnows
  <2>2. ASSUME NEW u \in Threads, u # t, pc[u] \in PutPC
        PROVE  next'[new[u].node] = next[new[u].node]
    <3>1. new[u].node \in Nodes
      BY <1>0, <2>2, ListQueueFacts DEF UnusedKnows, DoublePointer
    <3>2. Carries(u, new[u].node)
      BY <2>2 DEF Carries
    <3>3. ~Carries(t, new[u].node)
      BY <1>2, <2>2, <3>1, <3>2 DEF QueuePlaces
    <3> QED  BY <3>1, <3>3
  <2>3. ASSUME NEW u \in Threads, u # t, Filled(u)
        PROVE  next'[mine[u].node] = next[mine[u].node] /\ data'[mine[u].node] = data[mine[u].node]
    <3>1. mine[u].node \in Nodes
      BY <1>0, <2>3, ListQueueFacts DEF UnusedKnows, DoublePointer
    <3>2. Carries(u, mine[u].node)
      BY <2>3 DEF Carries
    <3>3. ~Carries(t, mine[u].node)
      BY <1>2, <2>3, <3>1, <3>2 DEF QueuePlaces
    <3> QED  BY <3>1, <3>3
  <2> QED  BY <1>0, <2>1, <2>2, <2>3, UnusedOthers
<1>11. \A u \in Threads : u # t => PopKnows(u)'
  <2>1. in.id <= in'.id
    BY <1>0 DEF ListQueueTypes, DoublePointer
  <2>2. out = q[1] /\ 1 \in 1..Len(q) /\ (1 # Len(q) => 2 \in 1..Len(q))
    <3>1. Len(q) \in Nat
      OBVIOUS
    <3>2. Len(q) > 0 /\ q[1] = out
      BY <1>2 DEF QueueChain
    <3>3. \A m \in Nat : m > 0 => 1 \in 1..m /\ (1 # m => 2 \in 1..m)
      OBVIOUS
    <3> QED  BY <3>1, <3>2, <3>3
  <2>3. next[q[1].node] = IF 1 = Len(q) THEN Null ELSE q[2]
    BY <1>2, <2>2 DEF QueueChain
  <2>4. next[out.node] # Null =>
          next'[out.node] = next[out.node] /\ data'[next[out.node].node] = data[next[out.node].node]
    BY <1>6, <2>2, <2>3
  <2> QED  BY <1>0, <2>1, <2>4, PopOthers
<1>12. \A u \in Threads : UnusedKnows(u)' /\ PopKnows(u)'
  BY <1>4, <1>10, <1>11
<1>13. QueueParts(q)'
  BY <1>7, <1>8 DEF QueueParts
<1> QED  BY <1>4, <1>9, <1>12, <1>13 DEF ListQueueIInv

\* The steps of Pop that only read.
LEMMA PopStep ==
  ASSUME ListQueueIInv, ListQueueTypes', NEW t \in Threads, OtherCalls(t),
         UNCHANGED <<head, next, in, out, qid, data, pushed, popped>>,
         pc[t] \in (PopPC \ {"drop"}) \cup {"idle"}, pc'[t] \in (PopPC \ {"drop"}) \cup {"idle"},
         old'[t] = old[t], new'[t] = new[t], mine'[t] = mine[t], quota'[t] = quota[t],
         PopKnows(t)'
  PROVE  ListQueueIInv'
<1>1. UnusedKnows(t)
  BY DEF ListQueueIInv
<1>2. UnusedKnows(t)'
  BY <1>1 DEF UnusedKnows, Filled, Reading, PutPC, PopPC
<1>3. \A n \in Nodes : Carries(t, n)' <=> Carries(t, n)
  BY DEF Carries, Filled, PutPC, PopPC
<1>4. Producer(t)' => Producer(t)
  BY DEF Producer, InPush, PopPC
<1>5. ~Filled(t)' /\ pc'[t] # "swing" /\ pc[t] # "swing" /\ pc'[t] \notin {"tailnext", "link", "help"}
  BY DEF Filled, PopPC
<1>6. qid <= qid'
  BY DEF ListQueueIInv, ListQueueTypes
<1> QED  BY <1>2, <1>3, <1>4, <1>5, <1>6, LocalStep

\* A thread enters Pop.
LEMMA PopCallInv ==
  ASSUME ListQueueIInv, NEW t \in Threads, Pop(t)
  PROVE  ListQueueIInv'
<1>1. ListQueueTypes'
  BY DEF ListQueueIInv, ListQueueTypes, ListTypeOK, Pop, Goto, PopPC, queueVars
<1>2. /\ OtherCalls(t) /\ pc[t] = "idle" /\ pc'[t] = "readout"
      /\ UNCHANGED <<head, next, in, out, qid, data, pushed, popped, old, new, mine, quota>>
  BY DEF ListQueueIInv, ListQueueTypes, Pop, Goto, OtherCalls, queueVars
<1>3. PopKnows(t)'
  BY <1>2 DEF PopKnows, PopPC
<1> QED  BY <1>1, <1>2, <1>3, PopStep DEF PopPC

\* Pop reads out_: what it knows of it starts to hold.
LEMMA ReadOutInv ==
  ASSUME ListQueueIInv, NEW t \in Threads, ReadOut(t)
  PROVE  ListQueueIInv'
<1>1. ListQueueTypes'
  BY DEF ListQueueIInv, ListQueueTypes, ListTypeOK, ReadOut, Goto, PopPC
<1>2. /\ OtherCalls(t) /\ pc[t] = "readout" /\ pc'[t] = "popin" /\ outL'[t] = out
      /\ UNCHANGED <<head, next, in, out, qid, data, pushed, popped, old, new, mine, quota>>
  BY DEF ListQueueIInv, ListQueueTypes, ReadOut, Goto, OtherCalls
<1>3. out.node \in Nodes /\ out.id \in Nat
  <2>1. PICK q \in Seq(DoublePointer) : QueueParts(q)
    BY DEF ListQueueIInv
  <2>2. out = q[1] /\ 1 \in 1..Len(q) /\ q[1].node \in Nodes
    BY <2>1 DEF QueueParts, QueueChain
  <2> QED  BY <2>2, ListQueueFacts DEF DoublePointer
<1>4. PopKnows(t)'
  BY <1>2, <1>3 DEF PopKnows, PopPC
<1> QED  BY <1>1, <1>2, <1>4, PopStep DEF PopPC

\* in_ is not behind out_.
LEMMA InAhead ==
  ASSUME ListQueueIInv
  PROVE  out.id <= in.id /\ (in.id = out.id => in = out)
<1>1. PICK q \in Seq(DoublePointer) : QueueParts(q)
  BY DEF ListQueueIInv
<1>2. /\ Len(q) \in Nat /\ Len(q) > 0 /\ out = q[1]
      /\ \A i, j \in 1..Len(q) : i < j => q[i].id < q[j].id
      /\ in = q[Len(q)] \/ (Len(q) > 1 /\ in = q[Len(q) - 1])
  BY <1>1 DEF QueueParts, QueueChain, QueueIn
<1>3. PICK k \in 1..Len(q) : in = q[k]
  BY <1>2
<1>4. 1 \in 1..Len(q) /\ (k = 1 \/ 1 < k)
  BY <1>2
<1>5. out.id \in Nat /\ in.id \in Nat
  BY DEF ListQueueIInv, ListQueueTypes, DoublePointer
<1>6. CASE k = 1
  BY <1>2, <1>3, <1>5, <1>6
<1>7. CASE 1 < k
  <2>1. out.id < in.id
    BY <1>2, <1>3, <1>4, <1>7
  <2> QED  BY <1>5, <2>1
<1> QED  BY <1>4, <1>6, <1>7

\* Pop reads in_: a tag above that of out_ unless both are the same pointer.
LEMMA ReadPopInInv ==
  ASSUME ListQueueIInv, NEW t \in Threads, ReadPopIn(t)
  PROVE  ListQueueIInv'
<1>1. ListQueueTypes'
  BY DEF ListQueueIInv, ListQueueTypes, ListTypeOK, ReadPopIn, Goto, PopPC
<1>2. /\ OtherCalls(t) /\ pc[t] = "popin" /\ pc'[t] = "popnext" /\ inL'[t] = in /\ outL'[t] = outL[t]
      /\ UNCHANGED <<head, next, in, out, qid, data, pushed, popped, old, new, mine, quota>>
  BY DEF ListQueueIInv, ListQueueTypes, ReadPopIn, Goto, OtherCalls
<1>3. PopKnows(t)
  BY DEF ListQueueIInv
<1>4. in # out => in.id > out.id
  <2>1. out.id \in Nat /\ in.id \in Nat
    BY DEF ListQueueIInv, ListQueueTypes, DoublePointer
  <2> QED  BY <2>1, InAhead
<1>5. PopKnows(t)'
  BY <1>2, <1>3, <1>4 DEF PopKnows, PopPC
<1> QED  BY <1>1, <1>2, <1>5, PopStep DEF PopPC

\* Pop reads the node after the sentinel and decides: empty, help or go on.
LEMMA ReadFirstInv ==
  ASSUME ListQueueIInv, NEW t \in Threads, ReadFirst(t)
  PROVE  ListQueueIInv'
<1>0. pc[t] = "popnext" /\ PopKnows(t)
  BY DEF ListQueueIInv, ReadFirst
<1>1. next[outL[t].node] \in DoublePointer
  BY <1>0, ListQueueFacts DEF PopKnows, PopPC
<1>2. ListQueueTypes'
  BY <1>1, ListQueueFacts DEF ListQueueIInv, ListQueueTypes, ListTypeOK, ReadFirst, Goto, PopPC
<1>3. /\ OtherCalls(t)
      /\ UNCHANGED <<head, next, in, out, qid, data, pushed, popped, old, new, mine, quota>>
      /\ \/ pc'[t] = "idle"
         \/ /\ pc'[t] = IF inL[t] = outL[t] THEN "pophelp" ELSE "readdata"
            /\ nextL'[t] = next[outL[t].node] /\ nextL'[t] # Null
            /\ outL'[t] = outL[t] /\ inL'[t] = inL[t]
  BY DEF ListQueueIInv, ListQueueTypes, ReadFirst, Goto, OtherCalls
<1>4. PopKnows(t)'
  BY <1>0, <1>3 DEF PopKnows, PopPC
<1> QED  BY <1>0, <1>2, <1>3, <1>4, PopStep DEF PopPC

\* Pop reads the data of the node after the sentinel.
LEMMA ReadDataInv ==
  ASSUME ListQueueIInv, NEW t \in Threads, ReadData(t), nextL[t].node # NIL
  PROVE  ListQueueIInv'
<1>0. /\ pc[t] = "readdata" /\ PopKnows(t) /\ nextL[t].node \in Nodes
      /\ Goto(t, "readdata", "advance")
      /\ item' = [item EXCEPT ![t] = data[nextL[t].node]] /\ data[nextL[t].node] \in Nat
  BY ListQueueFacts DEF ListQueueIInv, ReadData, Goto, DoublePointer
<1>1. ListQueueTypes'
  BY <1>0, ListQueueFacts DEF ListQueueIInv, ListQueueTypes, ListTypeOK, ReadData, Goto, PopPC
<1>3. /\ OtherCalls(t)
      /\ UNCHANGED <<head, next, in, out, qid, data, pushed, popped, old, new, mine, quota>>
      /\ pc'[t] = "advance" /\ nextL'[t] = nextL[t] /\ outL'[t] = outL[t]
      /\ item'[t] = data[nextL[t].node]
  BY DEF ListQueueIInv, ListQueueTypes, ReadData, Goto, OtherCalls
<1>4. PopKnows(t)'
  BY <1>0, <1>3 DEF PopKnows, PopPC
<1> QED  BY <1>0, <1>1, <1>3, <1>4, PopStep DEF PopPC

\* The compare-and-swap of out_ fails: Pop starts again.
LEMMA AdvanceFailsInv ==
  ASSUME ListQueueIInv, NEW t \in Threads, AdvanceOut(t), out # outL[t]
  PROVE  ListQueueIInv'
<1>1. ListQueueTypes'
  BY ListQueueFacts DEF ListQueueIInv, ListQueueTypes, ListTypeOK, AdvanceOut, Goto, PopPC
<1>3. /\ OtherCalls(t)
      /\ UNCHANGED <<head, next, in, out, qid, data, pushed, popped, old, new, mine, quota>>
      /\ pc[t] = "advance" /\ pc'[t] = "readout"
  BY DEF ListQueueIInv, ListQueueTypes, AdvanceOut, Goto, OtherCalls
<1>4. PopKnows(t)'
  BY <1>3 DEF PopKnows, PopPC
<1> QED  BY <1>1, <1>3, <1>4, PopStep DEF PopPC

\* The steps of Push and of the unused list that only read.
LEMMA PushStep ==
  ASSUME ListQueueIInv, ListQueueTypes', NEW t \in Threads, OtherCalls(t),
         UNCHANGED <<head, next, in, out, qid, data, pushed, popped>>,
         \A n \in Nodes : Carries(t, n)' <=> Carries(t, n),
         Producer(t)' => Producer(t) \/ \A u \in Threads : ~Producer(u),
         Filled(t)' => Filled(t) /\ mine'[t] = mine[t],
         pc[t] # "swing", pc'[t] \notin PopPC \cup {"swing", "help"},
         pc'[t] \in {"tailnext", "link"} => inL'[t] = in,
         FreeNodes' = FreeNodes => UnusedKnows(t)'
  PROVE  ListQueueIInv'
<1>1. PopKnows(t)'
  BY DEF PopKnows, PopPC
<1>2. qid <= qid'
  BY DEF ListQueueIInv, ListQueueTypes
<1> QED  BY <1>1, <1>2, LocalStep

\* A thread enters Push, and nobody else is inside.
LEMMA PushCallInv ==
  ASSUME ListQueueIInv, NEW t \in Threads, Push(t), ~overlapped'
  PROVE  ListQueueIInv'
<1>1. ListQueueTypes'
  <2>1. quota[t] \in [push : Nat, pops : BOOLEAN] /\ quota[t].push > 0
    BY DEF ListQueueIInv, ListQueueTypes, Push
  <2>2. [quota[t] EXCEPT !.push = @ - 1] \in [push : Nat, pops : BOOLEAN]
    <3>1. quota[t].push - 1 \in Nat
      BY <2>1
    <3> QED  BY <2>1, <3>1
  <2>3. quota' = [quota EXCEPT ![t] = [quota[t] EXCEPT !.push = @ - 1]]
    BY DEF Push
  <2>4. quota' \in [Threads -> [push : Nat, pops : BOOLEAN]]
    BY <2>2, <2>3 DEF ListQueueIInv, ListQueueTypes
  <2>5. item' \in [Threads -> Nat] /\ count' \in Nat
    BY DEF ListQueueIInv, ListQueueTypes, Push
  <2>6. pc' \in [Threads -> InPush \cup PopPC \cup PutPC \cup {"idle"}]
    BY DEF ListQueueIInv, ListQueueTypes, Push, Goto, InPush
  <2>7. UNCHANGED <<head, next, id, old, new, in, out, qid, data, inL, outL, nextL, mine, pushed, popped>>
    BY DEF Push
  <2> QED  BY <2>4, <2>5, <2>6, <2>7 DEF ListQueueIInv, ListQueueTypes, ListTypeOK
<1>2. /\ OtherCalls(t) /\ pc[t] = "idle" /\ pc'[t] = "alloc"
      /\ UNCHANGED <<head, next, in, out, qid, data, pushed, popped, old, new, mine>>
  BY DEF ListQueueIInv, ListQueueTypes, Push, Goto, OtherCalls
<1>3. UnusedKnows(t)
  BY DEF ListQueueIInv
<1>4. UnusedKnows(t)'
  BY <1>2, <1>3 DEF UnusedKnows, Reading, Filled, PutPC
<1>5. \A n \in Nodes : Carries(t, n)' <=> Carries(t, n)
  BY <1>2 DEF Carries, Filled, PutPC
<1>6. \A u \in Threads : ~Producer(u)
  BY DEF Push, Producer
<1> QED  BY <1>1, <1>2, <1>4, <1>5, <1>6, PushStep DEF Filled, PopPC

\* The head of the unused list is a node, or null.
LEMMA UnusedHead ==
  ASSUME ListQueueIInv
  PROVE  /\ head.node \in FreeNodes \cup {NIL} /\ (head.node = NIL <=> FreeNodes = {})
         /\ head.node = NIL => head = Null
<1>1. ListOf(Nodes, Link, head.node, NIL, FreeNodes)
  BY DEF ListQueueIInv, UnusedList
<1>2. Live(head) /\ head \in DoublePointer
  BY DEF Live, ListQueueIInv, ListQueueTypes, ListTypeOK
<1>3. head.node = NIL => head = Null
  BY <1>2 DEF ListQueueIInv, UnusedList
<1>4. head.node \in FreeNodes \cup {NIL} /\ (head.node = NIL <=> FreeNodes = {})
  BY <1>1, ListFacts
<1> QED  BY <1>3, <1>4

\* The one taker reads the head of the unused list.
LEMMA ReadUnusedInv ==
  ASSUME ListQueueIInv, NEW t \in Threads, ReadUnused(t)
  PROVE  ListQueueIInv'
<1>1. ListQueueTypes'
  BY ListQueueFacts
     DEF ListQueueIInv, ListQueueTypes, ListTypeOK, ReadUnused, ReadHead, Goto, InPush
<1>2. /\ OtherCalls(t) /\ pc[t] = "alloc" /\ quota'[t] = quota[t]
      /\ UNCHANGED <<head, next, in, out, qid, data, pushed, popped, new, mine>>
      /\ old'[t] = head
      /\ pc'[t] = IF head = Null THEN "idle" ELSE "readid"
  BY DEF ListQueueIInv, ListQueueTypes, ListTypeOK, ReadUnused, ReadHead, Goto, OtherCalls
<1>3. /\ head.node = NIL => head = Null
      /\ head.node \in FreeNodes \cup {NIL}
  BY UnusedHead
<1>4. FreeNodes' = FreeNodes => UnusedKnows(t)'
  <2> SUFFICES ASSUME FreeNodes' = FreeNodes PROVE UnusedKnows(t)'
    OBVIOUS
  <2>1. Reading(t)' => old'[t].node \in FreeNodes' /\ Knows(t)'
    BY <1>2, <1>3 DEF Reading, Knows
  <2> QED  BY <1>2, <1>3, <2>1 DEF UnusedKnows, Filled, PutPC
<1>5. \A n \in Nodes : Carries(t, n)' <=> Carries(t, n)
  BY <1>2 DEF Carries, Filled, PutPC
<1>6. Producer(t)
  BY <1>2 DEF Producer, InPush
<1> QED  BY <1>1, <1>2, <1>4, <1>5, <1>6, PushStep DEF Filled, PopPC

\* The one taker reads the tag of the next unused node.
LEMMA ReadNextIdInv ==
  ASSUME ListQueueIInv, NEW t \in Threads, ReadNextId(t), UNCHANGED queueVars
  PROVE  ListQueueIInv'
<1>0. /\ pc[t] = "readid" /\ UnusedKnows(t) /\ old[t].node \in Nodes
      /\ next[old[t].node] \in DoublePointer
      /\ new' = [new EXCEPT ![t] = [new[t] EXCEPT !.id = next[old[t].node].id]]
      /\ Goto(t, "readid", "readnode")
  <2>1. pc[t] = "readid"
    BY DEF ReadNextId, Crash, Goto
  <2>2. UnusedKnows(t) /\ old[t].node \in Nodes /\ old[t].node # NIL
    BY <2>1, ListQueueFacts DEF ListQueueIInv, UnusedKnows, Reading
  <2> QED  BY <2>1, <2>2, ListQueueFacts DEF ReadNextId, DoublePointer
<1>1. [new[t] EXCEPT !.id = next[old[t].node].id] \in DoublePointer
  BY <1>0, ListQueueFacts DEF DoublePointer
<1>2. /\ OtherCalls(t) /\ pc'[t] = "readnode"
      /\ UNCHANGED <<head, next, in, out, qid, data, pushed, popped, old, mine, quota, inL>>
  BY <1>0 DEF ListQueueIInv, ListQueueTypes, ListTypeOK, ReadNextId, Goto, OtherCalls, queueVars
<1>3. new' \in [Threads -> DoublePointer] /\ new'[t].id = next[old[t].node].id
  BY <1>0, <1>1, ListQueueFacts DEF ListQueueIInv, ListQueueTypes, ListTypeOK, DoublePointer
<1>4. ListQueueTypes'
  BY <1>0, <1>3
     DEF ListQueueIInv, ListQueueTypes, ListTypeOK, ReadNextId, Goto, InPush, queueVars
<1>5. FreeNodes' = FreeNodes => UnusedKnows(t)'
  BY <1>0, <1>2, <1>3 DEF UnusedKnows, Reading, Knows, Filled, PutPC
<1>6. \A n \in Nodes : Carries(t, n)' <=> Carries(t, n)
  BY <1>0, <1>2 DEF Carries, Filled, PutPC
<1>7. Producer(t)
  BY <1>0 DEF Producer, InPush
<1> QED  BY <1>0, <1>2, <1>4, <1>5, <1>6, <1>7, PushStep DEF Filled, PopPC

\* The one taker reads the place of the next unused node.
LEMMA ReadNextNodeInv ==
  ASSUME ListQueueIInv, NEW t \in Threads, ReadNextNode(t), UNCHANGED queueVars
  PROVE  ListQueueIInv'
<1>0. /\ pc[t] = "readnode" /\ UnusedKnows(t) /\ old[t].node \in Nodes
      /\ next[old[t].node] \in DoublePointer
      /\ new' = [new EXCEPT ![t] = [new[t] EXCEPT !.node = next[old[t].node].node]]
  BY ListQueueFacts DEF ListQueueIInv, ReadNextNode, Goto, DoublePointer, UnusedKnows, Reading
<1>1. [new[t] EXCEPT !.node = next[old[t].node].node] \in DoublePointer
  BY <1>0, ListQueueFacts DEF DoublePointer
<1>2. /\ OtherCalls(t) /\ pc'[t] = "take"
      /\ UNCHANGED <<head, next, in, out, qid, data, pushed, popped, old, mine, quota, inL>>
  BY <1>0 DEF ListQueueIInv, ListQueueTypes, ListTypeOK, ReadNextNode, Goto, OtherCalls, queueVars
<1>3. /\ new' \in [Threads -> DoublePointer] /\ new'[t].node = next[old[t].node].node
      /\ new'[t].id = new[t].id
  BY <1>0, <1>1, ListQueueFacts DEF ListQueueIInv, ListQueueTypes, ListTypeOK, DoublePointer
<1>4. ListQueueTypes'
  BY <1>0, <1>3
     DEF ListQueueIInv, ListQueueTypes, ListTypeOK, ReadNextNode, Goto, InPush, queueVars
<1>5. new'[t] = next[old[t].node]
  <2>1. new[t].id = next[old[t].node].id
    BY <1>0 DEF UnusedKnows, Reading, Knows
  <2> QED  BY <1>0, <1>3, <2>1 DEF DoublePointer
<1>6. FreeNodes' = FreeNodes => UnusedKnows(t)'
  BY <1>0, <1>2, <1>5 DEF UnusedKnows, Reading, Knows, Filled, PutPC
<1>7. \A n \in Nodes : Carries(t, n)' <=> Carries(t, n)
  BY <1>0, <1>2 DEF Carries, Filled, PutPC
<1>8. Producer(t)
  BY <1>0 DEF Producer, InPush
<1> QED  BY <1>0, <1>2, <1>4, <1>6, <1>7, <1>8, PushStep DEF Filled, PopPC

\* The compare-and-swap that takes an unused node fails.
LEMMA TakeFailsInv ==
  ASSUME ListQueueIInv, NEW t \in Threads, TakeHead(t), head # old[t], UNCHANGED queueVars
  PROVE  ListQueueIInv'
<1>1. ListQueueTypes'
  BY DEF ListQueueIInv, ListQueueTypes, ListTypeOK, TakeHead, Goto, InPush, queueVars
<1>2. /\ OtherCalls(t) /\ pc[t] = "take" /\ pc'[t] = "alloc"
      /\ UNCHANGED <<head, next, in, out, qid, data, pushed, popped, old, new, mine, quota, inL>>
  BY DEF ListQueueIInv, ListQueueTypes, ListTypeOK, TakeHead, Goto, OtherCalls, queueVars
<1>3. UnusedKnows(t)
  BY DEF ListQueueIInv
<1>4. UnusedKnows(t)'
  BY <1>2, <1>3 DEF UnusedKnows, Reading, Filled, PutPC
<1>5. \A n \in Nodes : Carries(t, n)' <=> Carries(t, n)
  BY <1>2 DEF Carries, Filled, PutPC
<1>6. Producer(t)
  BY <1>2 DEF Producer, InPush
<1> QED  BY <1>1, <1>2, <1>4, <1>5, <1>6, PushStep DEF Filled, PopPC

\* A thread that gives a node back reads the head of the unused list.
LEMMA ReadOldHeadInv ==
  ASSUME ListQueueIInv, NEW t \in Threads, ReadOldHead(t), UNCHANGED queueVars
  PROVE  ListQueueIInv'
<1>1. ListQueueTypes'
  BY ListQueueFacts
     DEF ListQueueIInv, ListQueueTypes, ListTypeOK, ReadOldHead, Goto, PutPC, queueVars
<1>2. /\ OtherCalls(t) /\ pc[t] = "release" /\ pc'[t] = "linkid" /\ old'[t] = head
      /\ UNCHANGED <<head, next, in, out, qid, data, pushed, popped, new, mine, quota, inL>>
  BY DEF ListQueueIInv, ListQueueTypes, ListTypeOK, ReadOldHead, Goto, OtherCalls, queueVars
<1>3. UnusedKnows(t) /\ (head.node = NIL => head = Null)
  BY UnusedHead DEF ListQueueIInv
<1>4. UnusedKnows(t)'
  BY <1>2, <1>3 DEF UnusedKnows, Reading, Filled, PutPC
<1>5. \A n \in Nodes : Carries(t, n)' <=> Carries(t, n)
  BY <1>2 DEF Carries, Filled, PutPC
<1>6. Producer(t)' => Producer(t)
  BY <1>2 DEF Producer, InPush
<1> QED  BY <1>1, <1>2, <1>4, <1>5, <1>6, PushStep DEF Filled, PopPC

\* The compare-and-swap that gives a node back fails.
LEMMA PutFailsInv ==
  ASSUME ListQueueIInv, NEW t \in Threads, PutHead(t), head # old[t], UNCHANGED queueVars
  PROVE  ListQueueIInv'
<1>1. ListQueueTypes'
  BY DEF ListQueueIInv, ListQueueTypes, ListTypeOK, PutHead, Goto, PutPC, queueVars
<1>2. /\ OtherCalls(t) /\ pc[t] = "put" /\ pc'[t] = "release"
      /\ UNCHANGED <<head, next, in, out, qid, data, pushed, popped, old, new, mine, quota, inL>>
  BY DEF ListQueueIInv, ListQueueTypes, ListTypeOK, PutHead, Goto, OtherCalls, queueVars
<1>3. UnusedKnows(t)
  BY DEF ListQueueIInv
<1>4. UnusedKnows(t)'
  BY <1>2, <1>3 DEF UnusedKnows, Reading, Filled, PutPC
<1>5. \A n \in Nodes : Carries(t, n)' <=> Carries(t, n)
  BY <1>2 DEF Carries, Filled, PutPC
<1>6. Producer(t)' => Producer(t)
  BY <1>2 DEF Producer, InPush
<1> QED  BY <1>1, <1>2, <1>4, <1>5, <1>6, PushStep DEF Filled, PopPC

\* Push reads in_, which only its own swing has moved.
LEMMA ReadInInv ==
  ASSUME ListQueueIInv, NEW t \in Threads, ReadIn(t)
  PROVE  ListQueueIInv'
<1>1. ListQueueTypes'
  BY DEF ListQueueIInv, ListQueueTypes, ListTypeOK, ReadIn, Goto, InPush
<1>2. /\ OtherCalls(t) /\ pc[t] = "readin" /\ pc'[t] = "tailnext" /\ inL'[t] = in
      /\ UNCHANGED <<head, next, in, out, qid, data, pushed, popped, old, new, mine, item, quota>>
  BY DEF ListQueueIInv, ListQueueTypes, ListTypeOK, ReadIn, Goto, OtherCalls
<1>3. UnusedKnows(t)
  BY DEF ListQueueIInv
<1>4. UnusedKnows(t)'
  BY <1>2, <1>3 DEF UnusedKnows, Reading, Filled, PutPC
<1>5. \A n \in Nodes : Carries(t, n)' <=> Carries(t, n)
  BY <1>2 DEF Carries, Filled, PutPC
<1>6. Producer(t)
  BY <1>2 DEF Producer, InPush
<1> QED  BY <1>1, <1>2, <1>4, <1>5, <1>6, PushStep DEF Filled, PopPC

\* While a Push looks for the last node, in_ points to it.
LEMMA InIsLast ==
  ASSUME ListQueueIInv, NEW t \in Threads, pc[t] \in {"tailnext", "link"},
         NEW q \in Seq(DoublePointer), QueueParts(q)
  PROVE  inL[t] = in /\ in = q[Len(q)] /\ next[in.node] = Null
<1>1. \A u \in Threads : pc[u] # "swing"
  BY DEF ListQueueIInv, SoleProducer, Producer, InPush
<1>2. inL[t] = in /\ in = q[Len(q)]
  BY <1>1 DEF QueueParts, QueueIn
<1>3. Len(q) \in 1..Len(q)
  BY DEF QueueParts, QueueChain
<1>4. next[q[Len(q)].node] = Null
  BY <1>3 DEF QueueParts, QueueChain
<1> QED  BY <1>2, <1>4

\* Push reads the link of the last node, which is null: nobody else links.
LEMMA ReadTailNextInv ==
  ASSUME ListQueueIInv, NEW t \in Threads, ReadTailNext(t)
  PROVE  ListQueueIInv'
<1>0. /\ pc[t] = "tailnext" /\ next[inL[t].node] = Null /\ inL[t] = in
  <2>1. pc[t] = "tailnext"
    BY DEF ReadTailNext, Goto
  <2>2. PICK q \in Seq(DoublePointer) : QueueParts(q)
    BY DEF ListQueueIInv
  <2> QED  BY <2>1, <2>2, InIsLast
<1>1. ListQueueTypes'
  BY <1>0, ListQueueFacts DEF ListQueueIInv, ListQueueTypes, ListTypeOK, ReadTailNext, Goto, InPush
<1>2. /\ OtherCalls(t) /\ pc'[t] = "link" /\ inL'[t] = in
      /\ UNCHANGED <<head, next, in, out, qid, data, pushed, popped, old, new, mine, item, quota>>
  BY <1>0 DEF ListQueueIInv, ListQueueTypes, ListTypeOK, ReadTailNext, Goto, OtherCalls
<1>3. UnusedKnows(t)
  BY DEF ListQueueIInv
<1>4. UnusedKnows(t)'
  BY <1>0, <1>2, <1>3 DEF UnusedKnows, Reading, Filled, PutPC
<1>5. \A n \in Nodes : Carries(t, n)' <=> Carries(t, n)
  BY <1>0, <1>2 DEF Carries, Filled, PutPC
<1>6. Producer(t)
  BY <1>0 DEF Producer, InPush
<1> QED  BY <1>0, <1>1, <1>2, <1>4, <1>5, <1>6, PushStep DEF Filled, PopPC

\* The link of the node taken for Push is cleared.
LEMMA NodeAllocatedInv ==
  ASSUME ListQueueIInv, NEW t \in Threads, NodeAllocated(t)
  PROVE  ListQueueIInv'
<1>0. /\ pc[t] = "clear" /\ UnusedKnows(t) /\ old[t].node \in Nodes
      /\ next' = [next EXCEPT ![old[t].node] = Null]
      /\ mine' = [mine EXCEPT ![t] = [mine[t] EXCEPT !.node = old[t].node]]
  BY ListQueueFacts
     DEF ListQueueIInv, NodeAllocated, ClearNext, Goto, DoublePointer, UnusedKnows
<1>1. [mine[t] EXCEPT !.node = old[t].node] \in DoublePointer
  BY <1>0, ListQueueFacts DEF DoublePointer
<1>2. mine' \in [Threads -> DoublePointer] /\ mine'[t].node = old[t].node
  BY <1>0, <1>1, ListQueueFacts DEF ListQueueIInv, ListQueueTypes, DoublePointer
<1>3. ListQueueTypes'
  BY <1>0, <1>2, ListQueueFacts
     DEF ListQueueIInv, ListQueueTypes, ListTypeOK, NodeAllocated, ClearNext, Goto, InPush
<1>4. /\ OtherCalls(t) /\ pc'[t] = "fill" /\ old'[t] = Null
      /\ UNCHANGED <<head, in, out, qid, data, pushed, popped, quota, inL>>
  BY <1>0 DEF ListQueueIInv, ListQueueTypes, ListTypeOK, NodeAllocated, ClearNext, Goto, OtherCalls
<1>5. \A n \in Nodes : Carries(t, n)' <=> Carries(t, n)
  BY <1>0, <1>2, <1>4 DEF Carries, Filled, PutPC
<1>6. \A n \in Nodes : next'[n] # next[n] \/ data'[n] # data[n] => Carries(t, n)
  <2>1. \A n \in Nodes : n # old[t].node => next'[n] = next[n]
    BY <1>0, ListQueueFacts
  <2>2. Carries(t, old[t].node)
    BY <1>0 DEF Carries
  <2> QED  BY <1>4, <2>1, <2>2
<1>7. Producer(t) /\ ~Filled(t)'
  BY <1>0, <1>4 DEF Producer, InPush, Filled
<1>8. UnusedKnows(t)'
  BY <1>0, <1>2, <1>4, ListQueueFacts DEF UnusedKnows, Reading, Filled, PutPC
<1>9. PopKnows(t)'
  BY <1>4 DEF PopKnows, PopPC
<1>10. qid <= qid'
  BY <1>4, ListQueueFacts
<1> QED  BY <1>0, <1>3, <1>4, <1>5, <1>6, <1>7, <1>8, <1>9, <1>10, LocalStep

\* Push fills its node under a tag above all those of the queue.
LEMMA FillNodeInv ==
  ASSUME ListQueueIInv, NEW t \in Threads, FillNode(t)
  PROVE  ListQueueIInv'
<1>0. /\ pc[t] = "fill" /\ UnusedKnows(t) /\ mine[t].node \in Nodes /\ item[t] \in Nat
      /\ next' = [next EXCEPT ![mine[t].node] = Null]
      /\ data' = [data EXCEPT ![mine[t].node] = item[t]]
      /\ mine' = [mine EXCEPT ![t] = [mine[t] EXCEPT !.id = qid]]
  BY ListQueueFacts
     DEF ListQueueIInv, ListQueueTypes, FillNode, Goto, DoublePointer, UnusedKnows
<1>1. [mine[t] EXCEPT !.id = qid] \in DoublePointer
  BY <1>0, ListQueueFacts DEF DoublePointer
<1>2. /\ mine' \in [Threads -> DoublePointer] /\ mine'[t].node = mine[t].node /\ mine'[t].id = qid
      /\ qid' = qid + 1 /\ qid' \in Nat
  <2>1. mine \in [Threads -> DoublePointer]
    BY DEF ListQueueIInv, ListQueueTypes
  <2>2. mine' \in [Threads -> DoublePointer] /\ mine'[t] = [mine[t] EXCEPT !.id = qid]
    BY <1>0, <1>1, <2>1
  <2>3. mine'[t].node = mine[t].node /\ mine'[t].id = qid
    BY <2>1, <2>2 DEF DoublePointer
  <2>4. qid' = qid + 1 /\ qid' \in Nat
    BY ListQueueFacts DEF FillNode
  <2> QED  BY <2>2, <2>3, <2>4
<1>3. ListQueueTypes'
  BY <1>0, <1>2, ListQueueFacts
     DEF ListQueueIInv, ListQueueTypes, ListTypeOK, FillNode, Goto, InPush
<1>4. /\ OtherCalls(t) /\ pc'[t] = "readin"
      /\ UNCHANGED <<head, in, out, pushed, popped, quota, inL, item, old, new>>
  BY <1>0 DEF ListQueueIInv, ListQueueTypes, ListTypeOK, FillNode, Goto, OtherCalls
<1>5. \A n \in Nodes : Carries(t, n)' <=> Carries(t, n)
  BY <1>0, <1>2, <1>4 DEF Carries, Filled, PutPC
<1>6. \A n \in Nodes : next'[n] # next[n] \/ data'[n] # data[n] => Carries(t, n)
  <2>1. \A n \in Nodes : n # mine[t].node => next'[n] = next[n] /\ data'[n] = data[n]
    BY <1>0, ListQueueFacts
  <2>2. Carries(t, mine[t].node)
    BY <1>0 DEF Carries
  <2> QED  BY <2>1, <2>2
<1>7. Producer(t)
  BY <1>0 DEF Producer, InPush
<1>8. UnusedKnows(t)'
  BY <1>0, <1>2, <1>4, ListQueueFacts DEF UnusedKnows, Reading, Filled, PutPC
<1>9. PopKnows(t)'
  BY <1>4 DEF PopKnows, PopPC
<1>10. qid <= qid' /\ qid <= mine'[t].id /\ mine'[t].id < qid'
  BY <1>2, ListQueueFacts
<1> QED  BY <1>0, <1>3, <1>4, <1>5, <1>6, <1>7, <1>8, <1>9, <1>10, LocalStep

\* The steps of a release that write next of the node, or take a tag for it.
LEMMA PutterStep ==
  ASSUME ListQueueIInv, ListQueueTypes', NEW t \in Threads, OtherCalls(t),
         UNCHANGED <<head, in, out, qid, data, pushed, popped>>,
         pc[t] \in PutPC \cup {"drop"}, pc'[t] \in PutPC, quota'[t] = quota[t],
         new'[t].node = IF pc[t] = "drop" THEN outL[t].node ELSE new[t].node,
         \A n \in Nodes : n # new'[t].node => next'[n] = next[n],
         FreeNodes' = FreeNodes => UnusedKnows(t)'
  PROVE  ListQueueIInv'
<1>1. \A n \in Nodes : Carries(t, n)' <=> Carries(t, n)
  BY DEF Carries, Filled, PutPC
<1>2. \A n \in Nodes : next'[n] # next[n] \/ data'[n] # data[n] => Carries(t, n)
  BY DEF Carries, Filled, PutPC
<1>3. /\ Producer(t)' => Producer(t)
      /\ ~Filled(t)' /\ pc'[t] \notin {"swing", "help", "tailnext", "link"} /\ pc[t] # "swing"
  BY DEF Producer, InPush, Filled, PutPC
<1>4. PopKnows(t)'
  BY DEF PopKnows, PopPC, PutPC
<1>5. qid <= qid'
  BY ListQueueFacts
<1> QED  BY <1>1, <1>2, <1>3, <1>4, <1>5, LocalStep

\* Pop turns to giving the old sentinel back.
LEMMA ReleaseNodeInv ==
  ASSUME ListQueueIInv, NEW t \in Threads, ReleaseNode(t)
  PROVE  ListQueueIInv'
<1>0. /\ pc[t] = "drop" /\ UnusedKnows(t) /\ outL[t].node \in Nodes
      /\ new' = [new EXCEPT ![t] = [id |-> id, node |-> outL[t].node]]
  BY ListQueueFacts DEF ListQueueIInv, ReleaseNode, FetchId, Goto, PopKnows, PopPC
<1>1. [id |-> id, node |-> outL[t].node] \in DoublePointer
  BY <1>0, ListQueueFacts DEF DoublePointer
<1>2. new' \in [Threads -> DoublePointer] /\ new'[t].node = outL[t].node /\ id' \in Nat
  BY <1>0, <1>1, ListQueueFacts DEF ListQueueIInv, ListQueueTypes, ListTypeOK, ReleaseNode, FetchId
<1>3. ListQueueTypes'
  BY <1>0, <1>2, ListQueueFacts
     DEF ListQueueIInv, ListQueueTypes, ListTypeOK, ReleaseNode, FetchId, Goto, PutPC
<1>4. /\ OtherCalls(t) /\ pc'[t] = "release"
      /\ UNCHANGED <<head, in, out, qid, data, pushed, popped, quota, next, old>>
  BY <1>0 DEF ListQueueIInv, ListQueueTypes, ListTypeOK, ReleaseNode, FetchId, Goto, OtherCalls
<1>5. UnusedKnows(t)'
  BY <1>0, <1>2, <1>4, ListQueueFacts DEF UnusedKnows, Reading, Filled, PutPC
<1> QED  BY <1>0, <1>2, <1>3, <1>4, <1>5, PutterStep DEF PutPC

\* The tag of the head goes into the node given back.
LEMMA LinkIdInv ==
  ASSUME ListQueueIInv, NEW t \in Threads, LinkId(t), UNCHANGED queueVars
  PROVE  ListQueueIInv'
<1>0. /\ pc[t] = "linkid" /\ UnusedKnows(t) /\ new[t].node \in Nodes
      /\ next' = [next EXCEPT ![new[t].node] = [next[new[t].node] EXCEPT !.id = old[t].id]]
  BY ListQueueFacts DEF ListQueueIInv, LinkId, Goto, DoublePointer, UnusedKnows, PutPC
<1>1. next[new[t].node] \in DoublePointer
  BY <1>0, ListQueueFacts
<1>2. [next[new[t].node] EXCEPT !.id = old[t].id] \in DoublePointer
  BY <1>0, <1>1, ListQueueFacts DEF DoublePointer
<1>3. /\ next' \in [Nodes -> DoublePointer] /\ next'[new[t].node].id = old[t].id
      /\ \A n \in Nodes : n # new[t].node => next'[n] = next[n]
  BY <1>0, <1>1, <1>2, ListQueueFacts DEF DoublePointer
<1>4. ListQueueTypes'
  BY <1>0, <1>3 DEF ListQueueIInv, ListQueueTypes, ListTypeOK, LinkId, Goto, PutPC, queueVars
<1>5. /\ OtherCalls(t) /\ pc'[t] = "linknode"
      /\ UNCHANGED <<head, in, out, qid, data, pushed, popped, quota, new, old>>
  BY <1>0 DEF ListQueueIInv, ListQueueTypes, ListTypeOK, LinkId, Goto, OtherCalls, queueVars
<1>6. UnusedKnows(t)'
  BY <1>0, <1>3, <1>5 DEF UnusedKnows, Reading, Filled, PutPC
<1> QED  BY <1>0, <1>3, <1>4, <1>5, <1>6, PutterStep DEF PutPC

\* The place of the head goes into the node given back.
LEMMA LinkNodeInv ==
  ASSUME ListQueueIInv, NEW t \in Threads, LinkNode(t), UNCHANGED queueVars
  PROVE  ListQueueIInv'
<1>0. /\ pc[t] = "linknode" /\ UnusedKnows(t) /\ new[t].node \in Nodes
      /\ next' = [next EXCEPT ![new[t].node] = [next[new[t].node] EXCEPT !.node = old[t].node]]
  BY ListQueueFacts DEF ListQueueIInv, LinkNode, Goto, DoublePointer, UnusedKnows, PutPC
<1>1. next[new[t].node] \in DoublePointer /\ next[new[t].node].id = old[t].id
  BY <1>0, ListQueueFacts DEF UnusedKnows
<1>2. [next[new[t].node] EXCEPT !.node = old[t].node] = old[t]
  BY <1>0, <1>1, ListQueueFacts DEF DoublePointer
<1>3. /\ next' \in [Nodes -> DoublePointer] /\ next'[new[t].node] = old[t]
      /\ \A n \in Nodes : n # new[t].node => next'[n] = next[n]
  BY <1>0, <1>1, <1>2, ListQueueFacts
<1>4. ListQueueTypes'
  BY <1>0, <1>3 DEF ListQueueIInv, ListQueueTypes, ListTypeOK, LinkNode, Goto, PutPC, queueVars
<1>5. /\ OtherCalls(t) /\ pc'[t] = "put"
      /\ UNCHANGED <<head, in, out, qid, data, pushed, popped, quota, new, old>>
  BY <1>0 DEF ListQueueIInv, ListQueueTypes, ListTypeOK, LinkNode, Goto, OtherCalls, queueVars
<1>6. UnusedKnows(t)'
  BY <1>0, <1>3, <1>5 DEF UnusedKnows, Reading, Filled, PutPC
<1> QED  BY <1>0, <1>3, <1>4, <1>5, <1>6, PutterStep DEF PutPC

\* A node is taken from the unused list: its only taker has read its next.
LEMMA TakeInv ==
  ASSUME ListQueueIInv, NEW t \in Threads, TakeHead(t), head = old[t], UNCHANGED queueVars
  PROVE  ListQueueIInv'
<1>0. /\ ListQueueTypes /\ SoleProducer /\ UnusedList
      /\ \A u \in Threads : UnusedKnows(u) /\ PopKnows(u)
      /\ FreeNodes \subseteq Nodes /\ NIL \notin Nodes
      /\ next \in [Nodes -> DoublePointer] /\ head \in DoublePointer
  BY ListQueueFacts DEF ListQueueIInv
<1>1. PICK q \in Seq(DoublePointer) : QueueParts(q)
  BY DEF ListQueueIInv
<1>2. QueueChain(q) /\ QueuePlaces(q)
  BY <1>1 DEF QueueParts
<1>3. /\ OtherCalls(t) /\ pc[t] = "take" /\ pc'[t] = "clear" /\ head' = new[t]
      /\ UNCHANGED <<next, old, new, in, out, qid, data, pushed, popped, mine, quota, inL>>
  BY DEF ListQueueIInv, ListQueueTypes, ListTypeOK, TakeHead, Goto, OtherCalls, queueVars
<1>4. ListQueueTypes'
  BY <1>3, ListQueueFacts
     DEF ListQueueIInv, ListQueueTypes, ListTypeOK, TakeHead, Goto, InPush, queueVars
<1>5. PICK h : h = head.node
  OBVIOUS
<1>6. h \in FreeNodes /\ h \in Nodes /\ head' = next[h]
  BY <1>0, <1>3, <1>5 DEF UnusedKnows, Reading, Knows
<1>7. PICK S : S = FreeNodes \ {h}
  OBVIOUS
<1>8. ListOf(Nodes, Link, next[h].node, NIL, S)
  <2>1. ListOf(Nodes, Link, h, NIL, FreeNodes) /\ h # NIL
    BY <1>0, <1>5, <1>6 DEF UnusedList
  <2>2. next[h].node = Link[h]
    BY <1>6 DEF Link
  <2> QED  BY <1>7, <2>1, <2>2, ListPop
<1>9. ListOf(Nodes, Link', head'.node, NIL, S)
  BY <1>3, <1>6, <1>8 DEF Link
<1>10. FreeNodes' = S
  BY <1>9, FreeIs DEF FreeNodes, NodesFrom, Link
<1>11. UnusedList'
  <2>1. ASSUME NEW p \in DoublePointer, Live(p)' PROVE Live(p)
    <3>1. p = next[h] \/ \E n \in S : p = next[n]
      BY <1>3, <1>6, <1>10, <2>1 DEF Live
    <3> QED  BY <1>6, <1>7, <3>1 DEF Live
  <2>2. \A p \in DoublePointer : Live(p)' /\ p.node = NIL => p = Null
    BY <1>0, <2>1 DEF UnusedList
  <2> QED  BY <1>9, <1>10, <2>2 DEF UnusedList
<1>12. QueueChain(q)' /\ QueueTags(q)' /\ QueueItems(q)' /\ QueueIn(q)'
  <2>1. qid <= qid' /\ ~Filled(t)'
    BY <1>3, ListQueueFacts DEF Filled
  <2> QED  BY <1>0, <1>1, <1>3, <1>4, <2>1, QueueSide
<1>13. SoleProducer'
  <2>1. Producer(t)
    BY <1>3 DEF Producer, InPush
  <2> QED  BY <1>0, <1>3, <2>1, SoleFrame
<1>14. \A u \in Threads : u # t => UnusedKnows(u)'
  <2>1. \A u \in Threads : u # t => ~Reading(u)
    BY <1>0, <1>3 DEF SoleProducer, Producer, Reading, InPush
  <2>2. \A u \in Threads : u # t /\ pc[u] \in PutPC => next'[new[u].node] = next[new[u].node]
    BY <1>3
  <2> QED  BY <1>0, <1>3, <2>1, <2>2, UnusedOthers
<1>15. UnusedKnows(t)'
  <2>1. UnusedKnows(t)
    BY <1>0
  <2>2. old'[t].node = h /\ h # NIL
    BY <1>0, <1>3, <1>5, <1>6
  <2> QED  BY <1>3, <2>1, <2>2 DEF UnusedKnows, Reading, Filled, PutPC
<1>16. \A u \in Threads : PopKnows(u)'
  <2>1. in.id <= in'.id
    BY <1>0, <1>3 DEF ListQueueTypes, DoublePointer
  <2>2. \A u \in Threads : u # t => PopKnows(u)'
    BY <1>0, <1>3, <1>4, <2>1, PopOthers
  <2>3. PopKnows(t)'
    BY <1>3 DEF PopKnows, PopPC
  <2> QED  BY <2>2, <2>3
<1>17. QueuePlaces(q)'
  <2>1. \A n : Carries(t, n)' <=> n = h
    BY <1>3, <1>5 DEF Carries, Filled, PutPC
  <2>2. \A n : ~Carries(t, n)
    BY <1>3 DEF Carries, Filled, PutPC
  <2>3. \A u \in Threads, n \in Nodes : Carries(u, n)' <=> Carries(u, n) \/ (u = t /\ n = h)
    BY <1>3, <2>1, <2>2, CarriesOthers
  <2>4. \A i \in 1..Len(q) : q[i].node \in Nodes /\ q[i].node \notin FreeNodes
                             /\ \A u \in Threads : ~Carries(u, q[i].node)
    BY <1>2 DEF QueueChain, QueuePlaces
  <2>5. \A i \in 1..Len(q) : q[i].node \notin S /\ \A u \in Threads : ~Carries(u, q[i].node)'
    BY <1>6, <1>7, <2>3, <2>4
  <2>6. \A n \in FreeNodes, u \in Threads : ~Carries(u, n)
    BY <1>2 DEF QueuePlaces
  <2>7. \A n \in S, u \in Threads : ~Carries(u, n)'
    BY <1>0, <1>7, <2>3, <2>6
  <2>8. \A n \in Nodes, u, v \in Threads : Carries(u, n) /\ Carries(v, n) => u = v
    BY <1>2 DEF QueuePlaces
  <2>9. \A n \in Nodes, u, v \in Threads : Carries(u, n)' /\ Carries(v, n)' => u = v
    BY <1>6, <2>3, <2>6, <2>8
  <2>10. \A n \in Nodes : \/ n \in FreeNodes \/ \E u \in Threads : Carries(u, n)
                          \/ \E i \in 1..Len(q) : q[i].node = n
    BY <1>2 DEF QueuePlaces
  <2>11. \A n \in Nodes : \/ n \in S \/ \E u \in Threads : Carries(u, n)'
                          \/ \E i \in 1..Len(q) : q[i].node = n
    BY <1>7, <2>3, <2>10
  <2> QED  BY <1>10, <2>5, <2>7, <2>9, <2>11 DEF QueuePlaces
<1>18. QueueParts(q)'
  BY <1>12, <1>17 DEF QueueParts
<1> QED  BY <1>4, <1>11, <1>13, <1>14, <1>15, <1>16, <1>18 DEF ListQueueIInv

\* A node is put on the unused list.
LEMMA PutInv ==
  ASSUME ListQueueIInv, NEW t \in Threads, PutHead(t), head = old[t], UNCHANGED queueVars
  PROVE  ListQueueIInv'
<1>0. /\ ListQueueTypes /\ SoleProducer /\ UnusedList
      /\ \A u \in Threads : UnusedKnows(u) /\ PopKnows(u)
      /\ FreeNodes \subseteq Nodes /\ NIL \notin Nodes
      /\ next \in [Nodes -> DoublePointer] /\ head \in DoublePointer
      /\ new[t] \in DoublePointer /\ Null \in DoublePointer
  BY ListQueueFacts DEF ListQueueIInv
<1>1. PICK q \in Seq(DoublePointer) : QueueParts(q)
  BY DEF ListQueueIInv
<1>2. QueueChain(q) /\ QueuePlaces(q)
  BY <1>1 DEF QueueParts
<1>3. /\ OtherCalls(t) /\ pc[t] = "put" /\ pc'[t] = "idle" /\ head' = new[t] /\ old'[t] = Null
      /\ UNCHANGED <<next, in, out, qid, data, pushed, popped, mine, quota, inL>>
  BY DEF ListQueueIInv, ListQueueTypes, ListTypeOK, PutHead, Goto, OtherCalls, queueVars
<1>4. ListQueueTypes'
  BY <1>0, <1>3
     DEF ListQueueIInv, ListQueueTypes, ListTypeOK, PutHead, Goto, queueVars
<1>5. PICK h : h = new[t].node
  OBVIOUS
<1>6. h \in Nodes /\ next[h] = head /\ Carries(t, h)
  BY <1>0, <1>3, <1>5 DEF UnusedKnows, PutPC, DoublePointer, Carries
<1>7. PICK S : S = FreeNodes \cup {h}
  OBVIOUS
<1>8. ListOf(Nodes, Link, h, NIL, S)
  <2>1. ListOf(Nodes, Link, head.node, NIL, FreeNodes) /\ h # NIL
    BY <1>0, <1>5, <1>6 DEF UnusedList
  <2>2. head.node = Link[h] /\ h \notin FreeNodes
    BY <1>2, <1>6 DEF Link, QueuePlaces
  <2> QED  BY <1>6, <1>7, <2>1, <2>2, ListPush
<1>9. ListOf(Nodes, Link', head'.node, NIL, S)
  BY <1>3, <1>5, <1>8 DEF Link
<1>10. FreeNodes' = S
  BY <1>9, FreeIs DEF FreeNodes, NodesFrom, Link
<1>11. UnusedList'
  <2>1. ASSUME NEW p \in DoublePointer, Live(p)', p.node = NIL PROVE p = Null
    <3>1. p = new[t] \/ p = next[h] \/ \E n \in FreeNodes : p = next[n]
      BY <1>3, <1>7, <1>10, <2>1 DEF Live
    <3>2. p # new[t]
      BY <1>0, <1>5, <1>6, <2>1
    <3>3. Live(p)
      BY <1>6, <3>1, <3>2 DEF Live
    <3> QED  BY <1>0, <2>1, <3>3 DEF UnusedList
  <2> QED  BY <1>9, <1>10, <2>1 DEF UnusedList
<1>12. QueueChain(q)' /\ QueueTags(q)' /\ QueueItems(q)' /\ QueueIn(q)'
  <2>1. qid <= qid' /\ ~Filled(t)'
    BY <1>3, ListQueueFacts DEF Filled
  <2> QED  BY <1>0, <1>1, <1>3, <1>4, <2>1, QueueSide
<1>13. SoleProducer'
  <2>1. Producer(t)' => Producer(t)
    BY <1>3 DEF Producer, InPush
  <2> QED  BY <1>0, <1>3, <2>1, SoleFrame
<1>14. \A u \in Threads : u # t => UnusedKnows(u)'
  <2>1. \A u \in Threads : u # t /\ Reading(u) => old[u].node \in FreeNodes'
    BY <1>0, <1>7, <1>10 DEF UnusedKnows
  <2> QED  BY <1>0, <1>3, <2>1, UnusedOthers
<1>15. UnusedKnows(t)'
  BY <1>3 DEF UnusedKnows, Reading, Filled, PutPC
<1>16. \A u \in Threads : PopKnows(u)'
  <2>1. in.id <= in'.id
    BY <1>0, <1>3 DEF ListQueueTypes, DoublePointer
  <2>2. \A u \in Threads : u # t => PopKnows(u)'
    BY <1>0, <1>3, <1>4, <2>1, PopOthers
  <2>3. PopKnows(t)'
    BY <1>3 DEF PopKnows, PopPC
  <2> QED  BY <2>2, <2>3
<1>17. QueuePlaces(q)'
  <2>1. \A n : Carries(t, n) <=> n = h
    BY <1>3, <1>5 DEF Carries, Filled, PutPC
  <2>2. \A n : ~Carries(t, n)'
    BY <1>3 DEF Carries, Filled, PutPC
  <2>3. \A u \in Threads, n \in Nodes : Carries(u, n)' <=> Carries(u, n) /\ u # t
    BY <1>3, <2>1, <2>2, CarriesOthers
  <2>4. \A i \in 1..Len(q) : q[i].node \in Nodes /\ q[i].node \notin FreeNodes
                             /\ \A u \in Threads : ~Carries(u, q[i].node)
    BY <1>2 DEF QueueChain, QueuePlaces
  <2>5. \A i \in 1..Len(q) : q[i].node \notin S /\ \A u \in Threads : ~Carries(u, q[i].node)'
    BY <1>6, <1>7, <2>3, <2>4
  <2>6. \A n \in Nodes, u, v \in Threads : Carries(u, n) /\ Carries(v, n) => u = v
    BY <1>2 DEF QueuePlaces
  <2>7. \A n \in FreeNodes, u \in Threads : ~Carries(u, n)
    BY <1>2 DEF QueuePlaces
  <2>8. \A n \in S, u \in Threads : ~Carries(u, n)'
    BY <1>0, <1>6, <1>7, <2>3, <2>6, <2>7
  <2>9. \A n \in Nodes, u, v \in Threads : Carries(u, n)' /\ Carries(v, n)' => u = v
    BY <2>3, <2>6
  <2>10. \A n \in Nodes : \/ n \in FreeNodes \/ \E u \in Threads : Carries(u, n)
                          \/ \E i \in 1..Len(q) : q[i].node = n
    BY <1>2 DEF QueuePlaces
  <2>11. \A n \in Nodes : \/ n \in S \/ \E u \in Threads : Carries(u, n)'
                          \/ \E i \in 1..Len(q) : q[i].node = n
    BY <1>7, <2>1, <2>3, <2>10
  <2> QED  BY <1>10, <2>5, <2>8, <2>9, <2>11 DEF QueuePlaces
<1>18. QueueParts(q)'
  BY <1>12, <1>17 DEF QueueParts
<1> QED  BY <1>4, <1>11, <1>13, <1>14, <1>15, <1>16, <1>18 DEF ListQueueIInv

\* A sequence that is extended, and its end.
LEMMA AppendConcat ==
  \A a, b \in Seq(Nat), x \in Nat : Append(a \o b, x) = a \o Append(b, x)
<1> SUFFICES ASSUME NEW a \in Seq(Nat), NEW b \in Seq(Nat), NEW x \in Nat
             PROVE  Append(a \o b, x) = a \o Append(b, x)
  OBVIOUS
<1>1. a \o b \in Seq(Nat) /\ <<x>> \in Seq(Nat)
  OBVIOUS
<1>2. Append(a \o b, x) = (a \o b) \o <<x>> /\ Append(b, x) = b \o <<x>>
  BY <1>1, AppendIsConcat
<1>3. (a \o b) \o <<x>> = a \o (b \o <<x>>)
  BY <1>1, ConcatAssociative
<1> QED  BY <1>2, <1>3

\* Push links its node behind the last one.
LEMMA LinkInv ==
  ASSUME ListQueueIInv, NEW t \in Threads, LinkTail(t)
  PROVE  ListQueueIInv'
<1>0. /\ ListQueueTypes /\ SoleProducer /\ UnusedList
      /\ \A u \in Threads : UnusedKnows(u) /\ PopKnows(u)
      /\ FreeNodes \subseteq Nodes /\ NIL \notin Nodes
      /\ next \in [Nodes -> DoublePointer]
  BY ListQueueFacts DEF ListQueueIInv
<1>1. PICK q \in Seq(DoublePointer) : QueueParts(q)
  BY DEF ListQueueIInv
<1>2. QueueChain(q) /\ QueueTags(q) /\ QueueItems(q) /\ QueueIn(q) /\ QueuePlaces(q)
  BY <1>1 DEF QueueParts
<1>3. pc[t] = "link"
  BY DEF LinkTail
<1>4. PICK m \in Nat : m = Len(q) /\ m > 0 /\ m \in 1..m
  BY <1>2 DEF QueueChain
<1>5. PICK e : e = q[m].node
  OBVIOUS
<1>6. inL[t] = in /\ in = q[m] /\ next[e] = Null /\ e \in Nodes
  BY <1>1, <1>2, <1>3, <1>4, <1>5, InIsLast DEF QueueChain
<1>7. PICK z : z = mine[t]
  OBVIOUS
<1>8. PICK h : h = z.node
  OBVIOUS
<1>9. /\ z \in DoublePointer /\ h \in Nodes /\ Carries(t, h) /\ next[h] = Null
      /\ data[h] = item[t] /\ item[t] \in Nat
  BY <1>0, <1>3, <1>7, <1>8 DEF UnusedKnows, Filled, Carries, ListQueueTypes, DoublePointer
<1>10. /\ OtherCalls(t) /\ pc'[t] = "swing" /\ inL'[t] = in /\ mine'[t] = z
       /\ next' = [next EXCEPT ![e] = z] /\ pushed' = Append(pushed, item[t])
       /\ pc' = [pc EXCEPT ![t] = "swing"] /\ inL' = inL
       /\ UNCHANGED <<head, in, out, qid, data, popped, mine, quota, old, new>>
  BY <1>3, <1>4, <1>5, <1>6, <1>7
     DEF ListQueueIInv, ListQueueTypes, ListTypeOK, LinkTail, Goto, OtherCalls
<1>11. ListQueueTypes'
  <2>1. pushed' \in Seq(Nat)
    BY <1>0, <1>9, <1>10 DEF ListQueueTypes
  <2>2. next' \in [Nodes -> DoublePointer]
    BY <1>0, <1>6, <1>9, <1>10
  <2>3. /\ pc' \in [Threads -> InPush \cup PopPC \cup PutPC \cup {"idle"}]
        /\ inL' \in [Threads -> DoublePointer]
    BY <1>0, <1>10 DEF ListQueueTypes, InPush
  <2>4. UNCHANGED <<id, count, item, outL, nextL>>
    BY DEF LinkTail
  <2> QED  BY <1>0, <1>10, <2>1, <2>2, <2>3, <2>4 DEF ListQueueTypes, ListTypeOK
<1>12. /\ e \notin FreeNodes /\ h # e
       /\ \A u \in Threads : ~Carries(u, e)
       /\ \A n \in Nodes : n # e => next'[n] = next[n]
       /\ next'[e] = z
  <2>1. e \notin FreeNodes /\ \A u \in Threads : ~Carries(u, e)
    BY <1>2, <1>4, <1>5 DEF QueuePlaces
  <2> QED  BY <1>0, <1>6, <1>9, <1>10, <2>1
<1>13. FreeNodes' = FreeNodes /\ UnusedList'
  <2>1. next' \in [Nodes -> DoublePointer]
    BY <1>11 DEF ListQueueTypes, ListTypeOK
  <2>2. \A n \in FreeNodes : next'[n] = next[n]
    BY <1>0, <1>12
  <2> QED  BY <1>0, <1>10, <2>1, <2>2, UnusedFrame
<1>14. PICK r : r = Append(q, z)
  OBVIOUS
<1>15. /\ r \in Seq(DoublePointer) /\ Len(r) = m + 1 /\ r[m + 1] = z
       /\ \A i \in 1..m : r[i] = q[i]
  BY <1>4, <1>9, <1>14
<1>16. /\ \A i \in 1..m : /\ q[i].node \in Nodes /\ q[i].node # h
                          /\ next[q[i].node] = IF i = m THEN Null ELSE q[i + 1]
                          /\ q[i].id < z.id /\ q[i].id < qid
       /\ z.id < qid
       /\ \A i, j \in 1..m : q[i].node = q[j].node => i = j
       /\ \A i, j \in 1..m : i < j => q[i].id < q[j].id
  <2>1. Filled(t)
    BY <1>3 DEF Filled
  <2>2. \A i \in 1..m : q[i].id < z.id /\ q[i].id < qid
    BY <1>2, <1>4, <1>7, <2>1 DEF QueueTags
  <2>3. z.id < qid
    BY <1>2, <1>7, <2>1 DEF QueueTags
  <2>4. \A i \in 1..m : q[i].node # h
    BY <1>2, <1>4, <1>9 DEF QueuePlaces
  <2> QED  BY <1>2, <1>4, <2>2, <2>3, <2>4 DEF QueueChain
<1>17. QueueChain(r)'
  <2>1. r[1] = out'
    BY <1>2, <1>4, <1>10, <1>15 DEF QueueChain
  <2>2. ASSUME NEW i \in 1..(m + 1)
        PROVE  r[i].node \in Nodes /\ next'[r[i].node] = IF i = m + 1 THEN Null ELSE r[i + 1]
    <3>1. CASE i = m + 1
      <4>1. r[i] = z /\ next'[h] = next[h]
        BY <1>9, <1>12, <1>15, <3>1
      <4> QED  BY <1>8, <1>9, <3>1, <4>1
    <3>2. CASE i = m
      <4>1. r[i] = q[m] /\ i # m + 1 /\ r[i + 1] = z
        BY <1>4, <1>15, <3>2
      <4> QED  BY <1>5, <1>6, <1>12, <4>1
    <3>3. CASE i \in 1..m /\ i # m
      <4>1. i + 1 \in 1..m /\ i # m + 1 /\ r[i] = q[i] /\ r[i + 1] = q[i + 1]
        BY <1>15, <3>3
      <4>2. q[i].node # e /\ q[i].node \in Nodes /\ next[q[i].node] = q[i + 1]
        BY <1>4, <1>5, <1>16, <3>3
      <4> QED  BY <1>12, <4>1, <4>2
    <3>4. i = m + 1 \/ i \in 1..m
      OBVIOUS
    <3> QED  BY <3>1, <3>2, <3>3, <3>4
  <2>3. ASSUME NEW i \in 1..(m + 1), NEW j \in 1..(m + 1), r[i].node = r[j].node
        PROVE  i = j
    <3>1. (i = m + 1 \/ i \in 1..m) /\ (j = m + 1 \/ j \in 1..m)
      OBVIOUS
    <3> QED  BY <1>8, <1>15, <1>16, <2>3, <3>1
  <2>4. ASSUME NEW i \in 1..(m + 1), NEW j \in 1..(m + 1), i < j
        PROVE  r[i].id < r[j].id
    <3>1. i \in 1..m /\ (j = m + 1 \/ j \in 1..m)
      BY <2>4
    <3> QED  BY <1>15, <1>16, <2>4, <3>1
  <2>5. Len(r) > 0 /\ Len(r) = m + 1
    BY <1>15
  <2> QED  BY <1>15, <2>1, <2>2, <2>3, <2>4, <2>5 DEF QueueChain
<1>18. \A u \in Threads : u # t => pc[u] \notin InPush
  BY <1>0, <1>3 DEF SoleProducer, Producer, InPush
<1>19. QueueTags(r)'
  <2>1. \A u \in Threads : ~Filled(u)'
    BY <1>10, <1>18 DEF Filled, OtherCalls, InPush
  <2>2. ASSUME NEW i \in 1..(m + 1) PROVE r[i].id < qid'
    <3>1. i = m + 1 \/ i \in 1..m
      OBVIOUS
    <3> QED  BY <1>10, <1>15, <1>16, <3>1
  <2> QED  BY <1>15, <2>1, <2>2 DEF QueueTags
<1>20. QueueItems(r)'
  <2>1. PICK f : f = [i \in 1..(m - 1) |-> data[q[i + 1].node]]
    OBVIOUS
  <2>2. PICK g : g = [i \in 1..m |-> data[r[i + 1].node]]
    OBVIOUS
  <2>3. ASSUME NEW i \in 1..(m - 1) PROVE data[q[i + 1].node] \in Nat
    <3>1. i + 1 \in 1..m
      BY <1>4
    <3> QED  BY <1>0, <1>16, <3>1 DEF ListQueueTypes
  <2>4. f \in Seq(Nat) /\ Len(f) = m - 1
    BY <1>4, <2>1, <2>3
  <2>5. ASSUME NEW i \in 1..m PROVE g[i] = Append(f, item[t])[i]
    <3>1. CASE i = m
      <4>1. g[i] = data[h]
        BY <1>8, <1>15, <2>2, <3>1
      <4> QED  BY <1>9, <2>4, <3>1, <4>1
    <3>2. CASE i # m
      <4>1. i \in 1..(m - 1) /\ i + 1 \in 1..m
        BY <3>2
      <4>2. g[i] = data[q[i + 1].node]
        BY <1>15, <2>2, <4>1
      <4>3. Append(f, item[t])[i] = f[i]
        BY <2>4, <4>1
      <4> QED  BY <2>1, <4>1, <4>2, <4>3
    <3> QED  BY <3>1, <3>2
  <2>6. Append(f, item[t]) \in Seq(Nat) /\ Len(Append(f, item[t])) = m
    BY <1>4, <1>9, <2>4
  <2>7. g = Append(f, item[t])
    <3>1. DOMAIN Append(f, item[t]) = 1..m
      BY <2>6
    <3> QED  BY <2>2, <2>5, <2>6, <3>1
  <2>8. pushed = popped \o f /\ popped \in Seq(Nat)
    BY <1>0, <1>2, <1>4, <2>1 DEF QueueItems, ListQueueTypes
  <2>9. Append(popped \o f, item[t]) = popped \o Append(f, item[t])
    BY <1>9, <2>4, <2>8, AppendConcat, Zenon
  <2>10. pushed' = popped \o g
    BY <1>10, <2>7, <2>8, <2>9
  <2>11. Len(r) - 1 = m
    BY <1>4, <1>15
  <2> QED  BY <1>10, <2>2, <2>10, <2>11 DEF QueueItems
<1>21. QueueIn(r)'
  <2>1. r[Len(r)] = z /\ r[Len(r) - 1] = q[m] /\ Len(r) > 1
    BY <1>4, <1>15
  <2>2. \A u \in Threads : pc'[u] = "swing" => u = t
    BY <1>10, <1>18 DEF OtherCalls, InPush
  <2>3. \A u \in Threads : pc'[u] \notin {"tailnext", "link", "help"}
    BY <1>10, <1>18 DEF OtherCalls, InPush
  <2>4. inL'[t].id < mine'[t].id
    BY <1>4, <1>6, <1>10, <1>16
  <2> QED  BY <1>6, <1>10, <2>1, <2>2, <2>3, <2>4 DEF QueueIn
<1>22. QueuePlaces(r)'
  <2>1. \A n : Carries(t, n) <=> n = h
    BY <1>3, <1>7, <1>8 DEF Carries, Filled, PutPC
  <2>2. \A n : ~Carries(t, n)'
    BY <1>10 DEF Carries, Filled, PutPC
  <2>3. \A u \in Threads, n \in Nodes : Carries(u, n)' <=> Carries(u, n) /\ u # t
    BY <1>10, <2>1, <2>2, CarriesOthers
  <2>4. \A n \in Nodes, u, v \in Threads : Carries(u, n) /\ Carries(v, n) => u = v
    BY <1>2 DEF QueuePlaces
  <2>5. \A i \in 1..m : q[i].node \notin FreeNodes /\ \A u \in Threads : ~Carries(u, q[i].node)
    BY <1>2, <1>4 DEF QueuePlaces
  <2>6. \A n \in FreeNodes, u \in Threads : ~Carries(u, n)
    BY <1>2 DEF QueuePlaces
  <2>7. ASSUME NEW i \in 1..(m + 1)
        PROVE  r[i].node \notin FreeNodes /\ \A u \in Threads : ~Carries(u, r[i].node)'
    <3>1. CASE i = m + 1
      BY <1>8, <1>9, <1>15, <2>3, <2>4, <2>6, <3>1
    <3>2. CASE i \in 1..m
      BY <1>15, <1>16, <2>3, <2>5, <3>2
    <3> QED  BY <3>1, <3>2
  <2>8. \A n \in FreeNodes, u \in Threads : ~Carries(u, n)'
    BY <1>0, <2>3, <2>6
  <2>9. \A n \in Nodes, u, v \in Threads : Carries(u, n)' /\ Carries(v, n)' => u = v
    BY <2>3, <2>4
  <2>10. ASSUME NEW n \in Nodes
         PROVE  \/ n \in FreeNodes \/ \E u \in Threads : Carries(u, n)'
                \/ \E i \in 1..(m + 1) : r[i].node = n
    <3>1. \/ n \in FreeNodes \/ \E u \in Threads : Carries(u, n)
          \/ \E i \in 1..m : q[i].node = n
      BY <1>2, <1>4 DEF QueuePlaces
    <3>2. CASE \E u \in Threads : Carries(u, n)
      <4>1. (\E u \in Threads : Carries(u, n)') \/ n = h
        BY <2>1, <2>3, <3>2
      <4>2. m + 1 \in 1..(m + 1) /\ r[m + 1].node = h
        BY <1>8, <1>15
      <4> QED  BY <4>1, <4>2
    <3>3. CASE \E i \in 1..m : q[i].node = n
      <4>1. PICK i \in 1..m : q[i].node = n
        BY <3>3
      <4>2. i \in 1..(m + 1) /\ r[i].node = n
        BY <1>15, <4>1
      <4> QED  BY <4>2
    <3> QED  BY <3>1, <3>2, <3>3
  <2> QED  BY <1>13, <1>15, <2>7, <2>8, <2>9, <2>10 DEF QueuePlaces
<1>23. SoleProducer'
  <2>1. Producer(t)
    BY <1>3 DEF Producer, InPush
  <2> QED  BY <1>0, <1>10, <2>1, SoleFrame
<1>24. \A u \in Threads : UnusedKnows(u)'
  <2>1. \A u \in Threads : u # t => ~Reading(u) /\ ~Filled(u)
    BY <1>18 DEF Reading, Filled, InPush
  <2>2. ASSUME NEW u \in Threads, u # t, pc[u] \in PutPC
        PROVE  next'[new[u].node] = next[new[u].node]
    <3>1. new[u].node \in Nodes
      BY <1>0, <2>2, ListQueueFacts DEF UnusedKnows, DoublePointer
    <3>2. Carries(u, new[u].node)
      BY <2>2 DEF Carries
    <3> QED  BY <1>12, <3>1, <3>2
  <2>3. \A u \in Threads : u # t => UnusedKnows(u)'
    BY <1>0, <1>10, <2>1, <2>2, UnusedOthers
  <2>4. UnusedKnows(t)
    BY <1>0
  <2>5. UnusedKnows(t)'
    BY <1>10, <2>4 DEF UnusedKnows, Reading, Filled, PutPC
  <2> QED  BY <2>3, <2>5
<1>25. \A u \in Threads : PopKnows(u)'
  <2>1. in.id <= in'.id
    BY <1>0, <1>10 DEF ListQueueTypes, DoublePointer
  <2>2. out = q[1] /\ out.node \in Nodes
    BY <1>2, <1>4, <1>16 DEF QueueChain
  <2>3. next[out.node] # Null => next'[out.node] = next[out.node]
    BY <1>6, <1>12, <2>2
  <2>4. \A u \in Threads : u # t => PopKnows(u)'
    BY <1>0, <1>10, <1>11, <2>1, <2>3, PopOthers
  <2>5. PopKnows(t)'
    BY <1>10 DEF PopKnows, PopPC
  <2> QED  BY <2>4, <2>5
<1>26. QueueParts(r)'
  BY <1>17, <1>19, <1>20, <1>21, <1>22 DEF QueueParts
<1> QED  BY <1>11, <1>13, <1>15, <1>23, <1>24, <1>25, <1>26 DEF ListQueueIInv

\* in_ is moved to the last node.
LEMMA InMoves ==
  ASSUME ListQueueIInv, ListQueueTypes', NEW t \in Threads, OtherCalls(t),
         UNCHANGED <<head, next, out, qid, data, pushed, popped>>,
         NEW q \in Seq(DoublePointer), QueueParts(q), in' = q[Len(q)], in.id <= in'.id,
         \A u \in Threads : u # t => pc[u] \notin {"tailnext", "link"},
         pc'[t] \in {"idle", "readout"}, pc[t] \in {"swing", "pophelp"},
         old'[t] = old[t], quota'[t] = quota[t]
  PROVE  ListQueueIInv'
<1>0. /\ ListQueueTypes /\ SoleProducer /\ UnusedList
      /\ \A u \in Threads : UnusedKnows(u) /\ PopKnows(u)
      /\ FreeNodes \subseteq Nodes
  BY ListQueueFacts DEF ListQueueIInv
<1>1. QueueChain(q) /\ QueueTags(q) /\ QueueItems(q) /\ QueueIn(q) /\ QueuePlaces(q)
  BY DEF QueueParts
<1>2. FreeNodes' = FreeNodes /\ UnusedList'
  <2>1. next' \in [Nodes -> DoublePointer]
    BY DEF ListQueueTypes, ListTypeOK
  <2> QED  BY <1>0, <2>1, UnusedFrame
<1>3. QueueChain(q)' /\ QueueItems(q)'
  BY <1>1 DEF QueueChain, QueueItems
<1>4. QueueTags(q)'
  <2>1. \A u \in Threads : Filled(u)' => Filled(u) /\ mine'[u] = mine[u]
    BY DEF Filled, OtherCalls
  <2> QED  BY <1>1, <2>1 DEF QueueTags
<1>5. QueueIn(q)'
  <2>1. \A u \in Threads : pc'[u] \notin {"tailnext", "link", "help"}
    BY <1>1 DEF QueueIn, OtherCalls
  <2>2. \A u \in Threads : pc'[u] = "swing" =>
          pc[u] = "swing" /\ mine'[u] = mine[u] /\ inL'[u] = inL[u]
    BY DEF OtherCalls
  <2> QED  BY <1>1, <2>1, <2>2 DEF QueueIn
<1>6. QueuePlaces(q)'
  <2>1. \A n \in Nodes : Carries(t, n)' <=> Carries(t, n)
    BY DEF Carries, Filled, PutPC
  <2> QED  BY <1>0, <1>1, <1>2, <2>1, PlacesSame
<1>7. SoleProducer'
  <2>1. Producer(t)' => Producer(t)
    BY DEF Producer, InPush
  <2> QED  BY <1>0, <2>1, SoleFrame
<1>8. \A u \in Threads : UnusedKnows(u)'
  <2>1. \A u \in Threads : Reading(u) => old[u].node \in FreeNodes'
    BY <1>0, <1>2 DEF UnusedKnows
  <2>2. \A u \in Threads : u # t => UnusedKnows(u)'
    BY <1>0, <2>1, UnusedOthers
  <2>3. UnusedKnows(t)
    BY <1>0
  <2>4. UnusedKnows(t)'
    BY <2>3 DEF UnusedKnows, Reading, Filled, PutPC
  <2> QED  BY <2>2, <2>4
<1>9. \A u \in Threads : PopKnows(u)'
  <2>1. \A u \in Threads : u # t => PopKnows(u)'
    BY <1>0, PopOthers
  <2>2. PopKnows(t)'
    BY DEF PopKnows, PopPC
  <2> QED  BY <2>1, <2>2
<1>10. QueueParts(q)'
  BY <1>3, <1>4, <1>5, <1>6 DEF QueueParts
<1> QED  BY <1>2, <1>7, <1>8, <1>9, <1>10 DEF ListQueueIInv

\* Where in_ is on the list.
LEMMA InPlace ==
  ASSUME ListQueueIInv, NEW q \in Seq(DoublePointer), QueueParts(q)
  PROVE  /\ Len(q) \in Nat /\ Len(q) > 0 /\ q[1] = out
         /\ q[Len(q)].id \in Nat /\ in.id <= q[Len(q)].id
         /\ \/ in = q[Len(q)]
            \/ Len(q) > 1 /\ in = q[Len(q) - 1] /\ in.id < q[Len(q)].id
<1>1. QueueChain(q) /\ QueueIn(q)
  BY DEF QueueParts
<1>2. PICK m \in Nat : m = Len(q)
  OBVIOUS
<1>3. m > 0 /\ m \in 1..m /\ q[1] = out /\ q[m] \in DoublePointer
  BY <1>1, <1>2 DEF QueueChain
<1>4. q[m].id \in Nat /\ in.id \in Nat
  BY <1>3 DEF DoublePointer, ListQueueIInv, ListQueueTypes
<1>5. in = q[m] \/ (m > 1 /\ in = q[m - 1])
  BY <1>1, <1>2 DEF QueueIn
<1>6. m > 1 => m - 1 \in 1..m /\ m - 1 < m
  OBVIOUS
<1>7. m > 1 => q[m - 1].id < q[m].id
  BY <1>1, <1>2, <1>3, <1>6 DEF QueueChain
<1> QED  BY <1>2, <1>3, <1>4, <1>5, <1>7

\* Push moves in_ on.
LEMMA MoveInInv ==
  ASSUME ListQueueIInv, NEW t \in Threads, MoveIn(t)
  PROVE  ListQueueIInv'
<1>1. PICK q \in Seq(DoublePointer) : QueueParts(q)
  BY DEF ListQueueIInv
<1>2. /\ OtherCalls(t) /\ pc[t] = "swing" /\ pc'[t] = "idle"
      /\ in' = IF in = inL[t] THEN mine[t] ELSE in
      /\ UNCHANGED <<head, next, out, qid, data, pushed, popped, old, new, quota>>
  BY DEF ListQueueIInv, ListQueueTypes, MoveIn, SwingIn, Goto, OtherCalls
<1>3. ListQueueTypes'
  <2>1. in' \in DoublePointer
    BY <1>2, ListQueueFacts
  <2> QED  BY <2>1, ListQueueFacts DEF ListQueueIInv, ListQueueTypes, ListTypeOK, MoveIn, Goto
<1>4. \A u \in Threads : u # t => pc[u] \notin InPush
  BY <1>2 DEF ListQueueIInv, SoleProducer, Producer, InPush
<1>5. mine[t] = q[Len(q)] /\ (in = q[Len(q)] \/ in = inL[t])
  BY <1>1, <1>2, <1>4 DEF QueueParts, QueueIn, InPush
<1>6. in' = q[Len(q)]
  BY <1>2, <1>5
<1>7. in.id <= in'.id
  BY <1>1, <1>6, InPlace
<1> QED  BY <1>1, <1>2, <1>3, <1>4, <1>6, <1>7, InMoves DEF InPush

\* Pop moves in_ on.
LEMMA PopHelpInInv ==
  ASSUME ListQueueIInv, NEW t \in Threads, PopHelpIn(t)
  PROVE  ListQueueIInv'
<1>1. PICK q \in Seq(DoublePointer) : QueueParts(q)
  BY DEF ListQueueIInv
<1>2. /\ OtherCalls(t) /\ pc[t] = "pophelp" /\ pc'[t] = "readout"
      /\ in' = IF in = inL[t] THEN nextL[t] ELSE in
      /\ UNCHANGED <<head, next, out, qid, data, pushed, popped, old, new, mine, quota>>
  BY DEF ListQueueIInv, ListQueueTypes, PopHelpIn, SwingIn, Goto, OtherCalls
<1>3. ListQueueTypes'
  <2>1. in' \in DoublePointer
    BY <1>2, ListQueueFacts
  <2> QED  BY <2>1, ListQueueFacts
           DEF ListQueueIInv, ListQueueTypes, ListTypeOK, PopHelpIn, Goto, PopPC
<1>4. CASE in # inL[t]
  <2>1. PopKnows(t)'
    BY <1>2 DEF PopKnows, PopPC
  <2> QED  BY <1>2, <1>3, <1>4, <2>1, PopStep DEF PopPC
<1>5. CASE in = inL[t]
  <2>1. PopKnows(t) /\ in = outL[t]
    BY <1>2, <1>5 DEF ListQueueIInv, PopKnows
  <2>2. out.id <= in.id /\ outL[t].id <= out.id /\ (outL[t].id = out.id => outL[t] = out)
    BY <1>2, <2>1, InAhead DEF PopKnows, PopPC
  <2>3. out.id \in Nat /\ in.id \in Nat
    BY DEF ListQueueIInv, ListQueueTypes, DoublePointer
  <2>4. outL[t] = out /\ in = out
    BY <2>1, <2>2, <2>3
  <2>5. in' = next[out.node] /\ next[out.node] # Null
    BY <1>2, <1>5, <2>1, <2>4 DEF PopKnows
  <2>6. PICK m \in Nat : m = Len(q)
    OBVIOUS
  <2>7. /\ m > 0 /\ q[1] = out /\ 1 \in 1..m /\ m \in 1..m
        /\ next[q[1].node] = IF 1 = m THEN Null ELSE q[2]
        /\ \A i, j \in 1..m : i < j => q[i].id < q[j].id
    BY <1>1, <2>6 DEF QueueParts, QueueChain
  <2>8. m > 1 /\ in' = q[2]
    BY <2>5, <2>7
  <2>9. in # q[m]
    <3>1. q[1].id < q[m].id
      BY <2>7, <2>8
    <3> QED  BY <2>3, <2>4, <2>7, <3>1
  <2>10. m - 1 \in 1..m /\ in = q[m - 1] /\ \E u \in Threads : pc[u] = "swing"
    BY <1>1, <2>6, <2>8, <2>9 DEF QueueParts, QueueIn
  <2>11. m = 2
    <3>1. ~ (1 < m - 1)
      <4>1. 1 < m - 1 => q[1].id < q[m - 1].id
        BY <2>7, <2>10
      <4> QED  BY <2>3, <2>4, <2>7, <2>10, <4>1
    <3> QED  BY <2>8, <3>1
  <2>12. in' = q[Len(q)]
    BY <2>6, <2>8, <2>11
  <2>13. in.id <= in'.id
    BY <1>1, <2>12, InPlace
  <2>14. \A u \in Threads : pc[u] \notin {"tailnext", "link"}
    BY <2>10 DEF ListQueueIInv, SoleProducer, Producer, InPush
  <2> QED  BY <1>1, <1>2, <1>3, <2>12, <2>13, <2>14, InMoves
<1> QED  BY <1>4, <1>5

\* Pop takes the first item.
LEMMA AdvanceInv ==
  ASSUME ListQueueIInv, NEW t \in Threads, AdvanceOut(t), out = outL[t]
  PROVE  ListQueueIInv'
<1>0. /\ ListQueueTypes /\ SoleProducer /\ UnusedList
      /\ \A u \in Threads : UnusedKnows(u) /\ PopKnows(u)
      /\ FreeNodes \subseteq Nodes
      /\ next \in [Nodes -> DoublePointer]
  BY ListQueueFacts DEF ListQueueIInv
<1>1. PICK q \in Seq(DoublePointer) : QueueParts(q)
  BY DEF ListQueueIInv
<1>2. QueueChain(q) /\ QueueTags(q) /\ QueueItems(q) /\ QueueIn(q) /\ QueuePlaces(q)
  BY <1>1 DEF QueueParts
<1>3. /\ OtherCalls(t) /\ pc[t] = "advance" /\ pc'[t] = "drop" /\ out' = nextL[t]
      /\ outL'[t] = out /\ popped' = Append(popped, item[t])
      /\ pc' = [pc EXCEPT ![t] = "drop"]
      /\ UNCHANGED <<head, next, in, qid, data, pushed, old, new, mine, quota, inL, outL, id, count>>
  BY DEF ListQueueIInv, ListQueueTypes, AdvanceOut, Goto, OtherCalls
<1>4. in.id > out.id /\ nextL[t] = next[out.node] /\ nextL[t] # Null /\ item[t] = data[nextL[t].node]
  <2>1. PopKnows(t)
    BY <1>0
  <2> QED  BY <1>3, <2>1 DEF PopKnows
<1>5. ListQueueTypes'
  <2>1. popped' \in Seq(Nat)
    BY <1>0, <1>3 DEF ListQueueTypes
  <2>2. out' \in DoublePointer /\ item' \in [Threads -> Nat] /\ nextL' \in [Threads -> DoublePointer]
    BY <1>0, <1>3, ListQueueFacts DEF ListQueueTypes, AdvanceOut
  <2>3. pc' \in [Threads -> InPush \cup PopPC \cup PutPC \cup {"idle"}]
    BY <1>0, <1>3 DEF ListQueueTypes, PopPC
  <2> QED  BY <1>0, <1>3, <2>1, <2>2, <2>3 DEF ListQueueTypes, ListTypeOK
<1>6. PICK m \in Nat : m = Len(q)
  OBVIOUS
<1>7. /\ m > 0 /\ q[1] = out /\ 1 \in 1..m /\ m \in 1..m
      /\ \A i \in 1..m : /\ q[i] \in DoublePointer /\ q[i].node \in Nodes
                         /\ next[q[i].node] = IF i = m THEN Null ELSE q[i + 1]
      /\ \A i, j \in 1..m : q[i].node = q[j].node => i = j
      /\ \A i, j \in 1..m : i < j => q[i].id < q[j].id
  BY <1>2, <1>6 DEF QueueChain
<1>8. m > 1 /\ out' = q[2] /\ 2 \in 1..m /\ nextL[t] = q[2]
  <2>1. next[out.node] = IF 1 = m THEN Null ELSE q[2]
    BY <1>7
  <2>2. m > 1
    BY <1>4, <1>7, <2>1
  <2> QED  BY <1>3, <1>4, <2>1, <2>2
<1>9. PICK r : r = Tail(q)
  OBVIOUS
<1>10. PICK k \in Nat : k = m - 1 /\ k > 0
  BY <1>8
<1>11. /\ r \in Seq(DoublePointer) /\ Len(r) = k
       /\ \A i \in 1..k : r[i] = q[i + 1] /\ i + 1 \in 1..m
  <2>1. q # <<>>
    BY <1>6, <1>8
  <2> QED  BY <1>6, <1>8, <1>9, <1>10, <2>1
<1>12. QueueChain(r)'
  <2>1. r[1] = out' /\ Len(r) > 0
    BY <1>8, <1>10, <1>11
  <2>2. ASSUME NEW i \in 1..k
        PROVE  r[i].node \in Nodes /\ next'[r[i].node] = IF i = k THEN Null ELSE r[i + 1]
    <3>1. i + 1 \in 1..m /\ (i = k <=> i + 1 = m) /\ (i # k => i + 1 \in 1..k)
      BY <1>10
    <3>2. next[q[i + 1].node] = IF i + 1 = m THEN Null ELSE q[(i + 1) + 1]
      BY <1>7, <3>1
    <3>3. r[i] = q[i + 1] /\ (i # k => r[i + 1] = q[(i + 1) + 1])
      BY <1>11, <3>1
    <3> QED  BY <1>3, <1>7, <3>1, <3>2, <3>3
  <2>3. ASSUME NEW i \in 1..k, NEW j \in 1..k, r[i].node = r[j].node PROVE i = j
    <3>1. i + 1 = j + 1
      BY <1>7, <1>11, <2>3
    <3> QED  BY <3>1
  <2>4. ASSUME NEW i \in 1..k, NEW j \in 1..k, i < j PROVE r[i].id < r[j].id
    <3>1. i + 1 < j + 1 /\ i + 1 \in 1..m /\ j + 1 \in 1..m
      BY <1>11, <2>4
    <3> QED  BY <1>7, <1>11, <3>1
  <2> QED  BY <1>11, <2>1, <2>2, <2>3, <2>4 DEF QueueChain
<1>13. QueueTags(r)'
  <2>1. \A u \in Threads : Filled(u)' => Filled(u) /\ mine'[u] = mine[u]
    BY <1>3 DEF Filled, OtherCalls
  <2>2. \A i \in 1..k : r[i].id < qid
    BY <1>2, <1>6, <1>11 DEF QueueTags
  <2>3. \A i \in 1..k, u \in Threads : Filled(u) => r[i].id < mine[u].id
    BY <1>2, <1>6, <1>11 DEF QueueTags
  <2> QED  BY <1>2, <1>3, <1>11, <2>1, <2>2, <2>3 DEF QueueTags
<1>14. QueueItems(r)'
  <2>1. PICK f : f = [i \in 1..(m - 1) |-> data[q[i + 1].node]]
    OBVIOUS
  <2>2. PICK g : g = [i \in 1..(k - 1) |-> data[r[i + 1].node]]
    OBVIOUS
  <2>3. PICK x : x = item[t]
    OBVIOUS
  <2>4. x \in Nat /\ x = data[q[2].node]
    BY <1>0, <1>4, <1>8, <2>3 DEF ListQueueTypes
  <2>5. ASSUME NEW i \in 1..k PROVE data[q[i + 1].node] \in Nat
    BY <1>0, <1>7, <1>11 DEF ListQueueTypes
  <2>6. f \in Seq(Nat) /\ Len(f) = k /\ \A i \in 1..k : f[i] = data[q[i + 1].node]
    BY <1>10, <2>1, <2>5
  <2>7. ASSUME NEW i \in 1..(k - 1) PROVE g[i] = f[i + 1] /\ f[i + 1] \in Nat
    <3>1. i + 1 \in 1..k
      BY <1>10
    <3>2. r[i + 1] = q[(i + 1) + 1] /\ f[i + 1] = data[q[(i + 1) + 1].node]
      BY <1>11, <2>6, <3>1
    <3> QED  BY <2>2, <2>5, <2>6, <3>1, <3>2
  <2>8. g \in Seq(Nat) /\ Len(g) = k - 1
    <3>1. \A i \in 1..(k - 1) : data[r[i + 1].node] \in Nat
      BY <2>2, <2>7
    <3> QED  BY <1>10, <2>2, <3>1
  <2>9. <<x>> \in Seq(Nat) /\ <<x>> \o g \in Seq(Nat) /\ Len(<<x>> \o g) = k
    BY <1>10, <2>4, <2>8
  <2>10. ASSUME NEW i \in 1..k PROVE (<<x>> \o g)[i] = f[i]
    <3>1. CASE i = 1
      BY <1>10, <2>4, <2>6, <2>8, <3>1
    <3>2. CASE i # 1
      <4>1. i - 1 \in 1..(k - 1) /\ (i - 1) + 1 = i
        BY <3>2
      <4>2. g[i - 1] = f[i]
        BY <2>7, <4>1
      <4>3. (<<x>> \o g)[i] = g[i - 1]
        BY <2>4, <2>8, <3>2
      <4> QED  BY <4>2, <4>3
    <3> QED  BY <3>1, <3>2
  <2>11. f = <<x>> \o g
    <3>1. PICK w : w = <<x>> \o g
      OBVIOUS
    <3>2. w \in Seq(Nat) /\ Len(w) = k /\ \A i \in 1..k : w[i] = f[i]
      BY <2>9, <2>10, <3>1, Zenon
    <3>3. f = w
      BY <2>6, <3>2
    <3> QED  BY <3>1, <3>3
  <2>12. pushed = popped \o f /\ popped \in Seq(Nat)
    BY <1>0, <1>2, <1>6, <2>1 DEF QueueItems, ListQueueTypes
  <2>13. popped' = popped \o <<x>>
    BY <1>3, <2>3, <2>4, <2>12, AppendIsConcat
  <2>14. (popped \o <<x>>) \o g = popped \o (<<x>> \o g)
    BY <2>8, <2>9, <2>12, ConcatAssociative
  <2>15. pushed' = popped' \o g
    BY <1>3, <2>11, <2>12, <2>13, <2>14
  <2> QED  BY <1>3, <1>11, <2>2, <2>15 DEF QueueItems
<1>15. QueueIn(r)'
  <2>1. r[k] = q[m]
    BY <1>10, <1>11
  <2>2. \A u \in Threads : pc'[u] \in {"swing", "tailnext", "link", "help"} => pc'[u] = pc[u]
    BY <1>3 DEF OtherCalls
  <2>3. in = r[k] \/ (k > 1 /\ in = r[k - 1] /\ \E u \in Threads : pc'[u] = "swing" /\ inL'[u] = in)
    <3>1. CASE in = q[m]
      BY <2>1, <3>1
    <3>2. CASE m > 1 /\ in = q[m - 1] /\ \E u \in Threads : pc[u] = "swing" /\ inL[u] = in
      <4>1. m - 1 # 1
        <5>1. out.id \in Nat /\ in.id \in Nat
          BY <1>0 DEF ListQueueTypes, DoublePointer
        <5> QED  BY <1>4, <1>7, <3>2, <5>1
      <4>2. k > 1 /\ k - 1 \in 1..k /\ r[k - 1] = q[m - 1]
        BY <1>8, <1>10, <1>11, <4>1
      <4>3. PICK u \in Threads : pc[u] = "swing" /\ inL[u] = in
        BY <3>2
      <4>4. pc'[u] = "swing" /\ inL'[u] = in
        BY <1>3, <4>3 DEF OtherCalls
      <4> QED  BY <3>2, <4>2, <4>4
    <3> QED  BY <1>2, <1>6, <3>1, <3>2 DEF QueueIn
  <2> QED  BY <1>2, <1>3, <1>6, <1>11, <2>1, <2>2, <2>3 DEF QueueIn
<1>16. FreeNodes' = FreeNodes /\ UnusedList'
  BY <1>0, <1>3, UnusedFrame
<1>17. PICK h : h = q[1].node
  OBVIOUS
<1>18. QueuePlaces(r)'
  <2>1. \A n : Carries(t, n)' <=> n = h
    BY <1>3, <1>7, <1>17 DEF Carries, Filled, PutPC
  <2>2. \A n : ~Carries(t, n)
    BY <1>3 DEF Carries, Filled, PutPC
  <2>3. \A u \in Threads, n \in Nodes : Carries(u, n)' <=> Carries(u, n) \/ (u = t /\ n = h)
    BY <1>3, <2>1, <2>2, CarriesOthers
  <2>4. \A i \in 1..m : q[i].node \notin FreeNodes /\ \A u \in Threads : ~Carries(u, q[i].node)
    BY <1>2, <1>6 DEF QueuePlaces
  <2>5. \A n \in FreeNodes, u \in Threads : ~Carries(u, n)
    BY <1>2 DEF QueuePlaces
  <2>6. \A n \in Nodes, u, v \in Threads : Carries(u, n) /\ Carries(v, n) => u = v
    BY <1>2 DEF QueuePlaces
  <2>7. ASSUME NEW i \in 1..k
        PROVE  r[i].node \notin FreeNodes /\ \A u \in Threads : ~Carries(u, r[i].node)'
    <3>1. r[i] = q[i + 1] /\ i + 1 \in 1..m /\ i + 1 # 1
      BY <1>11
    <3>2. q[i + 1].node # h /\ q[i + 1].node \in Nodes
      BY <1>7, <1>17, <3>1
    <3> QED  BY <2>3, <2>4, <3>1, <3>2
  <2>8. h \in Nodes /\ h \notin FreeNodes /\ \A u \in Threads : ~Carries(u, h)
    BY <1>7, <1>17, <2>4
  <2>9. \A n \in FreeNodes, u \in Threads : ~Carries(u, n)'
    BY <1>0, <2>3, <2>5, <2>8
  <2>10. \A n \in Nodes, u, v \in Threads : Carries(u, n)' /\ Carries(v, n)' => u = v
    BY <2>3, <2>6, <2>8
  <2>11. ASSUME NEW n \in Nodes
         PROVE  \/ n \in FreeNodes \/ \E u \in Threads : Carries(u, n)'
                \/ \E i \in 1..k : r[i].node = n
    <3>1. \/ n \in FreeNodes \/ \E u \in Threads : Carries(u, n)
          \/ \E i \in 1..m : q[i].node = n
      BY <1>2, <1>6 DEF QueuePlaces
    <3>2. CASE \E i \in 1..m : q[i].node = n
      <4>1. PICK i \in 1..m : q[i].node = n
        BY <3>2
      <4>2. CASE i = 1
        BY <1>17, <2>3, <4>1, <4>2
      <4>3. CASE i # 1
        <5>1. i - 1 \in 1..k /\ (i - 1) + 1 = i
          BY <1>10, <4>3
        <5> QED  BY <1>11, <4>1, <5>1
      <4> QED  BY <4>2, <4>3
    <3> QED  BY <2>3, <3>1, <3>2
  <2> QED  BY <1>11, <1>16, <2>7, <2>9, <2>10, <2>11 DEF QueuePlaces
<1>19. SoleProducer'
  <2>1. Producer(t)' => Producer(t)
    BY <1>3 DEF Producer, InPush
  <2> QED  BY <1>0, <1>3, <2>1, SoleFrame
<1>20. \A u \in Threads : UnusedKnows(u)'
  <2>1. \A u \in Threads : Reading(u) => old[u].node \in FreeNodes'
    BY <1>0, <1>16 DEF UnusedKnows
  <2>2. \A u \in Threads : u # t => UnusedKnows(u)'
    BY <1>0, <1>3, <2>1, UnusedOthers
  <2>3. UnusedKnows(t)
    BY <1>0
  <2>4. UnusedKnows(t)'
    BY <1>3, <2>3 DEF UnusedKnows, Reading, Filled, PutPC
  <2> QED  BY <2>2, <2>4
<1>21. \A u \in Threads : PopKnows(u)'
  <2>1. out.id < out'.id
    BY <1>7, <1>8
  <2>2. \A u \in Threads : u # t => PopKnows(u)'
    BY <1>0, <1>3, <1>5, <2>1, PopOthers
  <2>3. PopKnows(t)'
    BY <1>3, <1>7 DEF PopKnows, PopPC
  <2> QED  BY <2>2, <2>3
<1>22. QueueParts(r)'
  BY <1>12, <1>13, <1>14, <1>15, <1>18 DEF QueueParts
<1> QED  BY <1>5, <1>11, <1>16, <1>19, <1>20, <1>21, <1>22 DEF ListQueueIInv

\* The queue as the constructor leaves it: node 0 is the dummy, the others are unused.
LEMMA ListQueueInitInv == ListQueueInit => ListQueueIInv
<1> SUFFICES ASSUME ListQueueInit PROVE ListQueueIInv
  OBVIOUS
<1>0. /\ Size \in Nat /\ Size > 1 /\ NIL = Size /\ NIL \notin Nodes /\ 0 \in Nodes /\ 1 \in Nodes
  BY FreeListAssumption, QueueAssumption DEF NIL, Nodes
<1>1. /\ head = [id |-> 1, node |-> 1]
      /\ next = [n \in Nodes |->
                   IF n < 1 \/ n = Size - 1 THEN Null ELSE [id |-> n + 1, node |-> n + 1]]
      /\ id = Size - 1
      /\ pc = [t \in Threads |-> "idle"]
      /\ old = [t \in Threads |-> Null] /\ new = [t \in Threads |-> Null]
  BY <1>0 DEF ListQueueInit, ListInit
<1>2. /\ in = [id |-> 0, node |-> 0] /\ out = in /\ qid = 1 /\ data = [n \in Nodes |-> 0]
      /\ count = 0 /\ quota \in Quotas /\ item = [t \in Threads |-> 0]
      /\ inL = [t \in Threads |-> Null] /\ outL = [t \in Threads |-> Null]
      /\ nextL = [t \in Threads |-> Null] /\ mine = [t \in Threads |-> Null]
      /\ pushed = <<>> /\ popped = <<>>
  BY DEF ListQueueInit
<1>3. Null \in DoublePointer /\ Null.node = NIL /\ Null.id = 0
  BY <1>0 DEF Null, DoublePointer
<1>4. ListQueueTypes
  <2>1. \A n \in Nodes : n # Size - 1 => n + 1 \in Nodes /\ n + 1 \in Nat
    BY <1>0 DEF Nodes
  <2>2. next \in [Nodes -> DoublePointer]
    BY <1>1, <1>3, <2>1 DEF DoublePointer
  <2>3. head \in DoublePointer /\ in \in DoublePointer /\ out \in DoublePointer
    BY <1>0, <1>1, <1>2 DEF DoublePointer
  <2>4. ListTypeOK
    BY <1>0, <1>1, <1>3, <2>2, <2>3 DEF ListTypeOK
  <2>5. quota \in [Threads -> [push : Nat, pops : BOOLEAN]]
    BY <1>2, QueueAssumption
  <2>6. pushed \in Seq(Nat) /\ popped \in Seq(Nat)
    BY <1>2
  <2> QED  BY <1>1, <1>2, <1>3, <2>3, <2>4, <2>5, <2>6 DEF ListQueueTypes
<1>5. SoleProducer
  BY <1>1 DEF SoleProducer, Producer, InPush
<1>6. ListOf(Nodes, Link, head.node, NIL, 1..(Size - 1))
  <2>1. PICK k \in Nat : k = Size - 1 /\ k # 0
    BY <1>0
  <2>2. 1..k \subseteq Nodes
    BY <2>1 DEF Nodes
  <2>3. ASSUME NEW n \in 1..k PROVE n # NIL /\ Link[n] = IF n = k THEN NIL ELSE n + 1
    <3>1. n \in Nodes /\ ~(n < 1) /\ n # NIL
      BY <1>0, <2>1, <2>2
    <3>2. next[n] = IF n = k THEN Null ELSE [id |-> n + 1, node |-> n + 1]
      BY <1>1, <2>1, <3>1
    <3> QED  BY <1>3, <3>1, <3>2 DEF Link
  <2>4. head.node = IF k = 0 THEN NIL ELSE 1
    BY <1>1, <2>1
  <2> QED  BY <2>1, <2>2, <2>3, <2>4, ListInterval
<1>7. FreeNodes = 1..(Size - 1)
  BY <1>6, FreeIs DEF FreeNodes, NodesFrom, Link
<1>8. UnusedList
  <2>1. ASSUME NEW p \in DoublePointer, Live(p), p.node = NIL PROVE p = Null
    <3>1. CASE p = head
      BY <1>0, <1>1, <2>1, <3>1
    <3>2. ASSUME NEW n \in FreeNodes, p = next[n] PROVE p = Null
      <4>1. (n \in Nodes /\ n + 1 # NIL) \/ n = Size - 1
        BY <1>0, <1>7 DEF Nodes
      <4>2. n \in Nodes /\ ~(n < 1)
        BY <1>0, <1>7 DEF Nodes
      <4> QED  BY <1>1, <2>1, <3>2, <4>1, <4>2
    <3> QED  BY <2>1, <3>1, <3>2 DEF Live
  <2> QED  BY <1>6, <1>7, <2>1 DEF UnusedList
<1>9. \A t \in Threads : UnusedKnows(t) /\ PopKnows(t)
  BY <1>1 DEF UnusedKnows, PopKnows, PopPC, PutPC, Reading, Filled
<1>10. PICK q : q = <<out>>
  OBVIOUS
<1>11. q \in Seq(DoublePointer) /\ Len(q) = 1 /\ q[1] = out
  BY <1>4, <1>10 DEF ListQueueTypes
<1>12. QueueChain(q)
  <2>1. next[0] = Null
    BY <1>0, <1>1
  <2> QED  BY <1>0, <1>2, <1>11, <2>1 DEF QueueChain
<1>13. QueueTags(q)
  BY <1>1, <1>2, <1>11 DEF QueueTags, Filled
<1>14. QueueItems(q)
  <2>1. [i \in 1..(Len(q) - 1) |-> data[q[i + 1].node]] = <<>>
    BY <1>11
  <2> QED  BY <1>2, <2>1 DEF QueueItems
<1>15. QueueIn(q)
  BY <1>1, <1>2, <1>11 DEF QueueIn
<1>16. QueuePlaces(q)
  <2>1. \A t \in Threads, n \in Nodes : ~Carries(t, n)
    BY <1>1 DEF Carries, Filled, PutPC
  <2>2. \A i \in 1..Len(q) : q[i].node = 0
    BY <1>2, <1>11
  <2>3. 0 \notin FreeNodes /\ \A n \in Nodes : n \in FreeNodes \/ n = 0
    BY <1>0, <1>7 DEF Nodes
  <2>4. FreeNodes \subseteq Nodes
    BY <1>0, <1>7 DEF Nodes
  <2>5. 1 \in 1..Len(q)
    BY <1>11
  <2> QED  BY <1>0, <2>1, <2>2, <2>3, <2>4, <2>5 DEF QueuePlaces
<1> QED  BY <1>4, <1>5, <1>8, <1>9, <1>11, <1>12, <1>13, <1>14, <1>15, <1>16
        DEF ListQueueIInv, QueueParts

\* Pop reads the data of the null node.
NullRead == \E t \in Threads : ReadData(t) /\ nextL[t].node = NIL

\* Every step keeps the invariant, but that one and a call of Push that overlaps another.
LEMMA ListQueueNextInv ==
  ASSUME ListQueueIInv, [ListQueueNext]_listQueueVars, ~overlapped', ~NullRead
  PROVE  ListQueueIInv'
<1>1. CASE UNCHANGED listQueueVars
  <2>1. UNCHANGED <<head, next, id, pc, old, new, in, out, qid, data, count, quota, inL, outL,
                    nextL, mine, item, pushed, popped>>
    BY <1>1 DEF listQueueVars, listVars, queueVars
  <2>2. FreeNodes' = FreeNodes
    BY <2>1 DEF FreeNodes, NodesFrom
  <2>3. ListQueueTypes' /\ SoleProducer'
    BY <2>1 DEF ListQueueIInv, ListQueueTypes, ListTypeOK, SoleProducer, Producer
  <2>4. UnusedList'
    BY <2>1, UnusedFrame DEF ListQueueIInv, ListQueueTypes, ListTypeOK
  <2>5. \A t \in Threads : UnusedKnows(t)'
    BY <2>1, <2>2 DEF ListQueueIInv, UnusedKnows, Reading, Knows, Filled
  <2>6. \A t \in Threads : PopKnows(t)'
    BY <2>1 DEF ListQueueIInv, PopKnows
  <2>7. PICK q \in Seq(DoublePointer) : QueueParts(q)
    BY DEF ListQueueIInv
  <2>8. QueueChain(q)' /\ QueueTags(q)' /\ QueueItems(q)' /\ QueueIn(q)'
    BY <2>1, <2>7 DEF QueueParts, QueueChain, QueueTags, QueueItems, QueueIn, Filled
  <2>9. QueuePlaces(q)'
    <3>1. \A n : \A t \in Threads : Carries(t, n)' <=> Carries(t, n)
      BY <2>1 DEF Carries, Filled
    <3>2. QueuePlaces(q)
      BY <2>7 DEF QueueParts
    <3> QED  BY <2>2, <3>1, <3>2 DEF QueuePlaces
  <2> QED  BY <2>3, <2>4, <2>5, <2>6, <2>7, <2>8, <2>9 DEF ListQueueIInv, QueueParts
<1>2. ASSUME NEW t \in Threads, Push(t) \/ Pop(t) PROVE ListQueueIInv'
  BY <1>2, PushCallInv, PopCallInv
<1>3. ASSUME NEW t \in Threads, ListStep(t), UNCHANGED queueVars PROVE ListQueueIInv'
  <2>1. CASE ReadNextId(t) \/ ReadNextNode(t)
    BY <1>3, <2>1, ReadNextIdInv, ReadNextNodeInv
  <2>2. CASE TakeHead(t)
    BY <1>3, <2>2, TakeInv, TakeFailsInv
  <2>3. CASE PutHead(t)
    BY <1>3, <2>3, PutInv, PutFailsInv
  <2>4. CASE ReadOldHead(t) \/ LinkId(t) \/ LinkNode(t)
    BY <1>3, <2>4, ReadOldHeadInv, LinkIdInv, LinkNodeInv
  <2> QED  BY <1>3, <2>1, <2>2, <2>3, <2>4 DEF ListStep
<1>4. ASSUME NEW t \in Threads,
             ReadUnused(t) \/ NodeAllocated(t) \/ FillNode(t) \/ ReadIn(t) \/ ReadTailNext(t)
      PROVE  ListQueueIInv'
  BY <1>4, ReadUnusedInv, NodeAllocatedInv, FillNodeInv, ReadInInv, ReadTailNextInv
<1>5. ASSUME NEW t \in Threads, LinkTail(t) \/ MoveIn(t) PROVE ListQueueIInv'
  BY <1>5, LinkInv, MoveInInv
<1>6. ASSUME NEW t \in Threads, HelpIn(t) PROVE ListQueueIInv'
  <2>1. pc[t] = "help"
    BY <1>6 DEF HelpIn, Goto
  <2>2. pc[t] # "help"
    BY DEF ListQueueIInv, QueueParts, QueueIn
  <2> QED  BY <2>1, <2>2
<1>7. ASSUME NEW t \in Threads, ReadOut(t) \/ ReadPopIn(t) \/ ReadFirst(t) \/ ReadData(t)
      PROVE  ListQueueIInv'
  BY <1>7, ReadOutInv, ReadPopInInv, ReadFirstInv, ReadDataInv DEF NullRead
<1>8. ASSUME NEW t \in Threads, PopHelpIn(t) \/ ReleaseNode(t) PROVE ListQueueIInv'
  BY <1>8, PopHelpInInv, ReleaseNodeInv
<1>9. ASSUME NEW t \in Threads, AdvanceOut(t) PROVE ListQueueIInv'
  BY <1>9, AdvanceInv, AdvanceFailsInv
<1> QED  BY <1>1, <1>2, <1>3, <1>4, <1>5, <1>6, <1>7, <1>8, <1>9 DEF ListQueueNext, ListQueueStep

\* The nodes of the queue, and what one finds following them.
LEMMA QueueWalk ==
  ASSUME ListQueueIInv, NEW q \in Seq(DoublePointer), QueueParts(q)
  PROVE  /\ NodesFrom(out) = {q[i].node : i \in 1..Len(q)}
         /\ Contents = [i \in 1..(Len(q) - 1) |-> data[q[i + 1].node]]
<1>1. QueueChain(q)
  BY DEF QueueParts
<1>2. PICK m \in Nat : m = Len(q) /\ m > 0
  BY <1>1 DEF QueueChain
<1>3. PICK s : s = [i \in 1..m |-> q[i].node]
  OBVIOUS
<1>4. \A i \in 1..m : q[i].node \in Nodes
  BY <1>1, <1>2 DEF QueueChain
<1>5. s \in Seq(Nodes) /\ Len(s) = m /\ DOMAIN s = 1..m /\ \A i \in 1..m : s[i] = q[i].node
  BY <1>2, <1>3, <1>4
<1>6. NIL \notin Nodes /\ Null.node = NIL /\ Size \in Nat
  BY FreeListAssumption DEF Nodes, NIL, Null
<1>7. \A i, j \in DOMAIN s : s[i] = s[j] => i = j
  BY <1>1, <1>2, <1>5 DEF QueueChain
<1>8. IsChain(s, Link, out.node, NIL)
  <2>1. out.node = IF s = <<>> THEN NIL ELSE s[1]
    <3>1. s # <<>> /\ 1 \in 1..m
      BY <1>2, <1>5
    <3>2. s[1] = q[1].node /\ q[1] = out
      BY <1>1, <1>5, <3>1 DEF QueueChain
    <3> QED  BY <3>1, <3>2
  <2>2. ASSUME NEW i \in 1..m PROVE s[i] # NIL /\ Link[s[i]] = IF i = m THEN NIL ELSE s[i + 1]
    <3>1. next[q[i].node] = IF i = m THEN Null ELSE q[i + 1]
      BY <1>1, <1>2 DEF QueueChain
    <3>2. s[i] = q[i].node /\ s[i] \in Nodes /\ (i # m => i + 1 \in 1..m)
      BY <1>4, <1>5
    <3>3. Link[s[i]] = next[q[i].node].node
      BY <3>2 DEF Link
    <3> QED  BY <1>5, <1>6, <3>1, <3>2, <3>3
  <2> QED  BY <1>5, <1>7, <2>1, <2>2 DEF IsChain
<1>9. m <= Size
  <2>1. IsFiniteSet(ToSet(s)) /\ Cardinality(ToSet(s)) = m
    BY <1>5, <1>7, CountDistinct
  <2>2. ToSet(s) \subseteq Nodes
    BY <1>5 DEF ToSet
  <2>3. IsFiniteSet(Nodes) /\ Cardinality(Nodes) = Size
    <3>1. 0 \in Int /\ Size - 1 \in Int
      BY <1>6
    <3>2. IsFiniteSet(0..(Size - 1))
          /\ Cardinality(0..(Size - 1)) = IF 0 > Size - 1 THEN 0 ELSE (Size - 1) - 0 + 1
      BY <3>1, FS_Interval, Zenon
    <3> QED  BY <3>2, FreeListAssumption DEF Nodes
  <2> QED  BY <2>1, <2>2, <2>3, FS_Subset
<1>10. NodesFrom(out) = ToSet(s)
  <2>1. Len(s) <= Size + 1
    BY <1>5, <1>6, <1>9
  <2> QED  BY <1>5, <1>6, <1>8, <2>1, ReachedChain DEF NodesFrom, Link
<1>11. ToSet(s) = {q[i].node : i \in 1..m}
  BY <1>5 DEF ToSet
<1>12. PICK at : at = Walk(out)
  OBVIOUS
<1>13. \A i \in 0..Size : at[i] = IF i < m THEN s[i + 1] ELSE NIL
  BY <1>5, <1>6, <1>8, <1>12, FollowChain DEF Walk, Link
<1>14. {i \in 1..Size : at[i] # NIL} = 1..(m - 1)
  <2>1. ASSUME NEW i \in 1..Size PROVE at[i] # NIL <=> i < m
    <3>1. at[i] = IF i < m THEN s[i + 1] ELSE NIL
      BY <1>6, <1>13
    <3>2. i < m => i + 1 \in 1..m
      BY <1>2
    <3>3. i < m => s[i + 1] \in Nodes
      BY <1>4, <1>5, <3>2
    <3> QED  BY <1>6, <3>1, <3>3
  <2>2. ASSUME NEW x PROVE x \in {i \in 1..Size : at[i] # NIL} <=> x \in 1..(m - 1)
    <3>1. x \in 1..(m - 1) => x \in 1..Size /\ x < m
      BY <1>2, <1>6, <1>9
    <3>2. x \in 1..Size /\ x < m => x \in 1..(m - 1)
      BY <1>2, <1>6
    <3>3. x \in 1..Size => (at[x] # NIL <=> x < m)
      BY <2>1
    <3> QED  BY <3>1, <3>2, <3>3
  <2> QED  BY <2>2, Zenon
<1>15. Cardinality({i \in 1..Size : at[i] # NIL}) = m - 1
  <2>1. 1 \in Int /\ m - 1 \in Int
    BY <1>2
  <2>2. Cardinality(1..(m - 1)) = IF 1 > m - 1 THEN 0 ELSE (m - 1) - 1 + 1
    BY <2>1, FS_Interval, Zenon
  <2>3. Cardinality(1..(m - 1)) = m - 1
    BY <1>2, <2>2
  <2> QED  BY <1>14, <2>3, Zenon
<1>16. Contents = [i \in 1..(m - 1) |-> data[at[i]]]
  BY <1>12, <1>15 DEF Contents
<1>17. ASSUME NEW i \in 1..(m - 1) PROVE data[at[i]] = data[q[i + 1].node]
  <2>1. i \in 0..Size /\ i < m /\ i + 1 \in 1..m
    BY <1>2, <1>6, <1>9
  <2> QED  BY <1>5, <1>13, <2>1
<1>18. Contents = [i \in 1..(m - 1) |-> data[q[i + 1].node]]
  BY <1>16, <1>17
<1> QED  BY <1>2, <1>10, <1>11, <1>18

\* The invariant says that the queue is first in, first out.
LEMMA InvariantOrders == ListQueueIInv => InOrder
<1> SUFFICES ASSUME ListQueueIInv PROVE InOrder
  OBVIOUS
<1>1. PICK q \in Seq(DoublePointer) : QueueParts(q)
  BY DEF ListQueueIInv
<1>2. pushed = popped \o Contents
  BY <1>1, QueueWalk DEF QueueParts, QueueItems
<1>3. PICK i \in 1..Len(q) : in = q[i]
  <2>1. PICK m \in Nat : m = Len(q) /\ m > 0
    BY <1>1 DEF QueueParts, QueueChain
  <2>2. in = q[m] \/ (m > 1 /\ in = q[m - 1])
    BY <1>1, <2>1 DEF QueueParts, QueueIn
  <2>3. m \in 1..m /\ (m > 1 => m - 1 \in 1..m)
    BY <2>1
  <2> QED  BY <2>1, <2>2, <2>3
<1>4. in.node \in NodesFrom(out)
  BY <1>1, <1>3, QueueWalk
<1> QED  BY <1>2, <1>4 DEF InOrder

\* No node is released that a call of Push has read as the last.
LEMMA NeverReclaimed ==
  ASSUME ListQueueIInv, ~reclaimed, [ListQueueNext]_listQueueVars
  PROVE  ~reclaimed'
<1>1. ASSUME NEW t \in Threads, ReleaseNode(t) PROVE ~reclaimed'
  <2>1. PICK q \in Seq(DoublePointer) : QueueParts(q)
    BY DEF ListQueueIInv
  <2>2. PICK i \in 1..Len(q) : in = q[i]
    <3>1. PICK m \in Nat : m = Len(q) /\ m > 0
      BY <2>1 DEF QueueParts, QueueChain
    <3>2. in = q[m] \/ (m > 1 /\ in = q[m - 1])
      BY <2>1, <3>1 DEF QueueParts, QueueIn
    <3>3. m \in 1..m /\ (m > 1 => m - 1 \in 1..m)
      BY <3>1
    <3> QED  BY <3>1, <3>2, <3>3
  <2>3. Carries(t, outL[t].node)
    BY <1>1 DEF ReleaseNode, FetchId, Goto, Carries
  <2>4. in.node # outL[t].node
    BY <2>1, <2>2, <2>3 DEF QueueParts, QueuePlaces
  <2>5. \A u \in Threads : ~HasTail(u, outL[t].node)
    BY <2>1, <2>4 DEF QueueParts, QueueIn, HasTail
  <2> QED  BY <1>1, <2>5 DEF ReleaseNode
<1>2. ASSUME UNCHANGED reclaimed PROVE ~reclaimed'
  BY <1>2
<1>3. ASSUME NEW t \in Threads, ListQueueStep(t), ~ReleaseNode(t) PROVE UNCHANGED reclaimed
  BY <1>3 DEF ListQueueStep, ReadUnused, NodeAllocated, FillNode, ReadIn, ReadTailNext, HelpIn,
              LinkTail, MoveIn, ReadOut, ReadPopIn, ReadFirst, PopHelpIn, ReadData, AdvanceOut,
              queueVars
<1>4. ASSUME NEW t \in Threads, Push(t) \/ Pop(t) PROVE UNCHANGED reclaimed
  BY <1>4 DEF Push, Pop, queueVars
<1>5. CASE UNCHANGED listQueueVars
  BY <1>2, <1>5 DEF listQueueVars, queueVars
<1> QED  BY <1>1, <1>2, <1>3, <1>4, <1>5 DEF ListQueueNext

\* Two calls that overlapped have done so for good.
LEMMA OverlappedStays == overlapped /\ [ListQueueNext]_listQueueVars => overlapped'
<1> SUFFICES ASSUME overlapped, [ListQueueNext]_listQueueVars PROVE overlapped'
  OBVIOUS
<1>1. ASSUME NEW t \in Threads, ListQueueStep(t) PROVE UNCHANGED overlapped
  BY <1>1 DEF ListQueueStep, ReadUnused, NodeAllocated, FillNode, ReadIn, ReadTailNext, HelpIn,
              LinkTail, MoveIn, ReadOut, ReadPopIn, ReadFirst, PopHelpIn, ReadData, AdvanceOut,
              ReleaseNode, queueVars
<1>2. ASSUME NEW t \in Threads, Push(t) PROVE overlapped'
  BY <1>2 DEF Push
<1>3. ASSUME NEW t \in Threads, Pop(t) PROVE UNCHANGED overlapped
  BY <1>3 DEF Pop, queueVars
<1>4. CASE UNCHANGED listQueueVars
  BY <1>4 DEF listQueueVars, queueVars
<1> QED  BY <1>1, <1>2, <1>3, <1>4 DEF ListQueueNext

\* The process has ended.
Crashed == Threads # {} /\ \A t \in Threads : pc[t] = "crashed"

\* A process that has ended does nothing.
LEMMA CrashedStays ==
  ASSUME Crashed, [ListQueueNext]_listQueueVars
  PROVE  UNCHANGED listQueueVars
<1>1. ASSUME NEW t \in Threads, ListQueueStep(t) \/ Push(t) \/ Pop(t) PROVE FALSE
  <2>1. pc[t] = "crashed"
    BY DEF Crashed
  <2>2. CASE ListStep(t)
    BY <2>1, <2>2 DEF ListStep, ReadNextId, ReadNextNode, TakeHead, ReadOldHead, LinkId,
                      LinkNode, PutHead, Goto, Crash
  <2>3. CASE ~ListStep(t)
    BY <1>1, <2>1, <2>3
       DEF ListQueueStep, ReadUnused, ReadHead, NodeAllocated, ClearNext, FillNode, ReadIn,
           ReadTailNext, HelpIn, LinkTail, MoveIn, ReadOut, ReadPopIn, ReadFirst, PopHelpIn,
           ReadData, AdvanceOut, ReleaseNode, FetchId, Push, Pop, Goto, Crash
  <2> QED  BY <2>2, <2>3
<1> QED  BY <1>1 DEF ListQueueNext

\* Reading the null node ends the process and touches nothing.
LEMMA NullReadCrashes ==
  ASSUME NullRead
  PROVE  Crashed' /\ (InOrder => InOrder')
<1>1. PICK t \in Threads : ReadData(t) /\ nextL[t].node = NIL
  BY DEF NullRead
<1>2. Crashed'
  BY <1>1 DEF ReadData, Crash, Crashed
<1>3. UNCHANGED <<next, in, out, data, pushed, popped>>
  BY <1>1 DEF ReadData
<1>4. UNCHANGED <<Contents, NodesFrom(out)>>
  BY <1>3 DEF Contents, Walk, NodesFrom
<1> QED  BY <1>2, <1>3, <1>4 DEF InOrder

\* What holds of the queue until two calls of Push overlap: its invariant, or the process
\* has ended in Pop with the queue in order.
SolePushInv == ~reclaimed /\ (ListQueueIInv \/ (Crashed /\ InOrder))

LEMMA SolePushNext ==
  ASSUME SolePushInv, [ListQueueNext]_listQueueVars, ~overlapped'
  PROVE  SolePushInv'
<1>1. CASE ListQueueIInv /\ ~NullRead
  BY <1>1, ListQueueNextInv, NeverReclaimed DEF SolePushInv
<1>2. CASE ListQueueIInv /\ NullRead
  BY <1>2, InvariantOrders, NullReadCrashes, NeverReclaimed DEF SolePushInv
<1>3. CASE Crashed /\ InOrder
  <2>1. UNCHANGED <<next, in, out, data, pushed, popped, pc, reclaimed>>
    BY <1>3, CrashedStays DEF listQueueVars, listVars, queueVars
  <2>2. UNCHANGED <<Contents, NodesFrom(out)>>
    BY <2>1 DEF Contents, Walk, NodesFrom
  <2>3. InOrder'
    BY <1>3, <2>1, <2>2 DEF InOrder
  <2>4. Crashed'
    BY <1>3, <2>1 DEF Crashed
  <2>5. ~reclaimed'
    BY <2>1 DEF SolePushInv
  <2> QED  BY <2>3, <2>4, <2>5 DEF SolePushInv
<1> QED  BY <1>1, <1>2, <1>3 DEF SolePushInv

\* Whatever the threads and the nodes: as long as no two calls of Push have overlapped, the
\* list queue's invariant holds, or a Pop has dereferenced a null node and ended the process.
THEOREM ListQueueInvariant == ListQueueSafety => [](overlapped \/ SolePushInv)
<1>1. ListQueueInit => SolePushInv
  BY ListQueueInitInv DEF SolePushInv, ListQueueInit
<1>2. (overlapped \/ SolePushInv) /\ [ListQueueNext]_listQueueVars => (overlapped \/ SolePushInv)'
  BY SolePushNext, OverlappedStays, Zenon
<1> QED  BY <1>1, <1>2, PTL DEF ListQueueSafety

\* Until two calls of Push overlap the queue is first in, first out, and in_ is on the list,
\* for every number of nodes and of calls of Pop and whatever node a Pop had read when it was
\* released and reused; and no node is released that Push is about to link to.
THEOREM SolePushFifo == ListQueueSafety => [](overlapped \/ (Fifo /\ ~reclaimed))
<1>1. SolePushInv => Fifo /\ ~reclaimed
  BY InvariantOrders DEF SolePushInv, Fifo
<1> QED  BY <1>1, ListQueueInvariant, PTL

\* And when no call is under way each node is in the queue or on the unused list, and not in
\* both, again until two calls of Push overlap.
THEOREM SolePushNodesLinked == ListQueueSafety => [](overlapped \/ NodesLinked)
<1>1. ListQueueIInv => NodesLinked
  <2> SUFFICES ASSUME ListQueueIInv, Quiet
               PROVE  /\ Nodes \subseteq (NodesFrom(out) \cup FreeNodes)
                      /\ NodesFrom(out) \cap FreeNodes = {}
    BY DEF NodesLinked
  <2>1. PICK q \in Seq(DoublePointer) : QueueParts(q)
    BY DEF ListQueueIInv
  <2>2. QueuePlaces(q)
    BY <2>1 DEF QueueParts
  <2>3. \A t \in Threads, n \in Nodes : ~Carries(t, n)
    BY DEF Quiet, Carries, Filled, PutPC
  <2>4. NodesFrom(out) = {q[i].node : i \in 1..Len(q)}
    BY <2>1, QueueWalk
  <2> QED  BY <2>2, <2>3, <2>4 DEF QueuePlaces
<1>2. Crashed => NodesLinked
  BY DEF Crashed, NodesLinked, Quiet
<1>3. SolePushInv => NodesLinked
  BY <1>1, <1>2 DEF SolePushInv
<1> QED  BY <1>3, ListQueueInvariant, PTL
=============================================================================
