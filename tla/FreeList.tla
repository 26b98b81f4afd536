------------------------------ MODULE FreeList ------------------------------
(***************************************************************************)
(* The tagged lock-free list of unused nodes that LockFreeBuffer and       *)
(* LockFreeListQueue both keep (misc/src/LockFreeBuffer.cc AllocBuffer,    *)
(* ReleaseBuffer; misc/src/LockFreeList.cc AllocNode, ReleaseNode: the     *)
(* same code twice).  The head is replaced by a double-word compare-and-   *)
(* swap; its first word is a tag against ABA, of which every release takes *)
(* a new one.                                                              *)
(*                                                                         *)
(* Every access to shared memory is a step.  A node's next is read by the  *)
(* taker and written by the releaser without atomicity, so its two words   *)
(* are separate steps.                                                     *)
(***************************************************************************)
EXTENDS Integers, FiniteSets, Links, ProgramCounter

CONSTANTS
  Size,       \* size_ / max_
  Stalling    \* the threads that may stop in the middle of a call

ASSUME FreeListAssumption == Size \in Nat \ {0}

Nodes == 0..(Size - 1)
NIL == Size                                   \* the null pointer

\* A DoublePointer: vals[0] is the tag, vals[1] the node.
DoublePointer == [id : Nat, node : Nodes \cup {NIL}]
Null == [id |-> 0, node |-> NIL]

VARIABLES
  head,    \* head_
  next,    \* [Nodes -> DoublePointer]  next of each node
  id,      \* id_ / id2_
  old,     \* [Threads -> DoublePointer]  old_head, Null once it is dead
  new      \* [Threads -> DoublePointer]  tmp of the taker, new_node of the
           \*   releaser, Null once it is dead

listVars == <<head, next, id, pc, old, new>>

ListPC == {"crashed", "alloc", "readid", "readnode", "take", "clear",
           "release", "linkid", "linknode", "put"}

ListTypeOK ==
  /\ head \in DoublePointer
  /\ next \in [Nodes -> DoublePointer]
  /\ id \in Nat
  /\ old \in [Threads -> DoublePointer]
  /\ new \in [Threads -> DoublePointer]

\* InitList / InitInternalNodeList: node i links to node i + 1 under tag i + 1,
\* and the counter is left at the tag of the last link.  The first `used' nodes
\* have been taken since.
ListInit(used) ==
  /\ head = IF used = Size THEN Null ELSE [id |-> used, node |-> used]
  /\ next = [n \in Nodes |->
               IF n < used \/ n = Size - 1 THEN Null ELSE [id |-> n + 1, node |-> n + 1]]
  /\ id = Size - 1
  /\ pc = [t \in Threads |-> "idle"]
  /\ old = [t \in Threads |-> Null]
  /\ new = [t \in Threads |-> Null]

\* A null pointer is dereferenced: the process ends, wherever its threads are.
Crash(t, from) == pc[t] = from /\ pc' = [u \in Threads |-> "crashed"]

-----------------------------------------------------------------------------
(* Taking a node: AllocBuffer / AllocNode. *)

\* The head is read; an empty list ends the call with NULL, at `empty'.
ReadHead(t, empty) ==
  /\ IF head = Null THEN Goto(t, "alloc", empty) ELSE Goto(t, "alloc", "readid")
  /\ old' = [old EXCEPT ![t] = head]
  /\ UNCHANGED <<head, next, id, new>>

\* old_head's node is dereferenced.
ReadNextId(t) ==
  /\ IF old[t].node = NIL THEN Crash(t, "readid") /\ UNCHANGED new
     ELSE /\ Goto(t, "readid", "readnode")
          /\ new' = [new EXCEPT ![t].id = next[old[t].node].id]
  /\ UNCHANGED <<head, next, id, old>>

ReadNextNode(t) ==
  /\ Goto(t, "readnode", "take")
  /\ new' = [new EXCEPT ![t].node = next[old[t].node].node]
  /\ UNCHANGED <<head, next, id, old>>

\* Mutation: after a failed swap the head is not read again.
TakeHeadStale(t) ==
  /\ \/ head = old[t] /\ head' = new[t] /\ Goto(t, "take", "clear")
     \/ head # old[t] /\ UNCHANGED head /\ Goto(t, "take", "readid")
  /\ UNCHANGED <<next, id, old, new>>

\* atomic_cas2(&head_, old_head, next of the head), or around the loop.
TakeHead(t) ==
  /\ \/ head = old[t] /\ head' = new[t] /\ Goto(t, "take", "clear")
     \/ head # old[t] /\ UNCHANGED head /\ Goto(t, "take", "alloc")
  /\ UNCHANGED <<next, id, old, new>>

\* ret->next.val = 0: the node old[t].node is the caller's.
ClearNext(t, to) ==
  /\ Goto(t, "clear", to)
  /\ next' = [next EXCEPT ![old[t].node] = Null]
  /\ old' = [old EXCEPT ![t] = Null]
  /\ new' = [new EXCEPT ![t] = Null]
  /\ UNCHANGED <<head, id>>

-----------------------------------------------------------------------------
(* Putting a node back: ReleaseBuffer / ReleaseNode. *)

\* Mutation: the tag is read without being advanced.
FetchIdOnly(t, from, n) ==
  /\ Goto(t, from, "release")
  /\ new' = [new EXCEPT ![t] = [id |-> id, node |-> n]]
  /\ UNCHANGED <<head, next, id, old>>

\* atomic_increment fetches the tag that the node will be put back under.
FetchId(t, from, n) ==
  /\ Goto(t, from, "release")
  /\ id' = id + 1
  /\ new' = [new EXCEPT ![t] = [id |-> id, node |-> n]]
  /\ UNCHANGED <<head, next, old>>

ReadOldHead(t) ==
  /\ Goto(t, "release", "linkid")
  /\ old' = [old EXCEPT ![t] = head]
  /\ UNCHANGED <<head, next, id, new>>

\* node->next = old_head, word by word.
LinkId(t) ==
  /\ Goto(t, "linkid", "linknode")
  /\ next' = [next EXCEPT ![new[t].node].id = old[t].id]
  /\ UNCHANGED <<head, id, old, new>>

LinkNode(t) ==
  /\ Goto(t, "linknode", "put")
  /\ next' = [next EXCEPT ![new[t].node].node = old[t].node]
  /\ UNCHANGED <<head, id, old, new>>

\* Mutation: the new head is stored without looking at the old one.
PutHeadBlindly(t) ==
  /\ Goto(t, "put", "idle")
  /\ head' = new[t]
  /\ old' = [old EXCEPT ![t] = Null]
  /\ new' = [new EXCEPT ![t] = Null]
  /\ UNCHANGED <<next, id>>

\* atomic_cas2(&head_, old_head, new_node), or around the loop.
PutHead(t) ==
  /\ \/ /\ head = old[t]
        /\ head' = new[t]
        /\ Goto(t, "put", "idle")
        /\ old' = [old EXCEPT ![t] = Null]
        /\ new' = [new EXCEPT ![t] = Null]
     \/ /\ head # old[t]
        /\ Goto(t, "put", "release")
        /\ UNCHANGED <<head, old, new>>
  /\ UNCHANGED <<next, id>>

\* The steps after which the thread is still inside the free list's code.
ListStep(t) ==
  \/ ReadNextId(t) \/ ReadNextNode(t) \/ TakeHead(t)
  \/ ReadOldHead(t) \/ LinkId(t) \/ LinkNode(t) \/ PutHead(t)

-----------------------------------------------------------------------------
\* Who has read the head and not yet swapped it, and that what it has read of the
\* head's next is what is there now.
Reading(t) == pc[t] \in {"readid", "readnode", "take"}
Knows(t) ==
  /\ pc[t] = "readnode" => new[t].id = next[old[t].node].id
  /\ pc[t] = "take" => new[t] = next[old[t].node]

\* The swap of t puts a head back that a reader still has for the old one, though
\* the reader has read another next of it: the reader's swap will succeed.
PutsStale(t) ==
  /\ pc[t] = "put" /\ head = old[t]
  /\ \E u \in Threads : Reading(u) /\ old[u] = new[t] /\ ~Knows(u)

\* The nodes from p on, link by link: at most Size of them.
Walk(p) == Follow([n \in Nodes |-> next[n].node], p.node, NIL, Size)

NodesFrom(p) == Reached([n \in Nodes |-> next[n].node], p.node, NIL, Size)

\* The unused nodes, and that the list of them ends.
FreeNodes == NodesFrom(head)
FreeListEnds == Walk(head)[Size] = NIL
=============================================================================
