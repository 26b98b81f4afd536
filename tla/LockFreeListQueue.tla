------------------------- MODULE LockFreeListQueue -------------------------
(***************************************************************************)
(* The linked lock-free queue (misc/LockFreeList.h, misc/src/              *)
(* LockFreeList.cc): nodes come from a FreeList; out_ points to a dummy    *)
(* node before the first item, in_ to the last node or to one before it.   *)
(* Every atomic access is a step.                                          *)
(***************************************************************************)
EXTENDS FreeList, Sequences

CONSTANTS
  Quotas       \* how often each thread may call Push, and
               \*   whether it calls Pop

ASSUME QueueAssumption ==
  /\ Quotas \subseteq [Threads -> [push : Nat, pops : BOOLEAN]]
  /\ Size > 1

VARIABLES
  in, out,     \* in_, out_
  qid,         \* id_
  data,        \* [Nodes -> Nat]  data of each node, 0 at first
  count,       \* calls of Push so far; the k-th one pushes the item k
  quota,       \* [Threads -> [push : Nat, pops : BOOLEAN]]  the calls left to each thread
  inL, outL,   \* [Threads -> DoublePointer]  in, out of Push and Pop
  nextL,       \* [Threads -> DoublePointer]  next of Push and Pop
  mine,        \* [Threads -> DoublePointer]  new_node of Push
  item,        \* [Threads -> Nat]     data of Push and Pop
  overlapped,  \* history: Push was called while another call of it was under way
  reclaimed,   \* history: a node was released that a call of Push had read as the last
  pushed,      \* history: the items linked, in order
  popped       \* history: the items Pop took, in order

queueVars == <<in, out, qid, data, count, quota, inL, outL, nextL, mine, item, overlapped, reclaimed,
               pushed, popped>>
listQueueVars == <<listVars, queueVars>>

\* The constructor takes node 0 for the dummy.
ListQueueInit ==
  /\ ListInit(1)
  /\ in = [id |-> 0, node |-> 0]
  /\ out = in
  /\ qid = 1
  /\ data = [n \in Nodes |-> 0]
  /\ count = 0
  /\ quota \in Quotas
  /\ inL = [t \in Threads |-> Null]
  /\ outL = [t \in Threads |-> Null]
  /\ nextL = [t \in Threads |-> Null]
  /\ mine = [t \in Threads |-> Null]
  /\ item = [t \in Threads |-> 0]
  /\ overlapped = FALSE
  /\ reclaimed = FALSE
  /\ pushed = <<>>
  /\ popped = <<>>

\* atomic_cas2(&(in_.val), in.val, to); its result is ignored.
SwingIn(t, to) == in' = IF in = inL[t] THEN to ELSE in

-----------------------------------------------------------------------------
(* Push *)

InPush == {"alloc", "readid", "readnode", "take", "clear", "fill", "readin", "tailnext", "help",
           "link", "swing"}

\* A call of Push that has read n as the last node and not yet linked to it.
HasTail(t, n) == pc[t] \in {"tailnext", "help", "link"} /\ inL[t].node = n

Push(t) ==
  /\ quota[t].push > 0
  /\ Goto(t, "idle", "alloc")
  /\ count' = count + 1
  /\ quota' = [quota EXCEPT ![t].push = @ - 1]
  /\ item' = [item EXCEPT ![t] = count + 1]
  /\ overlapped' = (overlapped \/ \E u \in Threads : pc[u] \in InPush)
  /\ UNCHANGED <<head, next, id, old, new>>
  /\ UNCHANGED <<in, out, qid, data, inL, outL, nextL, mine, pushed, popped, reclaimed>>

\* AllocNode returns NULL: Push returns false.
ReadUnused(t) ==
  /\ ReadHead(t, "idle")
  /\ item' = [item EXCEPT ![t] = IF head = Null THEN 0 ELSE @]
  /\ UNCHANGED <<in, out, qid, data, count, quota, inL, outL, nextL, mine, pushed, popped, overlapped, reclaimed>>

\* AllocNode returns a node, whose next it has cleared ...
NodeAllocated(t) ==
  /\ ClearNext(t, "fill")
  /\ mine' = [mine EXCEPT ![t].node = old[t].node]
  /\ UNCHANGED <<in, out, qid, data, count, quota, inL, outL, nextL, item, pushed, popped, overlapped, reclaimed>>

\* ... and Push stores the data, clears next again and fetches the node's tag.
FillNode(t) ==
  /\ Goto(t, "fill", "readin")
  /\ data' = [data EXCEPT ![mine[t].node] = item[t]]
  /\ next' = [next EXCEPT ![mine[t].node] = Null]
  /\ mine' = [mine EXCEPT ![t].id = qid]
  /\ qid' = qid + 1
  /\ UNCHANGED <<head, id, old, new>>
  /\ UNCHANGED <<in, out, count, quota, inL, outL, nextL, item, pushed, popped, overlapped, reclaimed>>

ReadIn(t) ==
  /\ Goto(t, "readin", "tailnext")
  /\ inL' = [inL EXCEPT ![t] = in]
  /\ UNCHANGED <<head, next, id, old, new>>
  /\ UNCHANGED <<in, out, qid, data, count, quota, outL, nextL, mine, item, pushed, popped, overlapped, reclaimed>>

ReadTailNext(t) ==
  LET nx == next[inL[t].node] IN
  /\ Goto(t, "tailnext", IF nx = Null THEN "link" ELSE "help")
  /\ nextL' = [nextL EXCEPT ![t] = nx]
  /\ UNCHANGED <<head, next, id, old, new>>
  /\ UNCHANGED <<in, out, qid, data, count, quota, inL, outL, mine, item, pushed, popped, overlapped, reclaimed>>

\* Mutation: nobody but the thread that linked the node moves in_ on.
HelpInNot(t) ==
  /\ Goto(t, "help", "readin")
  /\ inL' = [inL EXCEPT ![t] = Null]
  /\ nextL' = [nextL EXCEPT ![t] = Null]
  /\ UNCHANGED <<head, next, id, old, new>>
  /\ UNCHANGED <<in, out, qid, data, count, quota, outL, mine, item, pushed, popped, overlapped, reclaimed>>

\* in_ lags behind the last node: move it on, and around the loop.
HelpIn(t) ==
  /\ Goto(t, "help", "readin")
  /\ SwingIn(t, nextL[t])
  /\ inL' = [inL EXCEPT ![t] = Null]
  /\ nextL' = [nextL EXCEPT ![t] = Null]
  /\ UNCHANGED <<head, next, id, old, new>>
  /\ UNCHANGED <<out, qid, data, count, quota, outL, mine, item, pushed, popped, overlapped, reclaimed>>

\* Mutation: the node is linked without checking that it is still the last.
LinkTailBlindly(t) ==
  /\ Goto(t, "link", "swing")
  /\ next' = [next EXCEPT ![inL[t].node] = mine[t]]
  /\ pushed' = Append(pushed, item[t])
  /\ UNCHANGED <<head, id, old, new>>
  /\ UNCHANGED <<in, out, qid, data, count, quota, inL, outL, nextL, mine, item, popped, overlapped, reclaimed>>

\* atomic_cas2(&in->next, 0, new_node), or around the loop.
LinkTail(t) ==
  /\ pc[t] = "link"
  /\ \/ /\ next[inL[t].node] = Null
        /\ next' = [next EXCEPT ![inL[t].node] = mine[t]]
        /\ pushed' = Append(pushed, item[t])
        /\ Goto(t, "link", "swing")
        /\ UNCHANGED inL
     \/ /\ next[inL[t].node] # Null
        /\ Goto(t, "link", "readin")
        /\ inL' = [inL EXCEPT ![t] = Null]
        /\ UNCHANGED <<next, pushed>>
  /\ UNCHANGED <<head, id, old, new>>
  /\ UNCHANGED <<in, out, qid, data, count, quota, outL, nextL, mine, item, popped, overlapped, reclaimed>>

\* in_ is moved to the new node, unless another thread has done it; Push
\* returns true.
MoveIn(t) ==
  /\ Goto(t, "swing", "idle")
  /\ SwingIn(t, mine[t])
  /\ inL' = [inL EXCEPT ![t] = Null]
  /\ mine' = [mine EXCEPT ![t] = Null]
  /\ item' = [item EXCEPT ![t] = 0]
  /\ UNCHANGED <<head, next, id, old, new>>
  /\ UNCHANGED <<out, qid, data, count, quota, outL, nextL, pushed, popped, overlapped, reclaimed>>

-----------------------------------------------------------------------------
(* Pop *)

Pop(t) ==
  /\ quota[t].pops
  /\ Goto(t, "idle", "readout")
  /\ UNCHANGED <<head, next, id, old, new, queueVars>>

ReadOut(t) ==
  /\ Goto(t, "readout", "popin")
  /\ outL' = [outL EXCEPT ![t] = out]
  /\ UNCHANGED <<head, next, id, old, new>>
  /\ UNCHANGED <<in, out, qid, data, count, quota, inL, nextL, mine, item, pushed, popped, overlapped, reclaimed>>

ReadPopIn(t) ==
  /\ Goto(t, "popin", "popnext")
  /\ inL' = [inL EXCEPT ![t] = in]
  /\ UNCHANGED <<head, next, id, old, new>>
  /\ UNCHANGED <<in, out, qid, data, count, quota, outL, nextL, mine, item, pushed, popped, overlapped, reclaimed>>

\* The dummy's next: none means that Pop returns false; in = out that in_ lags.
ReadFirst(t) ==
  LET nx == next[outL[t].node] IN
  /\ pc[t] = "popnext"
  /\ \/ /\ nx = Null
        /\ Goto(t, "popnext", "idle")
        /\ outL' = [outL EXCEPT ![t] = Null]
        /\ inL' = [inL EXCEPT ![t] = Null]
        /\ UNCHANGED nextL
     \/ /\ nx # Null
        /\ Goto(t, "popnext", IF inL[t] = outL[t] THEN "pophelp" ELSE "readdata")
        /\ nextL' = [nextL EXCEPT ![t] = nx]
        /\ UNCHANGED <<outL, inL>>
  /\ UNCHANGED <<head, next, id, old, new>>
  /\ UNCHANGED <<in, out, qid, data, count, quota, mine, item, pushed, popped, overlapped, reclaimed>>

PopHelpIn(t) ==
  /\ Goto(t, "pophelp", "readout")
  /\ SwingIn(t, nextL[t])
  /\ outL' = [outL EXCEPT ![t] = Null]
  /\ inL' = [inL EXCEPT ![t] = Null]
  /\ nextL' = [nextL EXCEPT ![t] = Null]
  /\ UNCHANGED <<head, next, id, old, new>>
  /\ UNCHANGED <<out, qid, data, count, quota, mine, item, pushed, popped, overlapped, reclaimed>>

\* The data of a node that may have been released and reused meanwhile.  The dummy
\* whose next Pop has read may have been on the unused list then, half linked, so
\* that the node is null.
ReadData(t) ==
  /\ IF nextL[t].node = NIL THEN Crash(t, "readdata") /\ UNCHANGED <<item, inL>>
     ELSE /\ Goto(t, "readdata", "advance")
          /\ item' = [item EXCEPT ![t] = data[nextL[t].node]]
          /\ inL' = [inL EXCEPT ![t] = Null]
  /\ UNCHANGED <<head, next, id, old, new>>
  /\ UNCHANGED <<in, out, qid, data, count, quota, outL, nextL, mine, pushed, popped, overlapped, reclaimed>>

\* atomic_cas2(&out_, out, next), or around the loop.
AdvanceOut(t) ==
  /\ \/ /\ out = outL[t]
        /\ out' = nextL[t]
        /\ popped' = Append(popped, item[t])
        /\ Goto(t, "advance", "drop")
        /\ UNCHANGED outL
     \/ /\ out # outL[t]
        /\ Goto(t, "advance", "readout")
        /\ outL' = [outL EXCEPT ![t] = Null]
        /\ UNCHANGED <<out, popped>>
  /\ item' = [item EXCEPT ![t] = 0]
  /\ nextL' = [nextL EXCEPT ![t] = Null]
  /\ UNCHANGED <<head, next, id, old, new>>
  /\ UNCHANGED <<in, qid, data, count, quota, inL, mine, pushed, overlapped, reclaimed>>

\* ReleaseNode(cur): the old dummy goes back to the unused list.
ReleaseNode(t) ==
  /\ FetchId(t, "drop", outL[t].node)
  /\ outL' = [outL EXCEPT ![t] = Null]
  /\ reclaimed' = (reclaimed \/ \E u \in Threads : HasTail(u, outL[t].node))
  /\ UNCHANGED <<in, out, qid, data, count, quota, inL, nextL, mine, item, pushed, popped, overlapped>>

-----------------------------------------------------------------------------
ListQueueStep(t) ==
  \/ ReadUnused(t) \/ NodeAllocated(t) \/ FillNode(t) \/ ReadIn(t) \/ ReadTailNext(t)
  \/ HelpIn(t) \/ LinkTail(t) \/ MoveIn(t)
  \/ ReadOut(t) \/ ReadPopIn(t) \/ ReadFirst(t) \/ PopHelpIn(t) \/ ReadData(t)
  \/ AdvanceOut(t) \/ ReleaseNode(t)
  \/ ListStep(t) /\ UNCHANGED queueVars

ListQueueNext == \E t \in Threads : ListQueueStep(t) \/ Push(t) \/ Pop(t)

ListQueueSafety == ListQueueInit /\ [][ListQueueNext]_listQueueVars

\* A thread inside Push or Pop goes on, except that those of Stalling may
\* stop for ever at any point; nobody must call them.
ListQueueSpec == ListQueueSafety /\ \A t \in Threads \ Stalling : WF_listQueueVars(ListQueueStep(t))

-----------------------------------------------------------------------------
\* The items from the dummy's successor to the last node.
Contents ==
  LET at == Walk(out)
      n  == Cardinality({i \in 1..Size : at[i] # NIL})
  IN  [i \in 1..n |-> data[at[i]]]

\* The items taken and those in the list are the items linked, in order, and in_ is
\* on the list, so that Push never links to a node that Pop has released.
InOrder ==
  /\ pushed = popped \o Contents
  /\ in.node \in NodesFrom(out)

\* The items Pop takes are the items Push linked, each once and in order, and
\* those not yet taken are in the list; whatever node an operation had read
\* when the node was released and reused.  And in_ never falls behind out_:
\* whoever finds in_ = out_ and an item moves in_ on first.  All this until Pop
\* releases a node that a call of Push has read from in_ and is about to link to,
\* which takes a second call of Push: the double word that Push swaps (the node's
\* next) has no tag to tell it that the node is no longer the last.
Fifo == reclaimed \/ InOrder

Quiet == \A t \in Threads : pc[t] = "idle"

\* The comment on LockFreeListNode: "all the nodes will either be linked in the
\* lock-free list (using next) or linked in the unused-list", when no call is
\* under way.
NodesLinked ==
  Quiet => /\ Nodes \subseteq (NodesFrom(out) \cup FreeNodes)
           /\ NodesFrom(out) \cap FreeNodes = {}

\* A call of Push or Pop returns even if other threads have stopped for
\* ever in the middle of theirs: a loop goes round again only because another
\* call has got further, and the calls explored are finite in number.
PushPopReturns ==
  \A t \in Threads \ Stalling : pc[t] # "idle" ~> pc[t] \in {"idle", "crashed"}
=============================================================================
