------------------------------ MODULE LogWorker ------------------------------
(***************************************************************************)
(* The logger of sys (Logger.cc, Log.cc): threads put messages in a queue, *)
(* and a logging thread, or any thread that calls Logger::Flush, writes    *)
(* them to the stream of their Logger.                                     *)
(*                                                                         *)
(* The queue is that of LockFreeListQueue: Push first takes a node and Pop *)
(* gives it back last, and in between the queue is first in, first out as  *)
(* long as that module says so (Fifo).  Several threads push, and then it  *)
(* need not be: from the steps LinkStale and PopNull on nothing is said of *)
(* the process any more.  The pool of buffers is a number of free buffers. *)
(* The logging thread waits for sig_ with a timeout, so that its wait may  *)
(* end at any time, and sig_ need not be counted.  Stamps and text are     *)
(* left out: a message is the buffer that holds it.                        *)
(***************************************************************************)
EXTENDS Integers, Sequences, FiniteSets, SequencesExt, Functions

CONSTANTS
  Writers,    \* the threads that log
  Control,    \* the threads that start, stop and flush the logger or change a stream
  Main,       \* the one that ends the process
  Threads,    \* how many logging threads there may be: 1..Threads, in the order of creation
  Levels,     \* LOG_ALL, ..., LOG_FATAL as numbers
  Loggers,    \* the Logger objects: Log.cc has one for each level, named by its number
  Buffers,    \* size_ buffers; the queue has as many nodes besides its dummy
  Retries,    \* 32
  MaxStop, MaxStream  \* bounds: tokens of stop_, streams ever opened

ASSUME LogAssumption ==
  /\ Main \in Control
  /\ Levels \subseteq Nat /\ Loggers \subseteq Levels /\ Loggers # {} /\ IsFiniteSet(Loggers)
  /\ {Threads, Retries, MaxStop, MaxStream} \subseteq Nat
  /\ IsFiniteSet(Buffers) /\ 0 \notin Buffers
  /\ (Writers \cup Control) \cap (1..Threads) = {}
  /\ Cardinality(Loggers) <= MaxStream

Clients == Writers \cup Control
Workers == 1..Threads
Size == Cardinality(Buffers)
Streams == 1..MaxStream
Flushers == Clients \cup Workers

VARIABLES
  free,        \* SUBSET Buffers  buffer_
  nodes,       \* free nodes of pendingMsg_
  pending,     \* Seq(Buffers)    pendingMsg_
  logLevel,    \* g_logLevel
  fout,        \* [Loggers -> Streams]  fout_ of each Logger
  stream,      \* [Streams -> {"none", "good", "bad", "deleted"}]
  entity,      \* [Buffers -> Streams \cup {0}]  fout of the LogEntity in a buffer
  pc,          \* where each thread is
  hand,        \* [Flushers -> Buffers \cup {0}]  log of DoLog and of Flush
  retry,       \* [Clients -> 0..Retries]
  stop,        \* stop_
  run,         \* run_
  busy,        \* busy_ of the thread object
  created,     \* logging threads created: tid_ is the last of them
  leaked,      \* history: buffers that are never given back
  due,         \* [Workers -> SUBSET Buffers]  history: what was pending when it last
               \* woke up and still is
  ahead,       \* [Clients -> -1..Size]  history: of the messages queued when Push took its
               \* node, how many still are; -1: one queued since has been taken
  broken       \* history: the queue has lost its order, or Pop has crashed

queueVars == <<free, nodes, pending, entity, leaked>>
streamVars == <<logLevel, fout, stream>>
lifeVars == <<stop, run, busy, created>>
vars == <<queueVars, streamVars, lifeVars, pc, hand, retry, due, ahead, broken>>

TypeOK ==
  /\ free \subseteq Buffers /\ leaked \subseteq Buffers
  /\ nodes \in 0..Size
  /\ pending \in Seq(Buffers)
  /\ logLevel \in Levels
  /\ fout \in [Loggers -> Streams]
  /\ stream \in [Streams -> {"none", "good", "bad", "deleted"}]
  /\ entity \in [Buffers -> Streams \cup {0}]
  /\ pc \in [Flushers -> {"idle", "push", "link", "pop", "unlinked", "write", "join", "gone",
                         "none", "created", "wait", "test", "leave", "ended"}]
  /\ hand \in [Flushers -> Buffers \cup {0}]
  /\ retry \in [Clients -> 0..Retries]
  /\ stop \in Nat /\ run \in BOOLEAN /\ busy \in BOOLEAN
  /\ created \in 0..Threads
  /\ due \in [Workers -> SUBSET Buffers]

\* The first stream of each Logger is the file its constructor opens.
Init ==
  /\ free = Buffers /\ nodes = Size /\ pending = <<>>
  /\ logLevel \in Levels
  /\ fout = [g \in Loggers |-> Cardinality({h \in Loggers : h <= g})]
  /\ stream = [s \in Streams |-> IF s <= Cardinality(Loggers) THEN "good" ELSE "none"]
  /\ entity = [b \in Buffers |-> 0]
  /\ pc = [t \in Flushers |-> IF t \in Clients THEN "idle" ELSE "none"]
  /\ hand = [t \in Flushers |-> 0]
  /\ retry = [c \in Clients |-> 0]
  /\ stop = 0 /\ run = FALSE /\ busy = FALSE /\ created = 0
  /\ leaked = {}
  /\ due = [w \in Workers |-> {}]
  /\ ahead = [c \in Clients |-> 0]
  /\ broken = FALSE

Goto(t, from, to) == pc[t] = from /\ pc' = [pc EXCEPT ![t] = to]

\* The process is there, its main thread has not returned, and the queue is in order.
Up == pc[Main] # "gone" /\ ~broken

-----------------------------------------------------------------------------
(* Log and DoLog *)

\* slog and Log: a message below the level, or without a free buffer for it, is
\* refused, and nothing changes.
Log(c, g) ==
  /\ Up /\ Goto(c, "idle", "push")
  /\ g >= logLevel
  /\ \E b \in free :
       /\ free' = free \ {b}
       /\ entity' = [entity EXCEPT ![b] = fout[g]]
       /\ hand' = [hand EXCEPT ![c] = b]
  /\ UNCHANGED <<nodes, pending, leaked, streamVars, lifeVars, retry, due, ahead, broken>>

\* Push takes a node.  If there is none DoLog posts sig_ and tries again; in
\* the end it returns 0 and keeps the buffer.
AllocNode(c) ==
  /\ Up
  /\ IF nodes > 0
     THEN /\ Goto(c, "push", "link")
          /\ nodes' = nodes - 1
          /\ ahead' = [ahead EXCEPT ![c] = Len(pending)]
          /\ UNCHANGED <<hand, retry, leaked>>
     ELSE IF retry[c] < Retries
     THEN /\ Goto(c, "push", "push")
          /\ retry' = [retry EXCEPT ![c] = @ + 1]
          /\ UNCHANGED <<nodes, hand, leaked, ahead>>
     ELSE /\ Goto(c, "push", "idle")
          /\ retry' = [retry EXCEPT ![c] = 0]
          /\ hand' = [hand EXCEPT ![c] = 0]
          /\ leaked' = leaked \cup {hand[c]}
          /\ UNCHANGED <<nodes, ahead>>
  /\ UNCHANGED <<free, pending, entity, streamVars, lifeVars, due, broken>>

\* Push links the node to the last one.
LinkNode(c) ==
  /\ Up /\ Goto(c, "link", "idle")
  /\ ahead' = [ahead EXCEPT ![c] = 0]
  /\ pending' = Append(pending, hand[c])
  /\ hand' = [hand EXCEPT ![c] = 0]
  /\ retry' = [retry EXCEPT ![c] = 0]
  /\ UNCHANGED <<free, nodes, entity, leaked, streamVars, lifeVars, due, broken>>

\* The node Push has read as the last one has been released since, because a message
\* queued after it has been taken: if its next is null Push links to it all the same,
\* and messages are lost or come twice.
LinkStale(c) ==
  /\ Up /\ pc[c] = "link" /\ ahead[c] < 0
  /\ broken' = TRUE
  /\ UNCHANGED <<queueVars, streamVars, lifeVars, pc, hand, retry, due, ahead>>

-----------------------------------------------------------------------------
(* Flush, by a client or by a logging thread *)

\* Mutation: out_ is moved without checking that no other Pop has.
UnlinkBlindly(t) ==
  /\ Up /\ Goto(t, "pop", IF pending = <<>> THEN IF t \in Clients THEN "idle" ELSE "test" ELSE "unlinked")
  /\ IF pending = <<>> THEN UNCHANGED <<pending, hand>>
     ELSE pending' \in {pending, Tail(pending)} /\ hand' = [hand EXCEPT ![t] = Head(pending)]
  /\ UNCHANGED <<free, nodes, entity, leaked, streamVars, lifeVars, retry, due, ahead, broken>>

\* Pop: the first message, or the end of the flush.
Unlink(t) ==
  /\ Up
  /\ IF pending = <<>>
     THEN /\ Goto(t, "pop", IF t \in Clients THEN "idle" ELSE "test")
          /\ UNCHANGED <<pending, hand, due, ahead>>
     ELSE /\ Goto(t, "pop", "unlinked")
          /\ pending' = Tail(pending)
          /\ hand' = [hand EXCEPT ![t] = Head(pending)]
          /\ due' = [w \in Workers |-> due[w] \ {Head(pending)}]
          /\ ahead' = [c \in Clients |->
                         IF pc[c] = "link" /\ ahead[c] >= 0 THEN ahead[c] - 1 ELSE ahead[c]]
  /\ UNCHANGED <<free, nodes, entity, leaked, streamVars, lifeVars, retry, broken>>

\* Pop reads the dummy's next while two others give their nodes back and no node is
\* free: the dummy may be one of them, half linked for the second time, and its next
\* a null node, which Pop dereferences.
PopNull(t) ==
  /\ Up /\ pc[t] = "pop" /\ nodes = 0
  /\ \E u, v \in Flushers \ {t} : u # v /\ pc[u] = "unlinked" /\ pc[v] = "unlinked"
  /\ broken' = TRUE
  /\ UNCHANGED <<queueVars, streamVars, lifeVars, pc, hand, retry, due, ahead>>

\* Mutation: Pop keeps the node.
ReleaseNodeNot(t) ==
  /\ Up /\ Goto(t, "unlinked", "write")
  /\ UNCHANGED <<free, nodes, pending, entity, leaked, streamVars, lifeVars, hand, retry, due, ahead, broken>>

\* Pop gives its node back, before Flush gives back the buffer.
ReleaseNode(t) ==
  /\ Up /\ Goto(t, "unlinked", "write")
  /\ nodes' = nodes + 1
  /\ UNCHANGED <<free, pending, entity, leaked, streamVars, lifeVars, hand, retry, due, ahead, broken>>

\* Flush has done with its message.
Done(t) ==
  /\ Up /\ Goto(t, "write", "pop")
  /\ entity' = [entity EXCEPT ![hand[t]] = 0]
  /\ hand' = [hand EXCEPT ![t] = 0]
  /\ UNCHANGED <<nodes, pending, streamVars, lifeVars, retry, due, ahead, broken>>

Write(t) ==
  /\ pc[t] = "write" /\ stream[entity[hand[t]]] = "good"
  /\ free' = free \cup {hand[t]}
  /\ Done(t)
  /\ UNCHANGED leaked

\* A stream that is not good: `continue', and the buffer is not given back.
\* A stream that SetOutStream has deleted is read all the same, and may look
\* good or not (or end the process, as a behaviour may at any time); the message
\* is written nowhere.
GiveUp(t) ==
  /\ pc[t] = "write" /\ stream[entity[hand[t]]] # "good"
  /\ \E looksGood \in BOOLEAN :
       /\ looksGood => stream[entity[hand[t]]] = "deleted"
       /\ free' = IF looksGood THEN free \cup {hand[t]} ELSE free
       /\ leaked' = IF looksGood THEN leaked ELSE leaked \cup {hand[t]}
  /\ Done(t)

-----------------------------------------------------------------------------
(* The logging thread: RunTask and LogWorker::Run *)

EnterRun(w) ==
  /\ Up /\ Goto(w, "created", "wait")
  /\ busy' = TRUE
  /\ UNCHANGED <<queueVars, streamVars, stop, run, created, hand, retry, due, ahead, broken>>

\* Mutation: the wait has no timeout, and sig_ is posted only when buffers run out.
WakeWhenFull(w) ==
  /\ Up /\ Goto(w, "wait", "pop")
  /\ free = {}
  /\ due' = [due EXCEPT ![w] = Range(pending)]
  /\ UNCHANGED <<queueVars, streamVars, lifeVars, hand, retry, ahead, broken>>

\* Mutation: stop_ is tested before the flush.
WakeOrEnd(w) ==
  /\ Up
  /\ IF stop > 0
     THEN Goto(w, "wait", "leave") /\ stop' = stop - 1
     ELSE Goto(w, "wait", "pop") /\ UNCHANGED stop
  /\ due' = [due EXCEPT ![w] = Range(pending)]
  /\ UNCHANGED <<queueVars, streamVars, run, busy, created, hand, retry, ahead, broken>>

\* sem_timedwait(&sig_) ends, posted or not.
Wake(w) ==
  /\ Up /\ Goto(w, "wait", "pop")
  /\ due' = [due EXCEPT ![w] = Range(pending)]
  /\ UNCHANGED <<queueVars, streamVars, lifeVars, hand, retry, ahead, broken>>

\* sem_trywait(&stop_)
TestStop(w) ==
  /\ Up
  /\ IF stop > 0
     THEN Goto(w, "test", "leave") /\ stop' = stop - 1 /\ UNCHANGED due
     ELSE Goto(w, "test", "wait") /\ UNCHANGED stop /\ due' = [due EXCEPT ![w] = {}]
  /\ UNCHANGED <<queueVars, streamVars, run, busy, created, hand, retry, ahead, broken>>

LeaveRun(w) ==
  /\ Up /\ Goto(w, "leave", "ended")
  /\ busy' = FALSE
  /\ UNCHANGED <<queueVars, streamVars, stop, run, created, hand, retry, due, ahead, broken>>

-----------------------------------------------------------------------------
(* Calls of the clients *)

Flush(c) ==
  /\ Up /\ Goto(c, "idle", "pop")
  /\ UNCHANGED <<queueVars, streamVars, lifeVars, hand, retry, due, ahead, broken>>

\* The old stream is deleted, whatever messages refer to it.
SetOutStream(c, g) ==
  /\ Up /\ pc[c] = "idle"
  /\ \E s \in Streams :
       /\ stream[s] = "none"
       /\ \A r \in 1..(s - 1) : stream[r] # "none"
       /\ stream' = [stream EXCEPT ![s] = "good", ![fout[g]] = "deleted"]
       /\ fout' = [fout EXCEPT ![g] = s]
  /\ UNCHANGED <<queueVars, logLevel, lifeVars, pc, hand, retry, due, ahead, broken>>

SetLogLevel(c, l) ==
  /\ Up /\ pc[c] = "idle"
  /\ logLevel' = l
  /\ UNCHANGED <<queueVars, fout, stream, lifeVars, pc, hand, retry, due, ahead, broken>>

StopLogging(c) ==
  /\ Up /\ pc[c] = "idle" /\ stop < MaxStop
  /\ run' = FALSE
  /\ stop' = stop + 1
  /\ UNCHANGED <<queueVars, streamVars, busy, created, pc, hand, retry, due, ahead, broken>>

\* RunWorker: IsRunning and Start test busy_, which only the new thread sets.
\* guardRunning_ keeps other calls out meanwhile.
RunLogging(c) ==
  /\ Up /\ pc[c] = "idle" /\ created < Threads
  /\ run' = TRUE
  /\ IF busy
     THEN UNCHANGED <<created, pc>>
     ELSE created' = created + 1 /\ pc' = [pc EXCEPT ![created + 1] = "created"]
  /\ UNCHANGED <<queueVars, streamVars, stop, busy, hand, retry, due, ahead, broken>>

\* ~LogWorker when the process ends.  Without run_ it does nothing, and the
\* process is over.
Exit ==
  /\ Up /\ run /\ Goto(Main, "idle", "join")
  /\ run' = FALSE
  /\ stop' = stop + 1
  /\ UNCHANGED <<queueVars, streamVars, busy, created, hand, retry, due, ahead, broken>>

\* tid_ is the thread created last.
Joined ==
  /\ Up /\ Goto(Main, "join", "gone")
  /\ created = 0 \/ pc[created] = "ended"
  /\ UNCHANGED <<queueVars, streamVars, lifeVars, hand, retry, due, ahead, broken>>

\* The file a stream writes to fails.
StreamFails(s) ==
  /\ Up /\ stream[s] = "good"
  /\ stream' = [stream EXCEPT ![s] = "bad"]
  /\ UNCHANGED <<queueVars, logLevel, fout, lifeVars, pc, hand, retry, due, ahead, broken>>

-----------------------------------------------------------------------------
FlushStep(t) == Unlink(t) \/ PopNull(t) \/ ReleaseNode(t) \/ Write(t) \/ GiveUp(t)

ClientStep(c) ==
  \/ AllocNode(c) \/ LinkNode(c) \/ LinkStale(c) \/ FlushStep(c)

WorkerStep(w) == EnterRun(w) \/ Wake(w) \/ FlushStep(w) \/ TestStop(w) \/ LeaveRun(w)

Next ==
  \/ \E c \in Writers, g \in Loggers : Log(c, g)
  \/ \E c \in Clients : ClientStep(c)
  \/ \E c \in Control :
       \/ Flush(c) \/ StopLogging(c) \/ RunLogging(c)
       \/ (\E g \in Loggers : SetOutStream(c, g)) \/ (\E l \in Levels : SetLogLevel(c, l))
  \/ \E w \in Workers : WorkerStep(w)
  \/ \E s \in Streams : StreamFails(s)
  \/ Exit \/ Joined

SafetySpec == Init /\ [][Next]_vars

\* Calls under way and logging threads go on.
Spec ==
  /\ SafetySpec
  /\ \A c \in Clients : WF_vars(ClientStep(c))
  /\ \A w \in Workers : WF_vars(WorkerStep(w))

-----------------------------------------------------------------------------
\* Push never fails: whoever has a buffer finds a node, although a node is
\* given back before the buffer and taken after it.  The retries of DoLog and
\* its loss of a buffer are never reached.
PushSucceeds == \A c \in Clients : pc[c] = "push" => nodes > 0

Places(b) ==
  Cardinality({i \in DOMAIN pending : pending[i] = b})
  + Cardinality({t \in Flushers : hand[t] = b})
  + (IF b \in free THEN 1 ELSE 0) + (IF b \in leaked THEN 1 ELSE 0)

\* A message is in the queue once or in the hands of one thread, from Log until
\* it is written or given up, and then its buffer is free, or lost to a stream
\* that was not good: however many threads log and flush, among them the second
\* logging thread that two calls of RunLogging can create, until a Push links to a
\* node released meanwhile or a Pop crashes.
MessageInOnePlace == broken \/ \A b \in Buffers : Places(b) = 1

\* A logging thread ends only after everything queued before it last woke up
\* has been taken from the queue.  (What is queued later may stay there.)
FlushedBeforeEnd ==
  \A w \in Workers : pc[w] \in {"leave", "ended"} => due[w] \cap Range(pending) = {}

\* While there is a logging thread queued messages are taken from the queue.
MessageFlushed ==
  \A b \in Buffers :
    b \in Range(pending) ~>
      b \notin Range(pending) \/ ~Up \/ \A w \in Workers : pc[w] \in {"none", "ended"}
-----------------------------------------------------------------------------
(* The inductive invariant that the proofs of the first three use. *)

\* A thread has a buffer in its hands exactly in these steps; no two have the same,
\* and a buffer in a hand, in the queue, free or lost is in one of these only.
PlaceInv ==
  /\ \A t \in Flushers : hand[t] # 0 <=> pc[t] \in {"push", "link", "unlinked", "write"}
  /\ \A t, u \in Flushers : hand[t] # 0 /\ hand[t] = hand[u] => t = u
  /\ \A t \in Flushers : hand[t] \notin free \cup leaked \cup Range(pending)
  /\ \A i, j \in DOMAIN pending : pending[i] = pending[j] => i = j
  /\ free \cap leaked = {} /\ free \cap Range(pending) = {} /\ leaked \cap Range(pending) = {}
  /\ \A b \in Buffers : b \in free \cup leaked \cup Range(pending) \/ \E t \in Flushers : hand[t] = b

\* The buffers that have a node: from AllocNode to ReleaseNode.
Noded == {b \in Buffers : \/ b \in Range(pending)
                         \/ \E t \in Flushers : hand[t] = b /\ pc[t] \in {"link", "unlinked"}}

\* Every other node is free.
NodeInv == nodes + Cardinality(Noded) = Size

\* A logging thread that is not created yet does nothing.
ThreadInv == \A w \in Workers : w > created => pc[w] = "none"

\* What was pending at a wake-up and no longer is has been taken from the queue, all
\* of it before the thread tests stop_.
DueInv ==
  \A w \in Workers : /\ due[w] \subseteq Range(pending)
                     /\ pc[w] \in {"test", "leave", "ended"} => due[w] = {}

IInv == TypeOK /\ PlaceInv /\ NodeInv /\ ThreadInv /\ DueInv
=============================================================================
