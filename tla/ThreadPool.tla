----------------------------- MODULE ThreadPool -----------------------------
(***************************************************************************)
(* The thread pool (thread/ThreadPool.h, thread/src/ThreadPool.cc): a      *)
(* Dispatcher, itself a worker body with a priority queue, that hands each *)
(* task to a worker whose bit is set in freeWorkerBit_.  Workers set their *)
(* bit when a task ends (Notify(-1)) and post workerNotify_ when they have *)
(* nothing to do (Notify(0)).                                              *)
(***************************************************************************)
EXTENDS WorkerBodyBase

CONSTANTS
  WorkerNum,    \* workerNum_
  Dispatcher,   \* the dispatcher's body, and its thread as a poster
  Priority,     \* [Tasks -> Nat]  TaskPriority: 0 (TP_EXTREME) .. 3 (TP_LOW)
  Affinity,     \* [Tasks -> Int]  GetAffinity(), -1 by default
  IntBits,      \* width of int (32)
  LongBits      \* width of unsigned long long (64)

Workers == 0..(WorkerNum - 1)

ASSUME PoolAssumption ==
  /\ WorkerNum \in Nat \ {0} /\ IntBits \in Nat \ {0} /\ LongBits \in Nat \ {0}
  /\ WorkerNum <= LongBits
  /\ Dispatcher \notin Int /\ NULL \notin Int
  /\ Bodies = Workers \cup {Dispatcher}
  /\ Bodies \subseteq Threads /\ \A b \in Bodies : Runs[b] = b  \* b names its thread
  /\ Notifying = Workers
  /\ Owner \in Posters /\ Dispatcher \in Posters /\ Owner # Dispatcher
  /\ Priority \in [Tasks -> Nat]
  /\ Affinity \in [Tasks -> Int]

VARIABLES
  freeBits,    \* SUBSET 0..LongBits-1: the bits set in freeWorkerBit_
  notifySem,   \* workerNotify_
  freeWorker,  \* freeWorker_, NULL or a worker
  dest,        \* the dispatcher inside DispatchTask: NULL before the bit is
               \* cleared, then the worker, then Dispatcher
  phase,       \* what the owner is doing
  idx,         \* the worker its loop is at
  posted,      \* history: tasks the pool accepted
  ran,         \* history: tasks a worker has run
  dropped,     \* history: tasks a worker's full mailbox refused
  misshifted   \* history: a worker's `1 << id' has touched the bit of another

poolVars == <<freeBits, notifySem, freeWorker, dest, phase, idx, posted, ran, dropped,
              misshifted>>
vars == <<bodyVars, poolVars>>

Init ==
  /\ BodyInit
  /\ freeBits = Workers
  /\ notifySem = WorkerNum
  /\ freeWorker = NULL
  /\ dest = NULL
  /\ phase = "new"
  /\ idx = 0
  /\ posted = {}
  /\ ran = {}
  /\ dropped = {}
  /\ misshifted = FALSE

-----------------------------------------------------------------------------
\* ThreadPool::PostTask: the task goes to the dispatcher's queue.
PostTask(p, t) ==
  /\ p # Dispatcher
  /\ p = Owner => phase = "running"
  /\ t \notin posted
  /\ PushTask(p, Dispatcher, t)
  /\ posted' = posted \cup {t}
  /\ UNCHANGED <<freeBits, notifySem, freeWorker, dest, phase, idx, ran, dropped, misshifted>>

Signal(p) == SignalPost(p) /\ UNCHANGED poolVars

-----------------------------------------------------------------------------
(* The dispatcher thread. *)

LowestBit(bits) == CHOOSE i \in bits : \A j \in bits : i <= j

\* One round of PrepareWorker's loop: sem_wait(&workerNotify_), then
\* SelectFreeWorker, which returns the worker of the lowest set bit.  The
\* thread leaves PrepareWorker when freeWorker_ is set.
PrepareWorker ==
  /\ pc[Dispatcher] = "prepare"
  /\ freeWorker = NULL
  /\ notifySem > 0
  /\ notifySem' = notifySem - 1
  /\ freeWorker' = IF freeBits = {} THEN NULL ELSE LowestBit(freeBits)
  /\ UNCHANGED <<bodyVars, freeBits, dest, phase, idx, posted, ran, dropped, misshifted>>

\* The assertion of SelectFreeWorker: the binary search finds the bit.
SelectAssertion == freeBits # {} => LowestBit(freeBits) \in Workers

\* GetTaskFromContainer pops a task no other one precedes: smaller enumerators
\* first; the comparator is >=, so the order among equals is unspecified.
Front(i) ==
  \A j \in 1..Len(container[Dispatcher]) :
    Priority[container[Dispatcher][i]] <= Priority[container[Dispatcher][j]]

\* The bits of the 64-bit operand that `1 << id', an int, converts to: the sign
\* bit extends, and the shift count is taken modulo the width of int.
ShiftedBits(id) ==
  LET n == id % IntBits IN
  IF n = IntBits - 1 THEN n..(LongBits - 1) ELSE {n}

\* The worker DispatchTask chooses.
Target(t) == IF Affinity[t] \in Workers THEN Affinity[t] ELSE freeWorker

\* Mutation: the bit of the chosen worker stays set.
DispatchTaskKeepsBit ==
  /\ pc[Dispatcher] = "task"
  /\ dest = NULL
  /\ dest' = Target(msg[Dispatcher])
  /\ freeWorker' = IF Target(msg[Dispatcher]) = freeWorker THEN NULL ELSE freeWorker
  /\ UNCHANGED <<bodyVars, freeBits, notifySem, phase, idx, posted, ran, dropped, misshifted>>

\* DispatchTask up to PostTask.  freeWorker_ is local to this thread.
DispatchTask ==
  LET w == Target(msg[Dispatcher]) IN
  /\ pc[Dispatcher] = "task"
  /\ dest = NULL
  /\ dest' = w
  /\ freeBits' = freeBits \ ShiftedBits(w)
  /\ misshifted' = (misshifted \/ ShiftedBits(w) # {w})
  /\ freeWorker' = IF w = freeWorker THEN NULL ELSE freeWorker
  /\ UNCHANGED <<bodyVars, notifySem, phase, idx, posted, ran, dropped>>

\* worker->PostTask(task): a full mailbox refuses it, and the result is ignored.
DispatchPost ==
  /\ dest \in Workers
  /\ dest' = Dispatcher
  /\ \/ PushTask(Dispatcher, dest, msg[Dispatcher]) /\ UNCHANGED dropped
     \/ /\ Len(container[dest]) >= MaxTaskSize[dest]
        /\ dropped' = dropped \cup {msg[Dispatcher]}
        /\ UNCHANGED bodyVars
  /\ UNCHANGED <<freeBits, notifySem, freeWorker, phase, idx, posted, ran, misshifted>>

\* HandleTask of the dispatcher returns, after the worker's SignalPost.
DispatchDone ==
  /\ dest = Dispatcher
  /\ pending[Dispatcher] = NULL
  /\ TaskDone(Dispatcher)
  /\ dest' = NULL
  /\ UNCHANGED <<freeBits, notifySem, freeWorker, phase, idx, posted, ran, dropped, misshifted>>

DispatcherStep ==
  \/ PrepareWorker \/ DispatchTask \/ DispatchPost \/ DispatchDone
  \/ /\ \/ SetBusy(Dispatcher, Dispatcher) \/ EnterRun(Dispatcher, Dispatcher, "prepare")
        \/ freeWorker # NULL /\ Prepared(Dispatcher)
        \/ Consume(Dispatcher, Dispatcher)
        \/ GetInternalCmd(Dispatcher, Dispatcher) \/ ProcessInternalCmd(Dispatcher, Dispatcher)
        \/ \E i \in 1..Len(container[Dispatcher]) :
             Front(i) /\ GetTaskFromContainer(Dispatcher, Dispatcher, i)
        \/ LeaveRun(Dispatcher, Dispatcher)
        \/ NotifyDone(Dispatcher, Dispatcher, "prepare")
     /\ UNCHANGED poolVars

-----------------------------------------------------------------------------
(* A worker thread of the pool. *)

\* Mutation: the request for a task posts nothing.
RequestTaskSilently(w) ==
  /\ Notify(w)
  /\ UNCHANGED poolVars

\* Notify(): SetWorkerNotify(worker, 0) posts workerNotify_.
RequestTask(w) ==
  /\ Notify(w)
  /\ notifySem' = notifySem + 1
  /\ UNCHANGED <<freeBits, freeWorker, dest, phase, idx, posted, ran, dropped, misshifted>>

\* NotifyDone(): SetWorkerNotify(worker, -1) sets the worker's bit.
MarkFree(w) ==
  /\ NotifyDone(w, w, "get")
  /\ freeBits' = freeBits \cup ShiftedBits(w)
  /\ misshifted' = (misshifted \/ ShiftedBits(w) # {w})
  /\ UNCHANGED <<notifySem, freeWorker, dest, phase, idx, posted, ran, dropped>>

\* HandleTask of a worker has run the task.
RunTask(w) ==
  /\ TaskDone(w)
  /\ ran' = ran \cup {msg[w]}
  /\ UNCHANGED <<freeBits, notifySem, freeWorker, dest, phase, idx, posted, dropped, misshifted>>

WorkerStep(w) ==
  \/ RequestTask(w) \/ MarkFree(w) \/ RunTask(w)
  \/ /\ \/ SetBusy(w, w) \/ EnterRun(w, w, "get") \/ Consume(w, w)
        \/ TryConsumeFails(w, w) \/ TimedConsume(w, w) \/ Timeout(w, w)
        \/ GetInternalCmd(w, w) \/ ProcessInternalCmd(w, w) \/ GetTaskFromContainer(w, w, 1)
        \/ LeaveRun(w, w)
     /\ UNCHANGED poolVars

-----------------------------------------------------------------------------
(* The owner: StartPooling and StopPooling. *)

OwnerAt(from, to, i) ==
  /\ phase = from
  /\ phase' = to
  /\ idx' = i
  /\ UNCHANGED <<freeBits, notifySem, freeWorker, dest, posted, ran, dropped, misshifted>>

\* StartPooling: StartWorker for each worker, then the dispatcher's thread.
StartPooling ==
  \/ idx < WorkerNum /\ OwnerAt("new", "new", idx + 1) /\ CreateThread(idx, idx)
  \/ idx = WorkerNum /\ OwnerAt("new", "running", 0) /\ CreateThread(Dispatcher, Dispatcher)

\* StopPooling: an exit command for the dispatcher, then for each worker an
\* exit command and a join, and last the join of the dispatcher's thread.
StopPooling ==
  \/ OwnerAt("running", "stopping", 0) /\ PushExit(Owner, Dispatcher)
  \/ idx < WorkerNum /\ OwnerAt("stopping", "joining", idx) /\ PushExit(Owner, idx)
  \/ /\ pending[Owner] = NULL
     /\ idx < WorkerNum
     /\ pc[idx] = "off"
     /\ OwnerAt("joining", "stopping", idx + 1)
     /\ UNCHANGED bodyVars
  \/ /\ idx = WorkerNum
     /\ pc[Dispatcher] = "off"
     /\ OwnerAt("stopping", "stopped", 0)
     /\ UNCHANGED bodyVars

Next ==
  \/ DispatcherStep
  \/ \E w \in Workers : WorkerStep(w)
  \/ \E p \in Posters : Signal(p)
  \/ \E p \in Posters, t \in Tasks : PostTask(p, t)
  \/ StartPooling
  \/ StopPooling

\* Every thread that can take a step takes one: the threads of the pool, a
\* poster between its push and its sem_post, and the owner once it is inside
\* StartPooling or StopPooling.
Fairness ==
  /\ WF_vars(DispatcherStep)
  /\ \A w \in Workers : WF_vars(WorkerStep(w))
  /\ \A p \in Posters : WF_vars(Signal(p))
  /\ WF_vars((idx > 0 /\ StartPooling) \/ (phase # "running" /\ StopPooling))

SafetySpec == Init /\ [][Next]_vars

Spec == SafetySpec /\ Fairness

-----------------------------------------------------------------------------
\* A worker with no task to run: nothing in its mailbox, nothing running.
Idle(w) == container[w] = <<>> /\ pc[w] \notin {"pop", "task"}

\* The workers some task is bound to.
Pinned == {Affinity[t] : t \in Tasks} \cap Workers

\* What SelectFreeWorker's comment promises, for the workers no task is bound
\* to: a worker whose bit is set, that is kept in freeWorker_ or that is about
\* to be handed a task has no task to run, although bit, mailbox and worker
\* thread change in different threads.  So its mailbox never refuses a task.
\* And DispatchTask's assert(freeWorker_) and SelectFreeWorker's assertion hold.
FreeWorkerIdle ==
  /\ \A w \in Workers \ Pinned :
       (w \in freeBits \/ freeWorker = w \/ dest = w) => Idle(w)
  /\ pc[Dispatcher] \in {"get", "fetch", "pop"} => freeWorker # NULL
  /\ SelectAssertion

\* The positions of t in the container of b.
Waiting(t, b) == {i \in DOMAIN container[b] : container[b][i] = t}

\* An accepted task is in exactly one place: a queue, being dispatched, being
\* run, or run; none is lost or handed to two workers.
OnePlace ==
  \A t \in posted :
    LET queued  == UNION {{<<b, i>> : i \in Waiting(t, b)} : b \in Bodies}
        running == {w \in Workers : pc[w] = "task" /\ msg[w] = t}
        held    == IF pc[Dispatcher] = "task" /\ dest # Dispatcher /\ msg[Dispatcher] = t
                     THEN {t} ELSE {}
    IN  Cardinality(queued) + Cardinality(running) + Cardinality(held)
          + Cardinality({t} \cap ran) + Cardinality({t} \cap dropped) = 1

Handled == posted = ran \cup dropped

\* No wake-up is lost between dispatcher and workers: unless the owner begins
\* to stop the pool, the backlog of accepted tasks drains, each task run by a
\* worker or refused by a full mailbox.
BacklogDrains ==
  (phase = "running" /\ ~Handled) ~> (Handled \/ phase = "stopping")

\* StopPooling returns.
StopReturns == phase = "stopping" ~> phase = "stopped"

-----------------------------------------------------------------------------
(* The inductive invariants behind FreeWorkerIdle and OnePlace. *)

PoolTypeOK ==
  /\ freeBits \in SUBSET (0..(LongBits - 1))
  /\ notifySem \in Nat
  /\ freeWorker \in 0..(LongBits - 1) \cup {NULL}
  /\ dest \in 0..(LongBits - 1) \cup {NULL, Dispatcher}
  /\ phase \in {"new", "running", "stopping", "joining", "stopped"}
  /\ idx \in 0..WorkerNum
  /\ posted \in SUBSET Tasks
  /\ ran \in SUBSET Tasks
  /\ dropped \in SUBSET Tasks

\* dest is set only inside HandleTask, and from PrepareWorker on the dispatcher
\* has a worker to give the task to.
DispatcherInv ==
  /\ dest # NULL => pc[Dispatcher] = "task"
  /\ (pc[Dispatcher] \in {"get", "fetch", "pop"} \/ (pc[Dispatcher] = "task" /\ dest = NULL))
       => freeWorker # NULL

PoolInv == BodyInv /\ PoolTypeOK /\ DispatcherInv

\* A worker the dispatcher may still give a task to.
Claimed(w) == w \in freeBits \/ freeWorker = w \/ dest = w

\* The task is over and NotifyDone is due.
Finishing(w) == pc[w] = "end" /\ ~shouldStop[w]

\* Worker w holds at most one task; while it runs it or is about to call
\* NotifyDone its mailbox is empty; and a claim on the worker is given up before
\* the task is in its mailbox.
OneTaskAtATime(w) ==
  /\ Claimed(w) => Idle(w) /\ ~Finishing(w)
  /\ pc[w] = "task" \/ Finishing(w) => container[w] = <<>>
  /\ Len(container[w]) <= 1
  /\ dest = w => w \notin freeBits /\ freeWorker # w

FreeInv ==
  /\ freeBits \subseteq Workers
  /\ freeWorker \in Workers \cup {NULL}
  /\ \A w \in Workers \ Pinned : OneTaskAtATime(w)

\* Body b is about to dispatch (the dispatcher) or to run (a worker) task t.
InHands(t, b) == pc[b] = "task" /\ msg[b] = t /\ (b = Dispatcher => dest # Dispatcher)

\* The places a task can be in: the queue or the hands of a body, or the past.
Kinds == {"queue", "hands", "ran", "dropped"}
Holders == Bodies \cup {NULL}

At(t, k, b) ==
  \/ k = "queue" /\ b \in Bodies /\ Waiting(t, b) # {}
  \/ k = "hands" /\ b \in Bodies /\ InHands(t, b)
  \/ k = "ran" /\ b = NULL /\ t \in ran
  \/ k = "dropped" /\ b = NULL /\ t \in dropped

\* A task is somewhere iff it was accepted, and never in two places ...
Placed(t) ==
  /\ t \in posted <=> \E k \in Kinds, b \in Holders : At(t, k, b)
  /\ \A k, l \in Kinds, b, c \in Holders : At(t, k, b) /\ At(t, l, c) => k = l /\ b = c

\* ... nor twice in one queue.
NoDuplicates ==
  \A b \in Bodies : \A i, j \in DOMAIN container[b] :
    container[b][i] = container[b][j] => i = j

PlaceInv == NoDuplicates /\ \A t \in Tasks : Placed(t)
=============================================================================
