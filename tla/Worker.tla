------------------------------- MODULE Worker -------------------------------
(***************************************************************************)
(* A stand-alone worker (thread/Worker.h, thread/src/Worker.cc): a         *)
(* WorkerBody with a FIFO mailbox, run by a Thread that its Owner starts,  *)
(* stops, restarts and finally destroys while clients post tasks.  A start *)
(* before the last thread created has set busy_ puts two threads to work   *)
(* on the body; the number of Threads bounds how often.                    *)
(***************************************************************************)
EXTENDS WorkerBodyBase

ASSUME OwnerAssumption == Owner \in Posters

VARIABLES
  life,      \* [Bodies -> Life]        what the owner did last with the worker
  tid,       \* [Bodies -> Threads \cup {NULL}]  tid_, the thread created last
  doubled,   \* [Bodies -> BOOLEAN]     history: two threads were put to work
  accepted,  \* [Bodies -> Seq(Tasks)]  history: tasks accepted, in push order
  finished   \* [Bodies -> Seq(Tasks)]  history: tasks run, in order

workerVars == <<bodyVars, life, tid, doubled, accepted, finished>>

Life == {"none", "started", "stopping", "clearing", "dead"}

TypeOK ==
  /\ BodyTypeOK
  /\ life \in [Bodies -> Life]
  /\ tid \in [Bodies -> Threads \cup {NULL}]
  /\ doubled \in [Bodies -> BOOLEAN]
  /\ accepted \in [Bodies -> Seq(Tasks)]
  /\ finished \in [Bodies -> Seq(Tasks)]

WorkerInit ==
  /\ BodyInit
  /\ life = [b \in Bodies |-> "none"]
  /\ tid = [b \in Bodies |-> NULL]
  /\ doubled = [b \in Bodies |-> FALSE]
  /\ accepted = [b \in Bodies |-> <<>>]
  /\ finished = [b \in Bodies |-> <<>>]

InSeq(s) == {s[i] : i \in DOMAIN s}

\* The owner is not inside a join or a destructor.
OwnerFree == \A b \in Bodies : life[b] \notin {"stopping", "clearing"}

\* A task object is handed over once; nobody posts to a destroyed worker.
WorkerPostTask(p, b, t) ==
  /\ life[b] \notin {"clearing", "dead"}
  /\ p = Owner => OwnerFree
  /\ \A c \in Bodies : t \notin InSeq(accepted[c])
  /\ PushTask(p, b, t)
  /\ accepted' = [accepted EXCEPT ![b] = Append(@, t)]
  /\ UNCHANGED <<life, tid, doubled, finished>>

\* The threads of body b that exist.
Alive(b) == ThreadsAt(b, PC \ {"off"})

\* StartWorking -> Thread::Start.  busy_ says nothing of a thread that has been
\* created and has not run yet.
StartWorking(r, b) ==
  /\ OwnerFree
  /\ life[b] \in {"none", "started"}
  /\ CreateThread(r, b)
  /\ life' = [life EXCEPT ![b] = "started"]
  /\ tid' = [tid EXCEPT ![b] = r]
  /\ doubled' = [doubled EXCEPT ![b] = @ \/ ThreadsAt(b, {"created"}) # {}]
  /\ UNCHANGED <<accepted, finished>>

\* StopWorking(join): StopRunning posts the exit command; without join it
\* returns at once, and the owner may go on posting, stopping or restarting.
StopWorking(b, join) ==
  /\ OwnerFree
  /\ life[b] = "started"
  /\ PushExit(Owner, b)
  /\ life' = [life EXCEPT ![b] = IF join THEN "stopping" ELSE @]
  /\ UNCHANGED <<tid, doubled, accepted, finished>>

\* pthread_join(tid_) returns once that thread has ended.
Join(b) ==
  /\ life[b] = "stopping"
  /\ pending[Owner] = NULL
  /\ pc[tid[b]] = "off"
  /\ life' = [life EXCEPT ![b] = "none"]
  /\ UNCHANGED <<bodyVars, tid, doubled, accepted, finished>>

\* ~WorkerBody on a worker that no thread runs and that nobody is posting to.
Destroy(b) ==
  /\ OwnerFree
  /\ life[b] = "none"
  /\ InFlight(b) = {}
  /\ Alive(b) = {}
  /\ life' = [life EXCEPT ![b] = "clearing"]
  /\ UNCHANGED <<bodyVars, tid, doubled, accepted, finished>>

\* One round of ClearAllTask: while (HasTask()) CleanRunTask(TryGetTask()).
\* TryGetTask takes a task only if TryConsume takes a token.
ClearAllTask(b) ==
  /\ life[b] = "clearing"
  /\ container[b] # <<>>
  /\ sem[b] > 0
  /\ sem' = [sem EXCEPT ![b] = @ - 1]
  /\ container' = [container EXCEPT ![b] = Tail(@)]
  /\ UNCHANGED <<cmd, pc, msg, req, shouldStop, busy, pending, life, tid, doubled, accepted, finished>>

Cleared(b) ==
  /\ life[b] = "clearing"
  /\ container[b] = <<>>
  /\ life' = [life EXCEPT ![b] = "dead"]
  /\ UNCHANGED <<bodyVars, tid, doubled, accepted, finished>>

\* HandleTask has run the task.
WorkerRunTask(r, b) ==
  /\ TaskDone(r)
  /\ finished' = [finished EXCEPT ![b] = Append(@, msg[r])]
  /\ UNCHANGED <<life, tid, doubled, accepted>>

\* Thread r at work on body b; the mailbox pops its front.
ThreadStep(r, b) ==
  \/ WorkerRunTask(r, b)
  \/ /\ \/ SetBusy(r, b) \/ EnterRun(r, b, "get") \/ Consume(r, b)
        \/ TryConsumeFails(r, b) \/ Notify(r) \/ TimedConsume(r, b) \/ Timeout(r, b)
        \/ GetInternalCmd(r, b) \/ ProcessInternalCmd(r, b) \/ GetTaskFromContainer(r, b, 1)
        \/ LeaveRun(r, b) \/ NotifyDone(r, b, "get")
     /\ UNCHANGED <<life, tid, doubled, accepted, finished>>

WorkerSignal(p) == SignalPost(p) /\ UNCHANGED <<life, tid, doubled, accepted, finished>>

OwnerStep(b) ==
  \/ \E r \in Threads : Runs[r] = b /\ StartWorking(r, b)
  \/ Join(b) \/ Destroy(b) \/ ClearAllTask(b) \/ Cleared(b)
  \/ \E join \in BOOLEAN : StopWorking(b, join)

WorkerNext ==
  \/ \E r \in Threads : ThreadStep(r, Runs[r])
  \/ \E b \in Bodies : OwnerStep(b)
  \/ \E p \in Posters : WorkerSignal(p)
  \/ \E p \in Posters, b \in Bodies, t \in Tasks : WorkerPostTask(p, b, t)

\* Threads that can run do run: the workers' own threads, a poster between its
\* push and its sem_post, and the owner inside pthread_join or ClearAllTask.
\* Nothing obliges anyone to start, stop or post.
WorkerFairness ==
  /\ \A r \in Threads : WF_workerVars(ThreadStep(r, Runs[r]))
  /\ \A b \in Bodies : WF_workerVars(Join(b) \/ ClearAllTask(b) \/ Cleared(b))
  /\ \A p \in Posters : WF_workerVars(WorkerSignal(p))

WorkerSafetySpec == WorkerInit /\ [][WorkerNext]_workerVars

WorkerSpec == WorkerSafetySpec /\ WorkerFairness

-----------------------------------------------------------------------------
\* The tasks being run, as a set and, for one thread, as a sequence.
Running(b) == {msg[r] : r \in ThreadsAt(b, {"task"})}
Any(S) == CHOOSE x \in S : TRUE
Current(b) ==
  IF ThreadsAt(b, {"task"}) = {} THEN <<>> ELSE <<msg[Any(ThreadsAt(b, {"task"}))]>>

InOrder(b) == accepted[b] = finished[b] \o Current(b) \o container[b]
NoneLost(b) ==
  InSeq(accepted[b]) = InSeq(finished[b]) \cup Running(b) \cup InSeq(container[b])

\* Tasks are run in the order they were accepted, each exactly once, whatever
\* stops and restarts come in between: what was accepted is what was run, what
\* is running and what waits in the mailbox.  Where a start came before the
\* last thread created had set busy_, two threads take from the mailbox: the
\* order is gone, and still no task is lost.
RunInOrder ==
  \A b \in Bodies :
    life[b] \notin {"clearing", "dead"} => (doubled[b] \/ InOrder(b)) /\ NoneLost(b)

\* A worker being destroyed has no thread, and nobody is in the middle of
\* posting to it.
LifeInv ==
  \A b \in Bodies :
    /\ life[b] \in {"clearing", "dead"} => Alive(b) = {}
    /\ life[b] = "clearing" => InFlight(b) = {}

\* The inductive invariant behind TokenBalance and NoNullTask.
IInv == TypeOK /\ BodyInv /\ LifeInv

\* Until two threads were put to work on a body it has at most one, and busy_
\* is set once that one has run.
SoleThread ==
  \A b \in Bodies : ~doubled[b] =>
    /\ \A q, r \in Alive(b) : q = r
    /\ ThreadsAt(b, PC \ {"off", "created"}) # {} => busy[b]

\* StopWorking(true) returns: the exit command is never lost, even when it is
\* posted before the new thread has reset ShouldStop_ in Run().  With two
\* threads at work the other one may take the command, and the join waits on.
WorkerStopReturns ==
  \A b \in Bodies : life[b] = "stopping" ~> (life[b] = "none" \/ doubled[b])

\* An accepted task is run unless the worker's thread is stopped: no wake-up is
\* lost between the push and the sem_post, in the timed wait or at the
\* request threshold.
TaskRuns ==
  \A b \in Bodies, t \in Tasks :
    (t \in InSeq(container[b]) /\ Alive(b) # {})
      ~> (t \in InSeq(finished[b]) \/ Alive(b) = {} \/ doubled[b])

\* The destructor's ClearAllTask loop ends: it never spins on a task for which
\* there is no token.
ClearEnds == \A b \in Bodies : life[b] = "clearing" ~> life[b] = "dead"
=============================================================================
