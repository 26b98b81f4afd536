--------------------------- MODULE WorkerBodyBase ---------------------------
(***************************************************************************)
(* The state and the steps shared by every worker body of the thread       *)
(* library (thread/WorkerBodyBase.h, thread/src/WorkerBodyBase.cc): a task *)
(* container, a queue of internal exit commands and ONE semaphore that     *)
(* counts both.  WorkerBody (module Worker) and Dispatcher (module         *)
(* ThreadPool) are its two subclasses.  The body is run by a Thread        *)
(* (thread/src/Thread.cc), whose busy_ flag is set by the new thread and   *)
(* not by Start(): nothing but that flag keeps a second thread off a body. *)
(*                                                                         *)
(* A step is what happens between two points where another thread may run: *)
(* a spin-locked queue operation (misc/SpinlockQueue.h) or a semaphore     *)
(* operation is one atomic step.                                           *)
(***************************************************************************)
EXTENDS Integers, Sequences, FiniteSets

CONSTANTS
  Bodies,         \* worker bodies
  Threads,        \* the threads that pthread_create can return, and
  Runs,           \* [Threads -> Bodies]  the body each of them runs
  Posters,        \* threads that call PostTask / StopRunning
  Owner,          \* the one that starts, stops and joins the bodies' threads
  Tasks,          \* ITask objects
  Notifying,      \* the bodies with notify_ set (EnableNotify)
  MaxTaskSize,    \* [Bodies -> Nat \ {0}]  maxSz_ of the task container
  MaxCmdSize,     \* maxSz_ of cmd_ (1024 in the code)
  ReqThreshold,   \* reqThreshold_ (3 in the code)
  NULL            \* the null pointer

ASSUME BodyAssumption ==
  /\ IsFiniteSet(Posters) /\ IsFiniteSet(Threads)
  /\ Runs \in [Threads -> Bodies]
  /\ Notifying \subseteq Bodies
  /\ MaxTaskSize \in [Bodies -> Nat \ {0}]
  /\ MaxCmdSize \in Nat \ {0} /\ ReqThreshold \in Nat
  /\ NULL \notin Tasks /\ NULL \notin Bodies

VARIABLES
  container,  \* [Bodies -> Seq(Tasks)]  mailbox_ / queue_
  cmd,        \* [Bodies -> Nat]         number of DummyExitTasks in cmd_
  sem,        \* [Bodies -> Nat]         sem_
  pc,         \* [Threads -> PC]         where the thread is in RunTask and Run()
  msg,        \* [Threads -> Tasks \cup {NULL}]  msg of Run(), NULL once it is dead
  req,        \* [Threads -> Nat]        req of GetRunTask(), 0 once it is dead
  shouldStop, \* [Bodies -> BOOLEAN]     ShouldStop_
  busy,       \* [Bodies -> BOOLEAN]     busy_ of the Thread that runs the body
  pending     \* [Posters -> Bodies \cup {NULL}]  push done, SignalPost due

bodyVars == <<container, cmd, sem, pc, msg, req, shouldStop, busy, pending>>

\* "off": no thread;  "created": pthread_create done;  "entered": busy_ is set,
\* about to enter Run();  "prepare": in PrepareWorker (bodies whose
\* PrepareWorker is empty skip it);  "get": in GetRunTask, before the
\* semaphore;  "notify": about to call Notify();  "timed": in sem_timedwait;
\* "fetch"/"pop": a token was consumed, about to look into cmd_ / into the
\* container;  "command": a command was popped;  "task": HandleTask;  "end":
\* the task or the command is finished.
PC == {"off", "created", "entered", "prepare", "get", "notify", "timed", "fetch", "command",
       "pop", "task", "end"}

BodyTypeOK ==
  /\ container \in [Bodies -> Seq(Tasks)]
  /\ cmd \in [Bodies -> Nat]
  /\ sem \in [Bodies -> Nat]
  /\ pc \in [Threads -> PC]
  /\ msg \in [Threads -> Tasks \cup {NULL}]
  /\ req \in [Threads -> Nat]
  /\ shouldStop \in [Bodies -> BOOLEAN]
  /\ busy \in [Bodies -> BOOLEAN]
  /\ pending \in [Posters -> Bodies \cup {NULL}]

BodyInit ==
  /\ container = [b \in Bodies |-> <<>>]
  /\ cmd = [b \in Bodies |-> 0]
  /\ sem = [b \in Bodies |-> 0]
  /\ pc = [r \in Threads |-> "off"]
  /\ msg = [r \in Threads |-> NULL]
  /\ req = [r \in Threads |-> 0]
  /\ shouldStop = [b \in Bodies |-> FALSE]
  /\ busy = [b \in Bodies |-> FALSE]
  /\ pending = [p \in Posters |-> NULL]

-----------------------------------------------------------------------------
(* Posting: the push and the sem_post are two steps of the calling thread. *)

\* Mutation: PostTask forgets SignalPost.
PushTaskUnsignalled(p, b, t) ==
  /\ pending[p] = NULL
  /\ Len(container[b]) < MaxTaskSize[b]
  /\ container' = [container EXCEPT ![b] = Append(@, t)]
  /\ UNCHANGED <<cmd, sem, pc, msg, req, shouldStop, busy, pending>>

\* PushTaskToContainer of PostTask; a full container refuses the task.
PushTask(p, b, t) ==
  /\ pending[p] = NULL
  /\ Len(container[b]) < MaxTaskSize[b]
  /\ container' = [container EXCEPT ![b] = Append(@, t)]
  /\ pending' = [pending EXCEPT ![p] = b]
  /\ UNCHANGED <<cmd, sem, pc, msg, req, shouldStop, busy>>

\* Mutation: the poster sets ShouldStop_ itself instead of queueing a command.
PushExitAsFlag(p, b) ==
  /\ pending[p] = NULL
  /\ shouldStop' = [shouldStop EXCEPT ![b] = TRUE]
  /\ UNCHANGED <<container, cmd, sem, pc, msg, req, busy, pending>>

\* PushInternalCmd of StopRunning -> PostExit -> PostInternalCmd.
PushExit(p, b) ==
  /\ pending[p] = NULL
  /\ cmd[b] < MaxCmdSize
  /\ cmd' = [cmd EXCEPT ![b] = @ + 1]
  /\ pending' = [pending EXCEPT ![p] = b]
  /\ UNCHANGED <<container, sem, pc, msg, req, shouldStop, busy>>

\* SignalPost: the second half of PostTask and of PostInternalCmd.
SignalPost(p) ==
  /\ pending[p] # NULL
  /\ sem' = [sem EXCEPT ![pending[p]] = @ + 1]
  /\ pending' = [pending EXCEPT ![p] = NULL]
  /\ UNCHANGED <<container, cmd, pc, msg, req, shouldStop, busy>>

-----------------------------------------------------------------------------
(* The Thread, and Run(): thread r at work on body b, which is Runs[r]. *)

Goto(r, from, to) == pc[r] = from /\ pc' = [pc EXCEPT ![r] = to]

\* Mutation: Start() does not look at busy_.
CreateThreadAnyway(r, b) ==
  /\ Goto(r, "off", "created")
  /\ UNCHANGED <<container, cmd, sem, msg, req, shouldStop, busy, pending>>

\* Thread::Start: refused while busy_ is set.
CreateThread(r, b) ==
  /\ Goto(r, "off", "created")
  /\ ~busy[b]
  /\ UNCHANGED <<container, cmd, sem, msg, req, shouldStop, busy, pending>>

\* The new thread, in Thread::RunTask, sets busy_ ...
SetBusy(r, b) ==
  /\ Goto(r, "created", "entered")
  /\ busy' = [busy EXCEPT ![b] = TRUE]
  /\ UNCHANGED <<container, cmd, sem, msg, req, shouldStop, pending>>

\* ... and enters Run(), which resets ShouldStop_; the loop's top is "prepare",
\* or "get" where PrepareWorker does nothing.
EnterRun(r, b, top) ==
  /\ Goto(r, "entered", top)
  /\ shouldStop' = [shouldStop EXCEPT ![b] = FALSE]
  /\ UNCHANGED <<container, cmd, sem, msg, req, busy, pending>>

\* PrepareWorker() has returned.
Prepared(r) ==
  /\ Goto(r, "prepare", "get")
  /\ UNCHANGED <<container, cmd, sem, msg, req, shouldStop, busy, pending>>

\* One token of sem_, as sem_wait, sem_trywait and sem_timedwait take it.
TakeToken(r, b) ==
  /\ sem[b] > 0
  /\ sem' = [sem EXCEPT ![b] = @ - 1]
  /\ req' = [req EXCEPT ![r] = 0]
  /\ UNCHANGED <<container, cmd, msg, shouldStop, busy, pending>>

Blocking(r, b) == b \notin Notifying \/ req[r] > ReqThreshold

\* SignalConsume (blocking), or TryConsume that succeeds: both take a token.
Consume(r, b) == Goto(r, "get", "fetch") /\ TakeToken(r, b)

\* TryConsume fails: a task will be requested with Notify().
TryConsumeFails(r, b) ==
  /\ Goto(r, "get", "notify")
  /\ ~Blocking(r, b)
  /\ sem[b] = 0
  /\ UNCHANGED <<container, cmd, sem, msg, req, shouldStop, busy, pending>>

\* Notify(); req++.  What the notification does is the subclass's business.
Notify(r) ==
  /\ Goto(r, "notify", "timed")
  /\ req' = [req EXCEPT ![r] = @ + 1]
  /\ UNCHANGED <<container, cmd, sem, msg, shouldStop, busy, pending>>

\* SignalConsumeTimeout returns true ...
TimedConsume(r, b) == Goto(r, "timed", "fetch") /\ TakeToken(r, b)

\* Mutation: a timed-out wait is taken for a successful one.
TimeoutAsSuccess(r, b) ==
  /\ Goto(r, "timed", "fetch")
  /\ sem[b] = 0
  /\ UNCHANGED <<container, cmd, sem, msg, req, shouldStop, busy, pending>>

\* ... or false, after timeout_ seconds without a token.
Timeout(r, b) ==
  /\ Goto(r, "timed", "get")
  /\ sem[b] = 0
  /\ UNCHANGED <<container, cmd, sem, msg, req, shouldStop, busy, pending>>

\* GetInternalCmd: a token is spent on a command when there is one.
GetInternalCmd(r, b) ==
  /\ \/ /\ cmd[b] > 0
        /\ Goto(r, "fetch", "command")
        /\ cmd' = [cmd EXCEPT ![b] = @ - 1]
     \/ /\ cmd[b] = 0
        /\ Goto(r, "fetch", "pop")
        /\ UNCHANGED cmd
  /\ UNCHANGED <<container, sem, msg, req, shouldStop, busy, pending>>

\* ProcessInternalCmd runs the DummyExitTask, which sets ShouldStop_.
ProcessInternalCmd(r, b) ==
  /\ Goto(r, "command", "end")
  /\ shouldStop' = [shouldStop EXCEPT ![b] = TRUE]
  /\ UNCHANGED <<container, cmd, sem, msg, req, busy, pending>>

WithoutIndex(s, i) == SubSeq(s, 1, i - 1) \o SubSeq(s, i + 1, Len(s))

\* Mutation: the task is looked at and stays in the container.
GetTaskWithoutPop(r, b, i) ==
  /\ Goto(r, "pop", "task")
  /\ i \in 1..Len(container[b])
  /\ msg' = [msg EXCEPT ![r] = container[b][i]]
  /\ UNCHANGED <<container, cmd, sem, req, shouldStop, busy, pending>>

\* GetTaskFromContainer, then HandleTask begins.  i is the position the
\* container pops; an empty container yields NULL.
GetTaskFromContainer(r, b, i) ==
  /\ Goto(r, "pop", "task")
  /\ \/ /\ i \in 1..Len(container[b])
        /\ msg' = [msg EXCEPT ![r] = container[b][i]]
        /\ container' = [container EXCEPT ![b] = WithoutIndex(@, i)]
     \/ /\ container[b] = <<>>
        /\ msg' = [msg EXCEPT ![r] = NULL]
        /\ UNCHANGED container
  /\ UNCHANGED <<cmd, sem, req, shouldStop, busy, pending>>

\* HandleTask has returned.  (done_ and isRuning_ are statistics.)
TaskDone(r) ==
  /\ Goto(r, "task", "end")
  /\ msg[r] # NULL
  /\ msg' = [msg EXCEPT ![r] = NULL]
  /\ UNCHANGED <<container, cmd, sem, req, shouldStop, busy, pending>>

\* if (ShouldStop_) break; RunTask resets busy_ and the thread ends.
LeaveRun(r, b) ==
  /\ Goto(r, "end", "off")
  /\ shouldStop[b]
  /\ busy' = [busy EXCEPT ![b] = FALSE]
  /\ UNCHANGED <<container, cmd, sem, msg, req, shouldStop, pending>>

\* NotifyDone(), and around the loop.
NotifyDone(r, b, top) ==
  /\ Goto(r, "end", top)
  /\ ~shouldStop[b]
  /\ UNCHANGED <<container, cmd, sem, msg, req, shouldStop, busy, pending>>

-----------------------------------------------------------------------------
\* The posters between their push and their sem_post for body b.
InFlight(b) == {p \in Posters : pending[p] = b}

\* The threads at work on body b that are at one of the places in S; those that
\* hold a consumed token not yet turned into a command or a task; and those
\* that will take a task for it.
ThreadsAt(b, S) == {r \in Threads : Runs[r] = b /\ pc[r] \in S}
Holding(b) == ThreadsAt(b, {"fetch", "pop"})
Popping(b) == ThreadsAt(b, {"pop"})

\* What waits for the worker, and what will make it look.
Items(b) == Len(container[b]) + cmd[b]
Tokens(b) == sem[b] + Cardinality(InFlight(b)) + Cardinality(Holding(b))

\* The one semaphore counts exactly the items of the two queues: every item is
\* matched by a token, by a sem_post about to happen, or by a token a thread
\* has just consumed (WorkerBodyBase.cc, PostTask / PostInternalCmd /
\* GetRunTask).  A missing token strands an item, a surplus one makes the
\* worker run a null task.  Two threads at work on one body do not disturb it.
TokenBalance == \A b \in Bodies : Items(b) = Tokens(b)

\* Every thread that found no command has a task to pop: an exit command posted
\* meanwhile cannot have lent it its token.
PopFindsTask == \A b \in Bodies : Cardinality(Popping(b)) <= Len(container[b])

\* HandleTask is never called with a null task (GetRunTask returns true with
\* msg = NULL when the container is empty, and WorkerBody::HandleTask
\* dereferences it), even by two threads at work on one body.
NoNullTask == \A r \in Threads : pc[r] = "task" => msg[r] # NULL

\* What every step of a thread and of a poster preserves.
BodyInv == BodyTypeOK /\ TokenBalance /\ PopFindsTask /\ NoNullTask
=============================================================================
