# A TLA+ model of back-end-facility

This directory holds specifications of the concurrent parts of the library (worker threads and
thread pool, lock-free containers, per-thread memory, asynchronous logging) and of the http
server built beside it. TLC checks them on small instances; TLAPS proves the safety of the
worker, the thread pool, the array stack and queue, the per-thread memory, the lock-free buffer
pool, the list queue, the logger of `sys`, the socket server, the http server, slog's records, its
asynchronous appender and the lifetime of the global one for every instance. Where the code can
leave the states in which it is right, the model takes the step that does, a history variable
records it, and the property says what holds until then (section 3). `PROJECT.json` maps each definition to the lines it models and lists runs,
mutants, findings, hazards and theorems.

    tlc -workers 2 -config MCWorker.cfg MCWorker      # a run
    tlapm WorkerProofs.tla                            # a proof

## 1. Inventory

| Component | State | Operations | What is hard | What makes it correct |
|---|---|---|---|---|
| `thread/WorkerBodyBase`, `Worker`, `Thread` | task mailbox, command queue, one semaphore for both, `ShouldStop_`, thread | `PostTask`, `PostExit`/`StopWorking`, `StartWorking`, `Join`, destructor with `ClearAllTask`; thread: wait, notify, run | item and token are posted in two steps by any thread; timed wait; restart with leftovers; a second thread on the body | tokens and items balance, no null task, tasks run once and in order, stop and clear end |
| `thread/ThreadPool`, `Dispatcher` | priority queue, free-worker bits, `workerNotify_`, `freeWorker_` | `PostTask`, dispatch, worker requests a task, start, stop | bit, semaphore and mailbox change in different threads; stop during a wait | one place per task, a free worker is free, backlog drains, stop returns |
| `misc/SpinlockQueue.h` | bounded queues under a spin lock | push, pop | - (each operation holds the lock) | atomic queue |
| `misc/LockFreeBuffer` | tagged free list, `id_` | `AllocBuffer`, `ReleaseBuffer` | ABA, torn read of a double pointer | a buffer has one owner, none is lost |
| `misc/LockFreeList` (`LockFreeListQueue`) | list `in_`/`out_`, its own free list | `Push`, `Pop` | reuse of nodes that others still read | FIFO, no node lost |
| `misc/LockFreeContainer.h` | array stack with counters of readers and writers; ring with `read_`, `write_`, `maxRead_` | `Push`, `Pop` of each | readers and writers of the stack excluded by counters; slots of the ring reserved, filled and published apart, by untagged indices | pop returns the top; the ring is FIFO; calls return |
| `misc/PerThreadMemory` | per-thread list, `node_number` | alloc by owner, release by anyone, exit | count and list change apart; owner gone | no alloc on an empty list; memory freed in the end |
| `slog/AsynLogAppender`, `FixedBuffer`, `LogFileAppender` | two swapped queues, buffer pool, file buffer, thread-local buffer | `Append`, logging thread, `Stop`, thread exit, crash `Flush` | buffers returned through the queue; stop; signal handler | order, buffers conserved, nothing queued is lost |
| `slog/Logger`, `LogStream`, `CacheTimeStamp` | stack of open records, per-thread cached second, level, counted global appender | log macros with `<<`, `SetLogLevel`, `SetLogAppender`, `slogLoggerInitializer` | a statement logs while its items are evaluated; the clock moves back; globals log before `main` and after it; conversion of the extreme values | a record reads back: its own second and its numbers; whoever logs finds an appender |
| `sys/Logger`, `Log` (`LogWorker`) | list queue and buffers, `stop_`, `run_`, `busy_`, streams | `Log`, `Flush`, `RunLogging`, `StopLogging`, `SetOutStream`, `SetLogLevel`, destructor | several threads flush; node and buffer are given back apart; stop races the last message | one place per message, `Push` finds a node, flushed before the end |
| `http/SocketPoll`, `SocketServer`, `HttpServer`, `main` | slots by descriptor, epoll (one shot), two event queues, `connNum_`, `watching_` | listen, connect, accept, wait, read, write, close, watch | processes race to accept; one thread opens while another polls; descriptors are used again; a socket not armed again is forgotten | events find their client, slots in use are open, count is right, sockets stay watched |
| `http/HttpClient`, `HttpBuffer`, `HttpRequest`, `HttpResponse` | read buffer, pending write, request, current handler | five handlers | any segmentation, short writes, peer leaves | no early reply but by a rescan of the buffer; a whole request is answered |
| `sys/AtomicOps.h` | - | atomic macros, `DoublePointer` | a double pointer is compared at once but read in halves | one macro, one step |
| `sys/Daemon`, `SignalHandler`, `misc/functor.h`, `NonCopyable.h`, benchmark, samples | - | - | - | not modelled |

Interactions: the pool's dispatcher is itself a worker body, posts to the workers'
mailboxes and is woken by their requests (`Notify`, `SetWorkerNotify`). The list
queue embeds the same free list as the buffer pool. The appender's clients and its
thread share the queue and the pool of buffers. The front end of slog hands its records
to the appender. The logger of `sys` is built on the list queue, the buffer pool and the
thread wrapper. The http processes share only the listening socket; inside a process
the socket server's slots are shared by the thread that polls and those that open.

## 2. Modules

| Module | Models | Notes |
|---|---|---|
| `WorkerBodyBase` | `WorkerBodyBase.cc` and the thread under it | one action per step of `Run`/`GetRunTask`; pushing an item and posting its token are separate (`pending`) |
| `Worker` | `Worker.cc` on top of it: owner and posting threads | composes `WorkerBodyBase` |
| `ThreadPool` | dispatcher, workers, owner | composes `WorkerBodyBase` for dispatcher and workers together |
| `BufferPool` | abstract pool: a set of free buffers | the specification `LockFreeBuffer` implements |
| `Links` | following a linked list | `Reached`: the nodes on it; a recursive function, so that it can be reasoned about |
| `ProgramCounter` | the place of each thread in its call | `pc` and `Goto`, shared by the lock-free modules |
| `FreeList` | the tagged list of `LockFreeBuffer.cc`, also in `LockFreeList.cc` | `next` is read and written half by half |
| `LockFreeBuffer` | allocation and release | refinement: a node changes hands at the successful compare-and-swap |
| `LockFreeListQueue` | `Push`, `Pop` | composes `FreeList` |
| `LockFreeStack`, `LockFreeQueue` | the two containers of `LockFreeContainer.h` | one action per access to a shared index, counter or slot |
| `PerThreadMemory` | `PerThreadMemory.cc` | several owners and lists |
| `AsynLogAppender` | appender, buffer pool, file buffer, crash handler | the condition variable is only ever waited on with a timeout, so that a wait may end at any time |
| `SlogLogger` | log statement, streams, conversion of numbers, cached second, lifetime of the global appender | a thread has a stack of streams, because evaluating an item may log; text is its length |
| `LogWorker` | `sys/Logger.cc`, `Log.cc` | over a set of free buffers and a queue whose `Push` takes a node first and whose `Pop` gives it back last; it is FIFO until the steps `LinkStale` and `PopNull`, which `LockFreeListQueue` has in detail |
| `SocketServer` | the socket library by itself | a poller and a thread that opens; slot, registration and descriptor change one step after the other |
| `HttpServer` | the http directory: processes, clients, handlers | text is a sequence of tokens; a peer sends it in segments; `base` is where the memory of the read buffer begins, for the rescan |
| `WorkerProofs` (worker and thread pool), `ContainerProofs` (stack, ring, per-thread memory), `FreeListProofs` (buffer pool, list queue), `LogWorkerProofs`, `SocketServerProofs`, `HttpProofs`, `SlogProofs` | - | lemmas and theorems; the inductive invariants are at the end of the modules they are about, those of the per-thread memory, the buffer pool and the list queue in the proof modules, since they speak of lists as sequences |
| `LinkProofs` | - | lemmas about linked lists that the two use |
| `MC...` | - | values of constants; `MCLockFreeContainer` runs the stack and the ring side by side |

Names of actions and variables follow the source; definitions named `...Blindly`,
`...Unchecked` and the like, introduced by "Mutation:", are broken variants. Each
property has one under which it fails: replacing the body of the original by the
variant makes TLC report the property.

State and code correspond directly: a queue is a sequence, a semaphore a number, a
pointer a node or NULL, a thread's place in a function the value of its `pc`. Local
variables exist only where they live across a step of another thread. Type invariants
(`TypeOK`) belong to the modules; where there is a proof they are proved as parts of the
inductive invariants.

## 3. Runs

| Run | Instance | Shows |
|---|---|---|
| `worker` | 1 worker, 2 threads that may run it, 2 posting threads (one is the owner), 2 tasks, a mailbox of two | `TokenBalance`, `NoNullTask`, `RunInOrder`; `WorkerStopReturns`, `TaskRuns`, `ClearEnds` |
| `pool` | 2 workers with mailboxes of one task, a dispatcher's queue of two; 3 tasks, one urgent, one bound to worker 1 | `FreeWorkerIdle` (and the dispatcher's assertions), `OnePlace`; `BacklogDrains` |
| `pool_stop` | as `pool` | violation of `StopReturns` |
| `buffer` | 2 threads, one may stop for ever; 3 nodes, tags up to 5 | `Conserved` (each node in one place, with one owner), refinement `ImplementsPool`; `CallReturns` |
| `list_queue` | 3 threads, one may stop for ever; 3 nodes; one pushes twice and three pop, one pushes three times and two pop, or two push once each and two pop | `Fifo` (and `in_` is on the list); `PushPopReturns` |
| `containers` | stack: 3 threads, 2 slots, 3 pushes, 3 pops; ring: 2 producers, 2 consumers, 3 slots, 4 items | `PopReturnsTop` (and the masks exclude pushes from pops), `RingFifo`; `CallReturns`, `RingCallReturns` |
| `per_thread_memory` | 3 threads, 2 lists of 2 buffers and the dummy, 3 releases | `CountMatches` (and a thread that takes a node finds one), `NodeInOnePlace` |
| `asyn_log` | 2 clients, 4 messages, 2 buffers of 2 messages, file buffer of 2 | `InOrder`, `BuffersConserved`, `DrainedAtStop`, `CrashKeepsMessages`; `MessageWritten` |
| `slog` | 2 threads, 2 units, 2 levels, numbers of 8 bits with the extreme values, pointers and doubles with and without room for them, a clock of two seconds of two ticks that moves both ways, records nested twice | `RecordReadsBack`, `AppenderAlive` |
| `log_worker` | 2 threads that log, one of them the controlling one; up to 2 logging threads, 2 buffers, 2 streams, one token of `stop_` besides that of the destructor | `PushSucceeds`, `MessageInOnePlace`, `FlushedBeforeEnd`; `MessageFlushed` |
| `sockets` | a poller and a user, 2 descriptors | `SlotsOpen`, `EventsFresh`, `ConnectionsArmed`; `ConnectReported` |
| `http` | 2 processes, 2 peers: a GET with two header lines and a POST whose last byte never comes, cut after the request line, after the first header line, after the GET and after the rest; a POST with two bytes of body in one piece; responses of two and three units, of which the longer does not fit its write buffer, send buffer of one | `EventsFindClient`, `ConnectionsWatched` (and `connNum_`), `RepliesNeedRequests`; `WholeRequestAnswered` |

The bounds are small but reach the cases at stake: mailboxes and pools are full and
empty, free lists are exhausted and every node is reused, tags of the initial list
meet those of releases, stack and ring are full and empty and the ring's indices wrap
around, buffers retire and the pool grows and shrinks, both logging threads that two
early calls of `RunLogging` create are alive at once, a stream is replaced while messages
refer to it, a descriptor is closed and given out again while the other thread opens,
segments end after a request line, after a header line and inside a body, a header line is read
again for ever, a process answers early, and responses need more than one write. Two descriptors are enough for a listening socket and a connection, or
two connections; the safety part of `sockets` is proved for any number, as are those of
`worker`, `pool`, `containers`, `per_thread_memory`, `asyn_log`, `log_worker`, `slog` and
`http`, and, up to the steps listed below, those of `buffer` and `list_queue`. Bounds that only
make the state finite are constants of their own (`MaxId`, `Quotas`, `MaxPush`, `MaxPop`,
`MaxItems`, `MaxRelease`, `MaxMsg`, `MaxOpen`, `MaxStop`, `MaxStream`, `Cuts`; `Retries`
is 1 instead of 32, and is not reached); where one is exhausted the system stops,
which is why deadlock is not checked there. Elsewhere it may really stop: a pool with
nothing posted, a server nobody talks to.

`log_worker`, `http`, `pool` and `list_queue` take one to three minutes and have up to 570,000
states; the others take less than a minute.

The `http` run does not reach the refusal of a body of `MaxBody` or more, nor a second response on a
connection; both are covered by the proofs.

### Where the code leaves its good states

Some properties hold only until a certain step, which the code does nothing to prevent. The step
is in the model, with all its consequences unless the table says otherwise, and a history variable
is set by it:

| History | Set when | Reached by | Property, and what it still says afterwards |
|---|---|---|---|
| `doubled` (`Worker`) | a start while a created thread has not set `busy_` yet: two threads work on one body | `worker` | `RunInOrder`: no task is lost; `TokenBalance` and `NoNullTask` have no exemption. `WorkerStopReturns`, `TaskRuns`: nothing, the other thread may take the exit command |
| `misshifted` (`ThreadPool`) | the bit of a worker is shifted by as many places as an int has, or more | no run (32 workers) | theorem `FreeWorkersAreIdle`: nothing |
| `reused` (`FreeList`) | a release swaps in a pointer that a taker has read before, with another next | `MCLockFreeBufferABA.cfg`, three threads | theorems about the buffer pool: nothing. With two threads it is never set (`TwoThreadsNeverReuse`), so that the properties of `buffer` have no exemption |
| `reclaimed` (`LockFreeListQueue`) | `Pop` releases a node that a `Push` has read as the last one and is about to link to | `list_queue` | `Fifo`: nothing. `overlapped`, set before it, is what the theorems use: a `Push` was called while another one was under way |
| `broken` (`LogWorker`) | the same (`LinkStale`), or the null dereference of `Pop` (`PopNull`) | `log_worker` | all its properties: the model stops there, since the queue is abstract |
| `lapped` (`LockFreeQueue`) | a swap succeeds because its index has gone once around the ring, or more, since it was read | `containers` | `RingFifo`: nothing |
| `unchecked` (`SlogLogger`) | a pointer or a double is written behind the end of the stream | `slog` | `RecordReadsBack`: nothing |
| `early` (`HttpServer`, a number) | a rescan of the read buffer ends the headers | `http` | `RepliesNeedRequests`: one response too many for each |
| `unsent` (`HttpServer`) | a response does not fit the write buffer chosen for it | `http` | `WholeRequestAnswered`: nothing for this connection |
| `missed` (`SocketServer`) | an event of a socket whose slot has no status yet | `sockets` | `ConnectionsArmed`: nothing for this socket |

Each of them says that there is no other way to go wrong; that this one is not taken is for the
callers to see to, and no text of the repository tells them.

### Fairness

Weak fairness of each thread's steps: the scheduler lets every thread run, and a
thread whose next step is possible takes it. Callers are not assumed to call
anything; only calls under way go on. For the lock-free structures with a free list
the threads of `Stalling` have no fairness at all, which is the progress the name
promises: the others finish nevertheless. Stack and ring have no such set: the header
says of the stack that a thread that dies inside a call blocks the others, and a `Push`
of the ring waits for the earlier ones to publish their slots. In `asyn_log` and
`log_worker` fairness is that of the logging threads and of calls under way (a wait with
a timeout always ends); in `sockets` that of both threads and of the kernel, where a
connect under way ends one way or the other; in `http` that of the processes and of peers
that read what is sent to them.

### Findings

`pool_stop` is kept as a run that TLC must find violated: `StopPooling`, which the header
calls "elegant", never returns when the dispatcher waits for a free worker.
`PROJECT.json` quotes the line. Three more configurations, which belong to no run, show
disagreements of the code with its comments or tests and can be repeated:

| Configuration | Module | Violated | Why |
|---|---|---|---|
| `MCLockFreeBufferABA.cfg` (3 threads, 2 nodes, tags up to 4) | `LockFreeBuffer` | `Exclusive` | the counter of tags starts at a tag that the initial list uses already, so that one tag is used twice for a node, and a head read long ago comes back: two threads get the same buffer |
| `MCLockFreeListQueueMP.cfg` (2 producers, 1 consumer, 4 nodes) | `MCLockFreeListQueue` | `NodesLinked` | a `Push` links its node behind the tail it read, which has been popped, released and taken again by another `Push` |
| `MCPerThreadMemoryLeak.cfg` | `PerThreadMemory` | `MemoryFreed` | the count compared is the one before the increment, so that the memory of an exited thread is never freed |

They are pinned down by theorems. `OnlyFirstTagRepeats`: for every number of threads
and nodes, a tag that comes back to a thread that still has it is the first one the counter
hands out, `Size - 1`, which `InitList` has given to the last node. `TwoThreadsNeverReuse`: with two
threads even this one does no harm; with three, the first configuration above, it does.
`NoListIsFreed`: in no instance is the memory of any thread ever freed. For the list queue
`SolePushFifo` and `SolePushNodesLinked` show that two overlapping calls of `Push` are what the
second configuration needs; the order of the items is safe from consumers alone. What three
concurrent calls of `Pop` can do is dereference a null node (LockFreeList.cc:186): one has read the
dummy, another has taken it and is linking it into the unused list, half by half, for the second
time.

Behaviour that no text forbids is in the models, not among the findings:

* worker: `StartWorking` twice in a row puts two threads to work on the mailbox; tasks overtake each
  other, and `StopWorking(true)` may wait for the thread that did not get the exit command.
* list queue and logger of `sys`: `Log` pushes from any thread, so that `Push` may link to a node
  released meanwhile, and messages are lost or come twice.
* http: a segment that ends right after a header line makes `ParseHeader` scan the buffer again from
  its beginning, because `ConsumeBuffer` has reset it and `end` is the old one: it takes the
  request line for the end of the headers and answers at once, or finds the same header line for ever
  (stage `spin`), and the process handles nothing else any more. `ResetClient` and
  `GenerateResponse` set `msgLen_` to 0, so that a response is counted too small by its status line, and
  some do not fit their buffer and nothing is sent.
* http: the listening socket is one-shot and never armed again, so that a process
  accepts at most one connection, and none if another was faster; a request cut in the
  wrong place is never answered (`ConnectionsWatched` says that unparsed bytes are the
  only cause); a process spins on an unfinished header line; a second POST on a
  connection finds the length of the first. As a process never has two connections the
  test for too many of them (`UnwatchSocket`) is not reached.
* sockets: a socket is registered in epoll before its slot has its status. An event in
  between finds `SS_INVALID` and is dropped, and the socket stays disarmed. The history
  variable `missed` marks exactly these sockets, and `ConnectionsArmed` exempts them. A
  connect under way recovers, because it is armed again (`ConnectReported`).
* logger of `sys`: a message pushed after the last flush and before the test of `stop_`
  is not written when the thread ends (`FlushedBeforeEnd` says what is); a token of
  `stop_` that nobody took ends the next logging thread after one flush; `RunLogging`
  while the old thread is on its way out starts none; after an explicit `StopLogging` the
  destructor does not join; with two logging threads and one token the destructor may
  wait for the one that goes on; `SetOutStream` deletes a stream that queued messages
  refer to; the buffer of a message whose stream is not good is never given back
  (`leaked`).

## 4. Proofs

Nothing is assumed but the named assumptions on the constants, which TLC evaluates in the runs:
numbers are naturals, sets are finite where something is counted, threads of different kinds
are different. Two theorems have a hypothesis of their own, stated with them: `PeersSendRequests`
(replies of the http server; the run's streams satisfy it, which TLC evaluates), and that there are at
most two threads (`TwoThreadsNeverReuse`). Where a history variable of section 3 stands in a property
or a theorem, the inductive invariant is a disjunction: the history is set, or all of the
invariant holds. Each theorem of a safety property rests
on an inductive invariant that the runs' instances satisfy too.

**Worker** (`WorkerProofs`), for every number of workers, posting
threads and tasks and every size of the queues: types (`TypeCorrect`), the balance of
semaphore and queues (`SemaphoreCountsItems`), no null task (`NeverANullTask`), and the order
of the tasks (`TasksRunInOrder`). `IInv` has, beyond the types:

* `TokenBalance`: items = value of the semaphore + posts under way + tokens held by
  threads, of which a body may have two. It is not inductive alone: that the thread always finds an item for
  its token needs
* `PopFindsTask`: there is a task to pop for every thread that has found no command. A command
  posted after the thread looked, and before it pops, brings its own post under way,
  so that the balance leaves a task for the token held;
* `NoNullTask`: the task in hand is not null, which follows from the former;
* `LifeInv`: while it is cleared and when it is dead a worker has
  no thread, and while it is cleared no post to it is under way. Without it
  `ClearAllTask`, which takes item and token together, would break the balance.

`RunInOrder` is inductive together with `IInv`: popping moves the head of the mailbox behind
what was run, and that the mailbox is not empty then is `PopFindsTask`. It needs `SoleThread`: until
`doubled` is set a body has at most one thread, and `busy_` is set once that one has run, so that
`Start` refuses another.

There is one lemma per step of the body (pushing, posting, taking a token, looking for a
command, popping; the steps that touch neither queue nor semaphore together), which both the
worker and the thread pool use.

**Thread pool** (`WorkerProofs`), for any number of workers and tasks, any affinities,
priorities and sizes of the queues: `PoolInvariant`, `FreeWorkersAreIdle`,
`TasksAreInOnePlace`.

* `PoolInv`: the balance of tokens and items for the dispatcher and every worker, from the
  lemmas about the body; `DispatcherInv` says that `dest` is set only inside `HandleTask`,
  and that a dispatcher past `PrepareWorker` has a worker, which is `assert(freeWorker_)`;
* `FreeInv`: a worker no task is bound to has at most one task, none while it is claimed
  (bit, `freeWorker_` or `dest`), and an empty mailbox while it runs a task or is about to
  call `NotifyDone`; the claim ends before the task is in the mailbox. It holds until `misshifted` is
  set: the bits are the worker's own only while `1 << id` fits an int, as a `long`, `1 << 31` has
  all the bits from 31 on, and nothing in the code refuses such a pool;
* `PlaceInv`: `OnePlace` adds up cardinalities, which no step preserves as such. `Placed(t)`
  says instead that `t` is at some place (kind, holder) iff it was accepted and at no two, and
  `NoDuplicates` that no queue has it twice; the sum of `OnePlace` follows.

**Array stack and queue** (`ContainerProofs`), for any number of threads and any capacity:
`PopsReturnTheTop` and `RingIsFifo`.

* `StackIInv`: `MaskInv` (the halves of `mask_` are the numbers of threads inside, and one is
  zero), `SlotInv` (a slot being written is below `top_`, one being read is not, and none
  has two users), `ItemInv` (the slots below `top_` hold the stack, but for those being written);
* `QueueIInv`, for some number `p` of items published: `IndexInv` (the three indices are the
  numbers of items taken, published and reserved, modulo the size, and less than a lap
  apart), `CallersInv` (an index that was read and has not moved since still bounds what it
  was compared with), `TicketInv` (who fills or publishes a slot is the only one), `RingInv`
  (published slots hold their items). It holds until `lapped` is set, and the step that turns on it
  is the swap: equal indices modulo the size are equal counts only within a lap.

**Linked lists** (`LinkProofs`). What is on a list is in the models the set `Reached` from its
head along the links, at most so many steps. `ListOf(N, link, p, nil, S)` says that there is a
sequence without repetition of the nodes `S` that the links follow from `p` to `nil`; then
`S` is what is reached (`ListReached`), and putting a node in front, taking the first and changing
the link of a node that is not on the list do what they should. The invariants below say
`ListOf`, which each step preserves; the induction along the links is done once.

**Per-thread memory** (`ContainerProofs`), for any number of threads, lists, buffers and
releases: `PerThreadInvariant`, `CountIsRight`, `NodesHaveOnePlace`, `NoListIsFreed`.
`PerThreadIInv` has

* `OwnerTakes`: a list has one owner, and nobody else takes nodes from it. Therefore
* `TakerKnows`: the first node and its successor, once read by the taker, stay linked in this
  order whatever is put in front, and a swap that succeeds takes what was read: there is no
  ABA without tags;
* `PutterKnows`: the link of a node being put back is its putter's;
* `Chains`, `Apart`, `Covered`: each list is one, each node in one place, and none is lost;
* `Counted`: `node_number` is what is linked, plus what is counted and not linked yet, minus
  what is taken from the count and still linked.

`NoListIsFreed` follows from the count: the value a release reads before its increment leaves its
own node out, so that it is at most `population_` and never the value the code compares it with.

**Lock-free buffer pool** (`FreeListProofs`), for any number of nodes and tags.
`BufferInvariant`, `BuffersConserved` and `BufferImplementsPool` are about any number of threads and
hold until `reused` is set: a release has swapped in a head that a stalled taker has read before,
and what the taker has read beside it is not true again. The code does not prevent it (see Findings),
and the refinement ends with it (`PoolUntilReused`). `BufferIInv` has

* `BufferList`: the free list is a list;
* `ReaderKnows`: a taker whose old head is still a pointer of the list, at its head or behind it,
  has read what the next of that node still is, in both halves. This is what the swap rests on,
  and the one clause that `reused` is about;
* `PutterLinks`, `NullEnds`: a node about to be put has its next written; nobody dereferences
  a null node;
* `OnePlace`: each node is on the list, with its owner, or with one thread inside a call.

The mapping to `BufferPool` has the free nodes as the set of the pool: a node leaves it and
comes back at the successful swap, and every other step stutters.

`OnlyFirstTagRepeats` needs no hypothesis: by `Tags` a tag is found somewhere only after it
was handed out or was in the initial list, so that the tag a release takes is new, but for the
first. `TwoThreadsNeverReuse` uses it: by `Early`, until the first release the last node of the list is
still its last, with a null next; by `Collision`, if the first release is of a node that the other
thread has read as the head, then all that this thread has read of its next is null, and the list
is empty, so that it becomes true again. With three threads the third can change the list
in between.

**List queue** (`FreeListProofs`), for any number of nodes, calls and threads that push and pop,
until two calls of `Push` overlap (`overlapped`): `ListQueueInvariant`, `SolePushFifo`,
`SolePushNodesLinked`. `SolePushInv` says that no node was reclaimed and that `ListQueueIInv` holds, or
that `Pop` has dereferenced a null node and the items were in order when it did. `ListQueueIInv` has

* `SoleProducer`: at most one thread is in `Push`. It is therefore the only one that takes
  from the unused list, and `UnusedKnows` follows as for the per-thread memory: what it has read
  of the first unused node stays true, whatever tags collide. Nothing is assumed about tags;
* `QueueChain` and `QueueTags`: the pointers from `out_` on form a sequence under increasing
  tags, each of them handed out before, and the tag of the node to be linked is above all of
  them. An `out_` that is what `Pop` has read has thus not moved in between, although
  the node may have been released and used again;
* `PopKnows`: as long as `out_` is what `Pop` has read, the first node and its data are what it
  has read, and `in_` is behind `out_` where `Pop` has seen two different pointers. Nothing is
  said of a `Pop` whose `out_` is stale: it reads reused nodes, and its swap fails;
* `QueueItems`: what was pushed is what was popped followed by the data of the sequence;
* `QueueIn`: `in_` is the last pointer, or the one before it while the producer is about to
  move it on; a `Pop` may have moved it first. `Push` never finds a tail with a next (`HelpIn` and
  a failing `LinkTail` need a second call);
* `QueuePlaces`: each node is in the queue, on the unused list or with one thread.

With two overlapping calls `UnusedKnows` and `QueueIn` both fail: one thread takes the unused node
another one has read, and links behind the tail another one has read.

**Logger of sys** (`LogWorkerProofs`), for any sets of threads, Loggers and buffers:
`PushAlwaysSucceeds`, `OnePlaceOnly`, `FlushedFirst`. `IInv` of `LogWorker` has

(all about a queue that is not `broken`; a step that breaks it changes nothing else)

* `PlaceInv`: who has a buffer in hand, at which steps, and that hands, queue, free and
  lost buffers are apart and make up all of them. `MessageInOnePlace` counts places; the
  invariant says it without counting, which the steps can preserve;
* `NodeInv`: free nodes and buffers that have a node add up to the number of buffers.
  A thread about to push has a buffer without a node, so that a node is left for it;
* `ThreadInv`: a logging thread that is not created does nothing, so that the thread
  `RunLogging` creates is a new one;
* `DueInv`: what a thread was woken for and has not been taken is still in the queue, and
  there is none of it once the thread has seen the queue empty.

**Socket server** (`SocketServerProofs`), for any number of descriptors: `SlotsStayOpen`,
`EventsStayFresh`, `ConnectionsStayArmed`. `IInv` of `SocketServer` has

* `SlotInv`: the status of a slot fits its socket, and a closed descriptor is not armed;
* `UserInv`: the socket being opened has no status until its opener sets it, so that no
  event or close of it is under way;
* `QueueInv`, `BatchInv`: one event for each connection in queues and batch together,
  which holds because a registration is one-shot;
* `HandlerInv`: the connection being handled has no other event, and while it is being
  closed its slot is reset and its descriptor still open, so that nobody gets it.

`ArmInv` adds what `ConnectionsArmed` needs: which events may find a socket disarmed
(`EventsArmed`), what the opener has armed (`UserArmed`), and that only a socket whose event
came before its status can be forgotten (`SlotArmed`, with the history `missed`).

**Http server** (`HttpProofs`), for any number of processes and peers, any streams of tokens in
which a method is followed by its request line, cut anywhere, any sizes, and peers and
processes that go away at any time: `EventsAlwaysFindClient`, `ConnectionsStayWatched` and, if
peers send requests, `RepliesFollowRequests`. `HttpInv` has

* `BacklogInv`: nobody has accepted what is in the backlog, so that an accepted connection
  has no event of an earlier life;
* `BufferInv`: consumed, read and arrived tokens are in this order;
* `ConnInv`: an open connection has its client or its accept is queued; it is watched, has
  bytes to be parsed or an event under way; it is watched for writing only while a response
  is being sent;
* `ProcInv`: of a connection at most one event is in the batch or the queue, none while one
  is handled and none before the accept is handled; a WRITE event finds a response to send,
  or the connection watched;
* `CountInv`: `connNum_` is the number of open connections.

The last clause about WRITE events is what `ConnectionsWatched` turns on: `ReadHttpData` does
nothing for a WRITE event, so that a handler that parses must find the socket armed by the
`SendBuffer` before it in the same call of `ProcessEvent`. The handlers are treated alike:
lemmas show that each either closes its connection (`Closed`) or updates it within bounds
(`Update`, `UpdateOK`), and the invariant is preserved by these two.

`RepliesNeedRequests` depends on the shape of the whole stream. `PeersSendRequests` says that each
method in it begins a request: a request line, any number of header lines, the empty line and, after
a POST, a body of the announced length; what is no method may follow. Without it the property is
false, for header lines after the empty line of a GET for instance. `ReplyInv` has

* `Parsing`: where a client that parses headers or a body stands in its request, and that the
  responses it has made are at most the requests that have ended before this one (`Ended`);
* `Answered`: between requests a client has made at most as many responses as requests have ended
  in what it has used, and one less when it is about to respond. The length and the body that a POST
  leaves behind in the client are 0 or complete, so that a second POST, which finds a
  complete body, has none left to read and is never answered, rather than answered early.

Both speak of the responses less the rescans (`replies - early`): a rescan ends the headers of a
request that has not ended, which `early` pays for (`Paid`), and what is left of the request, its other
header lines and its body, is then read as its body, dropped or refused as a request line, and answered
by nothing more.

**Global appender** (`SlogProofs`), for any number of units and threads:
`AppenderStaysAlive`. `LifeInv` of `SlogLogger` has `CounterInv` (`s_counter` is the number of
initializers constructed, and the first global constructed is one of them, since a unit's
initializer comes before its globals), `AppenderInv` (the appender is there while the counter
is not zero) and `LoggingInv` (outside `main` only a constructor or destructor of a global
logs, and then there is a global).

**Records of slog** (`SlogProofs`), for any width of the words, any size of the streams, any
number of threads, any clock and any nesting of log statements: `RecordsReadBack`. `RecordInv` of
`SlogLogger`, which holds until `unchecked` is set, has

* `StreamTypeOK`: the cached string is that of the cached second, in every thread;
* `FreshInv`: between `Now()` and the stamp nothing is written and the cached second is the
  record's own. A nested statement is either before or after this pair of steps, since it is
  evaluated by the same thread;
* `StampedInv`: every other stream reads back (`ReadsBack`), as many texts as numbers.

What the loop of `convert` writes is proved by induction on the magnitude of the word, for base 10
and 16 and both signs (`ConvertRight`): read from its other end it denotes the magnitude, digit
by digit, without a zero in front, and it has at most as many digits as a power of ten above the
words has zeros, which is why it fits what is reserved for it (`DigitsFit`). Here `SlogAssumption`
is used: all words are below `Power10[Reserve - 2]`, as those of 64 bits are below 10 to the 30th.
It also says that a power of two is twice the one before, since the provers know nothing of
exponents.

**Asynchronous appender** (`SlogProofs`), for any numbers of threads, messages and buffers, any
capacities and any limits of the pool: `MessagesStayInOrder`, `BuffersStayConserved`,
`DestroyedWhenDrained`, `CrashLosesNothingElse`. None of the four is inductive; `LogInv` of
`AsynLogAppender` adds

* `PlaceInv` and `CountInv`: pool, clients and queue share the living buffers among them, pool
  and clients without repetition. A client between `AddToWriter(NULL, 0, buff)` and the return
  of `GetBuff` still points to a buffer that is no longer its own (`Holders` leaves it out);
* `QueueInv`: a queued message is in the used part of its buffer, and nothing of a buffer is
  queued behind the zero-length entry that recycles it. With `PlaceInv` this is why a store
  never hits memory a queued pointer refers to, which is what `InOrder` turns on;
* `FileBuffInv`: as long as the batch has recycled no buffer, what waits in the file's buffer
  is still in the memory the entries already handled point to, so that the signal handler,
  which writes the vectors again from their beginning, writes it too;
* `StopInv` and `HoldInv`: when no client can be in `Append`, when the logging thread has
  nothing in hand, and where in `Append` a client has a buffer.

`DrainedAtStop` follows from `InOrder` and `StopInv`: at the join both vectors and the file's
buffer are empty. What a queue says (`MsgsIn`) is a recursive function; that it exists, is
unique, and distributes over concatenation is proved by induction on sequences, in the form
that a set closed under the step contains them all (`Induct`, `InductSeq`).

Only model-checked:

* liveness, which is beyond the prover: all `...Returns`, `...Ends`, `TaskRuns`,
  `BacklogDrains`, `MessageWritten`, `MessageFlushed`, `ConnectReported`, `WholeRequestAnswered`;
* `RepliesNeedRequests` of the http server for streams that are no sequence of requests: then it
  is false;
* `Fifo` of the list queue between the first overlap of two calls of `Push` (`overlapped`) and the
  release of a node one of them has read (`reclaimed`): the run shows it, the theorem ends at the
  overlap.

## 5. What is not modelled

* Weak memory: steps are sequentially consistent. The atomics are full barriers
  (`__sync_...`); plain accesses beside them are separate steps.
* `pthread_cancel` (`ThreadPool::ForceShutdown`): it may strike at any statement.
* Text: wording of log records and responses, parsing of urls and header values.
  In `ParseRequestLine` the search for `?` goes beyond the url; that is text as well.
* In slog: the text of `double` items (their length is modelled); what a pointer written behind the
  stream overwrites; threads that log after
  `main` has returned; `SetLogAppender` while others log; the second 0, which the cache
  takes for "nothing cached yet"; a thread that uses a second appender.
* In the socket server: `StopServer`, and closing by a thread other than the poller, for
  which the slots have no protection at all.
* Failures of `epoll_ctl`, `malloc` and writes to the log file; exhaustion of the
  slots of write buffers, where `AllocWriteBuffer` returns NULL and the caller does not look.
* In the worker: the statistics `done_` and `isRuning_`; a worker destroyed while a thread runs it.
* In the http server: the free lists of write buffers; `keepalive_`, which nothing reads.
* In the list queue behind the logger of `sys`: what happens after a `Push` has linked to a released
  node.
* Wrap-around of tags. Shifts beyond the width of an int (32 workers and more) are in the
  model of the pool, but no run reaches them.
* Descriptor numbers are not reused in `HttpServer` (they are in `SocketServer`); a client
  is always reset when its connection is accepted.
* `sys/Daemon`, `SignalHandler` and the language helpers: system calls in a row, or no
  state at run time.

## 6. Plan

Done, in this order: worker, its proof, pool, lock-free buffer with its abstract
pool, list queue, stack, per-thread memory, appender, http server; then the array queue,
the logger of `sys`, the socket server, the front end of slog, and the proofs of the last
three; then the proofs of the pool, the stack, the array queue, the order of a worker's
tasks, armed connections, the http server and the asynchronous appender; then the lemmas about
linked lists and the proofs of the per-thread memory, the buffer pool, the list queue, the replies of the http server and the records of slog.

Next, in this order:

1. Abstract specifications of the worker (a queue whose elements are run in order)
   and of the pool (a bag of tasks, each run at most once), with refinement mappings.
