---------------------------- MODULE SocketServer ----------------------------
(***************************************************************************)
(* The socket library of http/SocketServer.cc and SocketPoll.cc as such,   *)
(* with what the http server does not use: outgoing connections, sockets   *)
(* opened by one thread while another one polls, as RunPoll's comment has  *)
(* it, and descriptors that the kernel uses again.                         *)
(*                                                                         *)
(* Poller calls RunPoll and handles the event it returns, in the end by    *)
(* closing the connection; User opens sockets and writes to them.  A slot, *)
(* its registration in epoll and its descriptor change one after the       *)
(* other, so that each change is a step where the other thread can see     *)
(* what is between.  Bytes are left out: a connection has data to read,    *)
(* the end of the stream, or nothing.  connNum_ is in HttpServer.          *)
(***************************************************************************)
EXTENDS Integers, Sequences, FiniteSets, FiniteSetsExt, SequencesExt

CONSTANT NFd   \* descriptors 1..NFd: maxSocket_

ASSUME ServerAssumption == NFd \in Nat

Fd == 1..NFd

VARIABLES
  status,      \* [Fd -> Status]  status_ of each slot
  watchAccepted,  \* watchAccepted_, set by SetWatchAcceptedSock before anything else
  acceptQueue, readWriteQueue,  \* Seq(Event)  the queues of RunPoll
  batch,       \* SUBSET Ready  what is left of pollEvent_
  event,       \* the event being handled, or NoEvent
  pc,          \* [{"poller", "user"} -> where each thread is]
  sock,        \* Fd \cup {0}  the socket the user is opening
  kind,        \* [Fd -> {"closed", "listen", "connecting", "failed", "conn"}]
  input,       \* [Fd -> {"none", "data", "eof"}]  what there is to read or accept
  full,        \* [Fd -> BOOLEAN]  its send buffer is full
  armed,       \* [Fd -> {"out", "off", "in", "inout"}]  its registration in epoll
  missed       \* [Fd -> BOOLEAN]  history: an event of it found its slot SS_INVALID

serverVars == <<status, acceptQueue, readWriteQueue, batch, event>>
kernelVars == <<kind, input, full, armed>>
vars == <<serverVars, kernelVars, missed, pc, sock, watchAccepted>>

Status == {"invalid", "listening", "connected", "connecting", "paccept"}
NoEvent == [code |-> "none", fd |-> 0]

Init ==
  /\ status = [f \in Fd |-> "invalid"]
  /\ watchAccepted \in BOOLEAN
  /\ acceptQueue = <<>> /\ readWriteQueue = <<>> /\ batch = {} /\ event = NoEvent
  /\ pc = [poller |-> "poll", user |-> "idle"]
  /\ sock = 0
  /\ kind = [f \in Fd |-> "closed"]
  /\ input = [f \in Fd |-> "none"]
  /\ full = [f \in Fd |-> FALSE]
  /\ armed = [f \in Fd |-> "out"]
  /\ missed = [f \in Fd |-> FALSE]

Goto(t, from, to) == pc[t] = from /\ pc' = [pc EXCEPT ![t] = to]

-----------------------------------------------------------------------------
(* The kernel (external): lowest free descriptor, one-shot epoll *)

CanOpen == \E f \in Fd : kind[f] = "closed"
NewFd == Min({f \in Fd : kind[f] = "closed"})

\* A socket of kind k at NewFd, registered as a.
Open(k, a) ==
  /\ kind' = [kind EXCEPT ![NewFd] = k]
  /\ armed' = [armed EXCEPT ![NewFd] = a]
  /\ UNCHANGED <<input, full, missed>>

\* close(f), which takes it out of epoll.
Close(f) ==
  /\ kind' = [kind EXCEPT ![f] = "closed"]
  /\ input' = [input EXCEPT ![f] = "none"]
  /\ full' = [full EXCEPT ![f] = FALSE]
  /\ armed' = [armed EXCEPT ![f] = "out"]
  /\ missed' = [missed EXCEPT ![f] = FALSE]

\* EPOLL_CTL_MOD, which fails on a socket that is not registered.
Arm(f, a) == armed' = IF armed[f] = "out" THEN armed ELSE [armed EXCEPT ![f] = a]

\* The events epoll has for f: an error is reported as readable and writable.
ReadReady(f) == armed[f] \in {"in", "inout"} /\ (input[f] # "none" \/ kind[f] = "failed")
WriteReady(f) ==
  /\ armed[f] = "inout"
  /\ kind[f] = "failed" \/ (kind[f] = "conn" /\ ~full[f])
Ready ==
  {[fd |-> f, read |-> ReadReady(f), write |-> WriteReady(f)] :
     f \in {g \in Fd : ReadReady(g) \/ WriteReady(g)}}

\* Something arrives: data, the end of the stream, a connection to accept, room
\* in the send buffer.
Arrive(f) ==
  /\ \/ /\ kind[f] \in {"conn", "listen"} /\ input[f] = "none"
        /\ input' = [input EXCEPT ![f] = "data"]
        /\ UNCHANGED full
     \/ /\ kind[f] = "conn" /\ input[f] = "none"
        /\ input' = [input EXCEPT ![f] = "eof"]
        /\ UNCHANGED full
     \/ /\ full[f]
        /\ full' = [full EXCEPT ![f] = FALSE]
        /\ UNCHANGED input
  /\ UNCHANGED <<serverVars, kind, armed, missed, pc, sock>>

ConnectEnds(f) ==
  /\ kind[f] = "connecting"
  /\ \E k \in {"conn", "failed"} : kind' = [kind EXCEPT ![f] = k]
  /\ UNCHANGED <<serverVars, input, full, armed, missed, pc, sock>>

-----------------------------------------------------------------------------
(* Closing a socket: ForceSocketClose *)

\* Mutation: the descriptor is closed before its slot is reset.
ForceSocketCloseFirst ==
  \/ /\ Goto("poller", "force", "close")
     /\ Close(event.fd)
     /\ UNCHANGED <<status, acceptQueue, readWriteQueue, batch, event, sock>>
  \/ /\ Goto("poller", "close", "poll")
     /\ status' = [status EXCEPT ![event.fd] = "invalid"]
     /\ event' = NoEvent
     /\ UNCHANGED <<acceptQueue, readWriteQueue, batch, kernelVars, missed, sock>>

\* The slot is SS_INVALID, and out of epoll, while the descriptor is still open.
ForceSocketClose ==
  \/ /\ Goto("poller", "force", "close")
     /\ armed' = [armed EXCEPT ![event.fd] = "out"]
     /\ status' = [status EXCEPT ![event.fd] = "invalid"]
     /\ UNCHANGED <<acceptQueue, readWriteQueue, batch, event, kind, input, full, missed, sock>>
  \/ /\ Goto("poller", "close", "poll")
     /\ Close(event.fd)
     /\ event' = NoEvent
     /\ UNCHANGED <<status, acceptQueue, readWriteQueue, batch, sock>>

-----------------------------------------------------------------------------
(* Opening sockets and writing to them, by the user *)

\* AllocSocketFd and SetupSocketConnection: the socket is registered while its
\* slot is still SS_INVALID; it will be s.  A connect or listen that fails at
\* once leaves nothing.
SetUp(k, s) ==
  /\ Goto("user", "idle", s)
  /\ CanOpen
  /\ Open(k, "in")
  /\ sock' = NewFd
  /\ UNCHANGED serverVars

ConnectTo == SetUp("conn", "connected") \/ SetUp("connecting", "connecting")

ListenTo == SetUp("listen", "listening")

\* Mutation: a connect under way is not watched for writing.
SetStatusOnly ==
  /\ pc.user \in Status
  /\ status' = [status EXCEPT ![sock] = pc.user]
  /\ pc' = [pc EXCEPT !.user = "idle"]
  /\ sock' = 0
  /\ UNCHANGED <<acceptQueue, readWriteQueue, batch, event, kernelVars, missed>>

\* The slot gets its status; a connect under way is then watched for writing.
SetStatus ==
  LET more == pc.user = "connecting" IN
  /\ pc.user \in Status
  /\ status' = [status EXCEPT ![sock] = pc.user]
  /\ pc' = [pc EXCEPT !.user = IF more THEN "arm" ELSE "idle"]
  /\ sock' = IF more THEN sock ELSE 0
  /\ UNCHANGED <<acceptQueue, readWriteQueue, batch, event, kernelVars, missed>>

ArmConnect ==
  /\ Goto("user", "arm", "idle")
  /\ Arm(sock, "inout")
  /\ sock' = 0
  /\ UNCHANGED <<serverVars, kind, input, full, missed>>

\* write and ModifySocket: a short write watches for writing.
SendBuffer(f) ==
  /\ kind[f] = "conn"
  /\ \/ ~full[f] /\ Arm(f, "in") /\ UNCHANGED full
     \/ Arm(f, "inout") /\ full' = [full EXCEPT ![f] = TRUE]
  /\ UNCHANGED <<kind, input>>

UserSends(f) ==
  /\ pc.user = "idle" /\ status[f] = "connected"
  /\ SendBuffer(f)
  /\ UNCHANGED <<serverVars, missed, pc, sock>>

\* UnwatchSocket: the descriptor stays open, its slot is SS_INVALID.
UnwatchSocket(f) ==
  /\ pc.user = "idle" /\ status[f] = "listening" /\ armed[f] # "out"
  /\ armed' = [armed EXCEPT ![f] = "out"]
  /\ status' = [status EXCEPT ![f] = "invalid"]
  /\ UNCHANGED <<acceptQueue, readWriteQueue, batch, event, kind, input, full, missed, pc, sock>>

\* WatchSocket of a socket that was unwatched: registered first, as in SetUp.
WatchSocket(f) ==
  /\ Goto("user", "idle", "listening")
  /\ status[f] = "invalid" /\ kind[f] = "listen" /\ armed[f] = "out"
  /\ armed' = [armed EXCEPT ![f] = "in"]
  /\ sock' = f
  /\ UNCHANGED <<serverVars, kind, input, full, missed>>

-----------------------------------------------------------------------------
(* RunPoll, by the poller *)

Take(e) ==
  /\ event' = e
  /\ Goto("poller", "poll", "handle")
  /\ UNCHANGED <<status, batch, kernelVars, missed, sock>>

\* Accepted connections come first, then the other events, then epoll_wait.
ReturnAccept ==
  /\ acceptQueue # <<>>
  /\ Take(Head(acceptQueue))
  /\ acceptQueue' = Tail(acceptQueue)
  /\ UNCHANGED readWriteQueue

ReturnReadWrite ==
  /\ acceptQueue = <<>> /\ readWriteQueue # <<>>
  /\ Take(Head(readWriteQueue))
  /\ readWriteQueue' = Tail(readWriteQueue)
  /\ UNCHANGED acceptQueue

\* Mutation: epoll is asked although events are waiting.
WaitPollerEager ==
  /\ acceptQueue = <<>> /\ Ready # {}
  /\ Goto("poller", "poll", "batch")
  /\ batch' = Ready
  /\ armed' = [f \in Fd |-> IF \E e \in Ready : e.fd = f THEN "off" ELSE armed[f]]
  /\ UNCHANGED <<status, acceptQueue, readWriteQueue, event, kind, input, full, missed, sock>>

\* epoll_wait reports a socket once and disarms it.
WaitPollerIfNecessary ==
  /\ acceptQueue = <<>> /\ readWriteQueue = <<>> /\ Ready # {}
  /\ Goto("poller", "poll", "batch")
  /\ batch' = Ready
  /\ armed' = [f \in Fd |-> IF \E e \in Ready : e.fd = f THEN "off" ELSE armed[f]]
  /\ UNCHANGED <<status, acceptQueue, readWriteQueue, event, kind, input, full, missed, sock>>

\* The next event of the batch; with the last one RunPoll returns to its queues.
NextInBatch(e) ==
  /\ pc.poller = "batch" /\ e \in batch
  /\ batch' = batch \ {e}
  /\ pc' = [pc EXCEPT !.poller = IF batch = {e} THEN "poll" ELSE "batch"]
  /\ UNCHANGED <<event, sock>>

Queue(code, e) ==
  readWriteQueue' = Append(readWriteQueue, [code |-> code, fd |-> e.fd])

\* Mutation: the socket is not armed again.
ConnectDoneUnarmed(e) ==
  /\ NextInBatch(e) /\ status[e.fd] = "connecting"
  /\ IF kind[e.fd] = "conn"
     THEN status' = [status EXCEPT ![e.fd] = "connected"] /\ Queue("connected", e)
     ELSE Queue("failed", e) /\ UNCHANGED status
  /\ UNCHANGED <<acceptQueue, kernelVars, missed>>

\* HandleConnectDone
ConnectDone(e) ==
  /\ NextInBatch(e) /\ status[e.fd] = "connecting"
  /\ IF kind[e.fd] = "conn"
     THEN /\ status' = [status EXCEPT ![e.fd] = "connected"]
          /\ Arm(e.fd, "in")
          /\ Queue("connected", e)
     ELSE Queue("failed", e) /\ UNCHANGED <<status, armed>>
  /\ UNCHANGED <<acceptQueue, kind, input, full, missed>>

\* HandleAcceptReady; it fails when the connection has gone or there is no
\* descriptor, and the event is dropped.
AcceptReady(e) ==
  /\ NextInBatch(e) /\ status[e.fd] = "listening"
  /\ IF input[e.fd] = "data" /\ CanOpen
     THEN /\ kind' = [kind EXCEPT ![NewFd] = "conn"]
          /\ armed' = [armed EXCEPT ![NewFd] = IF watchAccepted THEN "in" ELSE "out"]
          /\ input' = [input EXCEPT ![e.fd] = "none"]
          /\ status' = [status EXCEPT ![NewFd] = IF watchAccepted THEN "connected" ELSE "paccept"]
          /\ acceptQueue' = Append(acceptQueue, [code |-> "accepted", fd |-> NewFd])
     ELSE UNCHANGED <<kind, armed, input, status, acceptQueue>>
  /\ UNCHANGED <<readWriteQueue, full, missed>>

\* `invalid socket': the event is dropped.
InvalidSocket(e) ==
  /\ NextInBatch(e) /\ status[e.fd] = "invalid"
  /\ missed' = [missed EXCEPT ![e.fd] = TRUE]
  /\ UNCHANGED <<status, acceptQueue, readWriteQueue, kernelVars>>

\* A socket that can be read and written is reported as readable.
ReadWriteReady(e) ==
  /\ NextInBatch(e) /\ status[e.fd] \in {"connected", "paccept"}
  /\ Queue(IF e.read THEN "read" ELSE "write", e)
  /\ UNCHANGED <<status, acceptQueue, kernelVars, missed>>

-----------------------------------------------------------------------------
(* The handlers, by the poller *)

Handled == event' = NoEvent /\ Goto("poller", "handle", "poll")

\* The handler closes its connection, after an error or for its own reasons.
CloseConnection ==
  /\ Goto("poller", "handle", "force")
  /\ UNCHANGED <<serverVars, kernelVars, missed, sock>>

\* read and ModifySocket; at the end of the stream the handler closes.
HandleRead ==
  /\ event.code = "read" /\ status[event.fd] = "connected"
  /\ Arm(event.fd, "in")
  /\ IF input[event.fd] = "eof"
     THEN Goto("poller", "handle", "force") /\ UNCHANGED <<event, input>>
     ELSE Handled /\ input' = [input EXCEPT ![event.fd] = "none"]
  /\ UNCHANGED <<status, acceptQueue, readWriteQueue, batch, kind, full, missed, sock>>

HandleWrite ==
  /\ event.code \in {"write", "connected"} /\ status[event.fd] = "connected"
  /\ SendBuffer(event.fd)
  /\ Handled
  /\ UNCHANGED <<status, acceptQueue, readWriteQueue, batch, missed, sock>>

\* The connection is watched already: the handler may leave it at that.
HandleConnected ==
  /\ event.code = "connected"
  /\ Handled
  /\ UNCHANGED <<status, acceptQueue, readWriteQueue, batch, kernelVars, missed, sock>>

\* WatchSocket of an accepted connection that is not watched yet.
HandleAccepted ==
  /\ event.code = "accepted" /\ status[event.fd] \in {"paccept", "connected"}
  /\ status' = [status EXCEPT ![event.fd] = "connected"]
  /\ armed' = [armed EXCEPT ![event.fd] = IF @ = "out" THEN "in" ELSE @]
  /\ Handled
  /\ UNCHANGED <<acceptQueue, readWriteQueue, batch, kind, input, full, missed, sock>>

-----------------------------------------------------------------------------
HandleEvent ==
  /\ pc.poller = "handle"
  /\ HandleRead \/ HandleWrite \/ HandleConnected \/ HandleAccepted \/ CloseConnection

PollerStep ==
  \/ ReturnAccept \/ ReturnReadWrite \/ WaitPollerIfNecessary
  \/ \E e \in batch : ConnectDone(e) \/ AcceptReady(e) \/ InvalidSocket(e) \/ ReadWriteReady(e)
  \/ HandleEvent
  \/ ForceSocketClose

UserStep == SetStatus \/ ArmConnect

UserCall ==
  \/ ConnectTo \/ ListenTo
  \/ \E f \in Fd : UserSends(f) \/ UnwatchSocket(f) \/ WatchSocket(f)

Next ==
  /\ PollerStep \/ UserStep \/ UserCall \/ \E f \in Fd : Arrive(f) \/ ConnectEnds(f)
  /\ UNCHANGED watchAccepted

SafetySpec == Init /\ [][Next]_vars

\* Both threads go on with what they have begun, and a connect ends.
Spec ==
  /\ SafetySpec
  /\ WF_vars(PollerStep /\ UNCHANGED watchAccepted)
  /\ WF_vars(UserStep /\ UNCHANGED watchAccepted)
  /\ \A f \in Fd : WF_vars(ConnectEnds(f) /\ UNCHANGED watchAccepted)

-----------------------------------------------------------------------------
\* A slot is in use only while its descriptor is open: whichever descriptor the
\* kernel gives out next, its slot is SS_INVALID, as SetupSocketConnection
\* asserts, though the two threads open and close at the same time.
SlotsOpen == \A f \in Fd : kind[f] = "closed" => status[f] = "invalid"

\* An event that RunPoll returns or has queued is about an open socket, and no
\* socket has two: a handler that closes its connection leaves no event behind
\* for the next one with the same descriptor.
EventsFresh ==
  LET waiting == readWriteQueue \o acceptQueue \o (IF pc.poller = "handle" THEN <<event>> ELSE <<>>) IN
  /\ \A i \in DOMAIN waiting : kind[waiting[i].fd] # "closed"
  /\ \A i, j \in DOMAIN waiting : waiting[i].fd = waiting[j].fd => i = j

Pending(f) ==
  \/ \E e \in batch \cup Range(readWriteQueue) \cup Range(acceptQueue) : e.fd = f
  \/ event.fd = f \/ sock = f

\* A connection is armed in epoll, or has an event or a call under way.  The one
\* exception is a socket that was ready before its slot had its status.
ConnectionsArmed ==
  \A f \in Fd :
    status[f] \in {"connected", "connecting"} =>
      armed[f] \in {"in", "inout"} \/ Pending(f) \/ missed[f]

\* A connect under way is reported in the end, and its slot is no longer
\* SS_CONNECTING: even if its first event came before its status.
ConnectReported == \A f \in Fd : status[f] = "connecting" ~> status[f] # "connecting"
-----------------------------------------------------------------------------
(* The inductive invariant that the proofs of SlotsOpen and EventsFresh use. *)

Events == [code : {"accepted", "connected", "failed", "read", "write"}, fd : Fd]
PollEvents == [fd : Fd, read : BOOLEAN, write : BOOLEAN]

TypeOK ==
  /\ status \in [Fd -> Status]
  /\ acceptQueue \in Seq(Events) /\ readWriteQueue \in Seq(Events)
  /\ batch \subseteq PollEvents
  /\ event \in Events \cup {NoEvent}
  /\ pc \in [poller : {"poll", "batch", "handle", "force", "close"},
             user : (Status \ {"invalid", "paccept"}) \cup {"idle", "arm"}]
  /\ sock \in Fd \cup {0}
  /\ kind \in [Fd -> {"closed", "listen", "connecting", "failed", "conn"}]
  /\ armed \in [Fd -> {"out", "off", "in", "inout"}]

\* The descriptors that the events of a queue are about, and that no two are the same.
Fds(queue) == {queue[i].fd : i \in DOMAIN queue}
Distinct(queue) == \A i, j \in DOMAIN queue : queue[i].fd = queue[j].fd => i = j

ConnStatus == {"connected", "connecting", "paccept"}
ConnKinds == {"connecting", "failed", "conn"}

\* The status of a slot fits its socket, and a closed descriptor is not in epoll.
SlotInv ==
  \A f \in Fd : /\ status[f] \in ConnStatus => kind[f] \in ConnKinds
                /\ status[f] = "listening" => kind[f] = "listen"
                /\ kind[f] = "closed" => armed[f] = "out"

\* The socket the user is opening has no status yet, and will have one that fits.
UserInv ==
  /\ pc.user # "idle" => sock \in Fd
  /\ pc.user \in Status =>
       /\ status[sock] = "invalid"
       /\ kind[sock] \in IF pc.user = "listening" THEN {"listen"} ELSE ConnKinds

\* Each connection has at most one event in the queues.
QueueInv ==
  /\ Distinct(acceptQueue) /\ Distinct(readWriteQueue)
  /\ Fds(acceptQueue) \cap Fds(readWriteQueue) = {}
  /\ \A f \in Fds(acceptQueue) \cup Fds(readWriteQueue) : status[f] \in ConnStatus

\* The connection being handled has no other event; while it is being closed nobody
\* else uses its slot.
HandlerInv ==
  pc.poller \in {"handle", "force", "close"} =>
    /\ event \in Events
    /\ event.fd \notin Fds(acceptQueue) \cup Fds(readWriteQueue)
    /\ pc.poller # "close" => status[event.fd] \in ConnStatus
    /\ pc.poller = "close" =>
         /\ status[event.fd] = "invalid" /\ kind[event.fd] \in ConnKinds
         /\ pc.user \in Status => sock # event.fd

\* What epoll_wait returned is about open sockets that have no event in the queues.
BatchInv ==
  /\ pc.poller # "batch" => batch = {}
  /\ \A e \in batch : kind[e.fd] # "closed" /\ e.fd \notin Fds(acceptQueue) \cup Fds(readWriteQueue)
  /\ \A d, e \in batch : d.fd = e.fd => d = e

IInv == TypeOK /\ SlotInv /\ UserInv /\ QueueInv /\ HandlerInv /\ BatchInv

\* The event shows that its socket was armed when it was queued: a connect that
\* is done was armed for reading, an accepted connection was armed or left out.
EventArmed(e) ==
  /\ e.code = "connected" => armed[e.fd] \in {"in", "inout"}
  /\ e.code = "accepted" => armed[e.fd] # "off"

\* A thread that is doing nothing holds no socket and no event.
IdleInv ==
  /\ missed \in [Fd -> BOOLEAN]
  /\ pc.user = "idle" => sock = 0
  /\ pc.poller \in {"poll", "batch"} => event = NoEvent

\* A connection that has its status is registered in epoll.
SlotArmed == \A f \in Fd : status[f] \in {"connected", "connecting"} => armed[f] # "out"

\* The socket the user is opening is armed, unless its first event is in the
\* batch or has been dropped.
UserArmed ==
  pc.user \in Status =>
    /\ armed[sock] # "out"
    /\ armed[sock] = "off" => missed[sock] \/ \E e \in batch : e.fd = sock

\* No event that its handler may ignore is about a disarmed socket.
EventsArmed ==
  /\ \A e \in Range(acceptQueue) \cup Range(readWriteQueue) : EventArmed(e)
  /\ pc.poller = "handle" => EventArmed(event)

\* What ConnectionsArmed needs beyond IInv.
ArmInv == IdleInv /\ SlotArmed /\ UserArmed /\ EventsArmed
=============================================================================
