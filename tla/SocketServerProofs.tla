------------------------- MODULE SocketServerProofs -------------------------
(***************************************************************************)
(* Theorems about the socket library, for any number of descriptors: the   *)
(* slots of the server and the descriptors of the kernel keep in step, and *)
(* no event outlives its connection.                                       *)
(***************************************************************************)
EXTENDS SocketServer, SequenceTheorems, WellFoundedInduction, TLAPS

-----------------------------------------------------------------------------
(* Descriptors and queues *)

\* The kernel gives out a descriptor that is closed.
LEMMA NewFdClosed ==
  ASSUME CanOpen
  PROVE  NewFd \in Fd /\ kind[NewFd] = "closed"
<1> DEFINE S == {f \in Fd : kind[f] = "closed"}
           R == {ss \in Nat \X Nat : ss[1] < ss[2]}
<1>1. S # {} /\ S \subseteq Nat
  BY ServerAssumption DEF CanOpen, Fd
<1>2. IsWellFoundedOn(R, Nat)
  BY NatLessThanWellFounded DEF OpToRel
<1>3. PICK x \in S : \A y \in S : x <= y
  <2>1. PICK x \in S : \A y \in S : ~(<<y, x>> \in R)
    <3> HIDE DEF S, R
    <3> QED  BY <1>1, <1>2, WFMin
  <2>2. ASSUME NEW y \in S PROVE x <= y
    <3>1. x \in Nat /\ y \in Nat
      BY <1>1
    <3>2. y < x => <<y, x>> \in R
      BY <3>1
    <3> QED  BY <2>1, <3>1, <3>2
  <2> QED  BY <2>2
<1>4. Min(S) \in S
  BY <1>3 DEF Min
<1> QED  BY <1>4 DEF NewFd

\* The events of a queue are about descriptors.
LEMMA FdsInFd ==
  ASSUME NEW q \in Seq(Events)
  PROVE  Fds(q) \subseteq Fd
<1>1. \A i \in DOMAIN q : q[i] \in Events
  OBVIOUS
<1> QED  BY <1>1 DEF Fds, Events

\* What is left of a queue of distinct events has none for the first one's descriptor.
LEMMA TailFds ==
  ASSUME NEW q \in Seq(Events), q # <<>>
  PROVE  /\ Head(q) \in Events /\ Tail(q) \in Seq(Events)
         /\ Head(q).fd \in Fds(q) /\ Fds(Tail(q)) \subseteq Fds(q)
         /\ Distinct(q) => Distinct(Tail(q)) /\ Head(q).fd \notin Fds(Tail(q))
<1>1. /\ Head(q) \in Events /\ Tail(q) \in Seq(Events)
      /\ Len(q) \in Nat \ {0} /\ DOMAIN q = 1..Len(q) /\ Head(q) = q[1]
      /\ DOMAIN Tail(q) = 1..(Len(q) - 1)
      /\ \A i \in 1..(Len(q) - 1) : Tail(q)[i] = q[i + 1]
  OBVIOUS
<1>2. Head(q).fd \in Fds(q) /\ Fds(Tail(q)) \subseteq Fds(q)
  BY <1>1 DEF Fds
<1>3. ASSUME Distinct(q)
      PROVE  Distinct(Tail(q)) /\ Head(q).fd \notin Fds(Tail(q))
  BY <1>1, <1>3 DEF Distinct, Fds
<1> QED  BY <1>1, <1>2, <1>3

\* An event for a descriptor that has none keeps a queue distinct.
LEMMA AppendFds ==
  ASSUME NEW q \in Seq(Events), NEW e \in Events
  PROVE  /\ Append(q, e) \in Seq(Events)
         /\ Fds(Append(q, e)) = Fds(q) \cup {e.fd}
         /\ Distinct(q) /\ e.fd \notin Fds(q) => Distinct(Append(q, e))
<1>1. /\ Append(q, e) \in Seq(Events) /\ Len(q) \in Nat
      /\ DOMAIN q = 1..Len(q) /\ DOMAIN Append(q, e) = 1..(Len(q) + 1)
      /\ Append(q, e)[Len(q) + 1] = e
      /\ \A i \in 1..Len(q) : Append(q, e)[i] = q[i]
  OBVIOUS
<1>2. Fds(Append(q, e)) = Fds(q) \cup {e.fd}
  BY <1>1 DEF Fds
<1>3. Distinct(q) /\ e.fd \notin Fds(q) => Distinct(Append(q, e))
  BY <1>1 DEF Fds, Distinct
<1> QED  BY <1>1, <1>2, <1>3

\* Two distinct queues that share no descriptor, one behind the other.
LEMMA ConcatFds ==
  ASSUME NEW p \in Seq(Events), NEW q \in Seq(Events),
         Distinct(p), Distinct(q), Fds(p) \cap Fds(q) = {}
  PROVE  p \o q \in Seq(Events) /\ Distinct(p \o q) /\ Fds(p \o q) = Fds(p) \cup Fds(q)
<1>1. /\ p \o q \in Seq(Events) /\ Len(p) \in Nat /\ Len(q) \in Nat
      /\ DOMAIN p = 1..Len(p) /\ DOMAIN q = 1..Len(q)
      /\ DOMAIN (p \o q) = 1..(Len(p) + Len(q))
      /\ \A i \in 1..Len(p) : (p \o q)[i] = p[i]
      /\ \A i \in 1..Len(q) : (p \o q)[Len(p) + i] = q[i]
  BY ConcatProperties
<1>2. \A i \in DOMAIN (p \o q) :
        \/ i \in DOMAIN p /\ (p \o q)[i] = p[i]
        \/ i - Len(p) \in DOMAIN q /\ (p \o q)[i] = q[i - Len(p)]
  <2> SUFFICES ASSUME NEW i \in 1..(Len(p) + Len(q)), i \notin 1..Len(p)
               PROVE  i - Len(p) \in 1..Len(q) /\ (p \o q)[i] = q[i - Len(p)]
    BY <1>1
  <2>1. i - Len(p) \in 1..Len(q)
    BY <1>1
  <2>2. Len(p) + (i - Len(p)) = i
    BY <1>1
  <2> QED  BY <1>1, <2>1, <2>2
<1>3. Fds(p \o q) = Fds(p) \cup Fds(q)
  <2>1. Fds(p \o q) \subseteq Fds(p) \cup Fds(q)
    BY <1>2 DEF Fds
  <2>2. \A i \in DOMAIN p : i \in DOMAIN (p \o q)
    BY <1>1
  <2>3. \A i \in DOMAIN q : Len(p) + i \in DOMAIN (p \o q)
    BY <1>1
  <2> QED  BY <1>1, <2>1, <2>2, <2>3 DEF Fds
<1>4. Distinct(p \o q)
  <2> SUFFICES ASSUME NEW i \in DOMAIN (p \o q), NEW j \in DOMAIN (p \o q),
                      (p \o q)[i].fd = (p \o q)[j].fd
               PROVE  i = j
    BY DEF Distinct
  <2>1. CASE i \in DOMAIN p /\ (p \o q)[i] = p[i]
    <3>1. j \in DOMAIN p /\ (p \o q)[j] = p[j]
      <4>1. p[i].fd \in Fds(p)
        BY <2>1 DEF Fds
      <4>2. ~(j - Len(p) \in DOMAIN q /\ (p \o q)[j] = q[j - Len(p)])
        BY <2>1, <4>1 DEF Fds
      <4> QED  BY <1>2, <4>2
    <3> QED  BY <2>1, <3>1 DEF Distinct
  <2>2. CASE i - Len(p) \in DOMAIN q /\ (p \o q)[i] = q[i - Len(p)]
    <3>1. j - Len(p) \in DOMAIN q /\ (p \o q)[j] = q[j - Len(p)]
      <4>1. q[i - Len(p)].fd \in Fds(q)
        BY <2>2 DEF Fds
      <4>2. ~(j \in DOMAIN p /\ (p \o q)[j] = p[j])
        BY <2>2, <4>1 DEF Fds
      <4> QED  BY <1>2, <4>2
    <3>2. i - Len(p) = j - Len(p)
      BY <2>2, <3>1 DEF Distinct
    <3> QED  BY <1>1, <3>2
  <2> QED  BY <1>2, <2>1, <2>2
<1> QED  BY <1>1, <1>3, <1>4

-----------------------------------------------------------------------------
(* Every step keeps the invariant *)

\* At the start nothing is open and nothing is queued.
LEMMA InitIInv == Init => IInv
<1> SUFFICES ASSUME Init PROVE IInv
  OBVIOUS
<1>1. <<>> \in Seq(Events)
  OBVIOUS
<1>2. TypeOK
  BY <1>1 DEF Init, TypeOK, Status
<1>3. SlotInv /\ UserInv /\ QueueInv /\ HandlerInv /\ BatchInv
  BY DEF Init, SlotInv, UserInv, QueueInv, HandlerInv, BatchInv, ConnStatus, Status, Fds, Distinct
<1> QED  BY <1>2, <1>3 DEF IInv

\* What arrives changes neither slots nor queues.
LEMMA ArriveInv ==
  ASSUME NEW f \in Fd, Arrive(f), IInv
  PROVE  IInv'
<1> USE DEF Status, ConnStatus, ConnKinds
<1>0. TypeOK /\ SlotInv /\ UserInv /\ QueueInv /\ HandlerInv /\ BatchInv
  BY DEF IInv
<1>1. TypeOK'
  BY <1>0 DEF TypeOK, Arrive, serverVars
<1>2. SlotInv'
  BY <1>0 DEF TypeOK, SlotInv, Arrive, serverVars
<1>3. UserInv'
  BY <1>0 DEF TypeOK, UserInv, Arrive, serverVars
<1>4. QueueInv'
  BY <1>0 DEF TypeOK, QueueInv, Arrive, serverVars
<1>5. HandlerInv'
  BY <1>0 DEF TypeOK, HandlerInv, Arrive, serverVars
<1>6. BatchInv'
  BY <1>0 DEF TypeOK, BatchInv, Arrive, serverVars
<1> QED  BY <1>1, <1>2, <1>3, <1>4, <1>5, <1>6 DEF IInv

\* A connect that ends leaves a socket of a connection.
LEMMA ConnectEndsInv ==
  ASSUME NEW f \in Fd, ConnectEnds(f), IInv
  PROVE  IInv'
<1> USE DEF Status, ConnStatus, ConnKinds
<1>0. TypeOK /\ SlotInv /\ UserInv /\ QueueInv /\ HandlerInv /\ BatchInv
  BY DEF IInv
<1>1. TypeOK'
  BY <1>0 DEF TypeOK, ConnectEnds, serverVars
<1>2. SlotInv'
  BY <1>0 DEF TypeOK, SlotInv, ConnectEnds, serverVars
<1>3. UserInv'
  BY <1>0 DEF TypeOK, UserInv, ConnectEnds, serverVars
<1>4. QueueInv'
  BY <1>0 DEF TypeOK, QueueInv, ConnectEnds, serverVars
<1>5. HandlerInv'
  BY <1>0 DEF TypeOK, HandlerInv, ConnectEnds, serverVars
<1>6. BatchInv'
  BY <1>0 DEF TypeOK, BatchInv, ConnectEnds, serverVars
<1> QED  BY <1>1, <1>2, <1>3, <1>4, <1>5, <1>6 DEF IInv

(* The user's steps *)

\* A new socket: its slot was invalid, because its descriptor was closed.
LEMMA SetUpInv ==
  ASSUME NEW k \in {"conn", "connecting", "listen"}, NEW s \in Status,
         SetUp(k, s), s = IF k = "conn" THEN "connected" ELSE IF k = "listen" THEN "listening" ELSE "connecting", IInv
  PROVE  IInv'
<1> USE DEF Status, ConnStatus, ConnKinds
<1>0. TypeOK /\ SlotInv /\ UserInv /\ QueueInv /\ HandlerInv /\ BatchInv
  BY DEF IInv
<1>a. NewFd \in Fd /\ kind[NewFd] = "closed"
  BY NewFdClosed DEF SetUp
<1>1. TypeOK'
  BY <1>0, <1>a DEF TypeOK, SetUp, Goto, Open, serverVars
<1>2. SlotInv'
  BY <1>0, <1>a DEF TypeOK, SlotInv, SetUp, Goto, Open, serverVars
<1>3. UserInv'
  BY <1>0, <1>a DEF TypeOK, UserInv, SlotInv, SetUp, Goto, Open, serverVars
<1>4. QueueInv'
  BY <1>0, <1>a DEF TypeOK, QueueInv, SetUp, Goto, Open, serverVars
<1>5. HandlerInv'
  BY <1>0, <1>a DEF TypeOK, HandlerInv, SetUp, Goto, Open, serverVars
<1>6. BatchInv'
  BY <1>0, <1>a DEF TypeOK, BatchInv, SetUp, Goto, Open, serverVars
<1> QED  BY <1>1, <1>2, <1>3, <1>4, <1>5, <1>6 DEF IInv

\* A slot gets the status that fits its socket.
LEMMA SetStatusInv ==
  ASSUME SetStatus, IInv
  PROVE  IInv'
<1> USE DEF Status, ConnStatus, ConnKinds
<1>0. TypeOK /\ SlotInv /\ UserInv /\ QueueInv /\ HandlerInv /\ BatchInv
  BY DEF IInv
<1>1. TypeOK'
  BY <1>0 DEF TypeOK, SetStatus, kernelVars
<1>2. SlotInv'
  BY <1>0 DEF TypeOK, SlotInv, UserInv, SetStatus, kernelVars
<1>3. UserInv'
  BY <1>0 DEF TypeOK, UserInv, SetStatus, kernelVars
<1>4. QueueInv'
  BY <1>0 DEF TypeOK, QueueInv, UserInv, SetStatus, kernelVars
<1>5. HandlerInv'
  BY <1>0 DEF TypeOK, HandlerInv, UserInv, SetStatus, kernelVars
<1>6. BatchInv'
  BY <1>0 DEF TypeOK, BatchInv, SetStatus, kernelVars
<1> QED  BY <1>1, <1>2, <1>3, <1>4, <1>5, <1>6 DEF IInv

\* A connect under way is armed; if it was closed meanwhile, nothing happens.
LEMMA ArmConnectInv ==
  ASSUME ArmConnect, IInv
  PROVE  IInv'
<1> USE DEF Status, ConnStatus, ConnKinds
<1>0. TypeOK /\ SlotInv /\ UserInv /\ QueueInv /\ HandlerInv /\ BatchInv
  BY DEF IInv
<1>1. TypeOK'
  BY <1>0 DEF TypeOK, ArmConnect, Goto, Arm, serverVars
<1>2. SlotInv'
  BY <1>0 DEF TypeOK, SlotInv, ArmConnect, Goto, Arm, serverVars
<1>3. UserInv'
  BY <1>0 DEF TypeOK, UserInv, ArmConnect, Goto, Arm, serverVars
<1>4. QueueInv'
  BY <1>0 DEF TypeOK, QueueInv, ArmConnect, Goto, Arm, serverVars
<1>5. HandlerInv'
  BY <1>0 DEF TypeOK, HandlerInv, ArmConnect, Goto, Arm, serverVars
<1>6. BatchInv'
  BY <1>0 DEF TypeOK, BatchInv, ArmConnect, Goto, Arm, serverVars
<1> QED  BY <1>1, <1>2, <1>3, <1>4, <1>5, <1>6 DEF IInv

\* Sending arms an open socket.
LEMMA UserSendsInv ==
  ASSUME NEW f \in Fd, UserSends(f), IInv
  PROVE  IInv'
<1> USE DEF Status, ConnStatus, ConnKinds
<1>0. TypeOK /\ SlotInv /\ UserInv /\ QueueInv /\ HandlerInv /\ BatchInv
  BY DEF IInv
<1>1. TypeOK'
  BY <1>0 DEF TypeOK, UserSends, SendBuffer, Arm, serverVars
<1>2. SlotInv'
  BY <1>0 DEF TypeOK, SlotInv, UserSends, SendBuffer, Arm, serverVars
<1>3. UserInv'
  BY <1>0 DEF TypeOK, UserInv, UserSends, SendBuffer, Arm, serverVars
<1>4. QueueInv'
  BY <1>0 DEF TypeOK, QueueInv, UserSends, SendBuffer, Arm, serverVars
<1>5. HandlerInv'
  BY <1>0 DEF TypeOK, HandlerInv, UserSends, SendBuffer, Arm, serverVars
<1>6. BatchInv'
  BY <1>0 DEF TypeOK, BatchInv, UserSends, SendBuffer, Arm, serverVars
<1> QED  BY <1>1, <1>2, <1>3, <1>4, <1>5, <1>6 DEF IInv

\* A listening socket leaves epoll: it has no event in the queues.
LEMMA UnwatchSocketInv ==
  ASSUME NEW f \in Fd, UnwatchSocket(f), IInv
  PROVE  IInv'
<1> USE DEF Status, ConnStatus, ConnKinds
<1>0. TypeOK /\ SlotInv /\ UserInv /\ QueueInv /\ HandlerInv /\ BatchInv
  BY DEF IInv
<1>1. TypeOK'
  BY <1>0 DEF TypeOK, UnwatchSocket
<1>2. SlotInv'
  BY <1>0 DEF TypeOK, SlotInv, UnwatchSocket
<1>3. UserInv'
  BY <1>0 DEF TypeOK, UserInv, UnwatchSocket
<1>4. QueueInv'
  BY <1>0 DEF TypeOK, QueueInv, UnwatchSocket
<1>5. HandlerInv'
  BY <1>0 DEF TypeOK, HandlerInv, UnwatchSocket
<1>6. BatchInv'
  BY <1>0 DEF TypeOK, BatchInv, UnwatchSocket
<1> QED  BY <1>1, <1>2, <1>3, <1>4, <1>5, <1>6 DEF IInv

\* A listening socket returns to epoll: no connection that is being closed is one.
LEMMA WatchSocketInv ==
  ASSUME NEW f \in Fd, WatchSocket(f), IInv
  PROVE  IInv'
<1> USE DEF Status, ConnStatus, ConnKinds
<1>0. TypeOK /\ SlotInv /\ UserInv /\ QueueInv /\ HandlerInv /\ BatchInv
  BY DEF IInv
<1>1. TypeOK'
  BY <1>0 DEF TypeOK, WatchSocket, Goto, serverVars
<1>2. SlotInv'
  BY <1>0 DEF TypeOK, SlotInv, WatchSocket, Goto, serverVars
<1>3. UserInv'
  BY <1>0 DEF TypeOK, UserInv, WatchSocket, Goto, serverVars
<1>4. QueueInv'
  BY <1>0 DEF TypeOK, QueueInv, WatchSocket, Goto, serverVars
<1>5. HandlerInv'
  BY <1>0 DEF TypeOK, HandlerInv, WatchSocket, Goto, serverVars
<1>6. BatchInv'
  BY <1>0 DEF TypeOK, BatchInv, WatchSocket, Goto, serverVars
<1> QED  BY <1>1, <1>2, <1>3, <1>4, <1>5, <1>6 DEF IInv

(* The poller's steps *)

\* The event handled next is the only one of its connection.
LEMMA ReturnAcceptInv ==
  ASSUME ReturnAccept, IInv
  PROVE  IInv'
<1> USE DEF Status, ConnStatus, ConnKinds
<1>0. TypeOK /\ SlotInv /\ UserInv /\ QueueInv /\ HandlerInv /\ BatchInv
  BY DEF IInv
<1>a. /\ Head(acceptQueue) \in Events /\ Tail(acceptQueue) \in Seq(Events)
      /\ Head(acceptQueue).fd \in Fds(acceptQueue) /\ Fds(Tail(acceptQueue)) \subseteq Fds(acceptQueue)
      /\ Distinct(Tail(acceptQueue)) /\ Head(acceptQueue).fd \notin Fds(Tail(acceptQueue))
  BY <1>0, TailFds DEF TypeOK, QueueInv, ReturnAccept
<1>1. TypeOK'
  BY <1>0, <1>a DEF TypeOK, ReturnAccept, Take, Goto, kernelVars
<1>2. SlotInv'
  BY <1>0, <1>a DEF TypeOK, SlotInv, ReturnAccept, Take, Goto, kernelVars
<1>3. UserInv'
  BY <1>0, <1>a DEF TypeOK, UserInv, ReturnAccept, Take, Goto, kernelVars
<1>4. QueueInv'
  BY <1>0, <1>a DEF TypeOK, QueueInv, ReturnAccept, Take, Goto, kernelVars
<1>5. HandlerInv'
  BY <1>0, <1>a DEF TypeOK, HandlerInv, QueueInv, ReturnAccept, Take, Goto, kernelVars
<1>6. BatchInv'
  BY <1>0, <1>a DEF TypeOK, BatchInv, ReturnAccept, Take, Goto, kernelVars
<1> QED  BY <1>1, <1>2, <1>3, <1>4, <1>5, <1>6 DEF IInv

\* So it is when it comes from the other queue.
LEMMA ReturnReadWriteInv ==
  ASSUME ReturnReadWrite, IInv
  PROVE  IInv'
<1> USE DEF Status, ConnStatus, ConnKinds
<1>0. TypeOK /\ SlotInv /\ UserInv /\ QueueInv /\ HandlerInv /\ BatchInv
  BY DEF IInv
<1>a. /\ Head(readWriteQueue) \in Events /\ Tail(readWriteQueue) \in Seq(Events)
      /\ Head(readWriteQueue).fd \in Fds(readWriteQueue) /\ Fds(Tail(readWriteQueue)) \subseteq Fds(readWriteQueue)
      /\ Distinct(Tail(readWriteQueue)) /\ Head(readWriteQueue).fd \notin Fds(Tail(readWriteQueue))
  BY <1>0, TailFds DEF TypeOK, QueueInv, ReturnReadWrite
<1>1. TypeOK'
  BY <1>0, <1>a DEF TypeOK, ReturnReadWrite, Take, Goto, kernelVars
<1>2. SlotInv'
  BY <1>0, <1>a DEF TypeOK, SlotInv, ReturnReadWrite, Take, Goto, kernelVars
<1>3. UserInv'
  BY <1>0, <1>a DEF TypeOK, UserInv, ReturnReadWrite, Take, Goto, kernelVars
<1>4. QueueInv'
  BY <1>0, <1>a DEF TypeOK, QueueInv, ReturnReadWrite, Take, Goto, kernelVars
<1>5. HandlerInv'
  BY <1>0, <1>a DEF TypeOK, HandlerInv, QueueInv, ReturnReadWrite, Take, Goto, kernelVars
<1>6. BatchInv'
  BY <1>0, <1>a DEF TypeOK, BatchInv, ReturnReadWrite, Take, Goto, kernelVars
<1> QED  BY <1>1, <1>2, <1>3, <1>4, <1>5, <1>6 DEF IInv

\* epoll_wait reports each socket once, and open ones only; the queues are empty.
LEMMA WaitPollerInv ==
  ASSUME WaitPollerIfNecessary, IInv
  PROVE  IInv'
<1> USE DEF Status, ConnStatus, ConnKinds
<1>0. TypeOK /\ SlotInv /\ UserInv /\ QueueInv /\ HandlerInv /\ BatchInv
  BY DEF IInv
<1>a. Ready \subseteq PollEvents
  <2>1. \A f \in Fd : ReadReady(f) \in BOOLEAN /\ WriteReady(f) \in BOOLEAN
    BY DEF ReadReady, WriteReady
  <2> QED  BY <2>1 DEF Ready, PollEvents
<1>b. \A e \in Ready : kind[e.fd] # "closed"
  <2>1. \A f \in Fd : ReadReady(f) \/ WriteReady(f) => kind[f] # "closed"
    BY <1>0 DEF SlotInv, TypeOK, ReadReady, WriteReady
  <2> QED  BY <2>1 DEF Ready
<1>c. \A d, e \in Ready : d.fd = e.fd => d = e
  BY DEF Ready
<1>d. Fds(<<>>) = {}
  BY DEF Fds
<1>e. \A f \in Fd : kind[f] = "closed" => armed'[f] = armed[f]
  BY <1>b DEF WaitPollerIfNecessary
<1>1. TypeOK'
  BY <1>0, <1>a DEF TypeOK, WaitPollerIfNecessary, Goto
<1>2. SlotInv'
  BY <1>0, <1>e DEF TypeOK, SlotInv, WaitPollerIfNecessary, Goto
<1>3. UserInv'
  BY <1>0 DEF TypeOK, UserInv, WaitPollerIfNecessary, Goto
<1>4. QueueInv'
  BY <1>0 DEF TypeOK, QueueInv, WaitPollerIfNecessary, Goto
<1>5. HandlerInv'
  BY <1>0 DEF TypeOK, HandlerInv, WaitPollerIfNecessary, Goto
<1>6. BatchInv'
  BY <1>0, <1>b, <1>c, <1>d DEF TypeOK, BatchInv, WaitPollerIfNecessary, Goto
<1> QED  BY <1>1, <1>2, <1>3, <1>4, <1>5, <1>6 DEF IInv

\* The end of a connect is queued for a connection that has no event.
LEMMA ConnectDoneInv ==
  ASSUME NEW e, ConnectDone(e), IInv
  PROVE  IInv'
<1> USE DEF Status, ConnStatus, ConnKinds
<1>0. TypeOK /\ SlotInv /\ UserInv /\ QueueInv /\ HandlerInv /\ BatchInv
  BY DEF IInv
<1>a. /\ e \in batch /\ batch' = batch \ {e} /\ e.fd \in Fd
      /\ \A d \in batch' : d \in batch /\ d.fd \in Fd /\ d.fd # e.fd
      /\ e.fd \notin Fds(acceptQueue) \cup Fds(readWriteQueue)
  BY <1>0 DEF TypeOK, BatchInv, PollEvents, NextInBatch, ConnectDone
<1>b. /\ readWriteQueue' \in Seq(Events) /\ Distinct(readWriteQueue')
      /\ Fds(readWriteQueue') = Fds(readWriteQueue) \cup {e.fd}
  <2>1. PICK c \in {"connected", "failed"} : readWriteQueue' = Append(readWriteQueue, [code |-> c, fd |-> e.fd])
    BY DEF ConnectDone, Queue
  <2>2. [code |-> c, fd |-> e.fd] \in Events /\ [code |-> c, fd |-> e.fd].fd = e.fd
    BY <1>a DEF Events
  <2> QED  BY <1>0, <1>a, <2>1, <2>2, AppendFds DEF TypeOK, QueueInv
<1>f. Fds(acceptQueue) \cup Fds(readWriteQueue) \subseteq Fd
  BY <1>0, FdsInFd DEF TypeOK
<1>1. TypeOK'
  BY <1>0, <1>a, <1>b DEF TypeOK, ConnectDone, NextInBatch, Arm
<1>2. SlotInv'
  BY <1>0, <1>a, <1>b DEF TypeOK, SlotInv, ConnectDone, NextInBatch, Arm
<1>3. UserInv'
  BY <1>0, <1>a, <1>b DEF TypeOK, UserInv, ConnectDone, NextInBatch, Arm
<1>4. QueueInv'
  BY <1>0, <1>a, <1>b, <1>f DEF TypeOK, QueueInv, ConnectDone, NextInBatch, Arm
<1>5. HandlerInv'
  BY <1>0, <1>a, <1>b DEF TypeOK, HandlerInv, ConnectDone, NextInBatch, Arm
<1>6. BatchInv'
  BY <1>0, <1>a, <1>b DEF TypeOK, BatchInv, ConnectDone, NextInBatch, Arm
<1> QED  BY <1>1, <1>2, <1>3, <1>4, <1>5, <1>6 DEF IInv

\* So is what can be read or written.
LEMMA ReadWriteReadyInv ==
  ASSUME NEW e, ReadWriteReady(e), IInv
  PROVE  IInv'
<1> USE DEF Status, ConnStatus, ConnKinds
<1>0. TypeOK /\ SlotInv /\ UserInv /\ QueueInv /\ HandlerInv /\ BatchInv
  BY DEF IInv
<1>a. /\ e \in batch /\ batch' = batch \ {e} /\ e.fd \in Fd
      /\ \A d \in batch' : d \in batch /\ d.fd \in Fd /\ d.fd # e.fd
      /\ e.fd \notin Fds(acceptQueue) \cup Fds(readWriteQueue)
  BY <1>0 DEF TypeOK, BatchInv, PollEvents, NextInBatch, ReadWriteReady
<1>b. /\ readWriteQueue' \in Seq(Events) /\ Distinct(readWriteQueue')
      /\ Fds(readWriteQueue') = Fds(readWriteQueue) \cup {e.fd}
  <2>1. PICK c \in {"read", "write"} : readWriteQueue' = Append(readWriteQueue, [code |-> c, fd |-> e.fd])
    BY DEF ReadWriteReady, Queue
  <2>2. [code |-> c, fd |-> e.fd] \in Events /\ [code |-> c, fd |-> e.fd].fd = e.fd
    BY <1>a DEF Events
  <2> QED  BY <1>0, <1>a, <2>1, <2>2, AppendFds DEF TypeOK, QueueInv
<1>1. TypeOK'
  BY <1>0, <1>a, <1>b DEF TypeOK, ReadWriteReady, NextInBatch, kernelVars
<1>2. SlotInv'
  BY <1>0, <1>a, <1>b DEF TypeOK, SlotInv, ReadWriteReady, NextInBatch, kernelVars
<1>3. UserInv'
  BY <1>0, <1>a, <1>b DEF TypeOK, UserInv, ReadWriteReady, NextInBatch, kernelVars
<1>4. QueueInv'
  BY <1>0, <1>a, <1>b DEF TypeOK, QueueInv, ReadWriteReady, NextInBatch, kernelVars
<1>5. HandlerInv'
  BY <1>0, <1>a, <1>b DEF TypeOK, HandlerInv, ReadWriteReady, NextInBatch, kernelVars
<1>6. BatchInv'
  BY <1>0, <1>a, <1>b DEF TypeOK, BatchInv, ReadWriteReady, NextInBatch, kernelVars
<1> QED  BY <1>1, <1>2, <1>3, <1>4, <1>5, <1>6 DEF IInv

\* An accepted connection has a descriptor that was closed, hence no event yet.
LEMMA AcceptReadyInv ==
  ASSUME NEW e, AcceptReady(e), IInv
  PROVE  IInv'
<1> USE DEF Status, ConnStatus, ConnKinds
<1>0. TypeOK /\ SlotInv /\ UserInv /\ QueueInv /\ HandlerInv /\ BatchInv
  BY DEF IInv
<1>a. /\ e \in batch /\ batch' = batch \ {e} /\ e.fd \in Fd
      /\ \A d \in batch' : d \in batch /\ d.fd \in Fd /\ d.fd # e.fd
      /\ e.fd \notin Fds(acceptQueue) \cup Fds(readWriteQueue)
  BY <1>0 DEF TypeOK, BatchInv, PollEvents, NextInBatch, AcceptReady
<1> DEFINE n == NewFd
           new == [code |-> "accepted", fd |-> n]
           Accepts == input[e.fd] = "data" /\ CanOpen
<1>b. ASSUME Accepts
      PROVE  /\ n \in Fd /\ kind[n] = "closed" /\ status[n] = "invalid"
             /\ n \notin Fds(acceptQueue) \cup Fds(readWriteQueue)
             /\ \A d \in batch : d.fd # n
             /\ acceptQueue' \in Seq(Events) /\ Distinct(acceptQueue')
             /\ Fds(acceptQueue') = Fds(acceptQueue) \cup {n}
  <2>1. n \in Fd /\ kind[n] = "closed"
    BY <1>b, NewFdClosed
  <2>2. /\ n \notin Fds(acceptQueue) \cup Fds(readWriteQueue)
        /\ status[n] = "invalid" /\ \A d \in batch : d.fd # n
    BY <1>0, <2>1 DEF TypeOK, QueueInv, SlotInv, BatchInv
  <2>3. new \in Events /\ new.fd = n
    BY <2>1 DEF Events
  <2>4. acceptQueue' = Append(acceptQueue, new)
    BY <1>b DEF AcceptReady
  <2> HIDE DEF n, new
  <2> QED  BY <1>0, <2>1, <2>2, <2>3, <2>4, AppendFds DEF TypeOK, QueueInv
<1>c. \/ /\ Accepts
         /\ kind' = [kind EXCEPT ![n] = "conn"]
         /\ \E s \in {"connected", "paccept"} : status' = [status EXCEPT ![n] = s]
         /\ \E a \in {"in", "out"} : armed' = [armed EXCEPT ![n] = a]
      \/ UNCHANGED <<kind, status, armed, acceptQueue>>
  BY DEF AcceptReady
<1>d. UNCHANGED <<event, sock, readWriteQueue>> /\ pc' \in [poller : {"batch", "poll"}, user : {pc.user}]
      /\ (pc'.poller = "batch" \/ batch' = {})
  BY <1>0 DEF TypeOK, AcceptReady, NextInBatch
<1> HIDE DEF n, Accepts
<1>f. Fds(acceptQueue) \cup Fds(readWriteQueue) \subseteq Fd
  BY <1>0, FdsInFd DEF TypeOK
<1>1. TypeOK'
  <2>1. acceptQueue' \in Seq(Events)
    BY <1>0, <1>b, <1>c DEF TypeOK
  <2>2. /\ status' \in [Fd -> Status]
        /\ kind' \in [Fd -> {"closed", "listen", "connecting", "failed", "conn"}]
        /\ armed' \in [Fd -> {"out", "off", "in", "inout"}]
    <3>1. CASE UNCHANGED <<kind, status, armed, acceptQueue>>
      BY <1>0, <3>1 DEF TypeOK
    <3>2. CASE ~UNCHANGED <<kind, status, armed, acceptQueue>>
      <4>1. PICK s \in {"connected", "paccept"}, a \in {"in", "out"} :
              /\ kind' = [kind EXCEPT ![n] = "conn"]
              /\ status' = [status EXCEPT ![n] = s] /\ armed' = [armed EXCEPT ![n] = a]
        BY <1>c, <3>2
      <4> QED  BY <1>0, <4>1 DEF TypeOK
    <3> QED  BY <3>1, <3>2
  <2> QED  BY <1>0, <1>a, <1>d, <2>1, <2>2 DEF TypeOK
<1>2. SlotInv'
  BY <1>0, <1>a, <1>b, <1>c, <1>d DEF TypeOK, SlotInv
<1>3. UserInv'
  BY <1>0, <1>a, <1>b, <1>c, <1>d DEF TypeOK, UserInv
<1>4. QueueInv'
  BY <1>0, <1>a, <1>b, <1>c, <1>d, <1>f DEF TypeOK, QueueInv
<1>5. HandlerInv'
  BY <1>0, <1>a, <1>b, <1>c, <1>d DEF TypeOK, HandlerInv
<1>6. BatchInv'
  <2>1. \A d \in batch' : kind'[d.fd] # "closed"
    BY <1>0, <1>a, <1>b, <1>c DEF TypeOK, BatchInv
  <2>2. \A d \in batch' : d.fd \notin Fds(acceptQueue') \cup Fds(readWriteQueue')
    BY <1>0, <1>a, <1>b, <1>c, <1>d DEF BatchInv
  <2> QED  BY <1>0, <1>a, <1>d, <2>1, <2>2 DEF BatchInv
<1> QED  BY <1>1, <1>2, <1>3, <1>4, <1>5, <1>6 DEF IInv

\* An event that is dropped changes no slot.
LEMMA InvalidSocketInv ==
  ASSUME NEW e, InvalidSocket(e), IInv
  PROVE  IInv'
<1> USE DEF Status, ConnStatus, ConnKinds
<1>0. TypeOK /\ SlotInv /\ UserInv /\ QueueInv /\ HandlerInv /\ BatchInv
  BY DEF IInv
<1>a. /\ e \in batch /\ batch' = batch \ {e} /\ e.fd \in Fd
      /\ \A d \in batch' : d \in batch /\ d.fd \in Fd /\ d.fd # e.fd
      /\ e.fd \notin Fds(acceptQueue) \cup Fds(readWriteQueue)
  BY <1>0 DEF TypeOK, BatchInv, PollEvents, NextInBatch, InvalidSocket
<1>1. TypeOK'
  BY <1>0, <1>a DEF TypeOK, InvalidSocket, NextInBatch, kernelVars
<1>2. SlotInv'
  BY <1>0, <1>a DEF TypeOK, SlotInv, InvalidSocket, NextInBatch, kernelVars
<1>3. UserInv'
  BY <1>0, <1>a DEF TypeOK, UserInv, InvalidSocket, NextInBatch, kernelVars
<1>4. QueueInv'
  BY <1>0, <1>a DEF TypeOK, QueueInv, InvalidSocket, NextInBatch, kernelVars
<1>5. HandlerInv'
  BY <1>0, <1>a DEF TypeOK, HandlerInv, InvalidSocket, NextInBatch, kernelVars
<1>6. BatchInv'
  BY <1>0, <1>a DEF TypeOK, BatchInv, InvalidSocket, NextInBatch, kernelVars
<1> QED  BY <1>1, <1>2, <1>3, <1>4, <1>5, <1>6 DEF IInv

\* The handler decides to close.
LEMMA CloseConnectionInv ==
  ASSUME pc.poller = "handle", CloseConnection, IInv
  PROVE  IInv'
<1> USE DEF Status, ConnStatus, ConnKinds
<1>0. TypeOK /\ SlotInv /\ UserInv /\ QueueInv /\ HandlerInv /\ BatchInv
  BY DEF IInv
<1>a. event \in Events /\ event.fd \in Fd
  BY <1>0 DEF HandlerInv, Events
<1>1. TypeOK'
  BY <1>0, <1>a DEF TypeOK, CloseConnection, Goto, serverVars, kernelVars
<1>2. SlotInv'
  BY <1>0, <1>a DEF TypeOK, SlotInv, CloseConnection, Goto, serverVars, kernelVars
<1>3. UserInv'
  BY <1>0, <1>a DEF TypeOK, UserInv, CloseConnection, Goto, serverVars, kernelVars
<1>4. QueueInv'
  BY <1>0, <1>a DEF TypeOK, QueueInv, CloseConnection, Goto, serverVars, kernelVars
<1>5. HandlerInv'
  BY <1>0, <1>a DEF TypeOK, HandlerInv, CloseConnection, Goto, serverVars, kernelVars
<1>6. BatchInv'
  BY <1>0, <1>a DEF TypeOK, BatchInv, CloseConnection, Goto, serverVars, kernelVars
<1> QED  BY <1>1, <1>2, <1>3, <1>4, <1>5, <1>6 DEF IInv

\* Reading arms the socket again.
LEMMA HandleReadInv ==
  ASSUME pc.poller = "handle", HandleRead, IInv
  PROVE  IInv'
<1> USE DEF Status, ConnStatus, ConnKinds
<1>0. TypeOK /\ SlotInv /\ UserInv /\ QueueInv /\ HandlerInv /\ BatchInv
  BY DEF IInv
<1>a. event \in Events /\ event.fd \in Fd
  BY <1>0 DEF HandlerInv, Events
<1>1. TypeOK'
  BY <1>0, <1>a DEF TypeOK, HandleRead, Handled, Goto, Arm
<1>2. SlotInv'
  BY <1>0, <1>a DEF TypeOK, SlotInv, HandleRead, Handled, Goto, Arm
<1>3. UserInv'
  BY <1>0, <1>a DEF TypeOK, UserInv, HandleRead, Handled, Goto, Arm
<1>4. QueueInv'
  BY <1>0, <1>a DEF TypeOK, QueueInv, HandleRead, Handled, Goto, Arm
<1>5. HandlerInv'
  BY <1>0, <1>a DEF TypeOK, HandlerInv, HandleRead, Handled, Goto, Arm
<1>6. BatchInv'
  BY <1>0, <1>a DEF TypeOK, BatchInv, HandleRead, Handled, Goto, Arm
<1> QED  BY <1>1, <1>2, <1>3, <1>4, <1>5, <1>6 DEF IInv

\* So does writing.
LEMMA HandleWriteInv ==
  ASSUME pc.poller = "handle", HandleWrite, IInv
  PROVE  IInv'
<1> USE DEF Status, ConnStatus, ConnKinds
<1>0. TypeOK /\ SlotInv /\ UserInv /\ QueueInv /\ HandlerInv /\ BatchInv
  BY DEF IInv
<1>a. event \in Events /\ event.fd \in Fd
  BY <1>0 DEF HandlerInv, Events
<1>1. TypeOK'
  BY <1>0, <1>a DEF TypeOK, HandleWrite, Handled, Goto, SendBuffer, Arm
<1>2. SlotInv'
  BY <1>0, <1>a DEF TypeOK, SlotInv, HandleWrite, Handled, Goto, SendBuffer, Arm
<1>3. UserInv'
  BY <1>0, <1>a DEF TypeOK, UserInv, HandleWrite, Handled, Goto, SendBuffer, Arm
<1>4. QueueInv'
  BY <1>0, <1>a DEF TypeOK, QueueInv, HandleWrite, Handled, Goto, SendBuffer, Arm
<1>5. HandlerInv'
  BY <1>0, <1>a DEF TypeOK, HandlerInv, HandleWrite, Handled, Goto, SendBuffer, Arm
<1>6. BatchInv'
  BY <1>0, <1>a DEF TypeOK, BatchInv, HandleWrite, Handled, Goto, SendBuffer, Arm
<1> QED  BY <1>1, <1>2, <1>3, <1>4, <1>5, <1>6 DEF IInv

\* A handler may leave a new connection alone.
LEMMA HandleConnectedInv ==
  ASSUME pc.poller = "handle", HandleConnected, IInv
  PROVE  IInv'
<1> USE DEF Status, ConnStatus, ConnKinds
<1>0. TypeOK /\ SlotInv /\ UserInv /\ QueueInv /\ HandlerInv /\ BatchInv
  BY DEF IInv
<1>a. event \in Events /\ event.fd \in Fd
  BY <1>0 DEF HandlerInv, Events
<1>1. TypeOK'
  BY <1>0, <1>a DEF TypeOK, HandleConnected, Handled, Goto, kernelVars
<1>2. SlotInv'
  BY <1>0, <1>a DEF TypeOK, SlotInv, HandleConnected, Handled, Goto, kernelVars
<1>3. UserInv'
  BY <1>0, <1>a DEF TypeOK, UserInv, HandleConnected, Handled, Goto, kernelVars
<1>4. QueueInv'
  BY <1>0, <1>a DEF TypeOK, QueueInv, HandleConnected, Handled, Goto, kernelVars
<1>5. HandlerInv'
  BY <1>0, <1>a DEF TypeOK, HandlerInv, HandleConnected, Handled, Goto, kernelVars
<1>6. BatchInv'
  BY <1>0, <1>a DEF TypeOK, BatchInv, HandleConnected, Handled, Goto, kernelVars
<1> QED  BY <1>1, <1>2, <1>3, <1>4, <1>5, <1>6 DEF IInv

\* An accepted connection is watched.
LEMMA HandleAcceptedInv ==
  ASSUME pc.poller = "handle", HandleAccepted, IInv
  PROVE  IInv'
<1> USE DEF Status, ConnStatus, ConnKinds
<1>0. TypeOK /\ SlotInv /\ UserInv /\ QueueInv /\ HandlerInv /\ BatchInv
  BY DEF IInv
<1>a. event \in Events /\ event.fd \in Fd
  BY <1>0 DEF HandlerInv, Events
<1>1. TypeOK'
  BY <1>0, <1>a DEF TypeOK, HandleAccepted, Handled, Goto
<1>2. SlotInv'
  BY <1>0, <1>a DEF TypeOK, SlotInv, HandleAccepted, Handled, Goto
<1>3. UserInv'
  BY <1>0, <1>a DEF TypeOK, UserInv, HandleAccepted, Handled, Goto
<1>4. QueueInv'
  BY <1>0, <1>a DEF TypeOK, QueueInv, HandleAccepted, Handled, Goto
<1>5. HandlerInv'
  BY <1>0, <1>a DEF TypeOK, HandlerInv, HandleAccepted, Handled, Goto
<1>6. BatchInv'
  BY <1>0, <1>a DEF TypeOK, BatchInv, HandleAccepted, Handled, Goto
<1> QED  BY <1>1, <1>2, <1>3, <1>4, <1>5, <1>6 DEF IInv

\* The slot is reset first; nobody uses it until its descriptor is closed.
LEMMA ForceSocketCloseInv ==
  ASSUME ForceSocketClose, IInv
  PROVE  IInv'
<1> USE DEF Status, ConnStatus, ConnKinds
<1>0. TypeOK /\ SlotInv /\ UserInv /\ QueueInv /\ HandlerInv /\ BatchInv
  BY DEF IInv
<1>a. pc.poller \in {"force", "close"}
  BY DEF ForceSocketClose, Goto
<1>b. event \in Events /\ event.fd \in Fd
  BY <1>0, <1>a DEF HandlerInv, Events
<1>f. Fds(acceptQueue) \cup Fds(readWriteQueue) \subseteq Fd
  BY <1>0, FdsInFd DEF TypeOK
<1>1. TypeOK'
  BY <1>0, <1>a, <1>b DEF TypeOK, ForceSocketClose, Goto, Close
<1>2. SlotInv'
  BY <1>0, <1>a, <1>b DEF TypeOK, SlotInv, HandlerInv, ForceSocketClose, Goto, Close
<1>3. UserInv'
  BY <1>0, <1>a, <1>b DEF TypeOK, UserInv, HandlerInv, ForceSocketClose, Goto, Close
<1>4. QueueInv'
  BY <1>0, <1>a, <1>b, <1>f DEF TypeOK, QueueInv, HandlerInv, ForceSocketClose, Goto, Close
<1>5. HandlerInv'
  BY <1>0, <1>a, <1>b DEF TypeOK, HandlerInv, SlotInv, UserInv, ForceSocketClose, Goto, Close
<1>6. BatchInv'
  BY <1>0, <1>a, <1>b DEF TypeOK, BatchInv, ForceSocketClose, Goto, Close
<1> QED  BY <1>1, <1>2, <1>3, <1>4, <1>5, <1>6 DEF IInv

\* Every step keeps the invariant.
LEMMA NextIInv == IInv /\ [Next]_vars => IInv'
<1> SUFFICES ASSUME IInv, [Next]_vars PROVE IInv'
  OBVIOUS
<1>1. CASE UNCHANGED vars
  BY <1>1
     DEF IInv, TypeOK, SlotInv, UserInv, QueueInv, HandlerInv, BatchInv, vars, serverVars,
         kernelVars
<1>2. CASE PollerStep
  <2>1. CASE ReturnAccept \/ ReturnReadWrite \/ WaitPollerIfNecessary \/ ForceSocketClose
    BY <2>1, ReturnAcceptInv, ReturnReadWriteInv, WaitPollerInv, ForceSocketCloseInv
  <2>2. CASE \E e \in batch : ConnectDone(e) \/ AcceptReady(e) \/ InvalidSocket(e) \/ ReadWriteReady(e)
    BY <2>2, ConnectDoneInv, AcceptReadyInv, InvalidSocketInv, ReadWriteReadyInv
  <2>3. CASE HandleEvent
    BY <2>3, HandleReadInv, HandleWriteInv, HandleConnectedInv, HandleAcceptedInv, CloseConnectionInv
       DEF HandleEvent
  <2> QED  BY <1>2, <2>1, <2>2, <2>3 DEF PollerStep
<1>3. CASE UserStep
  BY <1>3, SetStatusInv, ArmConnectInv DEF UserStep
<1>4. CASE UserCall
  <2>1. CASE ConnectTo \/ ListenTo
    BY <2>1, SetUpInv DEF ConnectTo, ListenTo, Status
  <2>2. CASE \E f \in Fd : UserSends(f) \/ UnwatchSocket(f) \/ WatchSocket(f)
    BY <2>2, UserSendsInv, UnwatchSocketInv, WatchSocketInv
  <2> QED  BY <1>4, <2>1, <2>2 DEF UserCall
<1>5. CASE \E f \in Fd : Arrive(f) \/ ConnectEnds(f)
  BY <1>5, ArriveInv, ConnectEndsInv
<1> QED  BY <1>1, <1>2, <1>3, <1>4, <1>5 DEF Next

-----------------------------------------------------------------------------
(* Theorems *)

\* IInv is an invariant of the library, whatever the two threads do and whichever
\* descriptors the kernel gives out: RunPoll, ConnectTo, ListenTo, ForceSocketClose.
THEOREM SocketInvariant == SafetySpec => []IInv
  BY InitIInv, NextIInv, PTL DEF SafetySpec

\* A slot in use has an open descriptor, so that SetupSocketConnection's assertion
\* holds for every descriptor the kernel gives out.
THEOREM SlotsStayOpen == SafetySpec => []SlotsOpen
<1>1. IInv => SlotsOpen
  BY DEF IInv, TypeOK, SlotInv, SlotsOpen, Status, ConnStatus, ConnKinds
<1> QED  BY <1>1, SocketInvariant, PTL

\* Events that RunPoll has queued or returned are about open sockets, one event for
\* each: handling one never leaves another behind for a closed connection.
THEOREM EventsStayFresh == SafetySpec => []EventsFresh
<1>1. IInv => EventsFresh
  <2> SUFFICES ASSUME IInv PROVE EventsFresh
    OBVIOUS
  <2> DEFINE queued == readWriteQueue \o acceptQueue
             handled == IF pc.poller = "handle" THEN <<event>> ELSE <<>>
             waiting == queued \o handled
  <2>0. TypeOK /\ SlotInv /\ QueueInv /\ HandlerInv
    BY DEF IInv
  <2>1. /\ queued \in Seq(Events) /\ Distinct(queued)
        /\ Fds(queued) = Fds(readWriteQueue) \cup Fds(acceptQueue)
    BY <2>0, ConcatFds DEF TypeOK, QueueInv
  <2>2. handled \in Seq(Events) /\ Distinct(handled)
    BY <2>0 DEF HandlerInv, Distinct
  <2>3. \A f \in Fds(handled) : f = event.fd /\ pc.poller = "handle"
    BY DEF Fds
  <2>4. Fds(queued) \cap Fds(handled) = {}
    BY <2>0, <2>1, <2>3 DEF HandlerInv
  <2>5. /\ waiting \in Seq(Events) /\ Distinct(waiting)
        /\ Fds(waiting) = Fds(queued) \cup Fds(handled)
    <3> HIDE DEF queued, handled
    <3> QED  BY <2>1, <2>2, <2>4, ConcatFds
  <2>6. \A f \in Fds(waiting) : f \in Fd /\ status[f] \in ConnStatus
    BY <2>0, <2>1, <2>3, <2>5, FdsInFd DEF QueueInv, HandlerInv
  <2>7. \A f \in Fds(waiting) : kind[f] # "closed"
    BY <2>0, <2>6 DEF SlotInv, ConnKinds
  <2>8. \A i \in DOMAIN waiting : waiting[i].fd \in Fds(waiting)
    BY DEF Fds
  <2>9. /\ \A i \in DOMAIN waiting : kind[waiting[i].fd] # "closed"
        /\ \A i, j \in DOMAIN waiting : waiting[i].fd = waiting[j].fd => i = j
    BY <2>5, <2>7, <2>8 DEF Distinct
  <2> QED  BY <2>9 DEF EventsFresh
<1> QED  BY <1>1, SocketInvariant, PTL

-----------------------------------------------------------------------------
(* Every connection stays armed *)

\* What is left of a queue, and its first event.
LEMMA TailRange ==
  ASSUME NEW q \in Seq(Events), q # <<>>
  PROVE  /\ Head(q) \in Range(q) /\ Range(Tail(q)) \subseteq Range(q)
         /\ Fds(q) = Fds(Tail(q)) \cup {Head(q).fd}
<1>1. /\ Len(q) \in Nat \ {0} /\ DOMAIN q = 1..Len(q) /\ Head(q) = q[1]
      /\ DOMAIN Tail(q) = 1..(Len(q) - 1)
      /\ \A i \in 1..(Len(q) - 1) : Tail(q)[i] = q[i + 1]
  OBVIOUS
<1>2. Head(q) \in Range(q) /\ Range(Tail(q)) \subseteq Range(q)
  BY <1>1 DEF Range
<1>3. \A i \in DOMAIN q : i = 1 \/ (i - 1 \in DOMAIN Tail(q) /\ Tail(q)[i - 1] = q[i])
  BY <1>1
<1>4. Fds(q) \subseteq Fds(Tail(q)) \cup {Head(q).fd}
  BY <1>1, <1>3 DEF Fds
<1> QED  BY <1>2, <1>4, TailFds

\* A queue with one event more.
LEMMA AppendRange ==
  ASSUME NEW q \in Seq(Events), NEW e \in Events
  PROVE  Range(Append(q, e)) = Range(q) \cup {e}
<1>1. /\ Len(q) \in Nat
      /\ DOMAIN q = 1..Len(q) /\ DOMAIN Append(q, e) = 1..(Len(q) + 1)
      /\ Append(q, e)[Len(q) + 1] = e
      /\ \A i \in 1..Len(q) : Append(q, e)[i] = q[i]
  OBVIOUS
<1> QED  BY <1>1 DEF Range

\* The descriptor of a queued event is one of the queue's.
LEMMA RangeFds ==
  ASSUME NEW q
  PROVE  Fds(q) = {e.fd : e \in Range(q)}
  BY DEF Fds, Range

\* What arrives arms and disarms nothing.
LEMMA ArriveArms ==
  ASSUME NEW f \in Fd, Arrive(f), IInv, ArmInv, ConnectionsArmed
  PROVE  ArmInv' /\ ConnectionsArmed'
<1> USE DEF Status, ConnStatus, ConnKinds, NoEvent
<1>0. /\ TypeOK /\ SlotInv /\ UserInv /\ QueueInv /\ HandlerInv /\ BatchInv
      /\ IdleInv /\ SlotArmed /\ UserArmed /\ EventsArmed
  BY DEF IInv, ArmInv
<1>a. /\ \A d \in Range(acceptQueue) \cup Range(readWriteQueue) :
           d.fd \in Fds(acceptQueue) \cup Fds(readWriteQueue)
      /\ Fds(acceptQueue) \cup Fds(readWriteQueue) \subseteq Fd
      /\ 0 \notin Fd
  BY <1>0, RangeFds, FdsInFd, ServerAssumption DEF TypeOK, Fd
<1>1. IdleInv'
  BY <1>0, <1>a DEF IdleInv, TypeOK, Arrive, serverVars
<1>2. SlotArmed'
  BY <1>0, <1>a DEF SlotArmed, UserArmed, TypeOK, Arrive, serverVars
<1>3. UserArmed'
  BY <1>0, <1>a DEF UserArmed, UserInv, IdleInv, HandlerInv, TypeOK, Arrive, serverVars
<1>4. EventsArmed'
  BY <1>0, <1>a DEF EventsArmed, EventArmed, QueueInv, HandlerInv, TypeOK, Arrive, serverVars
<1>5. ASSUME NEW g \in Fd, status'[g] \in {"connected", "connecting"}
      PROVE  armed'[g] \in {"in", "inout"} \/ Pending(g)' \/ missed'[g]
  <2>1. status[g] \in {"connected", "connecting"} => armed[g] \in {"in", "inout"} \/ Pending(g) \/ missed[g]
    BY DEF ConnectionsArmed
  <2>2. Pending(g) <=> \/ \E d \in batch : d.fd = g
                       \/ g \in Fds(acceptQueue) \cup Fds(readWriteQueue)
                       \/ event.fd = g \/ sock = g
    BY RangeFds DEF Pending
  <2>3. Pending(g)' <=> \/ \E d \in batch' : d.fd = g
                        \/ g \in Fds(acceptQueue') \cup Fds(readWriteQueue')
                        \/ event'.fd = g \/ sock' = g
    BY RangeFds DEF Pending
  <2> QED  BY <1>0, <1>a, <1>5, <2>1, <2>2, <2>3
              DEF TypeOK, IdleInv, SlotArmed, UserArmed, EventsArmed, EventArmed, Arrive,
                  serverVars
<1> QED  BY <1>1, <1>2, <1>3, <1>4, <1>5 DEF ArmInv, ConnectionsArmed

\* Nor does the end of a connect.
LEMMA ConnectEndsArms ==
  ASSUME NEW f \in Fd, ConnectEnds(f), IInv, ArmInv, ConnectionsArmed
  PROVE  ArmInv' /\ ConnectionsArmed'
<1> USE DEF Status, ConnStatus, ConnKinds, NoEvent
<1>0. /\ TypeOK /\ SlotInv /\ UserInv /\ QueueInv /\ HandlerInv /\ BatchInv
      /\ IdleInv /\ SlotArmed /\ UserArmed /\ EventsArmed
  BY DEF IInv, ArmInv
<1>a. /\ \A d \in Range(acceptQueue) \cup Range(readWriteQueue) :
           d.fd \in Fds(acceptQueue) \cup Fds(readWriteQueue)
      /\ Fds(acceptQueue) \cup Fds(readWriteQueue) \subseteq Fd
      /\ 0 \notin Fd
  BY <1>0, RangeFds, FdsInFd, ServerAssumption DEF TypeOK, Fd
<1>1. IdleInv'
  BY <1>0, <1>a DEF IdleInv, TypeOK, ConnectEnds, serverVars
<1>2. SlotArmed'
  BY <1>0, <1>a DEF SlotArmed, UserArmed, TypeOK, ConnectEnds, serverVars
<1>3. UserArmed'
  BY <1>0, <1>a DEF UserArmed, UserInv, IdleInv, HandlerInv, TypeOK, ConnectEnds, serverVars
<1>4. EventsArmed'
  BY <1>0, <1>a DEF EventsArmed, EventArmed, QueueInv, HandlerInv, TypeOK, ConnectEnds, serverVars
<1>5. ASSUME NEW g \in Fd, status'[g] \in {"connected", "connecting"}
      PROVE  armed'[g] \in {"in", "inout"} \/ Pending(g)' \/ missed'[g]
  <2>1. status[g] \in {"connected", "connecting"} => armed[g] \in {"in", "inout"} \/ Pending(g) \/ missed[g]
    BY DEF ConnectionsArmed
  <2>2. Pending(g) <=> \/ \E d \in batch : d.fd = g
                       \/ g \in Fds(acceptQueue) \cup Fds(readWriteQueue)
                       \/ event.fd = g \/ sock = g
    BY RangeFds DEF Pending
  <2>3. Pending(g)' <=> \/ \E d \in batch' : d.fd = g
                        \/ g \in Fds(acceptQueue') \cup Fds(readWriteQueue')
                        \/ event'.fd = g \/ sock' = g
    BY RangeFds DEF Pending
  <2> QED  BY <1>0, <1>a, <1>5, <2>1, <2>2, <2>3
              DEF TypeOK, IdleInv, SlotArmed, UserArmed, EventsArmed, EventArmed, ConnectEnds,
                  serverVars
<1> QED  BY <1>1, <1>2, <1>3, <1>4, <1>5 DEF ArmInv, ConnectionsArmed

\* A new socket is armed.
LEMMA SetUpArms ==
  ASSUME NEW k, NEW s \in Status, SetUp(k, s), IInv, ArmInv, ConnectionsArmed
  PROVE  ArmInv' /\ ConnectionsArmed'
<1> USE DEF Status, ConnStatus, ConnKinds, NoEvent
<1>0. /\ TypeOK /\ SlotInv /\ UserInv /\ QueueInv /\ HandlerInv /\ BatchInv
      /\ IdleInv /\ SlotArmed /\ UserArmed /\ EventsArmed
  BY DEF IInv, ArmInv
<1>a. /\ \A d \in Range(acceptQueue) \cup Range(readWriteQueue) :
           d.fd \in Fds(acceptQueue) \cup Fds(readWriteQueue)
      /\ Fds(acceptQueue) \cup Fds(readWriteQueue) \subseteq Fd
      /\ 0 \notin Fd
  BY <1>0, RangeFds, FdsInFd, ServerAssumption DEF TypeOK, Fd
<1>b. NewFd \in Fd /\ kind[NewFd] = "closed"
  BY NewFdClosed DEF SetUp
<1>c. status[NewFd] = "invalid" /\ \A d \in Range(acceptQueue) \cup Range(readWriteQueue) : d.fd # NewFd
  BY <1>0, <1>a, <1>b DEF TypeOK, SlotInv, QueueInv
<1>d. pc.poller = "handle" => event.fd # NewFd
  BY <1>0, <1>b, <1>c DEF HandlerInv
<1>1. IdleInv'
  BY <1>0, <1>a, <1>b, <1>c, <1>d DEF IdleInv, TypeOK, SetUp, Goto, Open, serverVars
<1>2. SlotArmed'
  BY <1>0, <1>a, <1>b, <1>c, <1>d DEF SlotArmed, UserArmed, TypeOK, SetUp, Goto, Open, serverVars
<1>3. UserArmed'
  BY <1>0, <1>a, <1>b, <1>c, <1>d
     DEF UserArmed, UserInv, IdleInv, HandlerInv, TypeOK, SetUp, Goto, Open, serverVars
<1>4. EventsArmed'
  BY <1>0, <1>a, <1>b, <1>c, <1>d
     DEF EventsArmed, EventArmed, QueueInv, HandlerInv, TypeOK, SetUp, Goto, Open, serverVars
<1>5. ASSUME NEW g \in Fd, status'[g] \in {"connected", "connecting"}
      PROVE  armed'[g] \in {"in", "inout"} \/ Pending(g)' \/ missed'[g]
  <2>1. status[g] \in {"connected", "connecting"} => armed[g] \in {"in", "inout"} \/ Pending(g) \/ missed[g]
    BY DEF ConnectionsArmed
  <2>2. Pending(g) <=> \/ \E d \in batch : d.fd = g
                       \/ g \in Fds(acceptQueue) \cup Fds(readWriteQueue)
                       \/ event.fd = g \/ sock = g
    BY RangeFds DEF Pending
  <2>3. Pending(g)' <=> \/ \E d \in batch' : d.fd = g
                        \/ g \in Fds(acceptQueue') \cup Fds(readWriteQueue')
                        \/ event'.fd = g \/ sock' = g
    BY RangeFds DEF Pending
  <2> QED  BY <1>0, <1>a, <1>b, <1>c, <1>d, <1>5, <2>1, <2>2, <2>3
              DEF TypeOK, IdleInv, SlotArmed, UserArmed, EventsArmed, EventArmed, SetUp, Goto,
                  Open, serverVars
<1> QED  BY <1>1, <1>2, <1>3, <1>4, <1>5 DEF ArmInv, ConnectionsArmed

\* The slot gets a status only while epoll still knows its socket, or has dropped an event of it.
LEMMA SetStatusArms ==
  ASSUME SetStatus, IInv, ArmInv, ConnectionsArmed
  PROVE  ArmInv' /\ ConnectionsArmed'
<1> USE DEF Status, ConnStatus, ConnKinds, NoEvent
<1>0. /\ TypeOK /\ SlotInv /\ UserInv /\ QueueInv /\ HandlerInv /\ BatchInv
      /\ IdleInv /\ SlotArmed /\ UserArmed /\ EventsArmed
  BY DEF IInv, ArmInv
<1>a. /\ \A d \in Range(acceptQueue) \cup Range(readWriteQueue) :
           d.fd \in Fds(acceptQueue) \cup Fds(readWriteQueue)
      /\ Fds(acceptQueue) \cup Fds(readWriteQueue) \subseteq Fd
      /\ 0 \notin Fd
  BY <1>0, RangeFds, FdsInFd, ServerAssumption DEF TypeOK, Fd
<1>1. IdleInv'
  BY <1>0, <1>a DEF IdleInv, TypeOK, SetStatus, kernelVars
<1>2. SlotArmed'
  BY <1>0, <1>a DEF SlotArmed, UserArmed, TypeOK, SetStatus, kernelVars
<1>3. UserArmed'
  BY <1>0, <1>a DEF UserArmed, UserInv, IdleInv, HandlerInv, TypeOK, SetStatus, kernelVars
<1>4. EventsArmed'
  BY <1>0, <1>a DEF EventsArmed, EventArmed, QueueInv, HandlerInv, TypeOK, SetStatus, kernelVars
<1>5. ASSUME NEW g \in Fd, status'[g] \in {"connected", "connecting"}
      PROVE  armed'[g] \in {"in", "inout"} \/ Pending(g)' \/ missed'[g]
  <2>1. status[g] \in {"connected", "connecting"} => armed[g] \in {"in", "inout"} \/ Pending(g) \/ missed[g]
    BY DEF ConnectionsArmed
  <2>2. Pending(g) <=> \/ \E d \in batch : d.fd = g
                       \/ g \in Fds(acceptQueue) \cup Fds(readWriteQueue)
                       \/ event.fd = g \/ sock = g
    BY RangeFds DEF Pending
  <2>3. Pending(g)' <=> \/ \E d \in batch' : d.fd = g
                        \/ g \in Fds(acceptQueue') \cup Fds(readWriteQueue')
                        \/ event'.fd = g \/ sock' = g
    BY RangeFds DEF Pending
  <2> QED  BY <1>0, <1>a, <1>5, <2>1, <2>2, <2>3
              DEF TypeOK, IdleInv, SlotArmed, UserArmed, EventsArmed, EventArmed, SetStatus,
                  kernelVars
<1> QED  BY <1>1, <1>2, <1>3, <1>4, <1>5 DEF ArmInv, ConnectionsArmed

\* A connect under way is armed whatever has become of it.
LEMMA ArmConnectArms ==
  ASSUME ArmConnect, IInv, ArmInv, ConnectionsArmed
  PROVE  ArmInv' /\ ConnectionsArmed'
<1> USE DEF Status, ConnStatus, ConnKinds, NoEvent
<1>0. /\ TypeOK /\ SlotInv /\ UserInv /\ QueueInv /\ HandlerInv /\ BatchInv
      /\ IdleInv /\ SlotArmed /\ UserArmed /\ EventsArmed
  BY DEF IInv, ArmInv
<1>a. /\ \A d \in Range(acceptQueue) \cup Range(readWriteQueue) :
           d.fd \in Fds(acceptQueue) \cup Fds(readWriteQueue)
      /\ Fds(acceptQueue) \cup Fds(readWriteQueue) \subseteq Fd
      /\ 0 \notin Fd
  BY <1>0, RangeFds, FdsInFd, ServerAssumption DEF TypeOK, Fd
<1>1. IdleInv'
  BY <1>0, <1>a DEF IdleInv, TypeOK, ArmConnect, Goto, Arm, serverVars
<1>2. SlotArmed'
  BY <1>0, <1>a DEF SlotArmed, UserArmed, TypeOK, ArmConnect, Goto, Arm, serverVars
<1>3. UserArmed'
  BY <1>0, <1>a
     DEF UserArmed, UserInv, IdleInv, HandlerInv, TypeOK, ArmConnect, Goto, Arm, serverVars
<1>4. EventsArmed'
  BY <1>0, <1>a
     DEF EventsArmed, EventArmed, QueueInv, HandlerInv, TypeOK, ArmConnect, Goto, Arm, serverVars
<1>5. ASSUME NEW g \in Fd, status'[g] \in {"connected", "connecting"}
      PROVE  armed'[g] \in {"in", "inout"} \/ Pending(g)' \/ missed'[g]
  <2>1. status[g] \in {"connected", "connecting"} => armed[g] \in {"in", "inout"} \/ Pending(g) \/ missed[g]
    BY DEF ConnectionsArmed
  <2>2. Pending(g) <=> \/ \E d \in batch : d.fd = g
                       \/ g \in Fds(acceptQueue) \cup Fds(readWriteQueue)
                       \/ event.fd = g \/ sock = g
    BY RangeFds DEF Pending
  <2>3. Pending(g)' <=> \/ \E d \in batch' : d.fd = g
                        \/ g \in Fds(acceptQueue') \cup Fds(readWriteQueue')
                        \/ event'.fd = g \/ sock' = g
    BY RangeFds DEF Pending
  <2> QED  BY <1>0, <1>a, <1>5, <2>1, <2>2, <2>3
              DEF TypeOK, IdleInv, SlotArmed, UserArmed, EventsArmed, EventArmed, ArmConnect,
                  Goto, Arm, serverVars
<1> QED  BY <1>1, <1>2, <1>3, <1>4, <1>5 DEF ArmInv, ConnectionsArmed

\* Sending arms the socket.
LEMMA UserSendsArms ==
  ASSUME NEW f \in Fd, UserSends(f), IInv, ArmInv, ConnectionsArmed
  PROVE  ArmInv' /\ ConnectionsArmed'
<1> USE DEF Status, ConnStatus, ConnKinds, NoEvent
<1>0. /\ TypeOK /\ SlotInv /\ UserInv /\ QueueInv /\ HandlerInv /\ BatchInv
      /\ IdleInv /\ SlotArmed /\ UserArmed /\ EventsArmed
  BY DEF IInv, ArmInv
<1>a. /\ \A d \in Range(acceptQueue) \cup Range(readWriteQueue) :
           d.fd \in Fds(acceptQueue) \cup Fds(readWriteQueue)
      /\ Fds(acceptQueue) \cup Fds(readWriteQueue) \subseteq Fd
      /\ 0 \notin Fd
  BY <1>0, RangeFds, FdsInFd, ServerAssumption DEF TypeOK, Fd
<1>1. IdleInv'
  BY <1>0, <1>a DEF IdleInv, TypeOK, UserSends, SendBuffer, Arm, serverVars
<1>2. SlotArmed'
  BY <1>0, <1>a DEF SlotArmed, UserArmed, TypeOK, UserSends, SendBuffer, Arm, serverVars
<1>3. UserArmed'
  BY <1>0, <1>a
     DEF UserArmed, UserInv, IdleInv, HandlerInv, TypeOK, UserSends, SendBuffer, Arm, serverVars
<1>4. EventsArmed'
  <2>1. \A g \in Fd : armed'[g] = armed[g] \/ armed'[g] \in {"in", "inout"}
    BY <1>0 DEF TypeOK, UserSends, SendBuffer, Arm
  <2>2. UNCHANGED <<acceptQueue, readWriteQueue, event, pc>>
    BY DEF UserSends, serverVars
  <2>3. pc.poller = "handle" => event.fd \in Fd
    BY <1>0 DEF HandlerInv, Events
  <2> QED  BY <1>0, <1>a, <2>1, <2>2, <2>3 DEF EventsArmed, EventArmed
<1>5. ASSUME NEW g \in Fd, status'[g] \in {"connected", "connecting"}
      PROVE  armed'[g] \in {"in", "inout"} \/ Pending(g)' \/ missed'[g]
  <2>1. status[g] \in {"connected", "connecting"} => armed[g] \in {"in", "inout"} \/ Pending(g) \/ missed[g]
    BY DEF ConnectionsArmed
  <2>2. Pending(g) <=> \/ \E d \in batch : d.fd = g
                       \/ g \in Fds(acceptQueue) \cup Fds(readWriteQueue)
                       \/ event.fd = g \/ sock = g
    BY RangeFds DEF Pending
  <2>3. Pending(g)' <=> \/ \E d \in batch' : d.fd = g
                        \/ g \in Fds(acceptQueue') \cup Fds(readWriteQueue')
                        \/ event'.fd = g \/ sock' = g
    BY RangeFds DEF Pending
  <2> QED  BY <1>0, <1>a, <1>5, <2>1, <2>2, <2>3
              DEF TypeOK, IdleInv, SlotArmed, UserArmed, EventsArmed, EventArmed, UserSends,
                  SendBuffer, Arm, serverVars
<1> QED  BY <1>1, <1>2, <1>3, <1>4, <1>5 DEF ArmInv, ConnectionsArmed

\* Only a listening socket is taken out of epoll.
LEMMA UnwatchSocketArms ==
  ASSUME NEW f \in Fd, UnwatchSocket(f), IInv, ArmInv, ConnectionsArmed
  PROVE  ArmInv' /\ ConnectionsArmed'
<1> USE DEF Status, ConnStatus, ConnKinds, NoEvent
<1>0. /\ TypeOK /\ SlotInv /\ UserInv /\ QueueInv /\ HandlerInv /\ BatchInv
      /\ IdleInv /\ SlotArmed /\ UserArmed /\ EventsArmed
  BY DEF IInv, ArmInv
<1>a. /\ \A d \in Range(acceptQueue) \cup Range(readWriteQueue) :
           d.fd \in Fds(acceptQueue) \cup Fds(readWriteQueue)
      /\ Fds(acceptQueue) \cup Fds(readWriteQueue) \subseteq Fd
      /\ 0 \notin Fd
  BY <1>0, RangeFds, FdsInFd, ServerAssumption DEF TypeOK, Fd
<1>1. IdleInv'
  BY <1>0, <1>a DEF IdleInv, TypeOK, UnwatchSocket
<1>2. SlotArmed'
  BY <1>0, <1>a DEF SlotArmed, UserArmed, TypeOK, UnwatchSocket
<1>3. UserArmed'
  BY <1>0, <1>a DEF UserArmed, UserInv, IdleInv, HandlerInv, TypeOK, UnwatchSocket
<1>4. EventsArmed'
  BY <1>0, <1>a DEF EventsArmed, EventArmed, QueueInv, HandlerInv, TypeOK, UnwatchSocket
<1>5. ASSUME NEW g \in Fd, status'[g] \in {"connected", "connecting"}
      PROVE  armed'[g] \in {"in", "inout"} \/ Pending(g)' \/ missed'[g]
  <2>1. status[g] \in {"connected", "connecting"} => armed[g] \in {"in", "inout"} \/ Pending(g) \/ missed[g]
    BY DEF ConnectionsArmed
  <2>2. Pending(g) <=> \/ \E d \in batch : d.fd = g
                       \/ g \in Fds(acceptQueue) \cup Fds(readWriteQueue)
                       \/ event.fd = g \/ sock = g
    BY RangeFds DEF Pending
  <2>3. Pending(g)' <=> \/ \E d \in batch' : d.fd = g
                        \/ g \in Fds(acceptQueue') \cup Fds(readWriteQueue')
                        \/ event'.fd = g \/ sock' = g
    BY RangeFds DEF Pending
  <2> QED  BY <1>0, <1>a, <1>5, <2>1, <2>2, <2>3
              DEF TypeOK, IdleInv, SlotArmed, UserArmed, EventsArmed, EventArmed, UnwatchSocket
<1> QED  BY <1>1, <1>2, <1>3, <1>4, <1>5 DEF ArmInv, ConnectionsArmed

\* A listening socket is armed again.
LEMMA WatchSocketArms ==
  ASSUME NEW f \in Fd, WatchSocket(f), IInv, ArmInv, ConnectionsArmed
  PROVE  ArmInv' /\ ConnectionsArmed'
<1> USE DEF Status, ConnStatus, ConnKinds, NoEvent
<1>0. /\ TypeOK /\ SlotInv /\ UserInv /\ QueueInv /\ HandlerInv /\ BatchInv
      /\ IdleInv /\ SlotArmed /\ UserArmed /\ EventsArmed
  BY DEF IInv, ArmInv
<1>a. /\ \A d \in Range(acceptQueue) \cup Range(readWriteQueue) :
           d.fd \in Fds(acceptQueue) \cup Fds(readWriteQueue)
      /\ Fds(acceptQueue) \cup Fds(readWriteQueue) \subseteq Fd
      /\ 0 \notin Fd
  BY <1>0, RangeFds, FdsInFd, ServerAssumption DEF TypeOK, Fd
<1>1. IdleInv'
  BY <1>0, <1>a DEF IdleInv, TypeOK, WatchSocket, Goto, serverVars
<1>2. SlotArmed'
  BY <1>0, <1>a DEF SlotArmed, UserArmed, TypeOK, WatchSocket, Goto, serverVars
<1>3. UserArmed'
  BY <1>0, <1>a DEF UserArmed, UserInv, IdleInv, HandlerInv, TypeOK, WatchSocket, Goto, serverVars
<1>4. EventsArmed'
  BY <1>0, <1>a
     DEF EventsArmed, EventArmed, QueueInv, HandlerInv, TypeOK, WatchSocket, Goto, serverVars
<1>5. ASSUME NEW g \in Fd, status'[g] \in {"connected", "connecting"}
      PROVE  armed'[g] \in {"in", "inout"} \/ Pending(g)' \/ missed'[g]
  <2>1. status[g] \in {"connected", "connecting"} => armed[g] \in {"in", "inout"} \/ Pending(g) \/ missed[g]
    BY DEF ConnectionsArmed
  <2>2. Pending(g) <=> \/ \E d \in batch : d.fd = g
                       \/ g \in Fds(acceptQueue) \cup Fds(readWriteQueue)
                       \/ event.fd = g \/ sock = g
    BY RangeFds DEF Pending
  <2>3. Pending(g)' <=> \/ \E d \in batch' : d.fd = g
                        \/ g \in Fds(acceptQueue') \cup Fds(readWriteQueue')
                        \/ event'.fd = g \/ sock' = g
    BY RangeFds DEF Pending
  <2> QED  BY <1>0, <1>a, <1>5, <2>1, <2>2, <2>3
              DEF TypeOK, IdleInv, SlotArmed, UserArmed, EventsArmed, EventArmed, WatchSocket,
                  Goto, serverVars
<1> QED  BY <1>1, <1>2, <1>3, <1>4, <1>5 DEF ArmInv, ConnectionsArmed

\* The event that is handled next stays pending.
LEMMA ReturnAcceptArms ==
  ASSUME ReturnAccept, IInv, ArmInv, ConnectionsArmed
  PROVE  ArmInv' /\ ConnectionsArmed'
<1> USE DEF Status, ConnStatus, ConnKinds, NoEvent
<1>0. /\ TypeOK /\ SlotInv /\ UserInv /\ QueueInv /\ HandlerInv /\ BatchInv
      /\ IdleInv /\ SlotArmed /\ UserArmed /\ EventsArmed
  BY DEF IInv, ArmInv
<1>a. /\ \A d \in Range(acceptQueue) \cup Range(readWriteQueue) :
           d.fd \in Fds(acceptQueue) \cup Fds(readWriteQueue)
      /\ Fds(acceptQueue) \cup Fds(readWriteQueue) \subseteq Fd
      /\ 0 \notin Fd
  BY <1>0, RangeFds, FdsInFd, ServerAssumption DEF TypeOK, Fd
<1>b. /\ Head(acceptQueue) \in Range(acceptQueue) /\ Range(acceptQueue') \subseteq Range(acceptQueue)
      /\ Fds(acceptQueue) = Fds(acceptQueue') \cup {Head(acceptQueue).fd}
  BY <1>0, TailRange DEF TypeOK, ReturnAccept
<1>1. IdleInv'
  BY <1>0, <1>a, <1>b DEF IdleInv, TypeOK, ReturnAccept, Take, Goto, kernelVars
<1>2. SlotArmed'
  BY <1>0, <1>a, <1>b DEF SlotArmed, UserArmed, TypeOK, ReturnAccept, Take, Goto, kernelVars
<1>3. UserArmed'
  BY <1>0, <1>a, <1>b
     DEF UserArmed, UserInv, IdleInv, HandlerInv, TypeOK, ReturnAccept, Take, Goto, kernelVars
<1>4. EventsArmed'
  BY <1>0, <1>a, <1>b
     DEF EventsArmed, EventArmed, QueueInv, HandlerInv, TypeOK, ReturnAccept, Take, Goto,
         kernelVars
<1>5. ASSUME NEW g \in Fd, status'[g] \in {"connected", "connecting"}
      PROVE  armed'[g] \in {"in", "inout"} \/ Pending(g)' \/ missed'[g]
  <2>1. status[g] \in {"connected", "connecting"} => armed[g] \in {"in", "inout"} \/ Pending(g) \/ missed[g]
    BY DEF ConnectionsArmed
  <2>2. Pending(g) <=> \/ \E d \in batch : d.fd = g
                       \/ g \in Fds(acceptQueue) \cup Fds(readWriteQueue)
                       \/ event.fd = g \/ sock = g
    BY RangeFds DEF Pending
  <2>3. Pending(g)' <=> \/ \E d \in batch' : d.fd = g
                        \/ g \in Fds(acceptQueue') \cup Fds(readWriteQueue')
                        \/ event'.fd = g \/ sock' = g
    BY RangeFds DEF Pending
  <2> QED  BY <1>0, <1>a, <1>b, <1>5, <2>1, <2>2, <2>3
              DEF TypeOK, IdleInv, SlotArmed, UserArmed, EventsArmed, EventArmed, ReturnAccept,
                  Take, Goto, kernelVars
<1> QED  BY <1>1, <1>2, <1>3, <1>4, <1>5 DEF ArmInv, ConnectionsArmed

\* So it does when it comes from the other queue.
LEMMA ReturnReadWriteArms ==
  ASSUME ReturnReadWrite, IInv, ArmInv, ConnectionsArmed
  PROVE  ArmInv' /\ ConnectionsArmed'
<1> USE DEF Status, ConnStatus, ConnKinds, NoEvent
<1>0. /\ TypeOK /\ SlotInv /\ UserInv /\ QueueInv /\ HandlerInv /\ BatchInv
      /\ IdleInv /\ SlotArmed /\ UserArmed /\ EventsArmed
  BY DEF IInv, ArmInv
<1>a. /\ \A d \in Range(acceptQueue) \cup Range(readWriteQueue) :
           d.fd \in Fds(acceptQueue) \cup Fds(readWriteQueue)
      /\ Fds(acceptQueue) \cup Fds(readWriteQueue) \subseteq Fd
      /\ 0 \notin Fd
  BY <1>0, RangeFds, FdsInFd, ServerAssumption DEF TypeOK, Fd
<1>b. /\ Head(readWriteQueue) \in Range(readWriteQueue)
      /\ Range(readWriteQueue') \subseteq Range(readWriteQueue)
      /\ Fds(readWriteQueue) = Fds(readWriteQueue') \cup {Head(readWriteQueue).fd}
  BY <1>0, TailRange DEF TypeOK, ReturnReadWrite
<1>1. IdleInv'
  BY <1>0, <1>a, <1>b DEF IdleInv, TypeOK, ReturnReadWrite, Take, Goto, kernelVars
<1>2. SlotArmed'
  BY <1>0, <1>a, <1>b DEF SlotArmed, UserArmed, TypeOK, ReturnReadWrite, Take, Goto, kernelVars
<1>3. UserArmed'
  BY <1>0, <1>a, <1>b
     DEF UserArmed, UserInv, IdleInv, HandlerInv, TypeOK, ReturnReadWrite, Take, Goto, kernelVars
<1>4. EventsArmed'
  BY <1>0, <1>a, <1>b
     DEF EventsArmed, EventArmed, QueueInv, HandlerInv, TypeOK, ReturnReadWrite, Take, Goto,
         kernelVars
<1>5. ASSUME NEW g \in Fd, status'[g] \in {"connected", "connecting"}
      PROVE  armed'[g] \in {"in", "inout"} \/ Pending(g)' \/ missed'[g]
  <2>1. status[g] \in {"connected", "connecting"} => armed[g] \in {"in", "inout"} \/ Pending(g) \/ missed[g]
    BY DEF ConnectionsArmed
  <2>2. Pending(g) <=> \/ \E d \in batch : d.fd = g
                       \/ g \in Fds(acceptQueue) \cup Fds(readWriteQueue)
                       \/ event.fd = g \/ sock = g
    BY RangeFds DEF Pending
  <2>3. Pending(g)' <=> \/ \E d \in batch' : d.fd = g
                        \/ g \in Fds(acceptQueue') \cup Fds(readWriteQueue')
                        \/ event'.fd = g \/ sock' = g
    BY RangeFds DEF Pending
  <2> QED  BY <1>0, <1>a, <1>b, <1>5, <2>1, <2>2, <2>3
              DEF TypeOK, IdleInv, SlotArmed, UserArmed, EventsArmed, EventArmed, ReturnReadWrite,
                  Take, Goto, kernelVars
<1> QED  BY <1>1, <1>2, <1>3, <1>4, <1>5 DEF ArmInv, ConnectionsArmed

\* What epoll_wait disarms is in the batch; no event is queued.
LEMMA WaitPollerArms ==
  ASSUME WaitPollerIfNecessary, IInv, ArmInv, ConnectionsArmed
  PROVE  ArmInv' /\ ConnectionsArmed'
<1> USE DEF Status, ConnStatus, ConnKinds, NoEvent
<1>0. /\ TypeOK /\ SlotInv /\ UserInv /\ QueueInv /\ HandlerInv /\ BatchInv
      /\ IdleInv /\ SlotArmed /\ UserArmed /\ EventsArmed
  BY DEF IInv, ArmInv
<1>a. /\ \A d \in Range(acceptQueue) \cup Range(readWriteQueue) :
           d.fd \in Fds(acceptQueue) \cup Fds(readWriteQueue)
      /\ Fds(acceptQueue) \cup Fds(readWriteQueue) \subseteq Fd
      /\ 0 \notin Fd
  BY <1>0, RangeFds, FdsInFd, ServerAssumption DEF TypeOK, Fd
<1>b. Range(acceptQueue) = {} /\ Range(readWriteQueue) = {} /\ Fds(acceptQueue) = {} /\ Fds(readWriteQueue) = {}
  BY DEF WaitPollerIfNecessary, Range, Fds
<1>c. \A f \in Fd : \/ armed'[f] = armed[f]
                    \/ /\ armed'[f] = "off" /\ \E e \in batch' : e.fd = f
                       /\ armed[f] \in {"in", "inout"}
  BY DEF WaitPollerIfNecessary, Ready, ReadReady, WriteReady
<1>d. batch = {}
  BY <1>0 DEF BatchInv, WaitPollerIfNecessary, Goto
<1>1. IdleInv'
  BY <1>0, <1>a, <1>b, <1>c, <1>d DEF IdleInv, TypeOK, WaitPollerIfNecessary, Goto
<1>2. SlotArmed'
  BY <1>0, <1>a, <1>b, <1>c, <1>d DEF SlotArmed, UserArmed, TypeOK, WaitPollerIfNecessary, Goto
<1>3. UserArmed'
  BY <1>0, <1>a, <1>b, <1>c, <1>d
     DEF UserArmed, UserInv, IdleInv, HandlerInv, TypeOK, WaitPollerIfNecessary, Goto
<1>4. EventsArmed'
  BY <1>0, <1>a, <1>b, <1>c, <1>d
     DEF EventsArmed, EventArmed, QueueInv, HandlerInv, TypeOK, WaitPollerIfNecessary, Goto
<1>5. ASSUME NEW g \in Fd, status'[g] \in {"connected", "connecting"}
      PROVE  armed'[g] \in {"in", "inout"} \/ Pending(g)' \/ missed'[g]
  <2>1. status[g] \in {"connected", "connecting"} => armed[g] \in {"in", "inout"} \/ Pending(g) \/ missed[g]
    BY DEF ConnectionsArmed
  <2>2. Pending(g) <=> \/ \E d \in batch : d.fd = g
                       \/ g \in Fds(acceptQueue) \cup Fds(readWriteQueue)
                       \/ event.fd = g \/ sock = g
    BY RangeFds DEF Pending
  <2>3. Pending(g)' <=> \/ \E d \in batch' : d.fd = g
                        \/ g \in Fds(acceptQueue') \cup Fds(readWriteQueue')
                        \/ event'.fd = g \/ sock' = g
    BY RangeFds DEF Pending
  <2> QED  BY <1>0, <1>a, <1>b, <1>c, <1>d, <1>5, <2>1, <2>2, <2>3
              DEF TypeOK, IdleInv, SlotArmed, UserArmed, EventsArmed, EventArmed,
                  WaitPollerIfNecessary, Goto
<1> QED  BY <1>1, <1>2, <1>3, <1>4, <1>5 DEF ArmInv, ConnectionsArmed

\* The end of a connect arms the socket and is queued.
LEMMA ConnectDoneArms ==
  ASSUME NEW e, ConnectDone(e), IInv, ArmInv, ConnectionsArmed
  PROVE  ArmInv' /\ ConnectionsArmed'
<1> USE DEF Status, ConnStatus, ConnKinds, NoEvent
<1>0. /\ TypeOK /\ SlotInv /\ UserInv /\ QueueInv /\ HandlerInv /\ BatchInv
      /\ IdleInv /\ SlotArmed /\ UserArmed /\ EventsArmed
  BY DEF IInv, ArmInv
<1>a. /\ \A d \in Range(acceptQueue) \cup Range(readWriteQueue) :
           d.fd \in Fds(acceptQueue) \cup Fds(readWriteQueue)
      /\ Fds(acceptQueue) \cup Fds(readWriteQueue) \subseteq Fd
      /\ 0 \notin Fd
  BY <1>0, RangeFds, FdsInFd, ServerAssumption DEF TypeOK, Fd
<1>b. /\ e \in batch /\ batch' = batch \ {e} /\ e.fd \in Fd
      /\ \A d \in batch : d.fd \in Fd /\ (d \in batch' \/ d.fd = e.fd)
      /\ e.fd \notin Fds(acceptQueue) \cup Fds(readWriteQueue)
  BY <1>0 DEF TypeOK, BatchInv, PollEvents, NextInBatch, ConnectDone
<1>c. PICK c \in {"connected", "failed"} :
        /\ readWriteQueue' = Append(readWriteQueue, [code |-> c, fd |-> e.fd])
        /\ c = "connected" <=> kind[e.fd] = "conn"
  BY DEF ConnectDone, Queue
<1>d. /\ Range(readWriteQueue') = Range(readWriteQueue) \cup {[code |-> c, fd |-> e.fd]}
      /\ Fds(readWriteQueue') = Fds(readWriteQueue) \cup {e.fd}
  <2>1. [code |-> c, fd |-> e.fd] \in Events /\ [code |-> c, fd |-> e.fd].fd = e.fd
    BY <1>b DEF Events
  <2> QED  BY <1>0, <1>c, <2>1, AppendFds, AppendRange DEF TypeOK
<1>1. IdleInv'
  BY <1>0, <1>a, <1>b, <1>c, <1>d DEF IdleInv, TypeOK, ConnectDone, NextInBatch, Arm
<1>2. SlotArmed'
  BY <1>0, <1>a, <1>b, <1>c, <1>d DEF SlotArmed, UserArmed, TypeOK, ConnectDone, NextInBatch, Arm
<1>3. UserArmed'
  BY <1>0, <1>a, <1>b, <1>c, <1>d
     DEF UserArmed, UserInv, IdleInv, HandlerInv, TypeOK, ConnectDone, NextInBatch, Arm
<1>4. EventsArmed'
  <2>1. \A g \in Fd : g # e.fd => armed'[g] = armed[g]
    BY <1>0 DEF TypeOK, ConnectDone, Arm
  <2>2. c = "connected" => armed'[e.fd] = "in"
    BY <1>0, <1>b, <1>c DEF TypeOK, SlotArmed, ConnectDone, Arm
  <2>3. acceptQueue' = acceptQueue /\ pc'.poller # "handle"
    BY <1>0 DEF TypeOK, ConnectDone, NextInBatch
  <2> QED  BY <1>0, <1>a, <1>b, <1>d, <2>1, <2>2, <2>3 DEF EventsArmed, EventArmed
<1>5. ASSUME NEW g \in Fd, status'[g] \in {"connected", "connecting"}
      PROVE  armed'[g] \in {"in", "inout"} \/ Pending(g)' \/ missed'[g]
  <2>1. status[g] \in {"connected", "connecting"} => armed[g] \in {"in", "inout"} \/ Pending(g) \/ missed[g]
    BY DEF ConnectionsArmed
  <2>2. Pending(g) <=> \/ \E d \in batch : d.fd = g
                       \/ g \in Fds(acceptQueue) \cup Fds(readWriteQueue)
                       \/ event.fd = g \/ sock = g
    BY RangeFds DEF Pending
  <2>3. Pending(g)' <=> \/ \E d \in batch' : d.fd = g
                        \/ g \in Fds(acceptQueue') \cup Fds(readWriteQueue')
                        \/ event'.fd = g \/ sock' = g
    BY RangeFds DEF Pending
  <2> QED  BY <1>0, <1>a, <1>b, <1>c, <1>d, <1>5, <2>1, <2>2, <2>3
              DEF TypeOK, IdleInv, SlotArmed, UserArmed, EventsArmed, EventArmed, ConnectDone,
                  NextInBatch, Arm
<1> QED  BY <1>1, <1>2, <1>3, <1>4, <1>5 DEF ArmInv, ConnectionsArmed

\* An event of the batch is queued.
LEMMA ReadWriteReadyArms ==
  ASSUME NEW e, ReadWriteReady(e), IInv, ArmInv, ConnectionsArmed
  PROVE  ArmInv' /\ ConnectionsArmed'
<1> USE DEF Status, ConnStatus, ConnKinds, NoEvent
<1>0. /\ TypeOK /\ SlotInv /\ UserInv /\ QueueInv /\ HandlerInv /\ BatchInv
      /\ IdleInv /\ SlotArmed /\ UserArmed /\ EventsArmed
  BY DEF IInv, ArmInv
<1>a. /\ \A d \in Range(acceptQueue) \cup Range(readWriteQueue) :
           d.fd \in Fds(acceptQueue) \cup Fds(readWriteQueue)
      /\ Fds(acceptQueue) \cup Fds(readWriteQueue) \subseteq Fd
      /\ 0 \notin Fd
  BY <1>0, RangeFds, FdsInFd, ServerAssumption DEF TypeOK, Fd
<1>b. /\ e \in batch /\ batch' = batch \ {e} /\ e.fd \in Fd
      /\ \A d \in batch : d.fd \in Fd /\ (d \in batch' \/ d.fd = e.fd)
      /\ e.fd \notin Fds(acceptQueue) \cup Fds(readWriteQueue)
  BY <1>0 DEF TypeOK, BatchInv, PollEvents, NextInBatch, ReadWriteReady
<1>c. PICK c \in {"read", "write"} :
        /\ readWriteQueue' = Append(readWriteQueue, [code |-> c, fd |-> e.fd])
  BY DEF ReadWriteReady, Queue
<1>d. /\ Range(readWriteQueue') = Range(readWriteQueue) \cup {[code |-> c, fd |-> e.fd]}
      /\ Fds(readWriteQueue') = Fds(readWriteQueue) \cup {e.fd}
  <2>1. [code |-> c, fd |-> e.fd] \in Events /\ [code |-> c, fd |-> e.fd].fd = e.fd
    BY <1>b DEF Events
  <2> QED  BY <1>0, <1>c, <2>1, AppendFds, AppendRange DEF TypeOK
<1>1. IdleInv'
  BY <1>0, <1>a, <1>b, <1>c, <1>d DEF IdleInv, TypeOK, ReadWriteReady, NextInBatch, kernelVars
<1>2. SlotArmed'
  BY <1>0, <1>a, <1>b, <1>c, <1>d
     DEF SlotArmed, UserArmed, TypeOK, ReadWriteReady, NextInBatch, kernelVars
<1>3. UserArmed'
  BY <1>0, <1>a, <1>b, <1>c, <1>d
     DEF UserArmed, UserInv, IdleInv, HandlerInv, TypeOK, ReadWriteReady, NextInBatch, kernelVars
<1>4. EventsArmed'
  BY <1>0, <1>a, <1>b, <1>c, <1>d
     DEF EventsArmed, EventArmed, QueueInv, HandlerInv, TypeOK, ReadWriteReady, NextInBatch,
         kernelVars
<1>5. ASSUME NEW g \in Fd, status'[g] \in {"connected", "connecting"}
      PROVE  armed'[g] \in {"in", "inout"} \/ Pending(g)' \/ missed'[g]
  <2>1. status[g] \in {"connected", "connecting"} => armed[g] \in {"in", "inout"} \/ Pending(g) \/ missed[g]
    BY DEF ConnectionsArmed
  <2>2. Pending(g) <=> \/ \E d \in batch : d.fd = g
                       \/ g \in Fds(acceptQueue) \cup Fds(readWriteQueue)
                       \/ event.fd = g \/ sock = g
    BY RangeFds DEF Pending
  <2>3. Pending(g)' <=> \/ \E d \in batch' : d.fd = g
                        \/ g \in Fds(acceptQueue') \cup Fds(readWriteQueue')
                        \/ event'.fd = g \/ sock' = g
    BY RangeFds DEF Pending
  <2> QED  BY <1>0, <1>a, <1>b, <1>c, <1>d, <1>5, <2>1, <2>2, <2>3
              DEF TypeOK, IdleInv, SlotArmed, UserArmed, EventsArmed, EventArmed, ReadWriteReady,
                  NextInBatch, kernelVars
<1> QED  BY <1>1, <1>2, <1>3, <1>4, <1>5 DEF ArmInv, ConnectionsArmed

\* An accepted connection is armed or its event is queued.
LEMMA AcceptReadyArms ==
  ASSUME NEW e, AcceptReady(e), IInv, ArmInv, ConnectionsArmed
  PROVE  ArmInv' /\ ConnectionsArmed'
<1> USE DEF Status, ConnStatus, ConnKinds, NoEvent
<1>0. /\ TypeOK /\ SlotInv /\ UserInv /\ QueueInv /\ HandlerInv /\ BatchInv
      /\ IdleInv /\ SlotArmed /\ UserArmed /\ EventsArmed
  BY DEF IInv, ArmInv
<1>a. /\ \A d \in Range(acceptQueue) \cup Range(readWriteQueue) :
           d.fd \in Fds(acceptQueue) \cup Fds(readWriteQueue)
      /\ Fds(acceptQueue) \cup Fds(readWriteQueue) \subseteq Fd
      /\ 0 \notin Fd
  BY <1>0, RangeFds, FdsInFd, ServerAssumption DEF TypeOK, Fd
<1>b. /\ e \in batch /\ batch' = batch \ {e} /\ e.fd \in Fd
      /\ \A d \in batch : d.fd \in Fd /\ (d \in batch' \/ d.fd = e.fd)
      /\ e.fd \notin Fds(acceptQueue) \cup Fds(readWriteQueue)
  BY <1>0 DEF TypeOK, BatchInv, PollEvents, NextInBatch, AcceptReady
<1> DEFINE n == NewFd
           new == [code |-> "accepted", fd |-> n]
<1>c. ASSUME CanOpen
      PROVE  /\ n \in Fd /\ status[n] = "invalid" /\ n \notin Fds(acceptQueue) \cup Fds(readWriteQueue)
             /\ \A d \in Range(acceptQueue) \cup Range(readWriteQueue) : d.fd # n
             /\ Range(Append(acceptQueue, new)) = Range(acceptQueue) \cup {new}
             /\ Fds(Append(acceptQueue, new)) = Fds(acceptQueue) \cup {n}
             /\ pc.user \in Status => sock # n
  <2>1. n \in Fd /\ kind[n] = "closed"
    BY <1>c, NewFdClosed
  <2>2. /\ status[n] = "invalid" /\ n \notin Fds(acceptQueue) \cup Fds(readWriteQueue)
        /\ \A d \in Range(acceptQueue) \cup Range(readWriteQueue) : d.fd # n
        /\ pc.user \in Status => sock # n
    BY <1>0, <1>a, <2>1 DEF TypeOK, SlotInv, QueueInv, UserInv
  <2>3. new \in Events /\ new.fd = n
    BY <2>1 DEF Events
  <2> HIDE DEF n, new
  <2> QED  BY <1>0, <2>1, <2>2, <2>3, AppendFds, AppendRange DEF TypeOK
<1>1. IdleInv'
  BY <1>0, <1>a, <1>b, <1>c DEF IdleInv, TypeOK, AcceptReady, NextInBatch
<1>2. SlotArmed'
  BY <1>0, <1>a, <1>b, <1>c DEF SlotArmed, UserArmed, TypeOK, AcceptReady, NextInBatch
<1>3. UserArmed'
  BY <1>0, <1>a, <1>b, <1>c
     DEF UserArmed, UserInv, IdleInv, HandlerInv, TypeOK, AcceptReady, NextInBatch
<1>d. readWriteQueue' = readWriteQueue /\ pc'.poller # "handle" /\ event' = event /\ sock' = sock /\ missed' = missed
  BY <1>0 DEF TypeOK, AcceptReady, NextInBatch
<1>e. \/ /\ CanOpen /\ acceptQueue' = Append(acceptQueue, new)
         /\ armed' = [armed EXCEPT ![n] = IF watchAccepted THEN "in" ELSE "out"]
         /\ status' = [status EXCEPT ![n] = IF watchAccepted THEN "connected" ELSE "paccept"]
      \/ UNCHANGED <<acceptQueue, armed, status>>
  BY DEF AcceptReady
<1>4. EventsArmed'
  <2>1. CASE UNCHANGED <<acceptQueue, armed, status>>
    BY <1>0, <1>d, <2>1 DEF EventsArmed, EventArmed
  <2>2. CASE ~UNCHANGED <<acceptQueue, armed, status>>
    <3>1. armed'[n] # "off" /\ (\A g \in Fd : g # n => armed'[g] = armed[g])
          /\ Range(acceptQueue') = Range(acceptQueue) \cup {new}
      BY <1>0, <1>c, <1>e, <2>2 DEF TypeOK
    <3>2. \A d \in {new} : EventArmed(d)'
      BY <3>1 DEF EventArmed
    <3>3. \A d \in Range(acceptQueue) \cup Range(readWriteQueue) : EventArmed(d)'
      BY <1>0, <1>a, <1>c, <1>e, <2>2, <3>1 DEF EventsArmed, EventArmed
    <3> QED  BY <1>d, <3>1, <3>2, <3>3 DEF EventsArmed
  <2> QED  BY <2>1, <2>2
<1>5. ASSUME NEW g \in Fd, status'[g] \in {"connected", "connecting"}
      PROVE  armed'[g] \in {"in", "inout"} \/ Pending(g)' \/ missed'[g]
  <2>1. status[g] \in {"connected", "connecting"} => armed[g] \in {"in", "inout"} \/ Pending(g) \/ missed[g]
    BY DEF ConnectionsArmed
  <2>2. Pending(g) <=> \/ \E d \in batch : d.fd = g
                       \/ g \in Fds(acceptQueue) \cup Fds(readWriteQueue)
                       \/ event.fd = g \/ sock = g
    BY RangeFds DEF Pending
  <2>3. Pending(g)' <=> \/ \E d \in batch' : d.fd = g
                        \/ g \in Fds(acceptQueue') \cup Fds(readWriteQueue')
                        \/ event'.fd = g \/ sock' = g
    BY RangeFds DEF Pending
  <2>4. status[e.fd] = "listening"
    BY DEF AcceptReady
  <2>5. CASE UNCHANGED <<acceptQueue, armed, status>>
    BY <1>b, <1>d, <1>5, <2>1, <2>2, <2>3, <2>4, <2>5
  <2>6. CASE ~UNCHANGED <<acceptQueue, armed, status>> /\ g = n
    <3>1. g \in Fds(acceptQueue')
      BY <1>c, <1>e, <2>6
    <3> QED  BY <2>3, <3>1
  <2>7. CASE ~UNCHANGED <<acceptQueue, armed, status>> /\ g # n
    <3>1. armed'[g] = armed[g] /\ status'[g] = status[g] /\ Fds(acceptQueue) \subseteq Fds(acceptQueue')
      BY <1>0, <1>c, <1>e, <2>7 DEF TypeOK
    <3> QED  BY <1>b, <1>d, <1>5, <2>1, <2>2, <2>3, <2>4, <3>1
  <2> QED  BY <2>5, <2>6, <2>7
<1> QED  BY <1>1, <1>2, <1>3, <1>4, <1>5 DEF ArmInv, ConnectionsArmed

\* A dropped event is remembered in missed.
LEMMA InvalidSocketArms ==
  ASSUME NEW e, InvalidSocket(e), IInv, ArmInv, ConnectionsArmed
  PROVE  ArmInv' /\ ConnectionsArmed'
<1> USE DEF Status, ConnStatus, ConnKinds, NoEvent
<1>0. /\ TypeOK /\ SlotInv /\ UserInv /\ QueueInv /\ HandlerInv /\ BatchInv
      /\ IdleInv /\ SlotArmed /\ UserArmed /\ EventsArmed
  BY DEF IInv, ArmInv
<1>a. /\ \A d \in Range(acceptQueue) \cup Range(readWriteQueue) :
           d.fd \in Fds(acceptQueue) \cup Fds(readWriteQueue)
      /\ Fds(acceptQueue) \cup Fds(readWriteQueue) \subseteq Fd
      /\ 0 \notin Fd
  BY <1>0, RangeFds, FdsInFd, ServerAssumption DEF TypeOK, Fd
<1>b. /\ e \in batch /\ batch' = batch \ {e} /\ e.fd \in Fd
      /\ \A d \in batch : d.fd \in Fd /\ (d \in batch' \/ d.fd = e.fd)
      /\ e.fd \notin Fds(acceptQueue) \cup Fds(readWriteQueue)
  BY <1>0 DEF TypeOK, BatchInv, PollEvents, NextInBatch, InvalidSocket
<1>1. IdleInv'
  BY <1>0, <1>a, <1>b DEF IdleInv, TypeOK, InvalidSocket, NextInBatch, kernelVars
<1>2. SlotArmed'
  BY <1>0, <1>a, <1>b DEF SlotArmed, UserArmed, TypeOK, InvalidSocket, NextInBatch, kernelVars
<1>3. UserArmed'
  BY <1>0, <1>a, <1>b
     DEF UserArmed, UserInv, IdleInv, HandlerInv, TypeOK, InvalidSocket, NextInBatch, kernelVars
<1>4. EventsArmed'
  BY <1>0, <1>a, <1>b
     DEF EventsArmed, EventArmed, QueueInv, HandlerInv, TypeOK, InvalidSocket, NextInBatch,
         kernelVars
<1>5. ASSUME NEW g \in Fd, status'[g] \in {"connected", "connecting"}
      PROVE  armed'[g] \in {"in", "inout"} \/ Pending(g)' \/ missed'[g]
  <2>1. status[g] \in {"connected", "connecting"} => armed[g] \in {"in", "inout"} \/ Pending(g) \/ missed[g]
    BY DEF ConnectionsArmed
  <2>2. Pending(g) <=> \/ \E d \in batch : d.fd = g
                       \/ g \in Fds(acceptQueue) \cup Fds(readWriteQueue)
                       \/ event.fd = g \/ sock = g
    BY RangeFds DEF Pending
  <2>3. Pending(g)' <=> \/ \E d \in batch' : d.fd = g
                        \/ g \in Fds(acceptQueue') \cup Fds(readWriteQueue')
                        \/ event'.fd = g \/ sock' = g
    BY RangeFds DEF Pending
  <2> QED  BY <1>0, <1>a, <1>b, <1>5, <2>1, <2>2, <2>3
              DEF TypeOK, IdleInv, SlotArmed, UserArmed, EventsArmed, EventArmed, InvalidSocket,
                  NextInBatch, kernelVars
<1> QED  BY <1>1, <1>2, <1>3, <1>4, <1>5 DEF ArmInv, ConnectionsArmed

\* A connection about to be closed keeps its event.
LEMMA CloseConnectionArms ==
  ASSUME pc.poller = "handle", CloseConnection, IInv, ArmInv, ConnectionsArmed
  PROVE  ArmInv' /\ ConnectionsArmed'
<1> USE DEF Status, ConnStatus, ConnKinds, NoEvent
<1>0. /\ TypeOK /\ SlotInv /\ UserInv /\ QueueInv /\ HandlerInv /\ BatchInv
      /\ IdleInv /\ SlotArmed /\ UserArmed /\ EventsArmed
  BY DEF IInv, ArmInv
<1>a. /\ \A d \in Range(acceptQueue) \cup Range(readWriteQueue) :
           d.fd \in Fds(acceptQueue) \cup Fds(readWriteQueue)
      /\ Fds(acceptQueue) \cup Fds(readWriteQueue) \subseteq Fd
      /\ 0 \notin Fd
  BY <1>0, RangeFds, FdsInFd, ServerAssumption DEF TypeOK, Fd
<1>b. event \in Events /\ event.fd \in Fd /\ status[event.fd] \in ConnStatus
      /\ \A d \in Range(acceptQueue) \cup Range(readWriteQueue) : d.fd # event.fd
  BY <1>0, <1>a DEF HandlerInv, Events
<1>1. IdleInv'
  BY <1>0, <1>a, <1>b DEF IdleInv, TypeOK, CloseConnection, Goto, serverVars, kernelVars
<1>2. SlotArmed'
  BY <1>0, <1>a, <1>b
     DEF SlotArmed, UserArmed, TypeOK, CloseConnection, Goto, serverVars, kernelVars
<1>3. UserArmed'
  BY <1>0, <1>a, <1>b
     DEF UserArmed, UserInv, IdleInv, HandlerInv, TypeOK, CloseConnection, Goto, serverVars,
         kernelVars
<1>4. EventsArmed'
  BY <1>0, <1>a, <1>b
     DEF EventsArmed, EventArmed, QueueInv, HandlerInv, TypeOK, CloseConnection, Goto, serverVars,
         kernelVars
<1>5. ASSUME NEW g \in Fd, status'[g] \in {"connected", "connecting"}
      PROVE  armed'[g] \in {"in", "inout"} \/ Pending(g)' \/ missed'[g]
  <2>1. status[g] \in {"connected", "connecting"} => armed[g] \in {"in", "inout"} \/ Pending(g) \/ missed[g]
    BY DEF ConnectionsArmed
  <2>2. Pending(g) <=> \/ \E d \in batch : d.fd = g
                       \/ g \in Fds(acceptQueue) \cup Fds(readWriteQueue)
                       \/ event.fd = g \/ sock = g
    BY RangeFds DEF Pending
  <2>3. Pending(g)' <=> \/ \E d \in batch' : d.fd = g
                        \/ g \in Fds(acceptQueue') \cup Fds(readWriteQueue')
                        \/ event'.fd = g \/ sock' = g
    BY RangeFds DEF Pending
  <2> QED  BY <1>0, <1>a, <1>b, <1>5, <2>1, <2>2, <2>3
              DEF TypeOK, IdleInv, SlotArmed, UserArmed, EventsArmed, EventArmed, CloseConnection,
                  Goto, serverVars, kernelVars
<1> QED  BY <1>1, <1>2, <1>3, <1>4, <1>5 DEF ArmInv, ConnectionsArmed

\* Reading arms the socket.
LEMMA HandleReadArms ==
  ASSUME pc.poller = "handle", HandleRead, IInv, ArmInv, ConnectionsArmed
  PROVE  ArmInv' /\ ConnectionsArmed'
<1> USE DEF Status, ConnStatus, ConnKinds, NoEvent
<1>0. /\ TypeOK /\ SlotInv /\ UserInv /\ QueueInv /\ HandlerInv /\ BatchInv
      /\ IdleInv /\ SlotArmed /\ UserArmed /\ EventsArmed
  BY DEF IInv, ArmInv
<1>a. /\ \A d \in Range(acceptQueue) \cup Range(readWriteQueue) :
           d.fd \in Fds(acceptQueue) \cup Fds(readWriteQueue)
      /\ Fds(acceptQueue) \cup Fds(readWriteQueue) \subseteq Fd
      /\ 0 \notin Fd
  BY <1>0, RangeFds, FdsInFd, ServerAssumption DEF TypeOK, Fd
<1>b. event \in Events /\ event.fd \in Fd /\ status[event.fd] \in ConnStatus
      /\ \A d \in Range(acceptQueue) \cup Range(readWriteQueue) : d.fd # event.fd
  BY <1>0, <1>a DEF HandlerInv, Events
<1>1. IdleInv'
  BY <1>0, <1>a, <1>b DEF IdleInv, TypeOK, HandleRead, Handled, Goto, Arm
<1>2. SlotArmed'
  BY <1>0, <1>a, <1>b DEF SlotArmed, UserArmed, TypeOK, HandleRead, Handled, Goto, Arm
<1>3. UserArmed'
  BY <1>0, <1>a, <1>b
     DEF UserArmed, UserInv, IdleInv, HandlerInv, TypeOK, HandleRead, Handled, Goto, Arm
<1>4. EventsArmed'
  BY <1>0, <1>a, <1>b
     DEF EventsArmed, EventArmed, QueueInv, HandlerInv, TypeOK, HandleRead, Handled, Goto, Arm
<1>5. ASSUME NEW g \in Fd, status'[g] \in {"connected", "connecting"}
      PROVE  armed'[g] \in {"in", "inout"} \/ Pending(g)' \/ missed'[g]
  <2>1. status[g] \in {"connected", "connecting"} => armed[g] \in {"in", "inout"} \/ Pending(g) \/ missed[g]
    BY DEF ConnectionsArmed
  <2>2. Pending(g) <=> \/ \E d \in batch : d.fd = g
                       \/ g \in Fds(acceptQueue) \cup Fds(readWriteQueue)
                       \/ event.fd = g \/ sock = g
    BY RangeFds DEF Pending
  <2>3. Pending(g)' <=> \/ \E d \in batch' : d.fd = g
                        \/ g \in Fds(acceptQueue') \cup Fds(readWriteQueue')
                        \/ event'.fd = g \/ sock' = g
    BY RangeFds DEF Pending
  <2> QED  BY <1>0, <1>a, <1>b, <1>5, <2>1, <2>2, <2>3
              DEF TypeOK, IdleInv, SlotArmed, UserArmed, EventsArmed, EventArmed, HandleRead,
                  Handled, Goto, Arm
<1> QED  BY <1>1, <1>2, <1>3, <1>4, <1>5 DEF ArmInv, ConnectionsArmed

\* So does writing.
LEMMA HandleWriteArms ==
  ASSUME pc.poller = "handle", HandleWrite, IInv, ArmInv, ConnectionsArmed
  PROVE  ArmInv' /\ ConnectionsArmed'
<1> USE DEF Status, ConnStatus, ConnKinds, NoEvent
<1>0. /\ TypeOK /\ SlotInv /\ UserInv /\ QueueInv /\ HandlerInv /\ BatchInv
      /\ IdleInv /\ SlotArmed /\ UserArmed /\ EventsArmed
  BY DEF IInv, ArmInv
<1>a. /\ \A d \in Range(acceptQueue) \cup Range(readWriteQueue) :
           d.fd \in Fds(acceptQueue) \cup Fds(readWriteQueue)
      /\ Fds(acceptQueue) \cup Fds(readWriteQueue) \subseteq Fd
      /\ 0 \notin Fd
  BY <1>0, RangeFds, FdsInFd, ServerAssumption DEF TypeOK, Fd
<1>b. event \in Events /\ event.fd \in Fd /\ status[event.fd] \in ConnStatus
      /\ \A d \in Range(acceptQueue) \cup Range(readWriteQueue) : d.fd # event.fd
  BY <1>0, <1>a DEF HandlerInv, Events
<1>1. IdleInv'
  BY <1>0, <1>a, <1>b DEF IdleInv, TypeOK, HandleWrite, Handled, Goto, SendBuffer, Arm
<1>2. SlotArmed'
  BY <1>0, <1>a, <1>b DEF SlotArmed, UserArmed, TypeOK, HandleWrite, Handled, Goto, SendBuffer, Arm
<1>3. UserArmed'
  BY <1>0, <1>a, <1>b
     DEF UserArmed, UserInv, IdleInv, HandlerInv, TypeOK, HandleWrite, Handled, Goto, SendBuffer,
         Arm
<1>4. EventsArmed'
  BY <1>0, <1>a, <1>b
     DEF EventsArmed, EventArmed, QueueInv, HandlerInv, TypeOK, HandleWrite, Handled, Goto,
         SendBuffer, Arm
<1>5. ASSUME NEW g \in Fd, status'[g] \in {"connected", "connecting"}
      PROVE  armed'[g] \in {"in", "inout"} \/ Pending(g)' \/ missed'[g]
  <2>1. status[g] \in {"connected", "connecting"} => armed[g] \in {"in", "inout"} \/ Pending(g) \/ missed[g]
    BY DEF ConnectionsArmed
  <2>2. Pending(g) <=> \/ \E d \in batch : d.fd = g
                       \/ g \in Fds(acceptQueue) \cup Fds(readWriteQueue)
                       \/ event.fd = g \/ sock = g
    BY RangeFds DEF Pending
  <2>3. Pending(g)' <=> \/ \E d \in batch' : d.fd = g
                        \/ g \in Fds(acceptQueue') \cup Fds(readWriteQueue')
                        \/ event'.fd = g \/ sock' = g
    BY RangeFds DEF Pending
  <2> QED  BY <1>0, <1>a, <1>b, <1>5, <2>1, <2>2, <2>3
              DEF TypeOK, IdleInv, SlotArmed, UserArmed, EventsArmed, EventArmed, HandleWrite,
                  Handled, Goto, SendBuffer, Arm
<1> QED  BY <1>1, <1>2, <1>3, <1>4, <1>5 DEF ArmInv, ConnectionsArmed

\* A connect that is done left the socket armed, so that its event may be ignored.
LEMMA HandleConnectedArms ==
  ASSUME pc.poller = "handle", HandleConnected, IInv, ArmInv, ConnectionsArmed
  PROVE  ArmInv' /\ ConnectionsArmed'
<1> USE DEF Status, ConnStatus, ConnKinds, NoEvent
<1>0. /\ TypeOK /\ SlotInv /\ UserInv /\ QueueInv /\ HandlerInv /\ BatchInv
      /\ IdleInv /\ SlotArmed /\ UserArmed /\ EventsArmed
  BY DEF IInv, ArmInv
<1>a. /\ \A d \in Range(acceptQueue) \cup Range(readWriteQueue) :
           d.fd \in Fds(acceptQueue) \cup Fds(readWriteQueue)
      /\ Fds(acceptQueue) \cup Fds(readWriteQueue) \subseteq Fd
      /\ 0 \notin Fd
  BY <1>0, RangeFds, FdsInFd, ServerAssumption DEF TypeOK, Fd
<1>b. event \in Events /\ event.fd \in Fd /\ status[event.fd] \in ConnStatus
      /\ \A d \in Range(acceptQueue) \cup Range(readWriteQueue) : d.fd # event.fd
  BY <1>0, <1>a DEF HandlerInv, Events
<1>1. IdleInv'
  BY <1>0, <1>a, <1>b DEF IdleInv, TypeOK, HandleConnected, Handled, Goto, kernelVars
<1>2. SlotArmed'
  BY <1>0, <1>a, <1>b DEF SlotArmed, UserArmed, TypeOK, HandleConnected, Handled, Goto, kernelVars
<1>3. UserArmed'
  BY <1>0, <1>a, <1>b
     DEF UserArmed, UserInv, IdleInv, HandlerInv, TypeOK, HandleConnected, Handled, Goto,
         kernelVars
<1>4. EventsArmed'
  BY <1>0, <1>a, <1>b
     DEF EventsArmed, EventArmed, QueueInv, HandlerInv, TypeOK, HandleConnected, Handled, Goto,
         kernelVars
<1>5. ASSUME NEW g \in Fd, status'[g] \in {"connected", "connecting"}
      PROVE  armed'[g] \in {"in", "inout"} \/ Pending(g)' \/ missed'[g]
  <2>1. status[g] \in {"connected", "connecting"} => armed[g] \in {"in", "inout"} \/ Pending(g) \/ missed[g]
    BY DEF ConnectionsArmed
  <2>2. Pending(g) <=> \/ \E d \in batch : d.fd = g
                       \/ g \in Fds(acceptQueue) \cup Fds(readWriteQueue)
                       \/ event.fd = g \/ sock = g
    BY RangeFds DEF Pending
  <2>3. Pending(g)' <=> \/ \E d \in batch' : d.fd = g
                        \/ g \in Fds(acceptQueue') \cup Fds(readWriteQueue')
                        \/ event'.fd = g \/ sock' = g
    BY RangeFds DEF Pending
  <2> QED  BY <1>0, <1>a, <1>b, <1>5, <2>1, <2>2, <2>3
              DEF TypeOK, IdleInv, SlotArmed, UserArmed, EventsArmed, EventArmed, HandleConnected,
                  Handled, Goto, kernelVars
<1> QED  BY <1>1, <1>2, <1>3, <1>4, <1>5 DEF ArmInv, ConnectionsArmed

\* An accepted connection is armed, if it was not already.
LEMMA HandleAcceptedArms ==
  ASSUME pc.poller = "handle", HandleAccepted, IInv, ArmInv, ConnectionsArmed
  PROVE  ArmInv' /\ ConnectionsArmed'
<1> USE DEF Status, ConnStatus, ConnKinds, NoEvent
<1>0. /\ TypeOK /\ SlotInv /\ UserInv /\ QueueInv /\ HandlerInv /\ BatchInv
      /\ IdleInv /\ SlotArmed /\ UserArmed /\ EventsArmed
  BY DEF IInv, ArmInv
<1>a. /\ \A d \in Range(acceptQueue) \cup Range(readWriteQueue) :
           d.fd \in Fds(acceptQueue) \cup Fds(readWriteQueue)
      /\ Fds(acceptQueue) \cup Fds(readWriteQueue) \subseteq Fd
      /\ 0 \notin Fd
  BY <1>0, RangeFds, FdsInFd, ServerAssumption DEF TypeOK, Fd
<1>b. event \in Events /\ event.fd \in Fd /\ status[event.fd] \in ConnStatus
      /\ \A d \in Range(acceptQueue) \cup Range(readWriteQueue) : d.fd # event.fd
  BY <1>0, <1>a DEF HandlerInv, Events
<1>1. IdleInv'
  BY <1>0, <1>a, <1>b DEF IdleInv, TypeOK, HandleAccepted, Handled, Goto
<1>2. SlotArmed'
  BY <1>0, <1>a, <1>b DEF SlotArmed, UserArmed, TypeOK, HandleAccepted, Handled, Goto
<1>3. UserArmed'
  BY <1>0, <1>a, <1>b
     DEF UserArmed, UserInv, IdleInv, HandlerInv, TypeOK, HandleAccepted, Handled, Goto
<1>4. EventsArmed'
  BY <1>0, <1>a, <1>b
     DEF EventsArmed, EventArmed, QueueInv, HandlerInv, TypeOK, HandleAccepted, Handled, Goto
<1>5. ASSUME NEW g \in Fd, status'[g] \in {"connected", "connecting"}
      PROVE  armed'[g] \in {"in", "inout"} \/ Pending(g)' \/ missed'[g]
  <2>1. status[g] \in {"connected", "connecting"} => armed[g] \in {"in", "inout"} \/ Pending(g) \/ missed[g]
    BY DEF ConnectionsArmed
  <2>2. Pending(g) <=> \/ \E d \in batch : d.fd = g
                       \/ g \in Fds(acceptQueue) \cup Fds(readWriteQueue)
                       \/ event.fd = g \/ sock = g
    BY RangeFds DEF Pending
  <2>3. Pending(g)' <=> \/ \E d \in batch' : d.fd = g
                        \/ g \in Fds(acceptQueue') \cup Fds(readWriteQueue')
                        \/ event'.fd = g \/ sock' = g
    BY RangeFds DEF Pending
  <2> QED  BY <1>0, <1>a, <1>b, <1>5, <2>1, <2>2, <2>3
              DEF TypeOK, IdleInv, SlotArmed, UserArmed, EventsArmed, EventArmed, HandleAccepted,
                  Handled, Goto
<1> QED  BY <1>1, <1>2, <1>3, <1>4, <1>5 DEF ArmInv, ConnectionsArmed

\* The connection that is closed has no status any more.
LEMMA ForceSocketCloseArms ==
  ASSUME ForceSocketClose, IInv, ArmInv, ConnectionsArmed
  PROVE  ArmInv' /\ ConnectionsArmed'
<1> USE DEF Status, ConnStatus, ConnKinds, NoEvent
<1>0. /\ TypeOK /\ SlotInv /\ UserInv /\ QueueInv /\ HandlerInv /\ BatchInv
      /\ IdleInv /\ SlotArmed /\ UserArmed /\ EventsArmed
  BY DEF IInv, ArmInv
<1>a. /\ \A d \in Range(acceptQueue) \cup Range(readWriteQueue) :
           d.fd \in Fds(acceptQueue) \cup Fds(readWriteQueue)
      /\ Fds(acceptQueue) \cup Fds(readWriteQueue) \subseteq Fd
      /\ 0 \notin Fd
  BY <1>0, RangeFds, FdsInFd, ServerAssumption DEF TypeOK, Fd
<1>b. /\ pc.poller \in {"force", "close"} /\ event \in Events /\ event.fd \in Fd
      /\ \A d \in Range(acceptQueue) \cup Range(readWriteQueue) : d.fd # event.fd
  BY <1>0, <1>a DEF HandlerInv, Events, ForceSocketClose, Goto
<1>1. IdleInv'
  BY <1>0, <1>a, <1>b DEF IdleInv, TypeOK, ForceSocketClose, Goto, Close
<1>2. SlotArmed'
  BY <1>0, <1>a, <1>b DEF SlotArmed, HandlerInv, TypeOK, ForceSocketClose, Goto, Close
<1>3. UserArmed'
  BY <1>0, <1>a, <1>b
     DEF UserArmed, UserInv, IdleInv, HandlerInv, TypeOK, ForceSocketClose, Goto, Close
<1>4. EventsArmed'
  BY <1>0, <1>a, <1>b
     DEF EventsArmed, EventArmed, QueueInv, HandlerInv, TypeOK, ForceSocketClose, Goto, Close
<1>5. ASSUME NEW g \in Fd, status'[g] \in {"connected", "connecting"}
      PROVE  armed'[g] \in {"in", "inout"} \/ Pending(g)' \/ missed'[g]
  <2>1. status[g] \in {"connected", "connecting"} => armed[g] \in {"in", "inout"} \/ Pending(g) \/ missed[g]
    BY DEF ConnectionsArmed
  <2>2. Pending(g) <=> \/ \E d \in batch : d.fd = g
                       \/ g \in Fds(acceptQueue) \cup Fds(readWriteQueue)
                       \/ event.fd = g \/ sock = g
    BY RangeFds DEF Pending
  <2>3. Pending(g)' <=> \/ \E d \in batch' : d.fd = g
                        \/ g \in Fds(acceptQueue') \cup Fds(readWriteQueue')
                        \/ event'.fd = g \/ sock' = g
    BY RangeFds DEF Pending
  <2>4. g # event.fd /\ status'[g] = status[g] /\ armed'[g] = armed[g] /\ missed'[g] = missed[g]
    BY <1>0, <1>b, <1>5 DEF TypeOK, IdleInv, HandlerInv, ForceSocketClose, Goto, Close
  <2>5. UNCHANGED <<batch, acceptQueue, readWriteQueue, sock>>
    BY DEF ForceSocketClose
  <2> QED  BY <1>5, <2>1, <2>2, <2>3, <2>4, <2>5
<1> QED  BY <1>1, <1>2, <1>3, <1>4, <1>5 DEF ArmInv, ConnectionsArmed

\* ArmInv and ConnectionsArmed are inductive relative to IInv.
LEMMA NextArmed == IInv /\ ArmInv /\ ConnectionsArmed /\ [Next]_vars => ArmInv' /\ ConnectionsArmed'
<1> SUFFICES ASSUME IInv, ArmInv, ConnectionsArmed, [Next]_vars PROVE ArmInv' /\ ConnectionsArmed'
  OBVIOUS
<1>1. CASE UNCHANGED vars
  BY <1>1
     DEF ArmInv, IdleInv, SlotArmed, UserArmed, EventsArmed, EventArmed, ConnectionsArmed,
         Pending, 
              vars, serverVars, kernelVars
<1>2. CASE PollerStep
  <2>1. CASE ReturnAccept \/ ReturnReadWrite \/ WaitPollerIfNecessary \/ ForceSocketClose
    BY <2>1, ReturnAcceptArms, ReturnReadWriteArms, WaitPollerArms, ForceSocketCloseArms
  <2>2. CASE \E e \in batch : ConnectDone(e) \/ AcceptReady(e) \/ InvalidSocket(e) \/ ReadWriteReady(e)
    BY <2>2, ConnectDoneArms, AcceptReadyArms, InvalidSocketArms, ReadWriteReadyArms
  <2>3. CASE HandleEvent
    BY <2>3, HandleReadArms, HandleWriteArms, HandleConnectedArms, HandleAcceptedArms, CloseConnectionArms
       DEF HandleEvent
  <2> QED  BY <1>2, <2>1, <2>2, <2>3 DEF PollerStep
<1>3. CASE UserStep
  BY <1>3, SetStatusArms, ArmConnectArms DEF UserStep
<1>4. CASE UserCall
  <2>1. CASE ConnectTo \/ ListenTo
    BY <2>1, SetUpArms DEF ConnectTo, ListenTo, Status
  <2>2. CASE \E f \in Fd : UserSends(f) \/ UnwatchSocket(f) \/ WatchSocket(f)
    BY <2>2, UserSendsArms, UnwatchSocketArms, WatchSocketArms
  <2> QED  BY <1>4, <2>1, <2>2 DEF UserCall
<1>5. CASE \E f \in Fd : Arrive(f) \/ ConnectEnds(f)
  BY <1>5, ArriveArms, ConnectEndsArms
<1> QED  BY <1>1, <1>2, <1>3, <1>4, <1>5 DEF Next

\* A connection is armed in epoll or has an event or a call under way, except where
\* its first event found its slot SS_INVALID: no handler, and no order of the two
\* threads, disarms a connection for good.
THEOREM ConnectionsStayArmed == SafetySpec => []ConnectionsArmed
<1>1. Init => ArmInv /\ ConnectionsArmed
  BY DEF Init, ArmInv, IdleInv, SlotArmed, UserArmed, EventsArmed, ConnectionsArmed, Status, Range
<1>2. IInv /\ ArmInv /\ ConnectionsArmed /\ [Next]_vars => ArmInv' /\ ConnectionsArmed'
  BY NextArmed
<1> QED  BY <1>1, <1>2, SocketInvariant, PTL DEF SafetySpec
=============================================================================
