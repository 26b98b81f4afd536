---------------------------- MODULE WorkerProofs ----------------------------
(***************************************************************************)
(* Theorems about worker bodies and the two systems made of them: the      *)
(* stand-alone worker, for any number of workers, posters, tasks and queue *)
(* sizes, and the thread pool.                                             *)
(***************************************************************************)
EXTENDS Worker, ThreadPool, FiniteSetTheorems, SequenceTheorems, WellFoundedInduction, TLAPS


\* The set of posters in flight is finite, so its cardinality is a number.
LEMMA InFlightFinite ==
  ASSUME NEW b \in Bodies
  PROVE  IsFiniteSet(InFlight(b)) /\ Cardinality(InFlight(b)) \in Nat
BY BodyAssumption, FS_Subset, FS_CardinalityType DEF InFlight

\* A push puts its poster in flight to the body pushed to.
LEMMA InFlightAdds ==
  ASSUME BodyTypeOK, NEW p \in Posters, NEW b \in Bodies, pending[p] = NULL,
         pending' = [pending EXCEPT ![p] = b]
  PROVE  /\ Cardinality(InFlight(b))' = Cardinality(InFlight(b)) + 1
         /\ \A c \in Bodies \ {b} : InFlight(c)' = InFlight(c)
<1>1. InFlight(b)' = InFlight(b) \cup {p} /\ p \notin InFlight(b)
  BY BodyAssumption DEF InFlight, BodyTypeOK
<1>2. \A c \in Bodies \ {b} : InFlight(c)' = InFlight(c)
  BY BodyAssumption DEF InFlight, BodyTypeOK
<1>3. Cardinality(InFlight(b) \cup {p}) = Cardinality(InFlight(b)) + 1
  BY <1>1, InFlightFinite, FS_AddElement, Zenon
<1> QED  BY <1>1, <1>2, <1>3

\* The sem_post takes its poster out of flight.
LEMMA InFlightRemoves ==
  ASSUME BodyTypeOK, NEW p \in Posters, NEW b \in Bodies, pending[p] = b,
         pending' = [pending EXCEPT ![p] = NULL]
  PROVE  /\ Cardinality(InFlight(b))' = Cardinality(InFlight(b)) - 1
         /\ \A c \in Bodies \ {b} : InFlight(c)' = InFlight(c)
<1>1. InFlight(b)' = InFlight(b) \ {p} /\ p \in InFlight(b)
  BY BodyAssumption DEF InFlight, BodyTypeOK
<1>2. \A c \in Bodies \ {b} : InFlight(c)' = InFlight(c)
  BY BodyAssumption DEF InFlight, BodyTypeOK
<1>3. Cardinality(InFlight(b) \ {p}) = Cardinality(InFlight(b)) - 1
  BY <1>1, InFlightFinite, FS_RemoveElement, Zenon
<1> QED  BY <1>1, <1>2, <1>3

\* Popping one position of a container shortens it by one task.
LEMMA WithoutIndexShortens ==
  ASSUME NEW s \in Seq(Tasks), NEW i \in 1..Len(s)
  PROVE  /\ s[i] \in Tasks
         /\ WithoutIndex(s, i) \in Seq(Tasks)
         /\ Len(WithoutIndex(s, i)) = Len(s) - 1
<1>0. \A j \in 1..Len(s) : s[j] \in Tasks
  BY ElementOfSeq
<1>1. /\ SubSeq(s, 1, i - 1) \in Seq(Tasks)
      /\ Len(SubSeq(s, 1, i - 1)) = i - 1
  BY <1>0, SubSeqProperties
<1>2. /\ SubSeq(s, i + 1, Len(s)) \in Seq(Tasks)
      /\ Len(SubSeq(s, i + 1, Len(s))) = Len(s) - i
  <2>1. \A j \in (i + 1)..Len(s) : s[j] \in Tasks
    BY <1>0
  <2>2. i + 1 \in Int /\ Len(s) \in Int /\ Len(s) >= i
    OBVIOUS
  <2> QED  BY <2>1, <2>2, SubSeqProperties
<1>3. /\ WithoutIndex(s, i) \in Seq(Tasks)
      /\ Len(WithoutIndex(s, i)) = Len(SubSeq(s, 1, i - 1)) + Len(SubSeq(s, i + 1, Len(s)))
  BY <1>1, <1>2, ConcatProperties, Zenon DEF WithoutIndex
<1>4. Len(WithoutIndex(s, i)) = (i - 1) + (Len(s) - i)
  BY <1>1, <1>2, <1>3, Zenon
<1>5. \A l, m \in Int : (m - 1) + (l - m) = l - 1
  OBVIOUS
<1>6. Len(s) \in Int /\ i \in Int
  BY LenProperties
<1>7. Len(WithoutIndex(s, i)) = Len(s) - 1
  BY <1>4, <1>5, <1>6, Zenon
<1> QED  BY <1>0, <1>3, <1>7, Zenon

\* What a step of one thread does to the threads at the places in S.
LEMMA ThreadsFinite ==
  ASSUME NEW b, NEW S
  PROVE  IsFiniteSet(ThreadsAt(b, S)) /\ Cardinality(ThreadsAt(b, S)) \in Nat
BY BodyAssumption, FS_Subset, FS_CardinalityType DEF ThreadsAt

LEMMA ThreadsMove ==
  ASSUME BodyTypeOK, NEW r \in Threads, NEW from, NEW to, Goto(r, from, to), NEW c, NEW S
  PROVE  /\ c # Runs[r] \/ (from \in S <=> to \in S) => ThreadsAt(c, S)' = ThreadsAt(c, S)
         /\ c = Runs[r] /\ from \notin S /\ to \in S =>
              Cardinality(ThreadsAt(c, S))' = Cardinality(ThreadsAt(c, S)) + 1
         /\ c = Runs[r] /\ from \in S /\ to \notin S =>
              Cardinality(ThreadsAt(c, S))' = Cardinality(ThreadsAt(c, S)) - 1
<1>1. pc[r] = from /\ pc'[r] = to /\ \A q \in Threads \ {r} : pc'[q] = pc[q]
  BY DEF Goto, BodyTypeOK
<1>2. c # Runs[r] \/ (from \in S <=> to \in S) => ThreadsAt(c, S)' = ThreadsAt(c, S)
  BY <1>1 DEF ThreadsAt
<1>3. ASSUME c = Runs[r], from \notin S, to \in S
      PROVE  Cardinality(ThreadsAt(c, S))' = Cardinality(ThreadsAt(c, S)) + 1
  <2>1. ThreadsAt(c, S)' = ThreadsAt(c, S) \cup {r} /\ r \notin ThreadsAt(c, S)
    BY <1>1, <1>3 DEF ThreadsAt
  <2>2. Cardinality(ThreadsAt(c, S) \cup {r}) = Cardinality(ThreadsAt(c, S)) + 1
    BY <2>1, ThreadsFinite, FS_AddElement, Zenon
  <2> QED  BY <2>1, <2>2
<1>4. ASSUME c = Runs[r], from \in S, to \notin S
      PROVE  Cardinality(ThreadsAt(c, S))' = Cardinality(ThreadsAt(c, S)) - 1
  <2>1. ThreadsAt(c, S)' = ThreadsAt(c, S) \ {r} /\ r \in ThreadsAt(c, S)
    BY <1>1, <1>4 DEF ThreadsAt
  <2>2. Cardinality(ThreadsAt(c, S) \ {r}) = Cardinality(ThreadsAt(c, S)) - 1
    BY <2>1, ThreadsFinite, FS_RemoveElement, Zenon
  <2> QED  BY <2>1, <2>2
<1> QED  BY <1>2, <1>3, <1>4

\* A thread that is to take a task finds one.
LEMMA TaskToPop ==
  ASSUME BodyTypeOK, PopFindsTask, NEW r \in Threads, pc[r] = "pop"
  PROVE  container[Runs[r]] # <<>>
<1>1. PICK b \in Bodies : b = Runs[r]
  BY BodyAssumption
<1>2. r \in Popping(b) /\ IsFiniteSet(Popping(b)) /\ Cardinality(Popping(b)) \in Nat
  <2>1. r \in Popping(b)
    BY <1>1 DEF Popping, ThreadsAt
  <2> QED  BY <2>1, ThreadsFinite DEF Popping
<1>3. Cardinality(Popping(b)) # 0
  BY <1>2, FS_EmptySet
<1>4. Cardinality(Popping(b)) <= Len(container[b])
  BY DEF PopFindsTask
<1>5. container[b] = <<>> => Len(container[b]) = 0
  OBVIOUS
<1> QED  BY <1>1, <1>2, <1>3, <1>4, <1>5

-----------------------------------------------------------------------------
\* The initial state of the bodies satisfies BodyInv.
LEMMA BodyInitInv == BodyInit => BodyInv
<1> SUFFICES ASSUME BodyInit PROVE BodyInv
  OBVIOUS
<1>1. BodyTypeOK
  BY EmptySeq DEF BodyInit, BodyTypeOK, PC
<1>2. ASSUME NEW b \in Bodies
      PROVE  /\ Cardinality(InFlight(b)) = 0 /\ Cardinality(Holding(b)) = 0
             /\ Cardinality(Popping(b)) = 0
  <2>1. InFlight(b) = {} /\ Holding(b) = {} /\ Popping(b) = {}
    BY BodyAssumption DEF BodyInit, InFlight, Holding, Popping, ThreadsAt
  <2> QED  BY <2>1, FS_EmptySet
<1>3. TokenBalance
  BY <1>2, EmptySeq DEF BodyInit, TokenBalance, Items, Tokens
<1>4. PopFindsTask
  BY <1>2, EmptySeq DEF BodyInit, PopFindsTask
<1> QED  BY <1>1, <1>3, <1>4 DEF BodyInit, BodyInv, NoNullTask

\* A step that leaves the bodies alone preserves BodyInv.
LEMMA BodyStutter == BodyInv /\ UNCHANGED bodyVars => BodyInv'
BY DEF BodyInv, BodyTypeOK, TokenBalance, PopFindsTask, NoNullTask, InFlight, Items, Tokens,
       Holding, Popping, ThreadsAt, bodyVars

\* The terms of the balance are numbers.
LEMMA BalanceTypes ==
  ASSUME NEW c \in Bodies, BodyTypeOK
  PROVE  /\ Len(container[c]) \in Nat /\ cmd[c] \in Nat /\ sem[c] \in Nat
         /\ Cardinality(InFlight(c)) \in Nat /\ Cardinality(Holding(c)) \in Nat
         /\ Cardinality(Popping(c)) \in Nat
         /\ Items(c) \in Nat /\ Tokens(c) \in Nat
<1>1. /\ Len(container[c]) \in Nat /\ cmd[c] \in Nat /\ sem[c] \in Nat
      /\ Cardinality(InFlight(c)) \in Nat /\ Cardinality(Holding(c)) \in Nat
      /\ Cardinality(Popping(c)) \in Nat
  BY InFlightFinite, ThreadsFinite, LenProperties DEF BodyTypeOK, Holding, Popping
<1> QED  BY <1>1 DEF Items, Tokens

\* A body whose queues, semaphore and threads are left alone keeps its balance.
LEMMA OtherBody ==
  ASSUME NEW c \in Bodies, InFlight(c)' = InFlight(c), container[c]' = container[c],
         cmd[c]' = cmd[c], sem[c]' = sem[c], Holding(c)' = Holding(c)
  PROVE  Items(c)' = Items(c) /\ Tokens(c)' = Tokens(c)
BY DEF Items, Tokens

\* No thread moves.
LEMMA NoThreadMoves ==
  ASSUME pc' = pc
  PROVE  \A c : Holding(c)' = Holding(c) /\ Popping(c)' = Popping(c)
BY DEF Holding, Popping, ThreadsAt

\* PostTask's push: one more item, one more poster in flight.
LEMMA PushTaskInv ==
  ASSUME NEW p \in Posters, NEW b \in Bodies, NEW t \in Tasks, BodyInv, PushTask(p, b, t)
  PROVE  BodyInv'
<1>0. BodyTypeOK /\ TokenBalance /\ PopFindsTask /\ NoNullTask
  BY DEF BodyInv
<1>a. /\ Append(container[b], t) \in Seq(Tasks)
      /\ Len(Append(container[b], t)) = Len(container[b]) + 1
  <2>1. container[b] \in Seq(Tasks)
    BY <1>0 DEF BodyTypeOK
  <2> QED  BY <2>1, AppendProperties
<1>b. container[b]' = Append(container[b], t) /\ \A c \in Bodies \ {b} : container[c]' = container[c]
  BY <1>0 DEF PushTask, BodyTypeOK
<1>c. \A c : Holding(c)' = Holding(c) /\ Popping(c)' = Popping(c)
  BY NoThreadMoves DEF PushTask
<1>1. BodyTypeOK'
  BY <1>0, <1>a DEF PushTask, BodyTypeOK
<1>2. ASSUME NEW c \in Bodies, c # b PROVE Items(c)' = Tokens(c)'
  <2>1. InFlight(c)' = InFlight(c)
    BY <1>0, <1>2, InFlightAdds DEF PushTask
  <2> QED  BY <1>0, <1>2, <1>b, <1>c, <2>1, OtherBody DEF PushTask, TokenBalance
<1>3. Items(b)' = Tokens(b)'
  <2>1. Items(b)' = Items(b) + 1
    BY <1>0, <1>a, <1>b, BalanceTypes DEF PushTask, Items
  <2>2. Cardinality(InFlight(b))' = Cardinality(InFlight(b)) + 1
    BY <1>0, InFlightAdds DEF PushTask
  <2>3. sem[b]' = sem[b] /\ Cardinality(Holding(b))' = Cardinality(Holding(b))
    BY <1>c DEF PushTask
  <2>4. sem[b] \in Nat /\ Cardinality(InFlight(b)) \in Nat /\ Cardinality(Holding(b)) \in Nat
    BY <1>0, BalanceTypes
  <2>5. Tokens(b)' = Tokens(b) + 1
    BY <2>2, <2>3, <2>4 DEF Tokens
  <2> QED  BY <1>0, <2>1, <2>5 DEF TokenBalance
<1>4. PopFindsTask'
  <2>1. ASSUME NEW c \in Bodies PROVE Cardinality(Popping(c))' <= Len(container'[c])
    <3>1. Len(container[c]) <= Len(container'[c])
      BY <1>0, <1>a, <1>b, BalanceTypes
    <3>2. Cardinality(Popping(c))' = Cardinality(Popping(c))
      BY <1>c
    <3>3. Cardinality(Popping(c)) <= Len(container[c])
      BY <1>0 DEF PopFindsTask
    <3>4. Len(container'[c]) \in Nat
      BY <1>1, LenProperties DEF BodyTypeOK
    <3> QED  BY <1>0, <3>1, <3>2, <3>3, <3>4, BalanceTypes
  <2> QED  BY <2>1 DEF PopFindsTask
<1>5. NoNullTask'
  BY <1>0 DEF PushTask, NoNullTask
<1> QED  BY <1>1, <1>2, <1>3, <1>4, <1>5 DEF BodyInv, TokenBalance

\* The push of an exit command: one more item, one more poster in flight.
LEMMA PushExitInv ==
  ASSUME NEW p \in Posters, NEW b \in Bodies, BodyInv, PushExit(p, b)
  PROVE  BodyInv'
<1>0. BodyTypeOK /\ TokenBalance /\ PopFindsTask /\ NoNullTask
  BY DEF BodyInv
<1>1. BodyTypeOK'
  BY <1>0 DEF PushExit, BodyTypeOK
<1>b. cmd[b]' = cmd[b] + 1 /\ \A c \in Bodies \ {b} : cmd[c]' = cmd[c]
  BY <1>0 DEF PushExit, BodyTypeOK
<1>c. \A c : Holding(c)' = Holding(c) /\ Popping(c)' = Popping(c)
  BY NoThreadMoves DEF PushExit
<1>2. ASSUME NEW c \in Bodies, c # b PROVE Items(c)' = Tokens(c)'
  <2>1. InFlight(c)' = InFlight(c)
    BY <1>0, <1>2, InFlightAdds DEF PushExit
  <2> QED  BY <1>0, <1>2, <1>b, <1>c, <2>1, OtherBody DEF PushExit, TokenBalance
<1>3. Items(b)' = Tokens(b)'
  <2>0. /\ Len(container[b]) \in Nat /\ cmd[b] \in Nat
        /\ sem[b] \in Nat /\ Cardinality(InFlight(b)) \in Nat /\ Cardinality(Holding(b)) \in Nat
    BY <1>0, BalanceTypes
  <2>1. Len(container[b])' = Len(container[b])
    BY DEF PushExit
  <2>2. Items(b)' = Items(b) + 1
    BY <1>b, <2>0, <2>1 DEF Items
  <2>3. Cardinality(InFlight(b))' = Cardinality(InFlight(b)) + 1
    BY <1>0, InFlightAdds DEF PushExit
  <2>4. sem[b]' = sem[b] /\ Cardinality(Holding(b))' = Cardinality(Holding(b))
    BY <1>c DEF PushExit
  <2>5. Tokens(b)' = Tokens(b) + 1
    BY <2>0, <2>3, <2>4 DEF Tokens
  <2> QED  BY <1>0, <2>2, <2>5 DEF TokenBalance
<1>4. PopFindsTask'
  BY <1>0, <1>c DEF PushExit, PopFindsTask
<1>5. NoNullTask'
  BY <1>0 DEF PushExit, NoNullTask
<1> QED  BY <1>1, <1>2, <1>3, <1>4, <1>5 DEF BodyInv, TokenBalance

\* The sem_post: a poster in flight becomes a token.
LEMMA SignalPostInv ==
  ASSUME NEW p \in Posters, BodyInv, SignalPost(p)
  PROVE  BodyInv'
<1>0. BodyTypeOK /\ TokenBalance /\ PopFindsTask /\ NoNullTask
  BY DEF BodyInv
<1>a. PICK b \in Bodies : pending[p] = b
  BY <1>0 DEF SignalPost, BodyTypeOK
<1>1. BodyTypeOK'
  BY <1>0, <1>a DEF SignalPost, BodyTypeOK
<1>b. sem[b]' = sem[b] + 1 /\ \A c \in Bodies \ {b} : sem[c]' = sem[c]
  BY <1>0, <1>a DEF SignalPost, BodyTypeOK
<1>c. \A c : Holding(c)' = Holding(c) /\ Popping(c)' = Popping(c)
  BY NoThreadMoves DEF SignalPost
<1>2. ASSUME NEW c \in Bodies, c # b PROVE Items(c)' = Tokens(c)'
  <2>1. InFlight(c)' = InFlight(c)
    BY <1>0, <1>2, <1>a, InFlightRemoves DEF SignalPost
  <2> QED  BY <1>0, <1>2, <1>b, <1>c, <2>1, OtherBody DEF SignalPost, TokenBalance
<1>3. Items(b)' = Tokens(b)'
  <2>0. sem[b] \in Nat /\ Cardinality(InFlight(b)) \in Nat /\ Cardinality(Holding(b)) \in Nat
    BY <1>0, BalanceTypes
  <2>1. Items(b)' = Items(b)
    BY DEF SignalPost, Items
  <2>2. Cardinality(InFlight(b))' = Cardinality(InFlight(b)) - 1
    BY <1>0, <1>a, InFlightRemoves DEF SignalPost
  <2>3. Cardinality(Holding(b))' = Cardinality(Holding(b))
    BY <1>c
  <2>4. Tokens(b)' = Tokens(b)
    BY <1>b, <2>0, <2>2, <2>3 DEF Tokens
  <2> QED  BY <1>0, <2>1, <2>4 DEF TokenBalance
<1>4. PopFindsTask'
  BY <1>0, <1>c DEF SignalPost, PopFindsTask
<1>5. NoNullTask'
  BY <1>0 DEF SignalPost, NoNullTask
<1> QED  BY <1>1, <1>2, <1>3, <1>4, <1>5 DEF BodyInv, TokenBalance

-----------------------------------------------------------------------------
\* A step of a thread that touches neither queues nor semaphore, and holds no
\* token before or after it.
LEMMA QuietInv ==
  ASSUME NEW r \in Threads, NEW from, NEW to \in PC, BodyInv, Goto(r, from, to),
         from \notin {"fetch", "pop"}, to \notin {"fetch", "pop", "task"},
         container' = container, cmd' = cmd, sem' = sem, pending' = pending,
         msg' \in [Threads -> Tasks \cup {NULL}],
         \A q \in Threads \ {r} : msg[q]' = msg[q],
         req' \in [Threads -> Nat], shouldStop' \in [Bodies -> BOOLEAN],
         busy' \in [Bodies -> BOOLEAN]
  PROVE  BodyInv'
<1>0. BodyTypeOK /\ TokenBalance /\ PopFindsTask /\ NoNullTask
  BY DEF BodyInv
<1>a. pc[r] = from /\ pc[r]' = to /\ \A q \in Threads \ {r} : pc[q]' = pc[q]
  BY <1>0 DEF Goto, BodyTypeOK
<1>1. BodyTypeOK'
  BY <1>0 DEF Goto, BodyTypeOK
<1>2. \A c \in Bodies : Holding(c)' = Holding(c) /\ Popping(c)' = Popping(c)
  BY <1>0, ThreadsMove DEF Holding, Popping
<1>3. \A c \in Bodies : Items(c)' = Items(c) /\ Tokens(c)' = Tokens(c)
  BY <1>2 DEF Items, Tokens, InFlight
<1>4. PopFindsTask'
  BY <1>0, <1>2 DEF PopFindsTask
<1>5. NoNullTask'
  BY <1>0, <1>a DEF NoNullTask
<1> QED  BY <1>0, <1>1, <1>3, <1>4, <1>5 DEF BodyInv, TokenBalance

\* SignalConsume, TryConsume and SignalConsumeTimeout: a token of the semaphore
\* becomes the token the thread holds.
LEMMA TakeTokenInv ==
  ASSUME NEW r \in Threads, NEW b \in Bodies, b = Runs[r], NEW from \in {"get", "timed"}, BodyInv,
         Goto(r, from, "fetch"), TakeToken(r, b)
  PROVE  BodyInv'
<1>0. BodyTypeOK /\ TokenBalance /\ PopFindsTask /\ NoNullTask
  BY DEF BodyInv
<1>a. pc[r] = from /\ pc[r]' = "fetch" /\ \A q \in Threads \ {r} : pc[q]' = pc[q]
  BY <1>0 DEF Goto, BodyTypeOK
<1>b. sem[b]' = sem[b] - 1 /\ \A c \in Bodies \ {b} : sem[c]' = sem[c]
  BY <1>0 DEF TakeToken, BodyTypeOK
<1>c. \A c \in Bodies : InFlight(c)' = InFlight(c)
  BY DEF TakeToken, InFlight
<1>d. /\ \A c \in Bodies \ {b} : Holding(c)' = Holding(c)
      /\ \A c \in Bodies : Popping(c)' = Popping(c)
      /\ Cardinality(Holding(b))' = Cardinality(Holding(b)) + 1
  BY <1>0, ThreadsMove DEF Holding, Popping
<1>1. BodyTypeOK'
  BY <1>0 DEF Goto, TakeToken, BodyTypeOK, PC
<1>2. ASSUME NEW c \in Bodies, c # b PROVE Items(c)' = Tokens(c)'
  BY <1>0, <1>2, <1>b, <1>c, <1>d, OtherBody DEF TakeToken, TokenBalance
<1>3. Items(b)' = Tokens(b)'
  <2>0. sem[b] \in Nat /\ Cardinality(InFlight(b)) \in Nat /\ Cardinality(Holding(b)) \in Nat
    BY <1>0, BalanceTypes
  <2>1. Items(b)' = Items(b)
    BY DEF TakeToken, Items
  <2>3. Tokens(b)' = Tokens(b)
    BY <1>b, <1>c, <1>d, <2>0 DEF Tokens
  <2> QED  BY <1>0, <2>1, <2>3 DEF TokenBalance
<1>4. PopFindsTask'
  BY <1>0, <1>d DEF TakeToken, PopFindsTask
<1>5. NoNullTask'
  BY <1>0, <1>a DEF TakeToken, NoNullTask
<1> QED  BY <1>1, <1>2, <1>3, <1>4, <1>5 DEF BodyInv, TokenBalance

\* GetInternalCmd: the held token is spent on a command, or kept for a task
\* that must then be there, since the balance leaves no other item for it.
LEMMA GetInternalCmdInv ==
  ASSUME NEW r \in Threads, NEW b \in Bodies, b = Runs[r], BodyInv, GetInternalCmd(r, b)
  PROVE  BodyInv'
<1>0. BodyTypeOK /\ TokenBalance /\ PopFindsTask /\ NoNullTask
  BY DEF BodyInv
<1>a. pc[r] = "fetch" /\ pc[r]' \in {"command", "pop"} /\ \A q \in Threads \ {r} : pc[q]' = pc[q]
  BY <1>0 DEF GetInternalCmd, Goto, BodyTypeOK
<1>b. \A c \in Bodies : InFlight(c)' = InFlight(c)
  BY DEF GetInternalCmd, InFlight
<1>c. \A c \in Bodies \ {b} : cmd[c]' = cmd[c]
  BY <1>0 DEF GetInternalCmd, BodyTypeOK
<1>d. /\ Len(container[b]) \in Nat /\ cmd[b] \in Nat
      /\ sem[b] \in Nat /\ Cardinality(InFlight(b)) \in Nat
      /\ Cardinality(Holding(b)) \in Nat /\ Cardinality(Popping(b)) \in Nat
  BY <1>0, BalanceTypes
<1>e. \A c \in Bodies \ {b} : Holding(c)' = Holding(c) /\ Popping(c)' = Popping(c)
  BY <1>0, ThreadsMove DEF GetInternalCmd, Holding, Popping
<1>f. container' = container /\ sem' = sem /\ msg' = msg
  BY DEF GetInternalCmd
<1>1. BodyTypeOK'
  <2>1. pc' \in [Threads -> PC]
    BY <1>0 DEF GetInternalCmd, Goto, BodyTypeOK, PC
  <2>2. cmd' \in [Bodies -> Nat]
    <3>1. CASE cmd[b] > 0
      <4>1. cmd[b] - 1 \in Nat
        BY <1>d, <3>1
      <4>2. cmd' = [cmd EXCEPT ![b] = cmd[b] - 1]
        BY <3>1 DEF GetInternalCmd
      <4> QED  BY <1>0, <4>1, <4>2 DEF BodyTypeOK
    <3>2. CASE cmd' = cmd
      BY <1>0, <3>2 DEF BodyTypeOK
    <3> QED  BY <3>1, <3>2 DEF GetInternalCmd
  <2> QED  BY <1>0, <2>1, <2>2 DEF GetInternalCmd, BodyTypeOK
<1>2. ASSUME NEW c \in Bodies, c # b PROVE Items(c)' = Tokens(c)'
  BY <1>0, <1>2, <1>b, <1>c, <1>e, <1>f, OtherBody DEF TokenBalance
<1>n. NoNullTask'
  BY <1>0, <1>a, <1>f DEF NoNullTask
<1>3. CASE cmd[b] > 0
  <2>1. cmd[b]' = cmd[b] - 1 /\ Goto(r, "fetch", "command")
    BY <1>0, <1>3 DEF GetInternalCmd, BodyTypeOK
  <2>2. Cardinality(Holding(b))' = Cardinality(Holding(b)) - 1 /\ Popping(b)' = Popping(b)
    BY <1>0, <2>1, ThreadsMove DEF Holding, Popping
  <2>4. Items(b)' = Items(b) - 1
    BY <1>d, <1>f, <2>1 DEF Items
  <2>5. Tokens(b)' = Tokens(b) - 1
    BY <1>b, <1>d, <1>f, <2>2 DEF Tokens
  <2>6. Items(b)' = Tokens(b)'
    BY <1>0, <2>4, <2>5 DEF TokenBalance
  <2>7. PopFindsTask'
    BY <1>0, <1>e, <1>f, <2>2 DEF PopFindsTask
  <2> QED  BY <1>1, <1>2, <1>n, <2>6, <2>7 DEF BodyInv, TokenBalance
<1>4. CASE cmd[b] = 0
  <2>1. cmd' = cmd /\ Goto(r, "fetch", "pop")
    BY <1>0, <1>4 DEF GetInternalCmd, BodyTypeOK
  <2>2. Holding(b)' = Holding(b)
    BY <1>0, <2>1, ThreadsMove DEF Holding
  <2>3. Items(b)' = Tokens(b)'
    BY <1>0, <1>b, <1>f, <2>1, <2>2 DEF Items, Tokens, TokenBalance
  <2>4. Len(container[b]) = sem[b] + Cardinality(InFlight(b)) + Cardinality(Holding(b))
    BY <1>0, <1>4, <1>d DEF TokenBalance, Items, Tokens
  <2>5. Cardinality(Popping(b)') <= Cardinality(Holding(b)) /\ Cardinality(Popping(b)') \in Nat
    <3>1. Popping(b)' \subseteq Holding(b)
      BY <2>2 DEF Popping, Holding, ThreadsAt
    <3>2. IsFiniteSet(Holding(b))
      BY ThreadsFinite DEF Holding
    <3>3. IsFiniteSet(Popping(b)') /\ Cardinality(Popping(b)') <= Cardinality(Holding(b))
      BY <3>1, <3>2, FS_Subset, Zenon
    <3> QED  BY <3>3, FS_CardinalityType
  <2>6. Cardinality(Popping(b)') <= Len(container[b])
    BY <1>d, <2>4, <2>5
  <2>7. PopFindsTask'
    BY <1>0, <1>e, <1>f, <2>6 DEF PopFindsTask
  <2> QED  BY <1>1, <1>2, <1>n, <2>3, <2>7 DEF BodyInv, TokenBalance
<1> QED  BY <1>3, <1>4, <1>d

\* GetTaskFromContainer: the held token is spent on a task, which is not NULL.
LEMMA GetTaskInv ==
  ASSUME NEW r \in Threads, NEW b \in Bodies, b = Runs[r], NEW i, BodyInv,
         GetTaskFromContainer(r, b, i)
  PROVE  BodyInv'
<1>0. BodyTypeOK /\ TokenBalance /\ PopFindsTask /\ NoNullTask
  BY DEF BodyInv
<1>a. pc[r] = "pop" /\ pc[r]' = "task" /\ \A q \in Threads \ {r} : pc[q]' = pc[q]
  BY <1>0 DEF GetTaskFromContainer, Goto, BodyTypeOK
<1>b. \A c \in Bodies : InFlight(c)' = InFlight(c)
  BY DEF GetTaskFromContainer, InFlight
<1>c. /\ i \in 1..Len(container[b])
      /\ msg' = [msg EXCEPT ![r] = container[b][i]]
      /\ container' = [container EXCEPT ![b] = WithoutIndex(container[b], i)]
  <2>1. container[b] # <<>>
    BY <1>0, <1>a, TaskToPop
  <2> QED  BY <2>1 DEF GetTaskFromContainer
<1>d. /\ container[b][i] \in Tasks
      /\ WithoutIndex(container[b], i) \in Seq(Tasks)
      /\ Len(WithoutIndex(container[b], i)) = Len(container[b]) - 1
  <2>1. container[b] \in Seq(Tasks)
    BY <1>0 DEF BodyTypeOK
  <2> QED  BY <1>c, <2>1, WithoutIndexShortens
<1>e. /\ container[b]' = WithoutIndex(container[b], i)
      /\ \A c \in Bodies \ {b} : container[c]' = container[c]
  BY <1>0, <1>c DEF BodyTypeOK
<1>f. msg[r]' = container[b][i] /\ \A q \in Threads \ {r} : msg[q]' = msg[q]
  BY <1>0, <1>c DEF BodyTypeOK
<1>g. /\ \A c \in Bodies \ {b} : Holding(c)' = Holding(c) /\ Popping(c)' = Popping(c)
      /\ Cardinality(Holding(b))' = Cardinality(Holding(b)) - 1
      /\ Cardinality(Popping(b))' = Cardinality(Popping(b)) - 1
  BY <1>0, ThreadsMove DEF GetTaskFromContainer, Holding, Popping
<1>1. BodyTypeOK'
  BY <1>0, <1>c, <1>d DEF GetTaskFromContainer, Goto, BodyTypeOK, PC
<1>2. ASSUME NEW c \in Bodies, c # b PROVE Items(c)' = Tokens(c)'
  BY <1>0, <1>2, <1>b, <1>e, <1>g, OtherBody DEF GetTaskFromContainer, TokenBalance
<1>h. /\ Len(container[b]) \in Nat /\ cmd[b] \in Nat
      /\ sem[b] \in Nat /\ Cardinality(InFlight(b)) \in Nat
      /\ Cardinality(Holding(b)) \in Nat /\ Cardinality(Popping(b)) \in Nat
  BY <1>0, BalanceTypes
<1>i. Len(container[b]') = Len(container[b]) - 1
  BY <1>d, <1>e
<1>3. Items(b)' = Tokens(b)'
  <2>2. cmd[b]' = cmd[b] /\ sem[b]' = sem[b]
    BY DEF GetTaskFromContainer
  <2>3. Items(b)' = Items(b) - 1
    BY <1>h, <1>i, <2>2 DEF Items
  <2>5. Tokens(b)' = Tokens(b) - 1
    BY <1>b, <1>g, <1>h, <2>2 DEF Tokens
  <2> QED  BY <1>0, <2>3, <2>5 DEF TokenBalance
<1>4. PopFindsTask'
  <2>1. Cardinality(Popping(b)) <= Len(container[b])
    BY <1>0 DEF PopFindsTask
  <2>2. Cardinality(Popping(b))' <= Len(container[b]')
    BY <1>g, <1>h, <1>i, <2>1
  <2> QED  BY <1>0, <1>e, <1>g, <2>2 DEF PopFindsTask
<1>5. NoNullTask'
  BY <1>0, <1>a, <1>d, <1>f, BodyAssumption DEF NoNullTask
<1> QED  BY <1>1, <1>2, <1>3, <1>4, <1>5 DEF BodyInv, TokenBalance

\* Every other step of a thread is quiet.
LEMMA QuietSteps ==
  ASSUME NEW r \in Threads, NEW b \in Bodies, NEW top \in {"prepare", "get"}, BodyInv,
         \/ CreateThread(r, b) \/ SetBusy(r, b) \/ EnterRun(r, b, top) \/ Prepared(r)
         \/ TryConsumeFails(r, b) \/ Notify(r) \/ Timeout(r, b) \/ ProcessInternalCmd(r, b)
         \/ TaskDone(r) \/ LeaveRun(r, b) \/ NotifyDone(r, b, top)
  PROVE  BodyInv'
<1>0. BodyTypeOK
  BY DEF BodyInv
<1>1. CASE CreateThread(r, b)
  BY <1>0, <1>1, QuietInv DEF CreateThread, BodyTypeOK, PC
<1>2. CASE SetBusy(r, b)
  BY <1>0, <1>2, QuietInv DEF SetBusy, BodyTypeOK, PC
<1>3. CASE EnterRun(r, b, top)
  BY <1>0, <1>3, QuietInv DEF EnterRun, BodyTypeOK, PC
<1>4. CASE Prepared(r) \/ TryConsumeFails(r, b)
  BY <1>0, <1>4, QuietInv DEF Prepared, TryConsumeFails, BodyTypeOK, PC
<1>5. CASE Notify(r)
  <2>1. /\ Goto(r, "notify", "timed") /\ container' = container /\ cmd' = cmd
        /\ sem' = sem /\ pending' = pending
    BY <1>5 DEF Notify
  <2>2. /\ msg' \in [Threads -> Tasks \cup {NULL}]
        /\ \A q \in Threads \ {r} : msg[q]' = msg[q]
        /\ req' \in [Threads -> Nat] /\ shouldStop' \in [Bodies -> BOOLEAN]
        /\ busy' \in [Bodies -> BOOLEAN]
    BY <1>0, <1>5 DEF Notify, BodyTypeOK
  <2> QED  BY <2>1, <2>2, QuietInv DEF PC
<1>6. CASE Timeout(r, b)
  BY <1>0, <1>6, QuietInv DEF Timeout, BodyTypeOK, PC
<1>7. CASE TaskDone(r)
  <2>1. /\ Goto(r, "task", "end") /\ container' = container /\ cmd' = cmd
        /\ sem' = sem /\ pending' = pending
    BY <1>7 DEF TaskDone
  <2>2. /\ msg' \in [Threads -> Tasks \cup {NULL}]
        /\ \A q \in Threads \ {r} : msg[q]' = msg[q]
        /\ req' \in [Threads -> Nat] /\ shouldStop' \in [Bodies -> BOOLEAN]
        /\ busy' \in [Bodies -> BOOLEAN]
    BY <1>0, <1>7 DEF TaskDone, BodyTypeOK
  <2> QED  BY <2>1, <2>2, QuietInv DEF PC
<1>8. CASE LeaveRun(r, b)
  BY <1>0, <1>8, QuietInv DEF LeaveRun, BodyTypeOK, PC
<1>9. CASE NotifyDone(r, b, top)
  BY <1>0, <1>9, QuietInv DEF NotifyDone, BodyTypeOK, PC
<1>10. CASE ProcessInternalCmd(r, b)
  BY <1>0, <1>10, QuietInv DEF ProcessInternalCmd, BodyTypeOK, PC
<1> QED  BY <1>1, <1>2, <1>3, <1>4, <1>5, <1>6, <1>7, <1>8, <1>9, <1>10

-----------------------------------------------------------------------------
(* The stand-alone worker *)

\* The initial state satisfies the inductive invariant.
LEMMA InitIInv == WorkerInit => IInv
<1> SUFFICES ASSUME WorkerInit PROVE IInv
  OBVIOUS
<1>1. BodyInv
  BY BodyInitInv DEF WorkerInit
<1>2. TypeOK
  BY <1>1, EmptySeq DEF WorkerInit, TypeOK, BodyInv, Life
<1>3. LifeInv
  BY DEF WorkerInit, LifeInv
<1> QED  BY <1>1, <1>2, <1>3 DEF IInv

\* A step of thread r moves that thread only, and only if it exists.
LEMMA ThreadStepMoves ==
  ASSUME NEW r \in Threads, NEW b \in Bodies, BodyTypeOK, ThreadStep(r, b)
  PROVE  /\ life' = life /\ pending' = pending /\ tid' = tid /\ doubled' = doubled
         /\ accepted' = accepted
         /\ pc[r] # "off" /\ \A q \in Threads \ {r} : pc[q]' = pc[q]
<1>1. life' = life /\ pending' = pending /\ tid' = tid /\ doubled' = doubled /\ accepted' = accepted
  BY DEF ThreadStep, WorkerRunTask, TaskDone, SetBusy, EnterRun, Consume, TakeToken,
         TryConsumeFails, Notify, TimedConsume, Timeout, GetInternalCmd, ProcessInternalCmd,
         GetTaskFromContainer, LeaveRun, NotifyDone
<1>2. \E from, to : from # "off" /\ Goto(r, from, to)
  BY DEF ThreadStep, WorkerRunTask, TaskDone, SetBusy, EnterRun, Consume,
         TryConsumeFails, Notify, TimedConsume, Timeout, GetInternalCmd, ProcessInternalCmd,
         GetTaskFromContainer, LeaveRun, NotifyDone
<1> QED  BY <1>1, <1>2 DEF Goto, BodyTypeOK

\* The threads' own steps preserve BodyInv and create no thread.
LEMMA ThreadStepInv ==
  ASSUME NEW r \in Threads, NEW b \in Bodies, b = Runs[r], IInv, ThreadStep(r, b)
  PROVE  IInv'
<1>0. BodyInv /\ TypeOK /\ LifeInv /\ BodyTypeOK
  BY DEF IInv, BodyInv
<1>1. BodyInv'
  <2>1. CASE WorkerRunTask(r, b)
    BY <1>0, <2>1, QuietSteps DEF WorkerRunTask
  <2>2. CASE Consume(r, b)
    BY <1>0, <2>2, TakeTokenInv DEF Consume
  <2>3. CASE TimedConsume(r, b)
    BY <1>0, <2>3, TakeTokenInv DEF TimedConsume
  <2>4. CASE GetInternalCmd(r, b)
    BY <1>0, <2>4, GetInternalCmdInv
  <2>5. CASE GetTaskFromContainer(r, b, 1)
    BY <1>0, <2>5, GetTaskInv
  <2>6. CASE \/ SetBusy(r, b) \/ EnterRun(r, b, "get") \/ TryConsumeFails(r, b) \/ Notify(r)
             \/ Timeout(r, b) \/ ProcessInternalCmd(r, b) \/ LeaveRun(r, b)
             \/ NotifyDone(r, b, "get")
    BY <1>0, <2>6, QuietSteps
  <2> QED  BY <2>1, <2>2, <2>3, <2>4, <2>5, <2>6 DEF ThreadStep
<1>2. finished' \in [Bodies -> Seq(Tasks)]
  <2>1. CASE WorkerRunTask(r, b)
    <3>1. msg[r] \in Tasks
      BY <1>0, <2>1 DEF WorkerRunTask, TaskDone, BodyTypeOK
    <3>2. finished[b] \in Seq(Tasks)
      BY <1>0 DEF TypeOK
    <3>3. Append(finished[b], msg[r]) \in Seq(Tasks)
      BY <3>1, <3>2, AppendProperties
    <3> QED  BY <1>0, <2>1, <3>3 DEF WorkerRunTask, TypeOK
  <2>2. CASE finished' = finished
    BY <1>0, <2>2 DEF TypeOK
  <2> QED  BY <2>1, <2>2 DEF ThreadStep
<1>a. /\ life' = life /\ pending' = pending /\ tid' = tid /\ doubled' = doubled
      /\ accepted' = accepted
      /\ pc[r] # "off" /\ \A q \in Threads \ {r} : pc[q]' = pc[q]
  BY <1>0, ThreadStepMoves
<1>3. TypeOK'
  BY <1>0, <1>1, <1>2, <1>a DEF TypeOK, BodyInv
<1>4. LifeInv'
  <2>1. ASSUME NEW c \in Bodies, Alive(c) = {} PROVE Alive(c)' = {}
    <3>1. pc[r] \in PC
      BY <1>0 DEF BodyTypeOK
    <3>2. c # b
      BY <1>a, <2>1, <3>1 DEF Alive, ThreadsAt
    <3> QED  BY <1>a, <2>1, <3>2 DEF Alive, ThreadsAt
  <2>2. \A c \in Bodies : InFlight(c)' = InFlight(c)
    BY <1>a DEF InFlight
  <2> QED  BY <1>0, <1>a, <2>1, <2>2 DEF LifeInv
<1> QED  BY <1>1, <1>3, <1>4 DEF IInv

\* A round of the destructor's loop takes one task and one token.
LEMMA ClearAllTaskInv ==
  ASSUME NEW b \in Bodies, IInv, ClearAllTask(b)
  PROVE  IInv'
<1>0. TypeOK /\ LifeInv /\ BodyTypeOK /\ TokenBalance /\ PopFindsTask /\ NoNullTask
  BY DEF IInv, BodyInv
<1>a. Alive(b) = {} /\ container[b] \in Seq(Tasks) /\ container[b] # <<>>
  BY <1>0 DEF LifeInv, ClearAllTask, BodyTypeOK
<1>b. Tail(container[b]) \in Seq(Tasks) /\ Len(Tail(container[b])) = Len(container[b]) - 1
  BY <1>a, HeadTailProperties
<1>c. /\ container[b]' = Tail(container[b]) /\ sem[b]' = sem[b] - 1
      /\ \A c \in Bodies \ {b} : container[c]' = container[c] /\ sem[c]' = sem[c]
  BY <1>0 DEF ClearAllTask, BodyTypeOK
<1>d. \A c \in Bodies : InFlight(c)' = InFlight(c)
  BY DEF ClearAllTask, InFlight
<1>e. \A c : Holding(c)' = Holding(c) /\ Popping(c)' = Popping(c)
  BY NoThreadMoves DEF ClearAllTask
<1>1. BodyTypeOK'
  BY <1>0, <1>b DEF ClearAllTask, BodyTypeOK
<1>2. ASSUME NEW c \in Bodies, c # b PROVE Items(c)' = Tokens(c)'
  BY <1>0, <1>2, <1>c, <1>d, <1>e, OtherBody DEF ClearAllTask, TokenBalance
<1>3. Items(b)' = Tokens(b)'
  <2>0. /\ Len(container[b]) \in Nat /\ cmd[b] \in Nat /\ Cardinality(Holding(b)) \in Nat
        /\ sem[b] \in Nat /\ Cardinality(InFlight(b)) \in Nat
    BY <1>0, BalanceTypes
  <2>1. cmd[b]' = cmd[b] /\ Cardinality(Holding(b))' = Cardinality(Holding(b))
    BY <1>e DEF ClearAllTask
  <2>2. Len(container[b])' = Len(container[b]) - 1
    BY <1>b, <1>c
  <2>3. Items(b)' = Items(b) - 1
    BY <2>0, <2>1, <2>2 DEF Items
  <2>4. Tokens(b)' = Tokens(b) - 1
    BY <1>c, <1>d, <2>0, <2>1 DEF Tokens
  <2> QED  BY <1>0, <2>3, <2>4 DEF TokenBalance
<1>4. PopFindsTask'
  <2>1. Popping(b)' = {}
    BY <1>a, <1>e DEF Alive, Popping, ThreadsAt, PC
  <2>2. Cardinality(Popping(b))' = 0
    BY <2>1, FS_EmptySet
  <2>3. Len(container'[b]) \in Nat
    BY <1>b, <1>c, LenProperties
  <2> QED  BY <1>0, <1>c, <1>e, <2>2, <2>3 DEF PopFindsTask
<1>5. NoNullTask'
  BY <1>0 DEF ClearAllTask, NoNullTask
<1>6. TypeOK' /\ LifeInv'
  BY <1>0, <1>1, <1>d DEF ClearAllTask, TypeOK, LifeInv, Alive, ThreadsAt
<1> QED  BY <1>1, <1>2, <1>3, <1>4, <1>5, <1>6 DEF IInv, BodyInv, TokenBalance

\* The owner's other steps: starting, stopping, joining, destroying.
LEMMA OwnerStepInv ==
  ASSUME NEW b \in Bodies, IInv, OwnerStep(b)
  PROVE  IInv'
<1>0. BodyInv /\ TypeOK /\ LifeInv /\ BodyTypeOK
  BY DEF IInv, BodyInv
<1>1. CASE ClearAllTask(b)
  BY <1>1, ClearAllTaskInv
<1>2. ASSUME NEW r \in Threads, Runs[r] = b, StartWorking(r, b) PROVE IInv'
  <2>1. BodyInv'
    BY <1>0, <1>2, QuietSteps DEF StartWorking
  <2>2. TypeOK'
    BY <1>0, <1>2, <2>1 DEF StartWorking, TypeOK, BodyInv, Life
  <2>3. /\ life'[b] = "started" /\ pending' = pending
        /\ \A c \in Bodies \ {b} : life'[c] = life[c]
        /\ \A q \in Threads \ {r} : pc'[q] = pc[q]
    BY <1>0, <1>2 DEF StartWorking, CreateThread, Goto, TypeOK, BodyTypeOK
  <2>4. LifeInv'
    BY <1>0, <1>2, <2>3 DEF LifeInv, InFlight, Alive, ThreadsAt
  <2> QED  BY <2>1, <2>2, <2>4 DEF IInv
<1>3. ASSUME NEW join \in BOOLEAN, StopWorking(b, join) PROVE IInv'
  <2>1. BodyInv'
    BY <1>0, <1>3, PushExitInv, OwnerAssumption DEF StopWorking
  <2>2. life' \in [Bodies -> Life]
    BY <1>0, <1>3 DEF StopWorking, TypeOK, Life
  <2>3. TypeOK'
    BY <1>0, <1>3, <2>1, <2>2 DEF StopWorking, TypeOK, BodyInv
  <2>4. pc' = pc /\ \A c \in Bodies \ {b} : InFlight(c)' = InFlight(c) /\ life'[c] = life[c]
    BY <1>0, <1>3, OwnerAssumption, InFlightAdds DEF StopWorking, PushExit, TypeOK
  <2>5. life'[b] \in {"started", "stopping"}
    BY <1>0, <1>3 DEF StopWorking, TypeOK
  <2>6. LifeInv'
    BY <1>0, <2>4, <2>5 DEF LifeInv, Alive, ThreadsAt
  <2> QED  BY <2>1, <2>3, <2>6 DEF IInv
<1>4. CASE Join(b) \/ Destroy(b) \/ Cleared(b)
  <2>1. bodyVars' = bodyVars
    BY <1>4 DEF Join, Destroy, Cleared
  <2>2. BodyInv'
    BY <1>0, <2>1, BodyStutter
  <2>3. TypeOK'
    BY <1>0, <1>4, <2>2 DEF Join, Destroy, Cleared, TypeOK, BodyInv, Life
  <2>4. \A c \in Bodies : InFlight(c)' = InFlight(c) /\ Alive(c)' = Alive(c)
    BY <2>1 DEF bodyVars, InFlight, Alive, ThreadsAt
  <2>5. LifeInv'
    BY <1>0, <1>4, <2>4 DEF Join, Destroy, Cleared, LifeInv, TypeOK
  <2> QED  BY <2>2, <2>3, <2>5 DEF IInv
<1> QED  BY <1>1, <1>2, <1>3, <1>4 DEF OwnerStep

\* WorkerPostTask and the sem_post that completes a call.
LEMMA PosterStepInv ==
  ASSUME NEW p \in Posters, IInv,
         WorkerSignal(p) \/ \E b \in Bodies, t \in Tasks : WorkerPostTask(p, b, t)
  PROVE  IInv'
<1>0. BodyInv /\ TypeOK /\ LifeInv /\ BodyTypeOK
  BY DEF IInv, BodyInv
<1>1. CASE WorkerSignal(p)
  <2>1. BodyInv'
    BY <1>0, <1>1, SignalPostInv DEF WorkerSignal
  <2>2. TypeOK'
    BY <1>0, <1>1, <2>1 DEF WorkerSignal, TypeOK, BodyInv
  <2>3. \A c \in Bodies : InFlight(c) = {} => InFlight(c)' = {}
    BY <1>0, <1>1, BodyAssumption DEF WorkerSignal, SignalPost, InFlight, BodyTypeOK
  <2>4. LifeInv'
    BY <1>0, <1>1, <2>3 DEF WorkerSignal, SignalPost, LifeInv, Alive, ThreadsAt
  <2> QED  BY <2>1, <2>2, <2>4 DEF IInv
<1>2. ASSUME NEW b \in Bodies, NEW t \in Tasks, WorkerPostTask(p, b, t) PROVE IInv'
  <2>1. BodyInv'
    BY <1>0, <1>2, PushTaskInv DEF WorkerPostTask
  <2>2. accepted[b] \in Seq(Tasks)
    BY <1>0 DEF TypeOK
  <2>3. Append(accepted[b], t) \in Seq(Tasks)
    BY <2>2, AppendProperties
  <2>4. TypeOK'
    BY <1>0, <1>2, <2>1, <2>3 DEF WorkerPostTask, TypeOK, BodyInv
  <2>5. \A c \in Bodies \ {b} : InFlight(c)' = InFlight(c)
    BY <1>0, <1>2, InFlightAdds DEF WorkerPostTask, PushTask
  <2>6. LifeInv'
    BY <1>0, <1>2, <2>5 DEF WorkerPostTask, PushTask, LifeInv, Alive, ThreadsAt
  <2> QED  BY <2>1, <2>4, <2>6 DEF IInv
<1> QED  BY <1>1, <1>2

\* IInv is inductive.
LEMMA NextIInv == IInv /\ [WorkerNext]_workerVars => IInv'
<1> SUFFICES ASSUME IInv, [WorkerNext]_workerVars PROVE IInv'
  OBVIOUS
<1>1. CASE UNCHANGED workerVars
  <2>1. /\ bodyVars' = bodyVars /\ life' = life /\ tid' = tid /\ doubled' = doubled
        /\ accepted' = accepted /\ finished' = finished
    BY <1>1 DEF workerVars
  <2>2. BodyInv'
    BY <2>1, BodyStutter DEF IInv
  <2>3. TypeOK'
    BY <2>1, <2>2 DEF IInv, TypeOK, BodyInv
  <2>4. LifeInv'
    BY <2>1 DEF IInv, LifeInv, InFlight, Alive, ThreadsAt, bodyVars
  <2> QED  BY <2>2, <2>3, <2>4 DEF IInv
<1>2. ASSUME NEW r \in Threads, ThreadStep(r, Runs[r]) PROVE IInv'
  BY <1>2, ThreadStepInv, BodyAssumption
<1>3. ASSUME NEW b \in Bodies, OwnerStep(b) PROVE IInv'
  BY <1>3, OwnerStepInv
<1>4. ASSUME NEW p \in Posters, WorkerSignal(p) PROVE IInv'
  BY <1>4, PosterStepInv
<1>5. ASSUME NEW p \in Posters, NEW b \in Bodies, NEW t \in Tasks, WorkerPostTask(p, b, t)
      PROVE  IInv'
  BY <1>5, PosterStepInv
<1> QED  BY <1>1, <1>2, <1>3, <1>4, <1>5 DEF WorkerNext

\* IInv holds in every reachable state.
THEOREM WorkerInvariant == WorkerSafetySpec => []IInv
<1>1. WorkerInit => IInv
  BY InitIInv
<1>2. IInv /\ [WorkerNext]_workerVars => IInv'
  BY NextIInv
<1> QED  BY <1>1, <1>2, PTL DEF WorkerSafetySpec

\* The variables keep their types: queues hold tasks, counters stay naturals.
THEOREM TypeCorrect == WorkerSafetySpec => []TypeOK
<1>1. IInv => TypeOK
  BY DEF IInv
<1> QED  BY <1>1, WorkerInvariant, PTL

\* sem_ counts the queued tasks and exit commands exactly, whatever number of
\* threads post, however many threads the owner's starts have put to work on
\* one body, and through stops and restarts.
THEOREM SemaphoreCountsItems == WorkerSafetySpec => []TokenBalance
<1>1. IInv => TokenBalance
  BY DEF IInv, BodyInv
<1> QED  BY <1>1, WorkerInvariant, PTL

\* No worker ever calls HandleTask with a null task, however many threads are
\* at work on its body.
THEOREM NeverANullTask == WorkerSafetySpec => []NoNullTask
<1>1. IInv => NoNullTask
  BY DEF IInv, BodyInv
<1> QED  BY <1>1, WorkerInvariant, PTL

-----------------------------------------------------------------------------
(* The order of the tasks. *)

\* Until a start came too early, a body has one thread, and busy_ is set once
\* that thread has run; so Start() refuses a second one.
LEMMA NextSole == IInv /\ SoleThread /\ [WorkerNext]_workerVars => SoleThread'
<1> SUFFICES ASSUME IInv, SoleThread, [WorkerNext]_workerVars,
                    NEW c \in Bodies, ~doubled'[c]
             PROVE  /\ \A q, r \in Alive(c)' : q = r
                    /\ ThreadsAt(c, PC \ {"off", "created"})' # {} => busy'[c]
  BY DEF SoleThread
<1>0. TypeOK /\ BodyTypeOK
  BY DEF IInv, BodyInv
<1>1. ~doubled[c] => /\ \A q, r \in Alive(c) : q = r
                     /\ ThreadsAt(c, PC \ {"off", "created"}) # {} => busy[c]
  BY DEF SoleThread
<1>2. CASE UNCHANGED <<pc, busy, doubled>>
  BY <1>1, <1>2 DEF Alive, ThreadsAt
<1>3. ASSUME NEW r \in Threads, ThreadStep(r, Runs[r])
      PROVE  /\ \A q, s \in Alive(c)' : q = s
             /\ ThreadsAt(c, PC \ {"off", "created"})' # {} => busy'[c]
  <2>0. PICK b \in Bodies : b = Runs[r]
    BY BodyAssumption
  <2>1. doubled' = doubled /\ pc[r] # "off" /\ \A q \in Threads \ {r} : pc'[q] = pc[q]
    BY <1>0, <1>3, <2>0, ThreadStepMoves
  <2>2. pc[r] \in PC
    BY <1>0 DEF BodyTypeOK
  <2>3. Alive(c)' \subseteq Alive(c)
    BY <2>1, <2>2 DEF Alive, ThreadsAt
  <2>4. CASE SetBusy(r, b)
    <3>1. busy'[b] /\ \A d \in Bodies \ {b} : busy'[d] = busy[d]
      BY <1>0, <2>4, Zenon DEF SetBusy, BodyTypeOK
    <3>2. c # b => ThreadsAt(c, PC \ {"off", "created"})' = ThreadsAt(c, PC \ {"off", "created"})
      BY <2>0, <2>1 DEF ThreadsAt
    <3> QED  BY <1>1, <2>1, <2>3, <3>1, <3>2
  <2>5. CASE LeaveRun(r, b)
    <3>1. \A d \in Bodies \ {b} : busy'[d] = busy[d]
      BY <1>0, <2>5, Zenon DEF LeaveRun, BodyTypeOK
    <3>2. c # b => ThreadsAt(c, PC \ {"off", "created"})' = ThreadsAt(c, PC \ {"off", "created"})
      BY <2>0, <2>1 DEF ThreadsAt
    <3>3. c = b => ThreadsAt(c, PC \ {"off", "created"})' = {}
      <4>1. pc'[r] = "off"
        BY <1>0, <2>5 DEF LeaveRun, Goto, BodyTypeOK
      <4>2. c = b => r \in Alive(c) /\ \A q \in Alive(c) : q = r
        BY <1>1, <2>0, <2>1, <2>2 DEF Alive, ThreadsAt
      <4> QED  BY <2>1, <4>1, <4>2 DEF Alive, ThreadsAt
    <3> QED  BY <1>1, <2>1, <2>3, <3>1, <3>2, <3>3
  <2>6. CASE UNCHANGED busy /\ pc[r] # "created"
    <3>1. ThreadsAt(c, PC \ {"off", "created"})' # {} => ThreadsAt(c, PC \ {"off", "created"}) # {}
      BY <2>1, <2>2, <2>6 DEF ThreadsAt
    <3> QED  BY <1>1, <2>1, <2>3, <2>6, <3>1
  <2>7. SetBusy(r, b) \/ LeaveRun(r, b) \/ (UNCHANGED busy /\ pc[r] # "created")
    BY <1>3, <2>0 DEF ThreadStep, WorkerRunTask, TaskDone, EnterRun, Consume, TakeToken,
         TryConsumeFails, Notify, TimedConsume, Timeout, GetInternalCmd, ProcessInternalCmd,
         GetTaskFromContainer, NotifyDone, Goto
  <2> QED  BY <2>4, <2>5, <2>6, <2>7
<1>4. ASSUME NEW b \in Bodies, NEW r \in Threads, Runs[r] = b, StartWorking(r, b)
      PROVE  /\ \A q, s \in Alive(c)' : q = s
             /\ ThreadsAt(c, PC \ {"off", "created"})' # {} => busy'[c]
  <2>1. /\ busy' = busy /\ ~busy[b] /\ pc[r] = "off" /\ pc'[r] = "created"
        /\ \A q \in Threads \ {r} : pc'[q] = pc[q]
    BY <1>0, <1>4 DEF StartWorking, CreateThread, Goto, BodyTypeOK
  <2>2. /\ \A d \in Bodies \ {b} : doubled'[d] = doubled[d]
        /\ doubled'[b] = (doubled[b] \/ ThreadsAt(b, {"created"}) # {})
    BY <1>0, <1>4, Zenon DEF StartWorking, TypeOK
  <2>3. ThreadsAt(c, PC \ {"off", "created"})' = ThreadsAt(c, PC \ {"off", "created"})
    BY <2>1 DEF ThreadsAt
  <2>4. CASE c = b
    <3>1. ~doubled[b] /\ ThreadsAt(b, {"created"}) = {}
      BY <2>2, <2>4
    <3>2. ThreadsAt(b, PC \ {"off", "created"}) = {}
      BY <1>1, <2>1, <2>4, <3>1
    <3>3. \A q \in Alive(c)' : q = r
      BY <1>4, <2>1, <2>4, <3>1, <3>2 DEF Alive, ThreadsAt
    <3> QED  BY <2>3, <2>4, <3>2, <3>3
  <2>5. CASE c # b
    <3>1. Alive(c)' = Alive(c)
      BY <1>4, <2>1, <2>5 DEF Alive, ThreadsAt
    <3> QED  BY <1>1, <2>1, <2>2, <2>3, <2>5, <3>1
  <2> QED  BY <2>4, <2>5
<1>5. CASE UNCHANGED workerVars
  BY <1>2, <1>5 DEF workerVars, bodyVars
<1>6. ASSUME NEW b \in Bodies,
             \/ Join(b) \/ Destroy(b) \/ ClearAllTask(b) \/ Cleared(b)
             \/ \E join \in BOOLEAN : StopWorking(b, join)
      PROVE  UNCHANGED <<pc, busy, doubled>>
  BY <1>6 DEF Join, Destroy, ClearAllTask, Cleared, StopWorking, PushExit, bodyVars
<1>7. ASSUME NEW p \in Posters,
             WorkerSignal(p) \/ \E b \in Bodies, t \in Tasks : WorkerPostTask(p, b, t)
      PROVE  UNCHANGED <<pc, busy, doubled>>
  BY <1>7 DEF WorkerSignal, SignalPost, WorkerPostTask, PushTask
<1> QED  BY <1>2, <1>3, <1>4, <1>5, <1>6, <1>7 DEF WorkerNext, OwnerStep

\* Popping position 1 of a mailbox is taking its head.
LEMMA PopFront ==
  ASSUME NEW S, NEW s \in Seq(S), s # <<>>
  PROVE  s[1] \in S /\ s = <<s[1]>> \o WithoutIndex(s, 1) /\ WithoutIndex(s, 1) \in Seq(S)
<1>1. Len(s) \in Nat /\ Len(s) > 0 /\ s[1] \in S
  BY EmptySeq, LenProperties, ElementOfSeq
<1>2. SubSeq(s, 1, 0) = << >> /\ SubSeq(s, 2, Len(s)) = Tail(s)
  BY <1>1, SubSeqProperties, HeadTailProperties
<1>3. Tail(s) \in Seq(S) /\ Len(Tail(s)) = Len(s) - 1
      /\ \A i \in 1..Len(Tail(s)) : Tail(s)[i] = s[i + 1]
  BY HeadTailProperties
<1>4. WithoutIndex(s, 1) = Tail(s)
  BY <1>1, <1>2, <1>3, ConcatEmptySeq DEF WithoutIndex
<1>5. <<s[1]>> \in Seq(S)
  BY <1>1
<1>6. s = <<s[1]>> \o Tail(s)
  BY <1>1, <1>3, <1>5, ConcatProperties, SeqEqual
<1> QED  BY <1>1, <1>3, <1>4, <1>6

\* The elements of a longer sequence.
LEMMA InSeqFacts ==
  ASSUME NEW s \in Seq(Tasks), NEW t \in Tasks
  PROVE  InSeq(Append(s, t)) = InSeq(s) \cup {t} /\ InSeq(<<t>> \o s) = {t} \cup InSeq(s)
<1>1. /\ Len(s) \in Nat /\ DOMAIN s = 1..Len(s)
      /\ DOMAIN Append(s, t) = 1..(Len(s) + 1) /\ Append(s, t)[Len(s) + 1] = t
      /\ \A i \in 1..Len(s) : Append(s, t)[i] = s[i]
  BY LenProperties, AppendProperties
<1>2. InSeq(Append(s, t)) = InSeq(s) \cup {t}
  <2>1. \A i \in 1..(Len(s) + 1) : i \in 1..Len(s) \/ i = Len(s) + 1
    BY <1>1
  <2>2. 1..Len(s) \subseteq 1..(Len(s) + 1) /\ Len(s) + 1 \in 1..(Len(s) + 1)
    BY <1>1
  <2>3. ASSUME NEW x PROVE x \in InSeq(Append(s, t)) <=> x \in InSeq(s) \cup {t}
    BY <1>1, <2>1, <2>2 DEF InSeq
  <2> QED  BY <2>3
<1>3. <<t>> \o s \in Seq(Tasks) /\ Len(<<t>> \o s) = Len(s) + 1
  BY <1>1, ConcatProperties
<1>4. DOMAIN (<<t>> \o s) = 1..(Len(s) + 1) /\ (<<t>> \o s)[1] = t
      /\ \A i \in 1..Len(s) : (<<t>> \o s)[i + 1] = s[i]
  BY <1>1, <1>3, ConcatProperties, LenProperties
<1>5. PICK u : u = <<t>> \o s
  OBVIOUS
<1>6. InSeq(u) = {t} \cup InSeq(s)
  <2>0. DOMAIN u = 1..(Len(s) + 1) /\ u[1] = t /\ \A i \in 1..Len(s) : u[i + 1] = s[i]
    BY <1>4, <1>5
  <2>1. \A i \in 1..(Len(s) + 1) : i = 1 \/ (i - 1 \in 1..Len(s) /\ (i - 1) + 1 = i)
    BY <1>1
  <2>2. 1 \in 1..(Len(s) + 1) /\ \A i \in 1..Len(s) : i + 1 \in 1..(Len(s) + 1)
    BY <1>1
  <2>3. ASSUME NEW x \in InSeq(u) PROVE x \in {t} \cup InSeq(s)
    <3>1. PICK i \in 1..(Len(s) + 1) : x = u[i]
      BY <2>0 DEF InSeq
    <3>2. CASE i = 1
      BY <2>0, <3>1, <3>2
    <3>3. CASE i - 1 \in 1..Len(s) /\ (i - 1) + 1 = i
      <4>1. x = s[i - 1]
        BY <2>0, <3>1, <3>3
      <4> QED  BY <1>1, <3>3, <4>1 DEF InSeq
    <3> QED  BY <2>1, <3>2, <3>3
  <2>4. ASSUME NEW x \in {t} \cup InSeq(s) PROVE x \in InSeq(u)
    <3>1. CASE x = t
      BY <2>0, <2>2, <3>1 DEF InSeq
    <3>2. CASE x \in InSeq(s)
      <4>1. PICK i \in 1..Len(s) : x = s[i]
        BY <1>1, <3>2 DEF InSeq
      <4> QED  BY <2>0, <2>2, <4>1 DEF InSeq
    <3> QED  BY <2>4, <3>1, <3>2
  <2> QED  BY <2>3, <2>4
<1> QED  BY <1>2, <1>5, <1>6

\* A step that neither begins nor ends a task of body c.
LEMMA CurrentSame ==
  ASSUME NEW c, ThreadsAt(c, {"task"})' = ThreadsAt(c, {"task"}),
         \A q \in ThreadsAt(c, {"task"}) : msg'[q] = msg[q]
  PROVE  Current(c)' = Current(c) /\ Running(c)' = Running(c)
<1>1. PICK R : R = ThreadsAt(c, {"task"})
  OBVIOUS
<1>2. R # {} => Any(R) \in R
  BY DEF Any
<1>3. R # {} => msg'[Any(R)] = msg[Any(R)]
  BY <1>1, <1>2
<1>4. Current(c) = (IF R = {} THEN <<>> ELSE <<msg[Any(R)]>>)
  BY <1>1 DEF Current
<1>5. Current(c)' = (IF R = {} THEN <<>> ELSE <<msg'[Any(R)]>>)
  <2>1. R = ThreadsAt(c, {"task"})'
    BY <1>1
  <2> QED  BY <2>1 DEF Current
<1>6. Running(c)' = Running(c)
  <2>1. Running(c) = {msg[q] : q \in R} /\ Running(c)' = {msg'[q] : q \in R}
    BY <1>1 DEF Running
  <2>2. \A q \in R : msg'[q] = msg[q]
    BY <1>1
  <2> QED  BY <2>1, <2>2
<1> QED  BY <1>3, <1>4, <1>5, <1>6

\* With one thread in HandleTask, its task is the current one.
LEMMA CurrentOne ==
  ASSUME NEW c, NEW r
  PROVE  /\ ThreadsAt(c, {"task"}) = {r} => Current(c) = <<msg[r]>>
         /\ ThreadsAt(c, {"task"})' = {r} => Current(c)' = <<msg'[r]>>
         /\ ThreadsAt(c, {"task"}) = {} => Current(c) = <<>>
         /\ ThreadsAt(c, {"task"})' = {} => Current(c)' = <<>>
<1>1. {r} # {} /\ Any({r}) = r
  BY DEF Any
<1> QED  BY <1>1 DEF Current

\* The one step that ends a task of body c, and the one that begins one.
LEMMA TaskEnds ==
  ASSUME NEW r \in Threads, NEW c \in Bodies, c = Runs[r], TypeOK, NoNullTask, WorkerRunTask(r, c)
  PROVE  /\ finished'[c] = Append(finished[c], msg[r]) /\ msg[r] \in Tasks
         /\ r \in ThreadsAt(c, {"task"})
         /\ ThreadsAt(c, {"task"})' = ThreadsAt(c, {"task"}) \ {r}
         /\ Running(c) = Running(c)' \cup {msg[r]}
<1>0. BodyTypeOK
  BY DEF TypeOK
<1>1. /\ pc[r] = "task" /\ pc'[r] = "end" /\ \A q \in Threads \ {r} : pc'[q] = pc[q]
      /\ msg[r] \in Tasks /\ \A q \in Threads \ {r} : msg'[q] = msg[q]
  BY <1>0 DEF WorkerRunTask, TaskDone, Goto, BodyTypeOK
<1>2. finished'[c] = Append(finished[c], msg[r])
  BY DEF WorkerRunTask, TypeOK
<1>3. /\ r \in ThreadsAt(c, {"task"})
      /\ ThreadsAt(c, {"task"})' = ThreadsAt(c, {"task"}) \ {r}
  BY <1>1 DEF ThreadsAt
<1>4. PICK R \in SUBSET Threads : R = ThreadsAt(c, {"task"})
  BY DEF ThreadsAt
<1>5. Running(c) = {msg[q] : q \in R} /\ Running(c)' = {msg'[q] : q \in R \ {r}}
  BY <1>3, <1>4 DEF Running
<1>6. {msg'[q] : q \in R \ {r}} = {msg[q] : q \in R \ {r}}
  BY <1>1, <1>4
<1>7. {msg[q] : q \in R} = {msg[q] : q \in R \ {r}} \cup {msg[r]}
  BY <1>3, <1>4
<1> QED  BY <1>1, <1>2, <1>3, <1>5, <1>6, <1>7

LEMMA TaskBegins ==
  ASSUME NEW r \in Threads, NEW c \in Bodies, c = Runs[r], BodyTypeOK, PopFindsTask,
         GetTaskFromContainer(r, c, 1)
  PROVE  /\ container[c] \in Seq(Tasks) /\ container'[c] \in Seq(Tasks)
         /\ msg'[r] \in Tasks /\ container[c] = <<msg'[r]>> \o container'[c]
         /\ r \notin ThreadsAt(c, {"task"}) /\ pc[r] = "pop"
         /\ ThreadsAt(c, {"task"})' = ThreadsAt(c, {"task"}) \cup {r}
         /\ Running(c)' = Running(c) \cup {msg'[r]}
<1>1. /\ pc[r] = "pop" /\ pc'[r] = "task" /\ \A q \in Threads \ {r} : pc'[q] = pc[q]
  BY DEF GetTaskFromContainer, Goto, BodyTypeOK
<1>2. container[c] \in Seq(Tasks) /\ container[c] # <<>>
  BY <1>1, TaskToPop DEF BodyTypeOK
<1>3. /\ msg'[r] = container[c][1] /\ container'[c] = WithoutIndex(container[c], 1)
      /\ \A q \in Threads \ {r} : msg'[q] = msg[q]
  BY <1>2 DEF GetTaskFromContainer, BodyTypeOK
<1>4. /\ container'[c] \in Seq(Tasks) /\ msg'[r] \in Tasks
      /\ container[c] = <<msg'[r]>> \o container'[c]
  BY <1>2, <1>3, PopFront
<1>5. /\ r \notin ThreadsAt(c, {"task"})
      /\ ThreadsAt(c, {"task"})' = ThreadsAt(c, {"task"}) \cup {r}
  BY <1>1 DEF ThreadsAt
<1>6. PICK R \in SUBSET Threads : R = ThreadsAt(c, {"task"})
  BY DEF ThreadsAt
<1>7. Running(c) = {msg[q] : q \in R} /\ Running(c)' = {msg'[q] : q \in R \cup {r}}
  BY <1>5, <1>6 DEF Running
<1>8. {msg'[q] : q \in R} = {msg[q] : q \in R}
  BY <1>3, <1>5, <1>6
<1>9. {msg'[q] : q \in R \cup {r}} = {msg'[q] : q \in R} \cup {msg'[r]}
  OBVIOUS
<1> QED  BY <1>1, <1>2, <1>4, <1>5, <1>7, <1>8, <1>9

\* RunInOrder is inductive relative to IInv and SoleThread.
LEMMA NextInOrder ==
  IInv /\ IInv' /\ SoleThread /\ RunInOrder /\ [WorkerNext]_workerVars => RunInOrder'
<1> SUFFICES ASSUME IInv, IInv', SoleThread, RunInOrder, [WorkerNext]_workerVars,
                    NEW c \in Bodies, life'[c] \notin {"clearing", "dead"}
             PROVE  (doubled'[c] \/ InOrder(c)') /\ NoneLost(c)'
  BY DEF RunInOrder
<1> DEFINE Goal == (doubled'[c] \/ InOrder(c)') /\ NoneLost(c)'
<1>0. /\ TypeOK /\ BodyTypeOK /\ LifeInv /\ PopFindsTask /\ NoNullTask
      /\ accepted[c] \in Seq(Tasks) /\ finished[c] \in Seq(Tasks) /\ container[c] \in Seq(Tasks)
  BY DEF IInv, BodyInv, TypeOK, BodyTypeOK
<1>2. life[c] \notin {"clearing", "dead"} => (doubled[c] \/ InOrder(c)) /\ NoneLost(c)
  BY DEF RunInOrder
<1>a. \A r, s, t \in Seq(Tasks) : (r \o s) \o t = r \o (s \o t)
  BY ConcatAssociative
\* Steps that touch neither the tasks of c nor its histories.
<1>b. ASSUME life[c] \notin {"clearing", "dead"}, doubled[c] => doubled'[c],
             container'[c] = container[c], accepted'[c] = accepted[c], finished'[c] = finished[c],
             Current(c)' = Current(c), Running(c)' = Running(c)
      PROVE  Goal
  BY <1>2, <1>b DEF InOrder, NoneLost
<1>c. (\A r \in Threads : Runs[r] = c /\ (pc[r] = "task" \/ pc'[r] = "task")
                           => pc'[r] = pc[r] /\ msg'[r] = msg[r])
        => Current(c)' = Current(c) /\ Running(c)' = Running(c)
  <2> SUFFICES ASSUME \A r \in Threads : Runs[r] = c /\ (pc[r] = "task" \/ pc'[r] = "task")
                                         => pc'[r] = pc[r] /\ msg'[r] = msg[r]
               PROVE  Current(c)' = Current(c) /\ Running(c)' = Running(c)
    OBVIOUS
  <2>1. ThreadsAt(c, {"task"})' = ThreadsAt(c, {"task"})
    BY DEF ThreadsAt
  <2>2. \A q \in ThreadsAt(c, {"task"}) : msg'[q] = msg[q]
    BY DEF ThreadsAt
  <2> QED  BY <2>1, <2>2, CurrentSame
<1>3. CASE UNCHANGED workerVars
  BY <1>b, <1>c, <1>3 DEF workerVars, bodyVars
<1>4. ASSUME NEW r \in Threads, NEW b \in Bodies, b = Runs[r], WorkerRunTask(r, b)
      PROVE  Goal
  <2>0. life' = life /\ doubled' = doubled /\ accepted' = accepted /\ container' = container
    BY <1>4 DEF WorkerRunTask, TaskDone
  <2>1. CASE b = c
    <3>1. /\ finished'[c] = Append(finished[c], msg[r]) /\ msg[r] \in Tasks
          /\ r \in ThreadsAt(c, {"task"})
          /\ ThreadsAt(c, {"task"})' = ThreadsAt(c, {"task"}) \ {r}
          /\ Running(c) = Running(c)' \cup {msg[r]}
      BY <1>0, <1>4, <2>1, TaskEnds
    <3>2. NoneLost(c)'
      <4>1. InSeq(finished'[c]) = InSeq(finished[c]) \cup {msg[r]}
        <5>1. PICK t \in Tasks : t = msg[r]
          BY <3>1
        <5>2. InSeq(Append(finished[c], t)) = InSeq(finished[c]) \cup {t}
          BY <1>0, InSeqFacts
        <5> QED  BY <3>1, <5>1, <5>2
      <4> QED  BY <1>2, <2>0, <3>1, <4>1 DEF NoneLost
    <3>3. ASSUME ~doubled[c] PROVE InOrder(c)'
      <4>1. ThreadsAt(c, {"task"}) = {r}
        <5>1. \A p, q \in Alive(c) : p = q
          BY <3>3 DEF SoleThread
        <5>2. ThreadsAt(c, {"task"}) \subseteq Alive(c)
          BY DEF ThreadsAt, Alive, PC
        <5> QED  BY <3>1, <5>1, <5>2
      <4>2. Current(c) = <<msg[r]>> /\ Current(c)' = << >>
        BY <3>1, <4>1, CurrentOne
      <4>3. finished'[c] = finished[c] \o Current(c) /\ finished'[c] \in Seq(Tasks)
        <5>1. PICK t \in Tasks : t = msg[r]
          BY <3>1
        <5>2. Append(finished[c], t) = finished[c] \o <<t>> /\ Append(finished[c], t) \in Seq(Tasks)
          BY <1>0, AppendIsConcat, AppendProperties
        <5> QED  BY <3>1, <4>2, <5>1, <5>2
      <4>4. accepted[c] = finished[c] \o Current(c) \o container[c]
        BY <1>2, <2>0, <3>3 DEF InOrder
      <4> QED  BY <2>0, <4>2, <4>3, <4>4, ConcatEmptySeq DEF InOrder
    <3> QED  BY <2>0, <3>2, <3>3
  <2>2. CASE b # c
    <3>1. finished'[c] = finished[c]
      BY <1>0, <1>4, <2>2 DEF WorkerRunTask, TypeOK
    <3>2. \A q \in Threads : Runs[q] = c => pc'[q] = pc[q] /\ msg'[q] = msg[q]
      BY <1>0, <1>4, <2>2 DEF WorkerRunTask, TaskDone, Goto, BodyTypeOK
    <3> QED  BY <1>b, <1>c, <2>0, <3>1, <3>2
  <2> QED  BY <2>1, <2>2
<1>5. ASSUME NEW r \in Threads, NEW b \in Bodies, b = Runs[r], GetTaskFromContainer(r, b, 1),
             UNCHANGED <<life, tid, doubled, accepted, finished>>
      PROVE  Goal
  <2>1. CASE b = c
    <3>1. /\ container'[c] \in Seq(Tasks)
          /\ msg'[r] \in Tasks /\ container[c] = <<msg'[r]>> \o container'[c]
          /\ r \notin ThreadsAt(c, {"task"}) /\ pc[r] = "pop"
          /\ ThreadsAt(c, {"task"})' = ThreadsAt(c, {"task"}) \cup {r}
          /\ Running(c)' = Running(c) \cup {msg'[r]}
      BY <1>0, <1>5, <2>1, TaskBegins
    <3>2. NoneLost(c)'
      <4>1. InSeq(container[c]) = {msg'[r]} \cup InSeq(container'[c])
        BY <3>1, InSeqFacts
      <4> QED  BY <1>2, <1>5, <3>1, <4>1 DEF NoneLost
    <3>3. ASSUME ~doubled[c] PROVE InOrder(c)'
      <4>1. ThreadsAt(c, {"task"}) = {}
        <5>1. \A p, q \in Alive(c) : p = q
          BY <3>3 DEF SoleThread
        <5>2. ThreadsAt(c, {"task"}) \subseteq Alive(c) /\ r \in Alive(c)
          BY <1>5, <2>1, <3>1 DEF ThreadsAt, Alive, PC
        <5> QED  BY <3>1, <5>1, <5>2
      <4>2. Current(c) = << >> /\ Current(c)' = <<msg'[r]>>
        BY <3>1, <4>1, CurrentOne
      <4>3. Current(c)' \in Seq(Tasks) /\ finished[c] \in Seq(Tasks) /\ container'[c] \in Seq(Tasks)
        BY <1>0, <3>1, <4>2
      <4>4. accepted[c] = finished[c] \o container[c]
        BY <1>0, <1>2, <1>5, <3>3, <4>2, ConcatEmptySeq DEF InOrder
      <4>5. (finished[c] \o Current(c)') \o container'[c] = finished[c] \o (Current(c)' \o container'[c])
        BY <1>a, <4>3, Zenon
      <4>6. finished'[c] = finished[c] /\ accepted'[c] = accepted[c]
        BY <1>5
      <4>7. container[c] = Current(c)' \o container'[c]
        BY <3>1, <4>2
      <4> QED  BY <4>4, <4>5, <4>6, <4>7, Zenon DEF InOrder
    <3> QED  BY <1>5, <3>2, <3>3
  <2>2. CASE b # c
    <3>1. container'[c] = container[c]
      BY <1>0, <1>5, <2>2 DEF GetTaskFromContainer, BodyTypeOK
    <3>2. \A q \in Threads : Runs[q] = c => pc'[q] = pc[q] /\ msg'[q] = msg[q]
      BY <1>0, <1>5, <2>2 DEF GetTaskFromContainer, Goto, BodyTypeOK
    <3> QED  BY <1>b, <1>c, <1>5, <3>1, <3>2
  <2> QED  BY <2>1, <2>2
<1>6. ASSUME NEW r \in Threads, NEW b \in Bodies,
             \/ SetBusy(r, b) \/ EnterRun(r, b, "get") \/ Consume(r, b) \/ TryConsumeFails(r, b)
             \/ Notify(r) \/ TimedConsume(r, b) \/ Timeout(r, b) \/ GetInternalCmd(r, b)
             \/ ProcessInternalCmd(r, b) \/ LeaveRun(r, b) \/ NotifyDone(r, b, "get"),
             UNCHANGED <<life, tid, doubled, accepted, finished>>
      PROVE  Goal
  <2>1. container' = container /\ msg' = msg
    BY <1>6 DEF SetBusy, EnterRun, Consume, TakeToken, TryConsumeFails, Notify, TimedConsume, Timeout,
                GetInternalCmd, ProcessInternalCmd, LeaveRun, NotifyDone
  <2>2. \E from, to : from # "task" /\ to # "task" /\ Goto(r, from, to)
    BY <1>6 DEF SetBusy, EnterRun, Consume, TryConsumeFails, Notify, TimedConsume, Timeout,
                GetInternalCmd, ProcessInternalCmd, LeaveRun, NotifyDone
  <2>3. \A q \in Threads : pc[q] = "task" \/ pc'[q] = "task" => pc'[q] = pc[q]
    BY <1>0, <2>2 DEF Goto, BodyTypeOK
  <2> QED  BY <1>b, <1>c, <1>6, <2>1, <2>3
<1>7. ASSUME NEW b \in Bodies, ClearAllTask(b)
      PROVE  Goal
  <2>1. c # b
    BY <1>7 DEF ClearAllTask
  <2>2. container'[c] = container[c] /\ UNCHANGED <<life, doubled, accepted, finished, pc, msg>>
    BY <1>0, <1>7, <2>1 DEF ClearAllTask, BodyTypeOK
  <2> QED  BY <1>b, <1>c, <2>2
<1>8. ASSUME NEW b \in Bodies,
             \/ \E r \in Threads : Runs[r] = b /\ StartWorking(r, b)
             \/ Join(b) \/ Destroy(b) \/ Cleared(b)
             \/ \E join \in BOOLEAN : StopWorking(b, join)
      PROVE  Goal
  <2>1. container' = container /\ msg' = msg /\ accepted' = accepted /\ finished' = finished
    BY <1>8 DEF StartWorking, Join, Destroy, Cleared, StopWorking, PushExit, CreateThread, bodyVars
  <2>2. \A q \in Threads : pc[q] = "task" \/ pc'[q] = "task" => pc'[q] = pc[q]
    BY <1>0, <1>8 DEF StartWorking, Join, Destroy, Cleared, StopWorking, PushExit, CreateThread,
                      Goto, bodyVars, BodyTypeOK
  <2>3. life[c] \notin {"clearing", "dead"}
    BY <1>0, <1>8 DEF StartWorking, Join, Destroy, Cleared, StopWorking, TypeOK
  <2>4. doubled[c] => doubled'[c]
    <3>1. CASE \E r \in Threads : Runs[r] = b /\ StartWorking(r, b)
      BY <1>0, <3>1, Zenon DEF StartWorking, TypeOK
    <3>2. CASE doubled' = doubled
      BY <3>2
    <3> QED  BY <1>8, <3>1, <3>2 DEF Join, Destroy, Cleared, StopWorking
  <2> QED  BY <1>b, <1>c, <2>1, <2>2, <2>3, <2>4
<1>9. ASSUME NEW p \in Posters, WorkerSignal(p)
      PROVE  Goal
  BY <1>b, <1>c, <1>9 DEF WorkerSignal, SignalPost
<1>10. ASSUME NEW p \in Posters, NEW b \in Bodies, NEW t \in Tasks, WorkerPostTask(p, b, t)
       PROVE  Goal
  <2>1. /\ Current(c)' = Current(c) /\ Running(c)' = Running(c)
        /\ life' = life /\ doubled' = doubled /\ finished' = finished
    BY <1>c, <1>10 DEF WorkerPostTask, PushTask
  <2>2. CASE b = c
    <3>1. accepted'[c] = Append(accepted[c], t) /\ container'[c] = Append(container[c], t)
      BY <1>0, <1>10, <2>2 DEF WorkerPostTask, PushTask, TypeOK, BodyTypeOK
    <3>2. InSeq(accepted'[c]) = InSeq(accepted[c]) \cup {t}
          /\ InSeq(container'[c]) = InSeq(container[c]) \cup {t}
      BY <1>0, <3>1, InSeqFacts
    <3>3. NoneLost(c)'
      BY <1>2, <2>1, <3>2 DEF NoneLost
    <3>4. ASSUME ~doubled[c] PROVE InOrder(c)'
      <4>1. Current(c) \in Seq(Tasks)
        <5>1. PICK R \in SUBSET Threads : R = ThreadsAt(c, {"task"})
          BY DEF ThreadsAt
        <5>2. \A q \in R : msg[q] \in Tasks
          BY <1>0, <5>1 DEF ThreadsAt, NoNullTask, BodyTypeOK
        <5>3. Current(c) = (IF R = {} THEN <<>> ELSE <<msg[Any(R)]>>)
          BY <5>1 DEF Current
        <5>4. R # {} => Any(R) \in R
          BY DEF Any
        <5> QED  BY <5>2, <5>3, <5>4, EmptySeq
      <4>2. accepted'[c] = accepted[c] \o <<t>> /\ container'[c] = container[c] \o <<t>>
        BY <1>0, <3>1, AppendIsConcat
      <4>3. finished[c] \o Current(c) \in Seq(Tasks) /\ <<t>> \in Seq(Tasks)
        BY <1>0, <4>1, ConcatProperties
      <4>4. (finished[c] \o Current(c)) \o container[c] \o <<t>>
              = (finished[c] \o Current(c)) \o (container[c] \o <<t>>)
        BY <1>0, <1>a, <4>3, Zenon
      <4>5. accepted[c] = finished[c] \o Current(c) \o container[c]
        BY <1>2, <2>1, <3>4 DEF InOrder
      <4> QED  BY <2>1, <4>2, <4>4, <4>5 DEF InOrder
    <3> QED  BY <2>1, <3>3, <3>4
  <2>3. CASE b # c
    <3>1. accepted'[c] = accepted[c] /\ container'[c] = container[c]
      BY <1>0, <1>10, <2>3 DEF WorkerPostTask, PushTask, TypeOK, BodyTypeOK
    <3> QED  BY <1>b, <2>1, <3>1
  <2> QED  BY <2>2, <2>3
<1>11. ASSUME NEW r \in Threads, ThreadStep(r, Runs[r]) PROVE Goal
  <2>1. Runs[r] \in Bodies
    BY BodyAssumption
  <2> QED  BY <1>4, <1>5, <1>6, <1>11, <2>1 DEF ThreadStep
<1> QED
  BY <1>3, <1>7, <1>8, <1>9, <1>10, <1>11 DEF WorkerNext, OwnerStep

\* However many threads post, and whatever stops and restarts come in between,
\* a worker runs the tasks it accepted in the order it accepted them, each
\* once, unless its owner called StartWorking again before the last thread
\* created had set busy_; and even with two threads at work no accepted task
\* is lost.
THEOREM TasksRunInOrder == WorkerSafetySpec => []RunInOrder
<1>1. WorkerInit => SoleThread /\ RunInOrder
  <2> SUFFICES ASSUME WorkerInit PROVE SoleThread /\ RunInOrder
    OBVIOUS
  <2>1. \A b \in Bodies : \A S : "off" \notin S => ThreadsAt(b, S) = {}
    BY DEF WorkerInit, BodyInit, ThreadsAt
  <2>2. SoleThread
    BY <2>1 DEF SoleThread, Alive
  <2>3. ASSUME NEW b \in Bodies PROVE InOrder(b) /\ NoneLost(b)
    <3>1. /\ accepted[b] = << >> /\ finished[b] = << >> /\ container[b] = << >>
          /\ ThreadsAt(b, {"task"}) = {}
      BY <2>1 DEF WorkerInit, BodyInit
    <3>2. Current(b) = << >> /\ Running(b) = {}
      BY <3>1 DEF Current, Running
    <3> QED  BY <3>1, <3>2 DEF InOrder, NoneLost
  <2> QED  BY <2>2, <2>3 DEF RunInOrder
<1>2. IInv /\ SoleThread /\ [WorkerNext]_workerVars => SoleThread'
  BY NextSole
<1>3. IInv /\ IInv' /\ SoleThread /\ RunInOrder /\ [WorkerNext]_workerVars => RunInOrder'
  BY NextInOrder
<1> QED  BY <1>1, <1>2, <1>3, WorkerInvariant, PTL DEF WorkerSafetySpec

-----------------------------------------------------------------------------
(* The thread pool *)

-----------------------------------------------------------------------------
(* The bits of freeWorkerBit_ *)

\* Bodies and values that can not be confused.
LEMMA Ids ==
  /\ Dispatcher \in Bodies /\ \A w \in Workers : w \in Bodies /\ w # Dispatcher
  /\ NULL \notin Bodies /\ Dispatcher # NULL /\ NULL \notin Tasks
  /\ Workers \subseteq 0..(LongBits - 1)
  /\ NULL \notin 0..(LongBits - 1) /\ Dispatcher \notin 0..(LongBits - 1)
  /\ Dispatcher \in Posters /\ Owner \in Posters
  /\ \A b \in Bodies : b \in Threads /\ Runs[b] = b
<1>1. \A b \in Bodies : b \in Threads /\ Runs[b] = b
  BY PoolAssumption, Zenon
<1>2. Bodies = Workers \cup {Dispatcher} /\ Owner \in Posters /\ Dispatcher \in Posters
  BY PoolAssumption
<1>3. Dispatcher \notin Int /\ NULL \notin Int /\ WorkerNum \in Nat /\ LongBits \in Nat /\ WorkerNum <= LongBits
  BY PoolAssumption
<1> QED  BY <1>1, <1>2, <1>3, BodyAssumption DEF Workers

\* A remainder is below the divisor and not above the number.
LEMMA ModBounds ==
  ASSUME NEW n \in Nat \ {0}, NEW a \in Nat
  PROVE  a % n \in 0..(n - 1) /\ a % n <= a /\ (a < n => a % n = a)
<1>1. a \div n \in Nat /\ a = n * (a \div n) + (a % n) /\ a % n \in 0..(n - 1)
  OBVIOUS
<1>2. PICK q \in Nat, r \in 0..(n - 1) : a = n * q + r /\ a % n = r
  BY <1>1
<1>3. n * q >= 0
  OBVIOUS
<1>4. CASE q = 0
  BY <1>2, <1>4
<1>5. CASE q >= 1
  <2>1. n * q >= n
    BY <1>5
  <2> QED  BY <1>2, <2>1
<1> QED  BY <1>4, <1>5

\* The shifted operand has only bits of freeWorkerBit_.
LEMMA ShiftedBitsFacts ==
  ASSUME NEW w \in Workers
  PROVE  ShiftedBits(w) \subseteq 0..(LongBits - 1)
<1>1. /\ w \in Nat /\ w < WorkerNum /\ WorkerNum <= LongBits /\ WorkerNum \in Nat
      /\ IntBits \in Nat \ {0} /\ LongBits \in Nat \ {0}
  BY PoolAssumption DEF Workers
<1>2. PICK n \in 0..(IntBits - 1) : n = w % IntBits /\ n <= w
  BY <1>1, ModBounds
<1>3. ShiftedBits(w) = IF n = IntBits - 1 THEN n..(LongBits - 1) ELSE {n}
  BY <1>2 DEF ShiftedBits
<1> QED  BY <1>1, <1>2, <1>3

\* SelectFreeWorker finds a set bit when there is one.
LEMMA LowestBitIn ==
  ASSUME NEW bits \in SUBSET (0..(LongBits - 1)), bits # {}
  PROVE  LowestBit(bits) \in bits
<1> DEFINE Less == OpToRel(<, Nat)
<1>1. \A x, y \in Nat : <<y, x>> \in Less <=> y < x
  BY Zenon DEF OpToRel
<1>2. bits \subseteq Nat
  BY PoolAssumption
<1>0. IsWellFoundedOn(Less, Nat)
  BY NatLessThanWellFounded, Zenon
<1> HIDE DEF Less
<1>3. PICK x \in bits : \A y \in bits : ~ (<<y, x>> \in Less)
  BY <1>0, <1>2, WFMin, Zenon
<1>4. \A y \in bits : x <= y
  <2>1. \A y \in bits : ~ (y < x)
    BY <1>1, <1>2, <1>3, Zenon
  <2> QED  BY <1>2, <2>1
<1> QED  BY <1>4 DEF LowestBit

-----------------------------------------------------------------------------
(* What every step keeps: the bodies' invariant, types, the dispatcher *)

\* The pool's steps on its bodies are steps of a worker body or of a poster.
LEMMA NextBody ==
  ASSUME PoolInv, Next
  PROVE  BodyInv'
<1>0. BodyInv /\ PoolTypeOK
  BY DEF PoolInv
<1>1. CASE DispatcherStep
  <2>1. CASE PrepareWorker \/ DispatchTask
    <3>1. UNCHANGED bodyVars
      BY <2>1 DEF PrepareWorker, DispatchTask
    <3> QED  BY <1>0, <3>1, BodyStutter
  <2>2. CASE DispatchPost
    <3>1. CASE PushTask(Dispatcher, dest, msg[Dispatcher])
      <4>1. dest \in Bodies
        BY <2>2, Ids DEF DispatchPost
      <4>2. msg[Dispatcher] \in Tasks
        BY <1>0, <2>2, Ids
        DEF DispatchPost, PoolInv, DispatcherInv, BodyInv, NoNullTask, BodyTypeOK
      <4> QED  BY <1>0, <3>1, <4>1, <4>2, Ids, PushTaskInv
    <3>2. CASE UNCHANGED bodyVars
      BY <1>0, <3>2, BodyStutter
    <3> QED  BY <2>2, <3>1, <3>2 DEF DispatchPost
  <2>3. CASE DispatchDone
    BY <1>0, <2>3, Ids, QuietSteps DEF DispatchDone
  <2>4. CASE SetBusy(Dispatcher, Dispatcher) \/ EnterRun(Dispatcher, Dispatcher, "prepare")
             \/ ProcessInternalCmd(Dispatcher, Dispatcher) \/ Prepared(Dispatcher)
             \/ LeaveRun(Dispatcher, Dispatcher) \/ NotifyDone(Dispatcher, Dispatcher, "prepare")
    BY <1>0, <2>4, Ids, QuietSteps
  <2>5. CASE Consume(Dispatcher, Dispatcher)
    BY <1>0, <2>5, Ids, TakeTokenInv DEF Consume
  <2>6. CASE GetInternalCmd(Dispatcher, Dispatcher)
    BY <1>0, <2>6, Ids, GetInternalCmdInv
  <2>7. CASE \E i \in 1..Len(container[Dispatcher]) : GetTaskFromContainer(Dispatcher, Dispatcher, i)
    BY <1>0, <2>7, Ids, GetTaskInv
  <2> QED  BY <1>1, <2>1, <2>2, <2>3, <2>4, <2>5, <2>6, <2>7 DEF DispatcherStep
<1>2. ASSUME NEW w \in Workers, WorkerStep(w) PROVE BodyInv'
  <2>0. w \in Bodies /\ w \in Threads /\ Runs[w] = w
    BY Ids
  <2>1. CASE \/ Notify(w) \/ NotifyDone(w, w, "get") \/ TaskDone(w) \/ SetBusy(w, w)
             \/ EnterRun(w, w, "get")
             \/ TryConsumeFails(w, w) \/ Timeout(w, w) \/ LeaveRun(w, w)
             \/ ProcessInternalCmd(w, w)
    BY <1>0, <2>0, <2>1, QuietSteps
  <2>2. CASE Consume(w, w) \/ TimedConsume(w, w)
    BY <1>0, <2>0, <2>2, TakeTokenInv DEF Consume, TimedConsume
  <2>3. CASE GetInternalCmd(w, w)
    BY <1>0, <2>0, <2>3, GetInternalCmdInv
  <2>4. CASE GetTaskFromContainer(w, w, 1)
    BY <1>0, <2>0, <2>4, GetTaskInv
  <2> QED  BY <1>2, <2>1, <2>2, <2>3, <2>4 DEF WorkerStep, RequestTask, MarkFree, RunTask
<1>3. ASSUME NEW p \in Posters, Signal(p) PROVE BodyInv'
  BY <1>0, <1>3, SignalPostInv DEF Signal
<1>4. ASSUME NEW p \in Posters, NEW t \in Tasks, PostTask(p, t) PROVE BodyInv'
  BY <1>0, <1>4, Ids, PushTaskInv DEF PostTask
<1>5. CASE StartPooling
  <2>1. PICK b \in Bodies : b \in Threads /\ CreateThread(b, b)
    <3>1. idx < WorkerNum => idx \in Workers
      BY <1>0, PoolAssumption DEF PoolTypeOK, Workers
    <3> QED  BY <1>5, <3>1, Ids DEF StartPooling
  <2> QED  BY <1>0, <2>1, QuietSteps
<1>6. CASE StopPooling
  <2>1. CASE \E b \in Bodies : PushExit(Owner, b)
    BY <1>0, <2>1, Ids, PushExitInv
  <2>2. CASE UNCHANGED bodyVars
    BY <1>0, <2>2, BodyStutter
  <2>3. idx < WorkerNum => idx \in Workers
    BY <1>0, PoolAssumption DEF PoolTypeOK, Workers
  <2> QED  BY <1>6, <2>1, <2>2, <2>3, Ids DEF StopPooling
<1> QED  BY <1>1, <1>2, <1>3, <1>4, <1>5, <1>6 DEF Next

\* The variables of the pool keep their types; a dispatched task has a target.
LEMMA NextPoolType ==
  ASSUME PoolInv, Next
  PROVE  PoolTypeOK'
<1>0. PoolTypeOK /\ BodyTypeOK /\ NoNullTask /\ DispatcherInv
  BY DEF PoolInv, BodyInv
<1>1. CASE UNCHANGED poolVars
  BY <1>0, <1>1 DEF poolVars, PoolTypeOK
<1>2. CASE PrepareWorker
  <2>1. notifySem' \in Nat
    BY <1>0, <1>2 DEF PoolTypeOK, PrepareWorker
  <2>2. freeWorker' \in 0..(LongBits - 1) \cup {NULL}
    <3>1. freeBits # {} => LowestBit(freeBits) \in 0..(LongBits - 1)
      BY <1>0, LowestBitIn DEF PoolTypeOK
    <3> QED  BY <1>2, <3>1 DEF PrepareWorker
  <2> QED  BY <1>0, <1>2, <2>1, <2>2 DEF PoolTypeOK, PrepareWorker
<1>3. CASE DispatchTask
  <2>1. Target(msg[Dispatcher]) \in 0..(LongBits - 1)
    BY <1>0, <1>3, Ids DEF PoolTypeOK, DispatcherInv, DispatchTask, Target
  <2>2. dest' \in 0..(LongBits - 1) /\ freeBits' \subseteq freeBits /\ freeWorker' \in {freeWorker, NULL}
        /\ UNCHANGED <<notifySem, phase, idx, posted, ran, dropped>>
    BY <1>3, <2>1 DEF DispatchTask
  <2> QED  BY <1>0, <2>2 DEF PoolTypeOK
<1>4. CASE DispatchPost
  <2>1. msg[Dispatcher] \in Tasks
    BY <1>0, <1>4, Ids DEF DispatchPost, DispatcherInv, NoNullTask, BodyTypeOK
  <2> QED  BY <1>0, <1>4, <2>1 DEF PoolTypeOK, DispatchPost
<1>5. CASE DispatchDone
  BY <1>0, <1>5 DEF PoolTypeOK, DispatchDone
<1>6. ASSUME NEW w \in Workers, RequestTask(w) PROVE PoolTypeOK'
  <2>1. notifySem' \in Nat
    BY <1>0, <1>6 DEF PoolTypeOK, RequestTask
  <2> QED  BY <1>0, <1>6, <2>1 DEF PoolTypeOK, RequestTask
<1>7. ASSUME NEW w \in Workers, MarkFree(w) PROVE PoolTypeOK'
  <2>1. freeBits' \in SUBSET (0..(LongBits - 1))
    BY <1>0, <1>7, ShiftedBitsFacts DEF PoolTypeOK, MarkFree
  <2> QED  BY <1>0, <1>7, <2>1 DEF PoolTypeOK, MarkFree
<1>8. ASSUME NEW w \in Workers, RunTask(w) PROVE PoolTypeOK'
  <2>1. msg[w] \in Tasks
    BY <1>0, <1>8, Ids DEF RunTask, TaskDone, Goto, NoNullTask, BodyTypeOK
  <2> QED  BY <1>0, <1>8, <2>1 DEF PoolTypeOK, RunTask
<1>9. ASSUME NEW p \in Posters, NEW t \in Tasks, PostTask(p, t) PROVE PoolTypeOK'
  BY <1>0, <1>9 DEF PoolTypeOK, PostTask
<1>10. CASE StartPooling \/ StopPooling
  <2>1. /\ phase' \in {"new", "running", "stopping", "joining", "stopped"}
        /\ UNCHANGED <<freeBits, notifySem, freeWorker, dest, posted, ran, dropped>>
    BY <1>10 DEF StartPooling, StopPooling, OwnerAt
  <2>2. idx' \in 0..WorkerNum
    BY <1>0, <1>10, PoolAssumption DEF StartPooling, StopPooling, OwnerAt, PoolTypeOK
  <2> QED  BY <1>0, <2>1, <2>2 DEF PoolTypeOK
<1> QED  BY <1>1, <1>2, <1>3, <1>4, <1>5, <1>6, <1>7, <1>8, <1>9, <1>10
         DEF Next, DispatcherStep, WorkerStep, Signal

\* The thread of one body does not move another one.
LEMMA GotoOther ==
  ASSUME BodyTypeOK, NEW b \in Bodies, NEW from, NEW to, Goto(b, from, to)
  PROVE  pc[b] = from /\ pc'[b] = to /\ \A c \in Bodies : c # b => pc'[c] = pc[c]
  BY Ids DEF BodyTypeOK, Goto

\* A worker's step moves only its own thread.
LEMMA WorkerMoves ==
  ASSUME BodyTypeOK, NEW w \in Workers, WorkerStep(w)
  PROVE  \A c \in Bodies : c # w => pc'[c] = pc[c]
<1>1. \E from \in PC, to \in PC : Goto(w, from, to)
  BY DEF PC, WorkerStep, RequestTask, Notify, MarkFree, NotifyDone, RunTask, TaskDone, SetBusy, EnterRun, Consume,
         TryConsumeFails, TimedConsume, Timeout, GetInternalCmd, ProcessInternalCmd, GetTaskFromContainer, LeaveRun
<1> QED  BY <1>1, Ids, GotoOther

\* The steps of a poster and of the owner, but for CreateThread, move no thread.
LEMMA PostersMove ==
  ASSUME BodyTypeOK, \/ \E p \in Posters : Signal(p)
                     \/ \E p \in Posters, t \in Tasks : PostTask(p, t)
                     \/ StopPooling
  PROVE  pc' = pc
  BY DEF Signal, SignalPost, PostTask, PushTask, StopPooling, PushExit, bodyVars

\* CreateThread only wakes a thread that is not there yet.
LEMMA StartMoves ==
  ASSUME BodyTypeOK, PoolTypeOK, StartPooling
  PROVE  \E b \in Bodies : CreateThread(b, b) /\ pc[b] = "off" /\ pc'[b] = "created"
                           /\ \A c \in Bodies : c # b => pc'[c] = pc[c]
<1>1. idx < WorkerNum => idx \in Workers
  BY PoolAssumption DEF PoolTypeOK, Workers
<1>2. PICK b \in Bodies : CreateThread(b, b)
  BY <1>1, Ids DEF StartPooling
<1> QED  BY <1>2, GotoOther DEF CreateThread

\* Past PrepareWorker the dispatcher has a worker, until it gives it the task.
LEMMA NextDispatcher ==
  ASSUME PoolInv, Next
  PROVE  DispatcherInv'
<1>0. PoolTypeOK /\ BodyTypeOK /\ DispatcherInv
  BY DEF PoolInv, BodyInv
<1>1. CASE PrepareWorker
  BY <1>0, <1>1 DEF PrepareWorker, DispatcherInv, bodyVars
<1>2. CASE DispatchTask
  <2>1. Target(msg[Dispatcher]) \in 0..(LongBits - 1)
    BY <1>0, <1>2, Ids DEF PoolTypeOK, DispatcherInv, DispatchTask, Target
  <2> QED  BY <1>0, <1>2, <2>1, Ids DEF DispatchTask, DispatcherInv, bodyVars
<1>3. CASE DispatchPost
  <2>1. pc' = pc /\ dest # NULL /\ dest' # NULL
    BY <1>3, Ids DEF DispatchPost, PushTask, bodyVars
  <2> QED  BY <1>0, <1>3, <2>1 DEF DispatchPost, DispatcherInv
<1>4. CASE DispatchDone
  <2>1. pc'[Dispatcher] = "end"
    BY <1>0, <1>4, Ids, GotoOther DEF DispatchDone, TaskDone
  <2> QED  BY <1>4, <2>1 DEF DispatchDone, DispatcherInv
<1>5. CASE /\ UNCHANGED poolVars
           /\ \/ SetBusy(Dispatcher, Dispatcher) \/ EnterRun(Dispatcher, Dispatcher, "prepare")
              \/ LeaveRun(Dispatcher, Dispatcher) \/ ProcessInternalCmd(Dispatcher, Dispatcher)
              \/ NotifyDone(Dispatcher, Dispatcher, "prepare")
  <2>1. /\ pc[Dispatcher] \in {"created", "entered", "command", "end"}
        /\ pc'[Dispatcher] \in {"entered", "prepare", "end", "off"}
    BY <1>0, <1>5, Ids, GotoOther
    DEF SetBusy, EnterRun, ProcessInternalCmd, LeaveRun, NotifyDone
  <2> QED  BY <1>0, <1>5, <2>1 DEF DispatcherInv, poolVars
<1>6. CASE freeWorker # NULL /\ Prepared(Dispatcher) /\ UNCHANGED poolVars
  <2>1. pc[Dispatcher] = "prepare" /\ pc'[Dispatcher] = "get"
    BY <1>0, <1>6, Ids, GotoOther DEF Prepared
  <2> QED  BY <1>0, <1>6, <2>1 DEF DispatcherInv, poolVars
<1>7. CASE /\ UNCHANGED poolVars
           /\ \/ Consume(Dispatcher, Dispatcher) \/ GetInternalCmd(Dispatcher, Dispatcher)
              \/ \E i \in 1..Len(container[Dispatcher]) : GetTaskFromContainer(Dispatcher, Dispatcher, i)
  <2>1. /\ pc[Dispatcher] \in {"get", "fetch", "pop"}
        /\ pc'[Dispatcher] \in {"fetch", "command", "pop", "task"}
    BY <1>0, <1>7, Ids, GotoOther DEF Consume, GetInternalCmd, GetTaskFromContainer
  <2> QED  BY <1>0, <1>7, <2>1 DEF DispatcherInv, poolVars
<1>8. ASSUME NEW w \in Workers, WorkerStep(w) PROVE DispatcherInv'
  <2>1. pc'[Dispatcher] = pc[Dispatcher]
    BY <1>0, <1>8, Ids, WorkerMoves
  <2>2. UNCHANGED <<dest, freeWorker>>
    BY <1>8 DEF WorkerStep, RequestTask, MarkFree, RunTask, poolVars
  <2> QED  BY <1>0, <2>1, <2>2 DEF DispatcherInv
<1>9. CASE \/ \E p \in Posters : Signal(p)
           \/ \E p \in Posters, t \in Tasks : PostTask(p, t)
           \/ StopPooling
  <2>1. pc' = pc
    BY <1>0, <1>9, PostersMove
  <2>2. UNCHANGED <<dest, freeWorker>>
    BY <1>9 DEF Signal, PostTask, StopPooling, OwnerAt, poolVars
  <2> QED  BY <1>0, <2>1, <2>2 DEF DispatcherInv
<1>10. CASE StartPooling
  <2>1. pc'[Dispatcher] = pc[Dispatcher] \/ (pc[Dispatcher] = "off" /\ pc'[Dispatcher] = "created")
    BY <1>0, <1>10, Ids, StartMoves
  <2>2. UNCHANGED <<dest, freeWorker>>
    BY <1>10 DEF StartPooling, OwnerAt
  <2> QED  BY <1>0, <2>1, <2>2 DEF DispatcherInv
<1> QED  BY <1>1, <1>2, <1>3, <1>4, <1>5, <1>6, <1>7, <1>8, <1>9, <1>10 DEF Next, DispatcherStep

\* The pool keeps the invariant of its worker bodies (one token per queued item,
\* no null task handled), and the dispatcher always has a worker for the task it
\* takes: DispatchTask's assert(freeWorker_) holds.
THEOREM PoolInvariant == SafetySpec => []PoolInv
<1>1. Init => PoolInv
  <2> SUFFICES ASSUME Init PROVE PoolInv
    OBVIOUS
  <2>1. BodyInv
    BY BodyInitInv DEF Init
  <2>2. PoolTypeOK
    BY Ids, PoolAssumption DEF Init, PoolTypeOK
  <2>3. pc[Dispatcher] = "off"
    BY Ids DEF Init, BodyInit
  <2> QED  BY <2>1, <2>2, <2>3 DEF Init, PoolInv, DispatcherInv
<1>2. PoolInv /\ [Next]_vars => PoolInv'
  <2>1. ASSUME PoolInv, UNCHANGED vars PROVE PoolInv'
    <3>1. BodyInv'
      BY <2>1, BodyStutter DEF PoolInv, vars
    <3> QED  BY <2>1, <3>1 DEF PoolInv, vars, poolVars, bodyVars, PoolTypeOK, DispatcherInv
  <2> QED  BY <2>1, NextBody, NextPoolType, NextDispatcher DEF PoolInv
<1> QED  BY <1>1, <1>2, PTL DEF SafetySpec

-----------------------------------------------------------------------------
(* Free workers are idle *)

\* The dispatcher's thread and the posters leave a worker as it is, unless they
\* push a task to it.
Same(w) == container'[w] = container[w] /\ pc'[w] = pc[w] /\ shouldStop'[w] = shouldStop[w]

\* A worker that is left alone, and of which no new claim is made.
LEMMA FrameFree ==
  ASSUME NEW w \in Workers, OneTaskAtATime(w), Same(w),
         UNCHANGED <<freeBits, freeWorker, dest>>
  PROVE  OneTaskAtATime(w)'
  BY DEF Same, OneTaskAtATime, Claimed, Idle, Finishing

\* The steps of the bodies of the pool touch no other body.
LEMMA BodyStepFrame ==
  ASSUME BodyTypeOK, NEW b \in Bodies, NEW top, NEW i,
         \/ CreateThread(b, b) \/ SetBusy(b, b) \/ EnterRun(b, b, top) \/ Prepared(b) \/ TryConsumeFails(b, b)
         \/ Notify(b) \/ Timeout(b, b) \/ TaskDone(b) \/ LeaveRun(b, b) \/ NotifyDone(b, b, top)
         \/ Consume(b, b) \/ TimedConsume(b, b) \/ GetInternalCmd(b, b)
         \/ ProcessInternalCmd(b, b) \/ GetTaskFromContainer(b, b, i)
  PROVE  \A c \in Bodies : c # b => Same(c)
<1>1. \A c \in Bodies : c # b => pc'[c] = pc[c]
  <2>1. \E from, to : Goto(b, from, to)
    BY DEF CreateThread, SetBusy, EnterRun, Prepared, TryConsumeFails, Notify, Timeout, TaskDone, LeaveRun,
           NotifyDone, Consume, TimedConsume, GetInternalCmd, ProcessInternalCmd, GetTaskFromContainer
  <2> QED  BY <2>1, GotoOther
<1>2. \A c \in Bodies : c # b => container'[c] = container[c]
  BY DEF BodyTypeOK, CreateThread, SetBusy, EnterRun, Prepared, TryConsumeFails, Notify, Timeout, TaskDone, LeaveRun,
         NotifyDone, Consume, TimedConsume, TakeToken, GetInternalCmd, ProcessInternalCmd, GetTaskFromContainer
<1>3. \A c \in Bodies : c # b => shouldStop'[c] = shouldStop[c]
  BY DEF BodyTypeOK, CreateThread, SetBusy, EnterRun, Prepared, TryConsumeFails, Notify, Timeout, TaskDone, LeaveRun,
         NotifyDone, Consume, TimedConsume, TakeToken, GetInternalCmd, ProcessInternalCmd, GetTaskFromContainer
<1> QED  BY <1>1, <1>2, <1>3 DEF Same

\* The dispatcher's choice and the hand-over of the task.
LEMMA DispatchFree ==
  ASSUME ~misshifted', PoolInv, FreeInv, PrepareWorker \/ DispatchTask \/ DispatchPost
  PROVE  FreeInv'
<1>0. PoolTypeOK /\ BodyTypeOK /\ NoNullTask /\ DispatcherInv
  BY DEF PoolInv, BodyInv
<1>1. CASE PrepareWorker
  <2>1. dest = NULL /\ \A w \in Workers : dest # w
    BY <1>0, <1>1, Ids DEF PrepareWorker, DispatcherInv
  <2>2. freeWorker' = NULL \/ freeWorker' \in freeBits
    BY <1>0, <1>1, LowestBitIn DEF PrepareWorker, PoolTypeOK
  <2>3. UNCHANGED <<bodyVars, freeBits, dest>>
    BY <1>1 DEF PrepareWorker
  <2>4. ASSUME NEW w \in Workers \ Pinned PROVE OneTaskAtATime(w)'
    <3>1. OneTaskAtATime(w) /\ (Claimed(w)' => Claimed(w))
      BY <2>1, <2>2, <2>3, <2>4, Ids DEF FreeInv, Claimed
    <3> QED  BY <2>1, <2>3, <3>1 DEF OneTaskAtATime, Idle, Finishing, bodyVars
  <2> QED  BY <2>2, <2>3, <2>4 DEF FreeInv
<1>2. CASE DispatchTask
  <2>1. PICK v : v = Target(msg[Dispatcher])
    OBVIOUS
  <2>2. v \in Workers /\ (v \notin Pinned => v = freeWorker)
    <3>1. freeWorker # NULL /\ msg[Dispatcher] \in Tasks
      BY <1>0, <1>2, Ids DEF DispatchTask, DispatcherInv, NoNullTask, BodyTypeOK
    <3> QED  BY <2>1, <3>1 DEF Target, Pinned, FreeInv
  <2>3. /\ dest' = v /\ freeBits' = freeBits \ {v}
        /\ freeWorker' = IF v = freeWorker THEN NULL ELSE freeWorker
        /\ UNCHANGED bodyVars
    BY <1>2, <2>1, <2>2 DEF DispatchTask
  <2>4. ASSUME NEW w \in Workers \ Pinned PROVE OneTaskAtATime(w)'
    <3>1. OneTaskAtATime(w) /\ (Claimed(w)' => Claimed(w))
      BY <2>2, <2>3, <2>4, Ids DEF FreeInv, Claimed
    <3>2. dest' = w => w \notin freeBits' /\ freeWorker' # w
      BY <2>2, <2>3, <2>4, Ids
    <3> QED  BY <2>3, <3>1, <3>2 DEF OneTaskAtATime, Idle, Finishing, bodyVars
  <2> QED  BY <2>3, <2>4, Ids DEF FreeInv
<1>3. CASE DispatchPost
  <2>1. PICK v \in Workers : v = dest
    BY <1>3 DEF DispatchPost
  <2>2. /\ UNCHANGED <<freeBits, freeWorker, pc, shouldStop>> /\ dest' = Dispatcher
        /\ \A c \in Bodies : c # v => container'[c] = container[c]
    BY <1>0, <1>3, <2>1 DEF DispatchPost, PushTask, bodyVars, BodyTypeOK
  <2>3. ASSUME NEW w \in Workers \ Pinned, w # v PROVE OneTaskAtATime(w)'
    BY <2>1, <2>2, <2>3, Ids DEF FreeInv, OneTaskAtATime, Idle, Finishing, Claimed
  <2>4. ASSUME v \notin Pinned PROVE OneTaskAtATime(v)'
    <3>1. OneTaskAtATime(v)
      BY <2>4 DEF FreeInv
    <3>2. container[v] = <<>> /\ pc[v] # "task" /\ ~Finishing(v) /\ v \notin freeBits /\ freeWorker # v
      BY <2>1, <3>1 DEF OneTaskAtATime, Claimed, Idle
    <3>3. Len(container'[v]) <= 1
      <4>1. container'[v] = container[v] \/ container'[v] = Append(container[v], msg[Dispatcher])
        BY <1>0, <1>3, <2>1, Ids DEF DispatchPost, PushTask, bodyVars, BodyTypeOK
      <4>2. Len(container[v]) = 0 /\ container[v] \in Seq(Tasks)
        BY <1>0, <3>2, Ids DEF BodyTypeOK
      <4>3. msg[Dispatcher] \in Tasks
        BY <1>0, <1>3, Ids DEF DispatchPost, DispatcherInv, NoNullTask, BodyTypeOK
      <4> QED  BY <4>1, <4>2, <4>3
    <3>4. ~Claimed(v)'
      BY <2>2, <3>2, Ids DEF Claimed
    <3>5. pc'[v] # "task" /\ ~Finishing(v)' /\ dest' # v
      BY <2>2, <3>2, Ids DEF Finishing
    <3> QED  BY <3>3, <3>4, <3>5 DEF OneTaskAtATime
  <2> QED  BY <2>2, <2>3, <2>4 DEF FreeInv
<1> QED  BY <1>1, <1>2, <1>3

\* NotifyDone sets the bit of a worker whose mailbox is empty.
LEMMA MarkFreeInv ==
  ASSUME ~misshifted', PoolInv, FreeInv, NEW v \in Workers, MarkFree(v)
  PROVE  FreeInv'
<1>0. BodyTypeOK
  BY DEF PoolInv, BodyInv
<1>1. /\ freeBits' = freeBits \cup {v} /\ UNCHANGED <<freeWorker, dest, container, shouldStop>>
      /\ pc[v] = "end" /\ pc'[v] = "get" /\ ~shouldStop[v]
      /\ \A c \in Bodies : c # v => pc'[c] = pc[c]
  BY <1>0, Ids, GotoOther DEF MarkFree, NotifyDone
<1>2. ASSUME NEW w \in Workers \ Pinned, w # v PROVE OneTaskAtATime(w)'
  BY <1>1, <1>2, Ids DEF FreeInv, OneTaskAtATime, Claimed, Idle, Finishing
<1>3. ASSUME v \notin Pinned PROVE OneTaskAtATime(v)'
  <2>1. OneTaskAtATime(v)
    BY <1>3 DEF FreeInv
  <2>2. Finishing(v)
    BY <1>1 DEF Finishing
  <2>3. container[v] = <<>> /\ dest # v
    BY <2>1, <2>2 DEF OneTaskAtATime, Claimed
  <2> QED  BY <1>1, <2>1, <2>3 DEF OneTaskAtATime, Idle, Finishing
<1> QED  BY <1>1, <1>2, <1>3 DEF FreeInv

\* A body that found no command has a task to pop, before and after a step.
LEMMA PopsTask ==
  ASSUME NEW b \in Bodies
  PROVE  /\ BodyTypeOK /\ PopFindsTask /\ pc[b] = "pop" => container[b] # <<>>
         /\ (BodyTypeOK /\ PopFindsTask)' /\ pc'[b] = "pop" => container'[b] # <<>>
<1>1. BodyTypeOK /\ PopFindsTask /\ pc[b] = "pop" => container[b] # <<>>
  BY TaskToPop, Ids
<1>2. (BodyTypeOK /\ PopFindsTask /\ pc[b] = "pop" => container[b] # <<>>)'
  BY <1>1, PTL
<1> QED  BY <1>1, <1>2

\* The other steps of a worker take its one task out of the mailbox, run it,
\* and end with an empty mailbox.
LEMMA WorkerFree ==
  ASSUME PoolInv, PoolInv', FreeInv, NEW v \in Workers, WorkerStep(v), ~MarkFree(v)
  PROVE  FreeInv'
<1>0. BodyTypeOK /\ v \in Bodies
  BY Ids DEF PoolInv, BodyInv
<1>1. UNCHANGED <<freeBits, freeWorker, dest>>
  BY DEF WorkerStep, RequestTask, RunTask, poolVars
<1>2. ASSUME NEW w \in Workers \ Pinned, w # v PROVE OneTaskAtATime(w)'
  <2>1. Same(w)
    BY <1>0, <1>2, Ids, BodyStepFrame DEF WorkerStep, RequestTask, RunTask
  <2>2. OneTaskAtATime(w)
    BY DEF FreeInv
  <2> QED  BY <1>1, <2>1, <2>2, FrameFree
<1>3. ASSUME OneTaskAtATime(v) PROVE OneTaskAtATime(v)'
  <2>1. CASE \/ Notify(v) \/ SetBusy(v, v) \/ EnterRun(v, v, "get") \/ Consume(v, v) \/ TryConsumeFails(v, v)
             \/ TimedConsume(v, v) \/ Timeout(v, v) \/ LeaveRun(v, v)
    <3>1. pc'[v] \in {"entered", "timed", "get", "fetch", "notify", "off"}
      BY <1>0, <2>1, GotoOther
      DEF Notify, SetBusy, EnterRun, Consume, TryConsumeFails, TimedConsume, Timeout, LeaveRun
    <3>2. container' = container
      BY <2>1 DEF Notify, SetBusy, EnterRun, Consume, TryConsumeFails, TimedConsume, TakeToken, Timeout, LeaveRun
    <3> QED  BY <1>1, <1>3, <3>1, <3>2 DEF OneTaskAtATime, Claimed, Idle, Finishing
  <2>2. CASE TaskDone(v)
    <3>1. pc[v] = "task" /\ pc'[v] = "end" /\ container' = container /\ shouldStop' = shouldStop
      BY <1>0, <2>2, GotoOther DEF TaskDone
    <3>2. ~Claimed(v) /\ container[v] = <<>>
      BY <1>3, <3>1 DEF OneTaskAtATime, Idle
    <3> QED  BY <1>1, <1>3, <3>1, <3>2 DEF OneTaskAtATime, Claimed
  <2>3. CASE GetInternalCmd(v, v)
    <3>1. /\ container' = container
          /\ pc'[v] = "pop" \/ pc'[v] = "command"
      BY <1>0, <2>3, GotoOther DEF GetInternalCmd, BodyTypeOK
    <3>2. pc'[v] = "pop" => container[v] # <<>>
      BY <1>0, <3>1, PopsTask DEF PoolInv, BodyInv
    <3> QED  BY <1>1, <1>3, <3>1, <3>2 DEF OneTaskAtATime, Claimed, Idle, Finishing
  <2>5. CASE ProcessInternalCmd(v, v)
    <3>1. container' = container /\ pc'[v] = "end" /\ shouldStop'[v]
      BY <1>0, <2>5, GotoOther DEF ProcessInternalCmd, BodyTypeOK
    <3> QED  BY <1>1, <1>3, <3>1 DEF OneTaskAtATime, Claimed, Idle, Finishing
  <2>4. CASE GetTaskFromContainer(v, v, 1)
    <3>1. pc[v] = "pop" /\ pc'[v] = "task"
      BY <1>0, <2>4, GotoOther DEF GetTaskFromContainer
    <3>2. container[v] \in Seq(Tasks) /\ container[v] # <<>> /\ Len(container[v]) <= 1
      BY <1>0, <1>3, <3>1, PopsTask DEF PoolInv, BodyInv, BodyTypeOK, OneTaskAtATime
    <3>3. container'[v] = WithoutIndex(container[v], 1) /\ 1 \in 1..Len(container[v])
      BY <1>0, <2>4, <3>2 DEF GetTaskFromContainer, BodyTypeOK
    <3>4. container'[v] \in Seq(Tasks) /\ Len(container'[v]) = Len(container[v]) - 1
      BY <3>2, <3>3, WithoutIndexShortens
    <3>5. container'[v] = <<>> /\ Len(container'[v]) <= 1
      BY <3>2, <3>3, <3>4, EmptySeq
    <3>6. ~Claimed(v)
      BY <1>3, <3>1 DEF OneTaskAtATime, Idle
    <3> QED  BY <1>1, <1>3, <3>5, <3>6 DEF OneTaskAtATime, Claimed
  <2> QED  BY <2>1, <2>2, <2>3, <2>4, <2>5 DEF WorkerStep, RequestTask, RunTask
<1> QED  BY <1>1, <1>2, <1>3 DEF FreeInv

\* No other step concerns a worker's mailbox, its thread or its claims.
LEMMA OthersFree ==
  ASSUME PoolInv, FreeInv, Next, ~PrepareWorker, ~DispatchTask, ~DispatchPost,
         \A w \in Workers : ~WorkerStep(w)
  PROVE  FreeInv'
<1>0. BodyTypeOK /\ PoolTypeOK
  BY DEF PoolInv, BodyInv
<1>1. CASE DispatchDone
  <2>1. dest = Dispatcher /\ dest' = NULL /\ UNCHANGED <<freeBits, freeWorker>>
    BY <1>1 DEF DispatchDone
  <2>2. \A w \in Workers : Same(w)
    BY <1>0, <1>1, Ids, BodyStepFrame DEF DispatchDone
  <2> QED  BY <2>1, <2>2, Ids DEF FreeInv, Same, OneTaskAtATime, Claimed, Idle, Finishing
<1>2. CASE UNCHANGED <<freeBits, freeWorker, dest>> /\ \A w \in Workers : Same(w) \/ (container' = container /\ pc'[w] = "created")
  <2>1. ASSUME NEW w \in Workers \ Pinned PROVE OneTaskAtATime(w)'
    <3>1. OneTaskAtATime(w)
      BY DEF FreeInv
    <3>2. CASE Same(w)
      BY <1>2, <3>1, <3>2, FrameFree
    <3>3. CASE container' = container /\ pc'[w] = "created"
      BY <1>2, <3>1, <3>3 DEF OneTaskAtATime, Claimed, Idle, Finishing
    <3> QED  BY <1>2, <3>2, <3>3
  <2> QED  BY <1>2, <2>1 DEF FreeInv
<1>3. CASE /\ \/ SetBusy(Dispatcher, Dispatcher) \/ EnterRun(Dispatcher, Dispatcher, "prepare")
              \/ Prepared(Dispatcher) \/ Consume(Dispatcher, Dispatcher)
              \/ GetInternalCmd(Dispatcher, Dispatcher) \/ ProcessInternalCmd(Dispatcher, Dispatcher)
              \/ LeaveRun(Dispatcher, Dispatcher)
              \/ \E i \in 1..Len(container[Dispatcher]) : GetTaskFromContainer(Dispatcher, Dispatcher, i)
              \/ NotifyDone(Dispatcher, Dispatcher, "prepare")
           /\ UNCHANGED poolVars
  <2>1. \A w \in Workers : Same(w)
    BY <1>0, <1>3, Ids, BodyStepFrame
  <2> QED  BY <1>2, <1>3, <2>1 DEF poolVars
<1>4. CASE \/ \E p \in Posters : Signal(p)
           \/ \E p \in Posters, t \in Tasks : PostTask(p, t)
           \/ StopPooling
  <2>1. pc' = pc
    BY <1>0, <1>4, PostersMove
  <2>2. shouldStop' = shouldStop
    BY <1>4 DEF Signal, SignalPost, PostTask, PushTask, StopPooling, PushExit, bodyVars
  <2>3. \A w \in Workers : container'[w] = container[w]
    BY <1>0, <1>4, Ids DEF Signal, SignalPost, PostTask, PushTask, StopPooling, PushExit, bodyVars, BodyTypeOK
  <2>4. UNCHANGED <<dest, freeWorker, freeBits>>
    BY <1>4 DEF Signal, PostTask, StopPooling, OwnerAt, poolVars
  <2> QED  BY <1>2, <2>1, <2>2, <2>3, <2>4 DEF Same
<1>5. CASE StartPooling
  <2>1. PICK b \in Bodies : CreateThread(b, b) /\ pc'[b] = "created"
    BY <1>0, <1>5, StartMoves
  <2>2. \A w \in Workers : Same(w) \/ (container' = container /\ pc'[w] = "created")
    BY <1>0, <2>1, Ids, BodyStepFrame DEF CreateThread
  <2>3. UNCHANGED <<dest, freeWorker, freeBits>>
    BY <1>5 DEF StartPooling, OwnerAt
  <2> QED  BY <1>2, <2>2, <2>3
<1> QED  BY <1>1, <1>3, <1>4, <1>5 DEF Next, DispatcherStep

\* Once a shift has gone wrong, the pool has left the reach of the theorem.
LEMMA MisshiftedStays == [Next]_vars => (misshifted => misshifted')
<1> SUFFICES ASSUME [Next]_vars, misshifted PROVE misshifted'
  OBVIOUS
<1>1. misshifted' = misshifted \/ DispatchTask \/ \E w \in Workers : MarkFree(w)
  BY DEF Next, DispatcherStep, WorkerStep, PrepareWorker, DispatchPost, DispatchDone, RequestTask, RunTask,
         Signal, PostTask, StartPooling, StopPooling, OwnerAt, vars, poolVars
<1>2. CASE DispatchTask
  BY <1>2, Zenon DEF DispatchTask
<1>3. CASE \E w \in Workers : MarkFree(w)
  BY <1>3, Zenon DEF MarkFree
<1> QED  BY <1>1, <1>2, <1>3, Zenon

\* For every number of workers: as long as no `1 << id' has touched the bit of
\* another worker, which the code does not prevent from worker 31 on, what the
\* dispatcher believes is true.  A worker whose bit is set, that is kept in
\* freeWorker_ or that is about to be handed a task has nothing to run, and
\* both assertions of the dispatcher hold.
THEOREM FreeWorkersAreIdle == SafetySpec => [](misshifted \/ FreeWorkerIdle)
<1>1. Init => FreeInv
  <2> SUFFICES ASSUME Init PROVE FreeInv
    OBVIOUS
  <2>1. ASSUME NEW w \in Workers PROVE container[w] = <<>> /\ pc[w] = "off" /\ dest # w
    BY Ids DEF Init, BodyInit
  <2> QED  BY <2>1, EmptySeq DEF Init, FreeInv, OneTaskAtATime, Idle, Finishing
<1>2. PoolInv /\ PoolInv' /\ FreeInv /\ ~misshifted' /\ [Next]_vars => FreeInv'
  <2>1. ASSUME FreeInv, UNCHANGED vars PROVE FreeInv'
    BY <2>1 DEF vars, poolVars, bodyVars, FreeInv, OneTaskAtATime, Claimed, Idle, Finishing
  <2> QED  BY <2>1, DispatchFree, MarkFreeInv, WorkerFree, OthersFree
<1>3. PoolInv /\ FreeInv => FreeWorkerIdle
  <2> SUFFICES ASSUME PoolInv, FreeInv PROVE FreeWorkerIdle
    OBVIOUS
  <2>1. \A w \in Workers \ Pinned : (w \in freeBits \/ freeWorker = w \/ dest = w) => Idle(w)
    BY DEF FreeInv, OneTaskAtATime, Claimed
  <2>2. SelectAssertion
    BY LowestBitIn DEF PoolInv, PoolTypeOK, FreeInv, SelectAssertion
  <2> QED  BY <2>1, <2>2 DEF PoolInv, DispatcherInv, FreeWorkerIdle
<1>4. (misshifted \/ FreeInv) /\ PoolInv /\ PoolInv' /\ [Next]_vars => (misshifted \/ FreeInv)'
  BY <1>2, MisshiftedStays, Zenon
<1>5. PoolInv /\ (misshifted \/ FreeInv) => (misshifted \/ FreeWorkerIdle)
  BY <1>3, Zenon
<1> QED  BY <1>1, <1>4, <1>5, PoolInvariant, PTL DEF SafetySpec

-----------------------------------------------------------------------------
(* An accepted task is in exactly one place *)

\* Task t is in queue q; no task is twice in queue q.
Has(q, t) == \E j \in DOMAIN q : q[j] = t
Distinct(q) == \A j, k \in DOMAIN q : q[j] = q[k] => j = k

\* A place in a queue, and queues without duplicates, in these terms.
LEMMA QueueTerms ==
  /\ NoDuplicates <=> \A b \in Bodies : Distinct(container[b])
  /\ NoDuplicates' <=> \A b \in Bodies : Distinct(container'[b])
  /\ \A t, b : Waiting(t, b) # {} <=> Has(container[b], t)
  /\ \A t, b : Waiting(t, b)' # {} <=> Has(container'[b], t)
<1>1. /\ NoDuplicates <=> \A b \in Bodies : Distinct(container[b])
      /\ NoDuplicates' <=> \A b \in Bodies : Distinct(container'[b])
  BY Zenon DEF NoDuplicates, Distinct
<1>2. /\ \A t, b : Waiting(t, b) # {} <=> Has(container[b], t)
      /\ \A t, b : Waiting(t, b)' # {} <=> Has(container'[b], t)
  BY DEF Waiting, Has
<1> QED  BY <1>1, <1>2

\* What is left of a sequence without its i-th element.
LEMMA WithoutIndexElements ==
  ASSUME NEW s \in Seq(Tasks), NEW i \in 1..Len(s)
  PROVE  /\ DOMAIN WithoutIndex(s, i) = 1..(Len(s) - 1)
         /\ \A j \in 1..(Len(s) - 1) : WithoutIndex(s, i)[j] = IF j < i THEN s[j] ELSE s[j + 1]
<1>1. PICK l, r : l = SubSeq(s, 1, i - 1) /\ r = SubSeq(s, i + 1, Len(s))
  OBVIOUS
<1>2. /\ l \in Seq(Tasks) /\ Len(l) = i - 1 /\ \A j \in 1..(i - 1) : l[j] = s[j]
      /\ r \in Seq(Tasks) /\ Len(r) = Len(s) - i /\ \A j \in 1..(Len(s) - i) : r[j] = s[i + j]
  <2>0. /\ i \in Nat /\ Len(s) \in Nat /\ i >= 1 /\ i <= Len(s)
        /\ \A j \in 1..Len(s) : s[j] \in Tasks
    BY ElementOfSeq, LenProperties
  <2>1. l \in Seq(Tasks) /\ Len(l) = i - 1 /\ \A j \in 1..(i - 1) : l[j] = s[j]
    <3>1. \A j \in 1..(i - 1) : s[j] \in Tasks
      BY <2>0
    <3> QED  BY <1>1, <2>0, <3>1, SubSeqProperties
  <2>2. r \in Seq(Tasks) /\ Len(r) = Len(s) - i /\ \A j \in 1..(Len(s) - i) : r[j] = s[i + j]
    <3>1. \A j \in (i + 1)..Len(s) : s[j] \in Tasks
      BY <2>0
    <3> QED  BY <1>1, <2>0, <3>1, SubSeqProperties
  <2> QED  BY <2>1, <2>2
<1>3. WithoutIndex(s, i) = l \o r
  BY <1>1 DEF WithoutIndex
<1>4. /\ l \o r \in Seq(Tasks) /\ Len(l \o r) = Len(l) + Len(r)
      /\ \A j \in 1..(Len(l) + Len(r)) : (l \o r)[j] = IF j <= Len(l) THEN l[j] ELSE r[j - Len(l)]
  BY <1>2, ConcatProperties
<1>5. Len(s) \in Nat /\ Len(l) + Len(r) = Len(s) - 1
  BY <1>2, LenProperties
<1>6. DOMAIN (l \o r) = 1..(Len(s) - 1)
  BY <1>4, <1>5, LenProperties
<1>7. ASSUME NEW j \in 1..(Len(s) - 1)
      PROVE  (l \o r)[j] = IF j < i THEN s[j] ELSE s[j + 1]
  <2>1. (l \o r)[j] = IF j <= Len(l) THEN l[j] ELSE r[j - Len(l)]
    BY <1>4, <1>5, <1>7
  <2>2. CASE j < i
    BY <1>2, <1>5, <2>1, <2>2
  <2>3. CASE j >= i
    <3>1. j - Len(l) \in 1..(Len(s) - i) /\ i + (j - Len(l)) = j + 1 /\ ~(j <= Len(l)) /\ ~(j < i)
      BY <1>2, <1>5, <2>3
    <3> QED  BY <1>2, <2>1, <3>1
  <2> QED  BY <1>5, <2>2, <2>3
<1> QED  BY <1>3, <1>6, <1>7

\* Popping position i removes the task there, and no other.
LEMMA PopElements ==
  ASSUME NEW s \in Seq(Tasks), NEW i \in 1..Len(s), Distinct(s)
  PROVE  /\ Distinct(WithoutIndex(s, i))
         /\ \A t : Has(WithoutIndex(s, i), t) <=> t # s[i] /\ Has(s, t)
<1>1. PICK r : r = WithoutIndex(s, i)
  OBVIOUS
<1>2. PICK n \in Nat : n = Len(s) /\ i \in 1..n /\ DOMAIN s = 1..n
  BY LenProperties
<1>3. DOMAIN r = 1..(n - 1) /\ \A j \in 1..(n - 1) : r[j] = IF j < i THEN s[j] ELSE s[j + 1]
  BY <1>1, <1>2, WithoutIndexElements
<1>4. \A j, k \in DOMAIN r : r[j] = r[k] => j = k
  <2> SUFFICES ASSUME NEW j \in 1..(n - 1), NEW k \in 1..(n - 1), r[j] = r[k] PROVE j = k
    BY <1>3
  <2>1. PICK a \in 1..n : a = IF j < i THEN j ELSE j + 1
    BY <1>2
  <2>2. PICK c \in 1..n : c = IF k < i THEN k ELSE k + 1
    BY <1>2
  <2>3. r[j] = s[a] /\ r[k] = s[c]
    BY <1>3, <2>1, <2>2
  <2>4. a = c
    BY <1>2, <2>3 DEF Distinct
  <2> QED  BY <1>2, <2>1, <2>2, <2>4
<1>5. ASSUME NEW t, NEW j \in DOMAIN r, r[j] = t
      PROVE  t # s[i] /\ \E k \in DOMAIN s : s[k] = t
  BY <1>2, <1>3, <1>5 DEF Distinct
<1>6. ASSUME NEW t, t # s[i], NEW k \in DOMAIN s, s[k] = t
      PROVE  \E j \in DOMAIN r : r[j] = t
  <2>1. CASE k < i
    <3>1. k \in 1..(n - 1)
      BY <1>2, <2>1
    <3> QED  BY <1>3, <1>6, <2>1, <3>1
  <2>2. CASE k > i
    <3>1. k - 1 \in 1..(n - 1) /\ ~(k - 1 < i) /\ (k - 1) + 1 = k
      BY <1>2, <2>2
    <3> QED  BY <1>3, <1>6, <3>1
  <2> QED  BY <1>2, <1>6, <2>1, <2>2
<1> QED  BY <1>1, <1>4, <1>5, <1>6, Zenon DEF Distinct, Has

\* Pushing a task that is not in the queue adds this task, and no other.
LEMMA PushElements ==
  ASSUME NEW s \in Seq(Tasks), NEW t \in Tasks, ~Has(s, t), Distinct(s)
  PROVE  /\ Distinct(Append(s, t))
         /\ \A u : Has(Append(s, t), u) <=> u = t \/ Has(s, u)
<1>1. PICK r : r = Append(s, t)
  OBVIOUS
<1>2. PICK n \in Nat : n = Len(s) /\ DOMAIN s = 1..n
  BY LenProperties
<1>3. DOMAIN r = 1..(n + 1) /\ r[n + 1] = t /\ \A j \in 1..n : r[j] = s[j]
  BY <1>1, <1>2, AppendProperties
<1>4. \A j, k \in DOMAIN r : r[j] = r[k] => j = k
  BY <1>2, <1>3 DEF Distinct, Has
<1>5. ASSUME NEW u PROVE (\E j \in DOMAIN r : r[j] = u) <=> u = t \/ \E j \in DOMAIN s : s[j] = u
  <2>1. n + 1 \in DOMAIN r /\ \A j \in 1..(n + 1) : j = n + 1 \/ j \in 1..n
    BY <1>3
  <2>2. \A j \in 1..n : j \in DOMAIN r
    BY <1>3
  <2> QED  BY <1>2, <1>3, <2>1, <2>2
<1> QED  BY <1>1, <1>4, <1>5, Zenon DEF Distinct, Has

\* A step after which every task is where it was.
LEMMA StayPlaced ==
  ASSUME PlaceInv, container' = container, UNCHANGED <<posted, ran, dropped>>,
         \A t \in Tasks, b \in Bodies : InHands(t, b)' <=> InHands(t, b)
  PROVE  PlaceInv'
<1>1. NoDuplicates'
  BY DEF PlaceInv, NoDuplicates
<1>2. \A t \in Tasks, k \in Kinds, b \in Holders : At(t, k, b)' <=> At(t, k, b)
  BY DEF At, Waiting
<1>3. \A t \in Tasks : Placed(t)
  BY DEF PlaceInv
<1>4. \A t \in Tasks : Placed(t)'
  BY <1>2, <1>3 DEF Placed
<1> QED  BY <1>1, <1>4 DEF PlaceInv

\* A step puts task t into one place, out of the place where it was or from
\* outside the pool, and no other task.
Moves(t, l, c) ==
  /\ posted' = posted \cup {t} /\ l \in Kinds /\ c \in Holders
  /\ \A u \in Tasks : u # t => \A k \in Kinds, b \in Holders : At(u, k, b)' <=> At(u, k, b)
  /\ \A k \in Kinds, b \in Holders : At(t, k, b)' <=> k = l /\ b = c

\* Such a step leaves every task in one place.
LEMMA MovePlaced ==
  ASSUME PlaceInv, NoDuplicates', NEW t \in Tasks, NEW l, NEW c, Moves(t, l, c)
  PROVE  PlaceInv'
<1>1. ASSUME NEW u \in Tasks, u # t PROVE Placed(u)'
  <2>1. Placed(u) /\ (u \in posted' <=> u \in posted)
    BY <1>1 DEF PlaceInv, Moves
  <2> QED  BY <1>1, <2>1 DEF Placed, Moves
<1>2. Placed(t)'
  BY DEF Placed, Moves
<1> QED  BY <1>1, <1>2 DEF PlaceInv

\* What uniqueness says of the task in one place.
LEMMA OnlyThere ==
  ASSUME PlaceInv, NEW t \in Tasks, NEW l \in Kinds, NEW c \in Holders, At(t, l, c)
  PROVE  t \in posted /\ \A k \in Kinds, b \in Holders : At(t, k, b) => k = l /\ b = c
  BY DEF PlaceInv, Placed

\* ThreadPool::PostTask puts a new task into the dispatcher's queue.
LEMMA PostPlaced ==
  ASSUME PoolInv, PlaceInv, NEW p \in Posters, NEW t \in Tasks, PostTask(p, t)
  PROVE  PlaceInv'
<1>0. BodyTypeOK /\ NoDuplicates
  BY DEF PoolInv, BodyInv, PlaceInv
<1>1. /\ container'[Dispatcher] = Append(container[Dispatcher], t)
      /\ \A b \in Bodies : b # Dispatcher => container'[b] = container[b]
      /\ UNCHANGED <<pc, msg, dest, ran, dropped>> /\ posted' = posted \cup {t} /\ t \notin posted
  BY <1>0, Ids DEF PostTask, PushTask, BodyTypeOK
<1>2. \A k \in Kinds, b \in Holders : ~At(t, k, b)
  BY <1>1 DEF PlaceInv, Placed
<1>3. ~Has(container[Dispatcher], t)
  BY <1>2, Ids, QueueTerms DEF At, Kinds, Holders
<1>4. /\ Distinct(container'[Dispatcher])
      /\ \A u : Has(container'[Dispatcher], u) <=> u = t \/ Has(container[Dispatcher], u)
  <2>1. PICK s \in Seq(Tasks) : s = container[Dispatcher]
    BY <1>0, Ids DEF BodyTypeOK
  <2>2. ~Has(s, t) /\ Distinct(s)
    BY <1>0, <1>3, <2>1, Ids, QueueTerms
  <2> QED  BY <1>1, <2>1, <2>2, PushElements
<1>5. NoDuplicates'
  BY <1>0, <1>1, <1>4, QueueTerms
<1>6. \A u \in Tasks, b \in Bodies :
        Waiting(u, b)' # {} <=> Waiting(u, b) # {} \/ (u = t /\ b = Dispatcher)
  BY <1>1, <1>4, QueueTerms
<1>7. \A u \in Tasks, k \in Kinds, b \in Holders :
        At(u, k, b)' <=> At(u, k, b) \/ (u = t /\ k = "queue" /\ b = Dispatcher)
  BY <1>1, <1>6, Ids DEF At, InHands
<1>8. "queue" \in Kinds /\ Dispatcher \in Holders
  BY Ids DEF Kinds, Holders
<1>9. \A k \in Kinds, b \in Holders : At(t, k, b)' <=> k = "queue" /\ b = Dispatcher
  BY <1>2, <1>7
<1>10. Moves(t, "queue", Dispatcher)
  BY <1>1, <1>7, <1>8, <1>9 DEF Moves
<1> QED  BY <1>5, <1>10, MovePlaced

\* GetTaskFromContainer moves a task from the queue of a body to its hands.
LEMMA GetPlaced ==
  ASSUME PoolInv, PlaceInv, NEW b \in Bodies, NEW i, GetTaskFromContainer(b, b, i), UNCHANGED poolVars
  PROVE  PlaceInv'
<1>0. BodyTypeOK /\ NoDuplicates /\ PopFindsTask /\ DispatcherInv
  BY DEF PoolInv, BodyInv, PlaceInv
<1>a. pc[b] = "pop" /\ pc'[b] = "task" /\ \A c \in Bodies : c # b => pc'[c] = pc[c]
  BY <1>0, GotoOther DEF GetTaskFromContainer
<1>b. i \in 1..Len(container[b])
  BY <1>0, <1>a, PopsTask DEF GetTaskFromContainer
<1>c. PICK s \in Seq(Tasks) : s = container[b] /\ i \in 1..Len(s)
  BY <1>0, <1>b DEF BodyTypeOK
<1>d. PICK t \in Tasks : t = s[i]
  BY <1>c, WithoutIndexShortens
<1>1. /\ container'[b] = WithoutIndex(s, i) /\ msg'[b] = t
      /\ \A c \in Bodies : c # b => container'[c] = container[c] /\ msg'[c] = msg[c]
      /\ UNCHANGED <<dest, ran, dropped, posted>>
  BY <1>0, <1>a, <1>c, <1>d, PopsTask, Ids DEF GetTaskFromContainer, BodyTypeOK, poolVars
<1>2. "queue" \in Kinds /\ "hands" \in Kinds /\ b \in Holders /\ At(t, "queue", b)
  BY <1>c, <1>d, LenProperties DEF Kinds, Holders, At, Waiting
<1>3. t \in posted /\ \A k \in Kinds, c \in Holders : At(t, k, c) => k = "queue" /\ c = b
  BY <1>2, OnlyThere
<1>4. /\ Distinct(container'[b])
      /\ \A u : Has(container'[b], u) <=> u # t /\ Has(container[b], u)
  <2>1. Distinct(s)
    BY <1>0, <1>c, QueueTerms
  <2> QED  BY <1>1, <1>c, <1>d, <2>1, PopElements
<1>5. NoDuplicates'
  BY <1>0, <1>1, <1>4, QueueTerms
<1>6. \A u \in Tasks, c \in Bodies : Waiting(u, c)' # {} <=> Waiting(u, c) # {} /\ ~(u = t /\ c = b)
  BY <1>1, <1>4, QueueTerms
<1>7. b = Dispatcher => dest # Dispatcher
  BY <1>0, <1>a, Ids DEF DispatcherInv
<1>8. \A u \in Tasks, c \in Bodies : InHands(u, c)' <=> InHands(u, c) \/ (u = t /\ c = b)
  BY <1>1, <1>7, <1>a DEF InHands
<1>9. \A u \in Tasks : u # t => \A k \in Kinds, c \in Holders : At(u, k, c)' <=> At(u, k, c)
  BY <1>1, <1>6, <1>8 DEF At
<1>10. \A k \in Kinds, c \in Holders : At(t, k, c)' <=> k = "hands" /\ c = b
  <2>1. \A k \in Kinds, c \in Holders : k # "queue" => ~At(t, k, c)
    BY <1>3
  <2>2. \A c \in Bodies : c # b => Waiting(t, c) = {}
    BY <1>3 DEF At, Kinds, Holders
  <2>3. \A c \in Bodies : Waiting(t, c)' = {} /\ (InHands(t, c)' <=> c = b)
    BY <1>6, <1>8, <2>1, <2>2 DEF At, Kinds, Holders
  <2>4. t \notin ran' /\ t \notin dropped'
    BY <1>1, <2>1 DEF At, Kinds, Holders
  <2> QED  BY <2>3, <2>4 DEF At
<1>11. posted' = posted \cup {t}
  BY <1>1, <1>3
<1>12. Moves(t, "hands", b)
  BY <1>2, <1>9, <1>10, <1>11 DEF Moves
<1> QED  BY <1>5, <1>12, MovePlaced

\* DispatchTask's PostTask moves the task from the dispatcher's hands to the
\* worker's mailbox, or a full mailbox refuses it.
LEMMA DispatchPlaced ==
  ASSUME PoolInv, PlaceInv, DispatchPost
  PROVE  PlaceInv'
<1>0. BodyTypeOK /\ NoDuplicates /\ NoNullTask /\ DispatcherInv
  BY DEF PoolInv, BodyInv, PlaceInv
<1>1. PICK v \in Workers : v = dest
  BY DEF DispatchPost
<1>2. pc[Dispatcher] = "task" /\ dest # Dispatcher
  BY <1>0, <1>1, Ids DEF DispatcherInv
<1>3. PICK t \in Tasks : t = msg[Dispatcher]
  BY <1>0, <1>2, Ids DEF NoNullTask, BodyTypeOK
<1>4. /\ "queue" \in Kinds /\ "hands" \in Kinds /\ "dropped" \in Kinds
      /\ NULL \in Holders /\ Dispatcher \in Holders /\ v \in Holders
  BY Ids DEF Kinds, Holders
<1>5. At(t, "hands", Dispatcher)
  BY <1>2, <1>3, Ids DEF At, InHands
<1>6. t \in posted /\ \A k \in Kinds, c \in Holders : At(t, k, c) => k = "hands" /\ c = Dispatcher
  BY <1>4, <1>5, OnlyThere
<1>7. /\ \A c \in Bodies : Waiting(t, c) = {}
      /\ \A c \in Bodies : c # Dispatcher => ~InHands(t, c)
      /\ t \notin ran /\ t \notin dropped
  BY <1>6 DEF At, Kinds, Holders
<1>8. UNCHANGED <<pc, msg, posted, ran>> /\ dest' = Dispatcher
  BY DEF DispatchPost, PushTask, bodyVars
<1>9. \A u \in Tasks, c \in Bodies : InHands(u, c)' <=> InHands(u, c) /\ ~(u = t /\ c = Dispatcher)
  BY <1>2, <1>3, <1>8 DEF InHands
<1>10. CASE PushTask(Dispatcher, dest, msg[Dispatcher]) /\ UNCHANGED dropped
  <2>1. container'[v] = Append(container[v], t) /\ \A c \in Bodies : c # v => container'[c] = container[c]
    BY <1>0, <1>1, <1>3, <1>10, Ids DEF PushTask, BodyTypeOK
  <2>2. PICK s \in Seq(Tasks) : s = container[v]
    BY <1>0, Ids DEF BodyTypeOK
  <2>3. ~Has(s, t) /\ Distinct(s)
    BY <1>0, <1>7, <2>2, Ids, QueueTerms
  <2>5. /\ Distinct(container'[v])
        /\ \A u : Has(container'[v], u) <=> u = t \/ Has(container[v], u)
    BY <2>1, <2>2, <2>3, PushElements
  <2>6. NoDuplicates'
    BY <1>0, <2>1, <2>5, QueueTerms
  <2>7. \A u \in Tasks, c \in Bodies : Waiting(u, c)' # {} <=> Waiting(u, c) # {} \/ (u = t /\ c = v)
    BY <2>1, <2>5, QueueTerms
  <2>8. \A u \in Tasks : u # t => \A k \in Kinds, c \in Holders : At(u, k, c)' <=> At(u, k, c)
    BY <1>8, <1>9, <1>10, <2>7 DEF At
  <2>9. \A k \in Kinds, c \in Holders : At(t, k, c)' <=> k = "queue" /\ c = v
    BY <1>7, <1>8, <1>9, <1>10, <2>7, Ids DEF At
  <2>10. posted' = posted \cup {t}
    BY <1>6, <1>8
  <2>11. Moves(t, "queue", v)
    BY <1>4, <2>8, <2>9, <2>10 DEF Moves
  <2> QED  BY <2>6, <2>11, MovePlaced
<1>11. CASE UNCHANGED bodyVars /\ dropped' = dropped \cup {msg[Dispatcher]}
  <2>1. container' = container /\ dropped' = dropped \cup {t}
    BY <1>3, <1>11 DEF bodyVars
  <2>2. NoDuplicates'
    BY <1>0, <2>1 DEF NoDuplicates
  <2>3. \A u \in Tasks, c \in Bodies : Waiting(u, c)' = Waiting(u, c)
    BY <2>1 DEF Waiting
  <2>4. \A u \in Tasks : u # t => \A k \in Kinds, c \in Holders : At(u, k, c)' <=> At(u, k, c)
    BY <1>8, <1>9, <2>1, <2>3 DEF At
  <2>5. \A k \in Kinds, c \in Holders : At(t, k, c)' <=> k = "dropped" /\ c = NULL
    BY <1>7, <1>8, <1>9, <2>1, <2>3 DEF At
  <2>6. posted' = posted \cup {t}
    BY <1>6, <1>8
  <2>7. Moves(t, "dropped", NULL)
    BY <1>4, <2>4, <2>5, <2>6 DEF Moves
  <2> QED  BY <2>2, <2>7, MovePlaced
<1> QED  BY <1>10, <1>11 DEF DispatchPost

\* HandleTask of a worker moves the task from its hands to the past.
LEMMA RunPlaced ==
  ASSUME PoolInv, PlaceInv, NEW w \in Workers, RunTask(w)
  PROVE  PlaceInv'
<1>0. BodyTypeOK /\ NoDuplicates /\ NoNullTask
  BY DEF PoolInv, BodyInv, PlaceInv
<1>1. /\ pc[w] = "task" /\ pc'[w] = "end" /\ \A c \in Bodies : c # w => pc'[c] = pc[c]
      /\ \A c \in Bodies : c # w => msg'[c] = msg[c]
      /\ container' = container /\ UNCHANGED <<dest, dropped, posted>> /\ ran' = ran \cup {msg[w]}
  BY <1>0, Ids, GotoOther DEF RunTask, TaskDone, BodyTypeOK
<1>2. PICK t \in Tasks : t = msg[w]
  BY <1>0, <1>1, Ids DEF NoNullTask, BodyTypeOK
<1>3. {"hands", "ran"} \subseteq Kinds /\ NULL \in Holders /\ w \in Holders /\ At(t, "hands", w)
  BY <1>1, <1>2, Ids DEF Kinds, Holders, At, InHands
<1>4. t \in posted /\ \A k \in Kinds, c \in Holders : At(t, k, c) => k = "hands" /\ c = w
  BY <1>3, OnlyThere
<1>5. /\ \A c \in Bodies : Waiting(t, c) = {}
      /\ \A c \in Bodies : c # w => ~InHands(t, c)
      /\ t \notin ran /\ t \notin dropped
  BY <1>4 DEF At, Kinds, Holders
<1>6. \A u \in Tasks, c \in Bodies : InHands(u, c)' <=> InHands(u, c) /\ ~(u = t /\ c = w)
  BY <1>1, <1>2, Ids DEF InHands
<1>7. NoDuplicates' /\ \A u \in Tasks, c \in Bodies : Waiting(u, c)' = Waiting(u, c)
  BY <1>0, <1>1 DEF NoDuplicates, Waiting
<1>8. \A u \in Tasks : u # t => \A k \in Kinds, c \in Holders : At(u, k, c)' <=> At(u, k, c)
  BY <1>1, <1>2, <1>6, <1>7 DEF At
<1>9. \A k \in Kinds, c \in Holders : At(t, k, c)' <=> k = "ran" /\ c = NULL
  BY <1>1, <1>2, <1>5, <1>6, <1>7 DEF At
<1>10. posted' = posted \cup {t}
  BY <1>1, <1>4
<1>11. Moves(t, "ran", NULL)
  BY <1>3, <1>8, <1>9, <1>10 DEF Moves
<1> QED  BY <1>7, <1>11, MovePlaced

\* No other step moves a task.
LEMMA OthersPlaced ==
  ASSUME PoolInv, PlaceInv, Next, ~DispatchPost,
         \A w \in Workers : ~RunTask(w),
         \A p \in Posters, t \in Tasks : ~PostTask(p, t),
         \A b \in Bodies : \A i : ~(GetTaskFromContainer(b, b, i) /\ UNCHANGED poolVars)
  PROVE  PlaceInv'
<1>0. BodyTypeOK /\ PoolTypeOK /\ DispatcherInv
  BY DEF PoolInv, BodyInv
<1>1. CASE PrepareWorker \/ DispatchTask
  <2>1. UNCHANGED <<container, pc, msg, posted, ran, dropped>>
    BY <1>1 DEF PrepareWorker, DispatchTask, bodyVars
  <2>2. dest' # Dispatcher <=> dest # Dispatcher
    <3>1. CASE PrepareWorker
      BY <3>1 DEF PrepareWorker
    <3>2. CASE DispatchTask
      BY <1>0, <3>2, Ids DEF PoolTypeOK, DispatcherInv, DispatchTask, Target
    <3> QED  BY <1>1, <3>1, <3>2
  <2>3. \A t \in Tasks, b \in Bodies : InHands(t, b)' <=> InHands(t, b)
    BY <2>1, <2>2 DEF InHands
  <2> QED  BY <2>1, <2>3, StayPlaced
<1>2. CASE DispatchDone
  <2>1. /\ UNCHANGED <<container, posted, ran, dropped>> /\ dest = Dispatcher
        /\ pc'[Dispatcher] = "end" /\ \A c \in Bodies : c # Dispatcher => pc'[c] = pc[c] /\ msg'[c] = msg[c]
    BY <1>0, <1>2, Ids, GotoOther DEF DispatchDone, TaskDone, BodyTypeOK
  <2>2. \A t \in Tasks, b \in Bodies : InHands(t, b)' <=> InHands(t, b)
    BY <2>1 DEF InHands
  <2> QED  BY <2>1, <2>2, StayPlaced
<1>3. ASSUME NEW b \in Bodies, NEW from \in PC \ {"task"}, NEW to \in PC \ {"task"}, Goto(b, from, to),
             UNCHANGED <<container, msg, dest, posted, ran, dropped>>
      PROVE  PlaceInv'
  <2>1. \A t \in Tasks, c \in Bodies : InHands(t, c)' <=> InHands(t, c)
    BY <1>0, <1>3, GotoOther DEF InHands
  <2> QED  BY <1>3, <2>1, StayPlaced
<1>4. ASSUME NEW b \in Bodies, NEW top \in {"prepare", "get"}, UNCHANGED <<dest, posted, ran, dropped>>,
             \/ CreateThread(b, b) \/ SetBusy(b, b) \/ EnterRun(b, b, top) \/ Prepared(b) \/ TryConsumeFails(b, b)
             \/ Notify(b) \/ Timeout(b, b) \/ LeaveRun(b, b) \/ NotifyDone(b, b, top)
             \/ Consume(b, b) \/ TimedConsume(b, b) \/ GetInternalCmd(b, b) \/ ProcessInternalCmd(b, b)
      PROVE  PlaceInv'
  <2>1. UNCHANGED <<container, msg>>
    BY <1>4 DEF CreateThread, SetBusy, EnterRun, Prepared, TryConsumeFails, Notify, Timeout, LeaveRun, NotifyDone,
                Consume, TimedConsume, TakeToken, GetInternalCmd, ProcessInternalCmd
  <2>2. \E from \in PC \ {"task"}, to \in PC \ {"task"} : Goto(b, from, to)
    BY <1>4 DEF PC, CreateThread, SetBusy, EnterRun, Prepared, TryConsumeFails, Notify, Timeout, LeaveRun, NotifyDone,
                Consume, TimedConsume, GetInternalCmd, ProcessInternalCmd
  <2> QED  BY <1>3, <1>4, <2>1, <2>2
<1>5. CASE DispatcherStep /\ ~PrepareWorker /\ ~DispatchTask /\ ~DispatchDone
  <2>1. UNCHANGED <<dest, posted, ran, dropped>>
    BY <1>5 DEF DispatcherStep, poolVars
  <2> QED  BY <1>4, <1>5, <2>1, Ids DEF DispatcherStep
<1>6. ASSUME NEW w \in Workers, WorkerStep(w) PROVE PlaceInv'
  <2>1. UNCHANGED <<dest, posted, ran, dropped>>
    BY <1>6 DEF WorkerStep, RequestTask, MarkFree, poolVars
  <2> QED  BY <1>4, <1>6, <2>1, Ids DEF WorkerStep, RequestTask, MarkFree
<1>7. CASE (\E p \in Posters : Signal(p)) \/ StopPooling
  <2>1. UNCHANGED <<container, pc, msg, dest, posted, ran, dropped>>
    BY <1>7 DEF Signal, SignalPost, StopPooling, OwnerAt, PushExit, bodyVars, poolVars
  <2>2. \A t \in Tasks, b \in Bodies : InHands(t, b)' <=> InHands(t, b)
    BY <2>1 DEF InHands
  <2> QED  BY <2>1, <2>2, StayPlaced
<1>8. CASE StartPooling
  <2>1. \E b \in Bodies : CreateThread(b, b)
    BY <1>0, <1>8, StartMoves
  <2>2. UNCHANGED <<dest, posted, ran, dropped>>
    BY <1>8 DEF StartPooling, OwnerAt
  <2> QED  BY <1>4, <2>1, <2>2
<1> QED  BY <1>1, <1>2, <1>5, <1>6, <1>7, <1>8 DEF Next

\* A set that is empty or has one member.
LEMMA SmallSets ==
  /\ Cardinality({}) = 0
  /\ \A x : Cardinality({x}) = 1
  BY FS_EmptySet, FS_Singleton

\* Counting the places of a task that is in just one of them.
LEMMA OnePlaceCount ==
  ASSUME PlaceInv, PoolTypeOK
  PROVE  OnePlace
<1> SUFFICES ASSUME NEW t \in posted PROVE
      LET queued  == UNION {{<<b, i>> : i \in Waiting(t, b)} : b \in Bodies}
          running == {w \in Workers : pc[w] = "task" /\ msg[w] = t}
          held    == IF pc[Dispatcher] = "task" /\ dest # Dispatcher /\ msg[Dispatcher] = t
                       THEN {t} ELSE {}
      IN  Cardinality(queued) + Cardinality(running) + Cardinality(held)
            + Cardinality({t} \cap ran) + Cardinality({t} \cap dropped) = 1
  BY DEF OnePlace
<1> DEFINE queued  == UNION {{<<b, i>> : i \in Waiting(t, b)} : b \in Bodies}
           running == {w \in Workers : pc[w] = "task" /\ msg[w] = t}
           held    == IF pc[Dispatcher] = "task" /\ dest # Dispatcher /\ msg[Dispatcher] = t
                        THEN {t} ELSE {}
<1>0. t \in Tasks /\ NoDuplicates
  BY DEF PlaceInv, PoolTypeOK
<1>1. PICK l \in Kinds, c \in Holders : At(t, l, c)
  BY <1>0 DEF PlaceInv, Placed
<1>2. \A k \in Kinds, b \in Holders : At(t, k, b) => k = l /\ b = c
  BY <1>0, <1>1, OnlyThere
<1>3. /\ \A b \in Bodies : Waiting(t, b) # {} => l = "queue" /\ c = b
      /\ \A b \in Bodies : InHands(t, b) => l = "hands" /\ c = b
      /\ t \in ran => l = "ran"
      /\ t \in dropped => l = "dropped"
  BY <1>2 DEF At, Kinds, Holders
<1>4. /\ l # "queue" => queued = {}
      /\ l # "hands" => running = {} /\ held = {}
      /\ l # "ran" => {t} \cap ran = {}
      /\ l # "dropped" => {t} \cap dropped = {}
  <2>1. l # "queue" => queued = {}
    BY <1>3
  <2>2. l # "hands" => running = {} /\ held = {}
    BY <1>3, Ids DEF InHands
  <2> QED  BY <1>3, <2>1, <2>2
<1>5. l = "queue" => \E x : queued = {x}
  <2> SUFFICES ASSUME l = "queue" PROVE \E x : queued = {x}
    OBVIOUS
  <2>1. c \in Bodies /\ Waiting(t, c) # {}
    BY <1>1 DEF At
  <2>2. PICK i : i \in Waiting(t, c)
    BY <2>1
  <2>3. Waiting(t, c) = {i}
    BY <1>0, <2>1, <2>2 DEF NoDuplicates, Waiting
  <2>4. \A b \in Bodies : b # c => Waiting(t, b) = {}
    BY <1>3
  <2>5. queued = {<<c, i>>}
    BY <2>1, <2>3, <2>4
  <2> QED  BY <2>5
<1>6. l = "hands" => (running = {c} /\ held = {}) \/ (running = {} /\ held = {t})
  <2> SUFFICES ASSUME l = "hands" PROVE (running = {c} /\ held = {}) \/ (running = {} /\ held = {t})
    OBVIOUS
  <2>1. c \in Bodies /\ InHands(t, c)
    BY <1>1 DEF At
  <2>2. CASE c = Dispatcher
    <3>1. running = {}
      BY <1>3, <2>2, Ids DEF InHands
    <3> QED  BY <2>1, <2>2, <3>1 DEF InHands
  <2>3. CASE c \in Workers
    <3>1. running = {c}
      <4>1. c \in running
        BY <2>1, <2>3 DEF InHands
      <4>2. \A w \in running : w \in Bodies /\ InHands(t, w)
        BY Ids DEF InHands
      <4> QED  BY <1>3, <4>1, <4>2
    <3>2. held = {}
      BY <1>3, <2>3, Ids DEF InHands
    <3> QED  BY <3>1, <3>2
  <2> QED  BY <2>1, <2>2, <2>3, PoolAssumption
<1>7. /\ l = "ran" => {t} \cap ran = {t}
      /\ l = "dropped" => {t} \cap dropped = {t}
  BY <1>1 DEF At
<1> HIDE DEF queued, running, held
<1>8. /\ Cardinality(queued) = IF l = "queue" THEN 1 ELSE 0
      /\ \/ l = "hands" /\ Cardinality(running) = 1 /\ Cardinality(held) = 0
         \/ l = "hands" /\ Cardinality(running) = 0 /\ Cardinality(held) = 1
         \/ l # "hands" /\ Cardinality(running) = 0 /\ Cardinality(held) = 0
      /\ Cardinality({t} \cap ran) = IF l = "ran" THEN 1 ELSE 0
      /\ Cardinality({t} \cap dropped) = IF l = "dropped" THEN 1 ELSE 0
  BY <1>4, <1>5, <1>6, <1>7, SmallSets
<1>9. Cardinality(queued) + Cardinality(running) + Cardinality(held)
        + Cardinality({t} \cap ran) + Cardinality({t} \cap dropped) = 1
  BY <1>8, <1>1 DEF Kinds
<1> QED  BY <1>9 DEF queued, running, held

\* An accepted task is in exactly one place at any time: in one queue, in the
\* hands of one thread, run or refused; none is lost or handed to two workers.
THEOREM TasksAreInOnePlace == SafetySpec => []OnePlace
<1>1. Init => PlaceInv
  <2> SUFFICES ASSUME Init PROVE PlaceInv
    OBVIOUS
  <2>1. \A b \in Bodies : container[b] = <<>> /\ pc[b] = "off"
    BY Ids DEF Init, BodyInit
  <2>2. \A t, b : b \in Bodies => Waiting(t, b) = {} /\ ~InHands(t, b)
    BY <2>1, EmptySeq DEF Waiting, InHands
  <2>3. \A t \in Tasks, k \in Kinds, b \in Holders : ~At(t, k, b)
    BY <2>2 DEF Init, At
  <2>4. NoDuplicates
    BY <2>1, EmptySeq DEF NoDuplicates
  <2> QED  BY <2>3, <2>4 DEF Init, PlaceInv, Placed
<1>2. PoolInv /\ PlaceInv /\ [Next]_vars => PlaceInv'
  <2> SUFFICES ASSUME PoolInv, PlaceInv, [Next]_vars PROVE PlaceInv'
    OBVIOUS
  <2>1. CASE UNCHANGED vars
    <3>1. container' = container /\ UNCHANGED <<posted, ran, dropped, pc, msg, dest>>
      BY <2>1 DEF vars, poolVars, bodyVars
    <3>2. \A t \in Tasks, b \in Bodies : InHands(t, b)' <=> InHands(t, b)
      BY <3>1 DEF InHands
    <3> QED  BY <3>1, <3>2, StayPlaced
  <2>2. CASE Next
    BY <2>2, PostPlaced, GetPlaced, DispatchPlaced, RunPlaced, OthersPlaced
  <2> QED  BY <2>1, <2>2
<1>3. PoolInv /\ PlaceInv => OnePlace
  BY OnePlaceCount DEF PoolInv
<1> QED  BY <1>1, <1>2, <1>3, PoolInvariant, PTL DEF SafetySpec
=============================================================================
