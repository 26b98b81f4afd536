-------------------------- MODULE LogWorkerProofs --------------------------
(***************************************************************************)
(* Theorems about the logger of sys, for any number of logging and other   *)
(* threads, Loggers and buffers: a message is never in two places until    *)
(* the queue breaks under two threads that push, Push never fails, and a   *)
(* logging thread does not end on messages it was woken for.               *)
(***************************************************************************)
EXTENDS LogWorker, FiniteSetTheorems, TLAPS

Injective(s) == \A i, j \in DOMAIN s : s[i] = s[j] => i = j

\* The first message leaves a queue without repetitions for good.
LEMMA TailRange ==
  ASSUME NEW s \in Seq(Buffers), s # <<>>, Injective(s)
  PROVE  /\ Head(s) \in Buffers /\ Head(s) \in Range(s) /\ Tail(s) \in Seq(Buffers)
         /\ Range(Tail(s)) = Range(s) \ {Head(s)} /\ Injective(Tail(s))
<1>1. /\ Head(s) \in Buffers /\ Tail(s) \in Seq(Buffers)
      /\ Len(s) \in Nat \ {0} /\ DOMAIN s = 1..Len(s) /\ Head(s) = s[1]
      /\ DOMAIN Tail(s) = 1..(Len(s) - 1)
      /\ \A i \in 1..(Len(s) - 1) : Tail(s)[i] = s[i + 1]
  OBVIOUS
<1>2. Head(s) \in Range(s)
  BY <1>1 DEF Range
<1>3. Injective(Tail(s))
  BY <1>1 DEF Injective
<1>4. Range(Tail(s)) \subseteq Range(s) \ {Head(s)}
  BY <1>1 DEF Range, Injective
<1>5. ASSUME NEW i \in DOMAIN s, s[i] # Head(s)
      PROVE  s[i] \in Range(Tail(s))
  <2>1. i - 1 \in 1..(Len(s) - 1) /\ (i - 1) + 1 = i
    BY <1>1, <1>5
  <2>2. Tail(s)[i - 1] = s[i]
    BY <1>1, <2>1
  <2> QED  BY <1>1, <2>1, <2>2 DEF Range
<1> QED  BY <1>1, <1>2, <1>3, <1>4, <1>5 DEF Range

\* A message that is not in the queue joins it.
LEMMA AppendRange ==
  ASSUME NEW s \in Seq(Buffers), NEW b \in Buffers, Injective(s), b \notin Range(s)
  PROVE  /\ Append(s, b) \in Seq(Buffers) /\ Injective(Append(s, b))
         /\ Range(Append(s, b)) = Range(s) \cup {b}
<1>1. /\ Append(s, b) \in Seq(Buffers) /\ Len(s) \in Nat
      /\ DOMAIN s = 1..Len(s) /\ DOMAIN Append(s, b) = 1..(Len(s) + 1)
      /\ Append(s, b)[Len(s) + 1] = b
      /\ \A i \in 1..Len(s) : Append(s, b)[i] = s[i]
  OBVIOUS
<1>2. Range(Append(s, b)) = Range(s) \cup {b}
  BY <1>1 DEF Range
<1>3. Injective(Append(s, b))
  BY <1>1 DEF Injective, Range
<1> QED  BY <1>1, <1>2, <1>3

\* There are finitely many buffers.
LEMMA Sizes ==
  /\ IsFiniteSet(Buffers) /\ Size \in Nat /\ 0 \notin Buffers
  /\ \A S \in SUBSET Buffers : /\ IsFiniteSet(S) /\ Cardinality(S) \in Nat
                               /\ Cardinality(S) <= Size
                               /\ S # Buffers => Cardinality(S) < Size
<1>1. IsFiniteSet(Buffers) /\ 0 \notin Buffers
  BY LogAssumption
<1>2. Size \in Nat
  BY <1>1, FS_CardinalityType DEF Size
<1>3. ASSUME NEW S \in SUBSET Buffers
      PROVE  /\ IsFiniteSet(S) /\ Cardinality(S) \in Nat /\ Cardinality(S) <= Size
             /\ S # Buffers => Cardinality(S) < Size
  BY <1>1, <1>2, FS_Subset, FS_CardinalityType DEF Size
<1> QED  BY <1>1, <1>2, <1>3

\* Threads and clients are different, so that a new thread is nobody else.
LEMMA ThreadsApart ==
  /\ Clients \cap Workers = {} /\ Clients \cup Workers = Flushers /\ Main \in Clients
  /\ Threads \in Nat
  BY LogAssumption DEF Clients, Workers, Flushers

\* Whoever is about to push has a buffer without a node, so that a node is left.
LEMMA NodeLeft ==
  ASSUME TypeOK, PlaceInv, NodeInv, NEW c \in Flushers, pc[c] = "push"
  PROVE  nodes > 0
<1>1. hand[c] \in Buffers
  BY DEF TypeOK, PlaceInv
<1>2. hand[c] \notin Noded
  BY <1>1 DEF PlaceInv, Noded
<1>3. Noded \in SUBSET Buffers /\ Noded # Buffers
  BY <1>1, <1>2 DEF Noded
<1> QED  BY <1>3, Sizes DEF NodeInv, TypeOK

-----------------------------------------------------------------------------
(* Every step keeps the invariant *)

\* At the start all buffers and nodes are free.
LEMMA InitIInv == Init => IInv
<1> SUFFICES ASSUME Init PROVE IInv
  OBVIOUS
<1>1. <<>> \in Seq(Buffers) /\ Range(<<>>) = {}
  BY DEF Range
<1>2. ASSUME NEW g \in Loggers
      PROVE  Cardinality({h \in Loggers : h <= g}) \in Streams
  <2> DEFINE S == {h \in Loggers : h <= g}
  <2>1. g \in S /\ S \subseteq Loggers /\ IsFiniteSet(Loggers)
    BY LogAssumption
  <2>2. /\ IsFiniteSet(S) /\ Cardinality(S) \in Nat /\ Cardinality(Loggers) \in Nat
        /\ Cardinality(S) <= Cardinality(Loggers) /\ Cardinality(S) # 0
    BY <2>1, FS_Subset, FS_CardinalityType, FS_EmptySet
  <2> QED  BY <2>2, LogAssumption DEF Streams
<1>3. Size \in Nat
  BY Sizes
<1>4. TypeOK
  <2>1. /\ fout \in [Loggers -> Streams]
        /\ stream \in [Streams -> {"none", "good", "bad", "deleted"}]
    BY <1>2 DEF Init
  <2>2. /\ pc \in [Flushers -> {"idle", "none"}] /\ hand \in [Flushers -> {0}]
        /\ entity \in [Buffers -> {0}] /\ retry \in [Clients -> {0}]
        /\ due \in [Workers -> {{}}]
    BY DEF Init
  <2>3. /\ pc \in [Flushers -> {"idle", "push", "link", "pop", "unlinked", "write", "join", "gone",
                                "none", "created", "wait", "test", "leave", "ended"}]
        /\ hand \in [Flushers -> Buffers \cup {0}]
        /\ due \in [Workers -> SUBSET Buffers]
    BY <2>2
  <2>4. entity \in [Buffers -> Streams \cup {0}] /\ retry \in [Clients -> 0..Retries]
    <3>1. 0 \in Streams \cup {0} /\ 0 \in 0..Retries
      BY LogAssumption
    <3> QED  BY <2>2, <3>1
  <2>5. /\ free \subseteq Buffers /\ leaked \subseteq Buffers /\ nodes \in 0..Size
        /\ pending \in Seq(Buffers) /\ logLevel \in Levels
    BY <1>1, <1>3 DEF Init
  <2>6. stop \in Nat /\ created \in 0..Threads
    BY LogAssumption DEF Init
  <2>7. run \in BOOLEAN /\ busy \in BOOLEAN
    BY DEF Init
  <2> QED  BY <2>1, <2>3, <2>4, <2>5, <2>6, <2>7 DEF TypeOK
<1>5. PlaceInv
  BY <1>1, Sizes DEF Init, PlaceInv
<1>6. NodeInv
  <2>1. Noded = {}
    BY <1>1 DEF Init, Noded
  <2> QED  BY <1>3, <2>1, FS_EmptySet DEF Init, NodeInv
<1>7. ThreadInv /\ DueInv
  BY ThreadsApart DEF Init, ThreadInv, DueInv
<1> QED  BY <1>4, <1>5, <1>6, <1>7 DEF IInv

Held == {"push", "link", "unlinked", "write"}

\* Steps of threads that hold no buffer leave every buffer and node where it is.
LEMMA QuietPlaces ==
  ASSUME IInv, UNCHANGED <<free, nodes, pending, leaked, hand>>,
         \A t \in Flushers : pc'[t] = pc[t] \/ {pc[t], pc'[t]} \cap Held = {}
  PROVE  PlaceInv' /\ NodeInv'
<1>1. PlaceInv'
  BY DEF IInv, PlaceInv, Held
<1>2. Noded' = Noded
  BY DEF Noded, Held
<1> QED  BY <1>1, <1>2 DEF IInv, NodeInv

\* A step of one thread, which is created, leaves the rest of the invariant alone.
LEMMA QuietThreads ==
  ASSUME IInv, UNCHANGED <<pending, created, due>>, NEW t \in Flushers,
         pc[t] # "none", NEW to, pc' = [pc EXCEPT ![t] = to],
         t \in Clients \/ to \notin {"test", "leave", "ended"} \/ pc[t] \in {"test", "leave", "ended"}
  PROVE  ThreadInv' /\ DueInv'
  BY ThreadsApart DEF IInv, TypeOK, ThreadInv, DueInv

\* Log takes a free buffer.
LEMMA LogInv ==
  ASSUME IInv, NEW c \in Writers, NEW g \in Loggers, Log(c, g)
  PROVE  IInv'
<1>0. TypeOK /\ PlaceInv /\ NodeInv /\ c \in Flushers /\ c \in Clients
  BY ThreadsApart DEF IInv, Clients
<1>1. PICK b \in free : /\ free' = free \ {b} /\ entity' = [entity EXCEPT ![b] = fout[g]]
                        /\ hand' = [hand EXCEPT ![c] = b]
  BY DEF Log
<1>2. pc[c] = "idle" /\ pc' = [pc EXCEPT ![c] = "push"]
  BY DEF Log, Goto
<1>3. TypeOK'
  BY <1>0, <1>1, <1>2 DEF TypeOK, Log, streamVars, lifeVars
<1>4. b \in Buffers /\ b # 0 /\ hand[c] = 0
  BY <1>0, <1>2, Sizes DEF TypeOK, PlaceInv
<1>a. UNCHANGED <<nodes, pending, leaked>>
  BY DEF Log
<1>5. PlaceInv'
  <2>1. \A v \in Flushers : hand'[v] # 0 <=> pc'[v] \in {"push", "link", "unlinked", "write"}
    BY <1>0, <1>1, <1>2, <1>4, <1>a, Sizes DEF TypeOK, PlaceInv
  <2>2. \A u, v \in Flushers : hand'[u] # 0 /\ hand'[u] = hand'[v] => u = v
    BY <1>0, <1>1, <1>2, <1>4, <1>a, Sizes DEF TypeOK, PlaceInv
  <2>3. \A v \in Flushers : hand'[v] \notin free' \cup leaked' \cup Range(pending')
    BY <1>0, <1>1, <1>2, <1>4, <1>a, Sizes DEF TypeOK, PlaceInv
  <2>4. \A i, j \in DOMAIN pending' : pending'[i] = pending'[j] => i = j
    BY <1>0, <1>1, <1>2, <1>4, <1>a, Sizes DEF TypeOK, PlaceInv
  <2>5. /\ free' \cap leaked' = {} /\ free' \cap Range(pending') = {}
        /\ leaked' \cap Range(pending') = {}
    BY <1>0, <1>1, <1>2, <1>4, <1>a, Sizes DEF TypeOK, PlaceInv
  <2>6. \A x \in Buffers :
          x \in free' \cup leaked' \cup Range(pending') \/ \E v \in Flushers : hand'[v] = x
    BY <1>0, <1>1, <1>2, <1>4, <1>a, Sizes DEF TypeOK, PlaceInv
  <2> QED  BY <2>1, <2>2, <2>3, <2>4, <2>5, <2>6 DEF PlaceInv
<1>6. Noded' = Noded
  BY <1>0, <1>1, <1>2, <1>4 DEF TypeOK, PlaceInv, Noded, Log
<1>7. NodeInv'
  BY <1>0, <1>6 DEF NodeInv, Log
<1>8. ThreadInv' /\ DueInv'
  BY <1>0, <1>2, QuietThreads DEF Log, lifeVars
<1> QED  BY <1>3, <1>5, <1>7, <1>8 DEF IInv

\* Push finds a node.
LEMMA AllocNodeInv ==
  ASSUME IInv, NEW c \in Clients, AllocNode(c)
  PROVE  IInv'
<1>0. TypeOK /\ PlaceInv /\ NodeInv /\ c \in Flushers
  BY ThreadsApart DEF IInv
<1>1. pc[c] = "push" /\ nodes > 0
  BY <1>0, NodeLeft DEF AllocNode, Goto
<1>2. /\ pc' = [pc EXCEPT ![c] = "link"] /\ nodes' = nodes - 1
      /\ UNCHANGED <<hand, retry, leaked, free, pending, entity, streamVars, lifeVars, due>>
  BY <1>1 DEF AllocNode, Goto
<1>3. TypeOK'
  BY <1>0, <1>1, <1>2, Sizes DEF TypeOK, streamVars, lifeVars
<1>4. PlaceInv'
  BY <1>0, <1>1, <1>2 DEF TypeOK, PlaceInv
<1>5. hand[c] \in Buffers /\ hand[c] \notin Noded /\ Noded' = Noded \cup {hand[c]}
  BY <1>0, <1>1, <1>2 DEF TypeOK, PlaceInv, Noded
<1>6. NodeInv'
  <2>1. Noded \in SUBSET Buffers
    BY DEF Noded
  <2>2. Cardinality(Noded') = Cardinality(Noded) + 1 /\ Cardinality(Noded) \in Nat
    BY <1>5, <2>1, Sizes, FS_AddElement
  <2> QED  BY <1>0, <1>2, <2>2, Sizes DEF NodeInv, TypeOK
<1>7. ThreadInv' /\ DueInv'
  BY <1>0, <1>1, <1>2, QuietThreads DEF lifeVars
<1> QED  BY <1>3, <1>4, <1>6, <1>7 DEF IInv

\* The message, with its node, joins the queue.
LEMMA LinkNodeInv ==
  ASSUME IInv, NEW c \in Clients, LinkNode(c)
  PROVE  IInv'
<1>0. TypeOK /\ PlaceInv /\ NodeInv /\ c \in Flushers /\ ThreadInv /\ DueInv
  BY ThreadsApart DEF IInv
<1>1. pc[c] = "link" /\ pc' = [pc EXCEPT ![c] = "idle"]
  BY DEF LinkNode, Goto
<1>2. hand[c] \in Buffers /\ hand[c] # 0 /\ hand[c] \notin Range(pending) /\ Injective(pending)
  BY <1>0, <1>1 DEF TypeOK, PlaceInv, Injective
<1>3. /\ pending' \in Seq(Buffers) /\ Injective(pending')
      /\ Range(pending') = Range(pending) \cup {hand[c]}
  BY <1>0, <1>2, AppendRange DEF TypeOK, LinkNode
<1>4. TypeOK'
  <2>1. hand' \in [Flushers -> Buffers \cup {0}]
    BY <1>0 DEF TypeOK, LinkNode
  <2>2. retry' \in [Clients -> 0..Retries]
    <3>1. 0 \in 0..Retries
      BY LogAssumption
    <3> QED  BY <1>0, <3>1 DEF TypeOK, LinkNode
  <2>3. UNCHANGED <<free, nodes, entity, leaked, streamVars, lifeVars, due>>
    BY DEF LinkNode
  <2> QED  BY <1>0, <1>1, <1>3, <2>1, <2>2, <2>3 DEF TypeOK, streamVars, lifeVars
<1>5. hand' = [hand EXCEPT ![c] = 0] /\ UNCHANGED <<free, leaked, nodes, created, due>>
  BY DEF LinkNode, lifeVars
<1>a. Range(pending) \subseteq Buffers
  BY <1>0 DEF TypeOK, Range
<1>6. PlaceInv'
  <2>1. \A v \in Flushers : hand'[v] # 0 <=> pc'[v] \in {"push", "link", "unlinked", "write"}
    BY <1>0, <1>1, <1>2, <1>3, <1>5, <1>a, Sizes DEF TypeOK, PlaceInv, Injective
  <2>2. \A u, v \in Flushers : hand'[u] # 0 /\ hand'[u] = hand'[v] => u = v
    BY <1>0, <1>1, <1>2, <1>3, <1>5, <1>a, Sizes DEF TypeOK, PlaceInv, Injective
  <2>3. \A v \in Flushers : hand'[v] \notin free' \cup leaked' \cup Range(pending')
    BY <1>0, <1>1, <1>2, <1>3, <1>5, <1>a, Sizes DEF TypeOK, PlaceInv, Injective
  <2>4. \A i, j \in DOMAIN pending' : pending'[i] = pending'[j] => i = j
    BY <1>0, <1>1, <1>2, <1>3, <1>5, <1>a, Sizes DEF TypeOK, PlaceInv, Injective
  <2>5. /\ free' \cap leaked' = {} /\ free' \cap Range(pending') = {}
        /\ leaked' \cap Range(pending') = {}
    BY <1>0, <1>1, <1>2, <1>3, <1>5, <1>a, Sizes DEF TypeOK, PlaceInv, Injective
  <2>6. \A x \in Buffers :
          x \in free' \cup leaked' \cup Range(pending') \/ \E v \in Flushers : hand'[v] = x
    BY <1>0, <1>1, <1>2, <1>3, <1>5, <1>a, Sizes DEF TypeOK, PlaceInv, Injective
  <2> QED  BY <2>1, <2>2, <2>3, <2>4, <2>5, <2>6 DEF PlaceInv
<1>7. Noded' = Noded
  BY <1>0, <1>1, <1>2, <1>3, <1>5, Sizes DEF TypeOK, PlaceInv, Noded
<1>8. NodeInv' /\ ThreadInv' /\ DueInv'
  BY <1>0, <1>1, <1>3, <1>5, <1>7, ThreadsApart DEF TypeOK, NodeInv, ThreadInv, DueInv
<1> QED  BY <1>4, <1>6, <1>8 DEF IInv

-----------------------------------------------------------------------------
(* The steps of a flush *)

\* Pop takes the first message from the queue; the message keeps its node.
LEMMA UnlinkInv ==
  ASSUME IInv, NEW t \in Flushers, Unlink(t)
  PROVE  IInv'
<1>0. TypeOK /\ PlaceInv /\ NodeInv /\ ThreadInv /\ DueInv /\ pc[t] = "pop"
  BY DEF IInv, Unlink, Goto
<1>1. CASE pending = <<>>
  <2> DEFINE to == IF t \in Clients THEN "idle" ELSE "test"
  <2>1. /\ pc' = [pc EXCEPT ![t] = to]
        /\ UNCHANGED <<pending, hand, due, free, nodes, entity, leaked, streamVars, lifeVars, retry>>
    BY <1>1 DEF Unlink, Goto
  <2>2. to \in {"idle", "test"}
    OBVIOUS
  <2>3. TypeOK'
    BY <1>0, <2>1, <2>2 DEF TypeOK, streamVars, lifeVars
  <2>4. PlaceInv' /\ NodeInv'
    <3>1. \A u \in Flushers : pc'[u] = pc[u] \/ {pc[u], pc'[u]} \cap Held = {}
      BY <1>0, <2>1, <2>2 DEF TypeOK, Held
    <3> QED  BY <2>1, <3>1, QuietPlaces
  <2>5. Range(pending) = {}
    BY <1>1 DEF Range
  <2>6. ThreadInv' /\ DueInv'
    BY <1>0, <2>1, <2>2, <2>5 DEF TypeOK, ThreadInv, DueInv, lifeVars
  <2> QED  BY <2>3, <2>4, <2>6 DEF IInv
<1>2. CASE pending # <<>>
  <2>1. /\ pc' = [pc EXCEPT ![t] = "unlinked"] /\ pending' = Tail(pending)
        /\ hand' = [hand EXCEPT ![t] = Head(pending)]
        /\ due' = [w \in Workers |-> due[w] \ {Head(pending)}]
        /\ UNCHANGED <<free, nodes, entity, leaked, streamVars, lifeVars, retry>>
    BY <1>2 DEF Unlink, Goto
  <2>2. /\ Head(pending) \in Buffers /\ Head(pending) \in Range(pending)
        /\ pending' \in Seq(Buffers) /\ Injective(pending')
        /\ Range(pending') = Range(pending) \ {Head(pending)}
    BY <1>0, <1>2, <2>1, TailRange DEF TypeOK, PlaceInv, Injective
  <2>3. TypeOK'
    BY <1>0, <2>1, <2>2 DEF TypeOK, streamVars, lifeVars
  <2>4. Head(pending) # 0 /\ hand[t] = 0
    BY <1>0, <2>2, Sizes DEF PlaceInv
  <2>5. PlaceInv'
    <3>1. \A v \in Flushers : hand'[v] # 0 <=> pc'[v] \in {"push", "link", "unlinked", "write"}
      BY <1>0, <2>1, <2>2, <2>4 DEF TypeOK, PlaceInv, Injective
    <3>2. \A u, v \in Flushers : hand'[u] # 0 /\ hand'[u] = hand'[v] => u = v
      BY <1>0, <2>1, <2>2, <2>4 DEF TypeOK, PlaceInv, Injective
    <3>3. \A v \in Flushers : hand'[v] \notin free' \cup leaked' \cup Range(pending')
      BY <1>0, <2>1, <2>2, <2>4 DEF TypeOK, PlaceInv, Injective
    <3>4. \A i, j \in DOMAIN pending' : pending'[i] = pending'[j] => i = j
      BY <1>0, <2>1, <2>2, <2>4 DEF TypeOK, PlaceInv, Injective
    <3>5. /\ free' \cap leaked' = {} /\ free' \cap Range(pending') = {}
          /\ leaked' \cap Range(pending') = {}
      BY <1>0, <2>1, <2>2, <2>4 DEF TypeOK, PlaceInv, Injective
    <3>6. \A x \in Buffers :
            x \in free' \cup leaked' \cup Range(pending') \/ \E v \in Flushers : hand'[v] = x
      <4>1. hand'[t] = Head(pending) /\ \A v \in Flushers : v # t => hand'[v] = hand[v]
        BY <1>0, <2>1 DEF TypeOK
      <4>2. \A v \in Flushers : hand[v] \in Buffers => v # t
        BY <2>4, Sizes
      <4> QED  BY <1>0, <2>1, <2>2, <4>1, <4>2 DEF PlaceInv
    <3> QED  BY <3>1, <3>2, <3>3, <3>4, <3>5, <3>6 DEF PlaceInv
  <2>6. Noded' = Noded
    BY <1>0, <2>1, <2>2, <2>4 DEF TypeOK, PlaceInv, Noded
  <2>7. NodeInv' /\ ThreadInv'
    BY <1>0, <2>1, <2>6 DEF TypeOK, NodeInv, ThreadInv, lifeVars
  <2>8. DueInv'
    BY <1>0, <2>1, <2>2 DEF TypeOK, DueInv
  <2> QED  BY <2>3, <2>5, <2>7, <2>8 DEF IInv
<1> QED  BY <1>1, <1>2

\* Pop gives back the node of the message.
LEMMA ReleaseNodeInv ==
  ASSUME IInv, NEW t \in Flushers, ReleaseNode(t)
  PROVE  IInv'
<1>0. TypeOK /\ PlaceInv /\ NodeInv
  BY DEF IInv
<1>1. /\ pc[t] = "unlinked" /\ pc' = [pc EXCEPT ![t] = "write"] /\ nodes' = nodes + 1
      /\ UNCHANGED <<free, pending, entity, leaked, streamVars, lifeVars, hand, retry, due>>
  BY DEF ReleaseNode, Goto
<1>2. PlaceInv'
  BY <1>0, <1>1 DEF TypeOK, PlaceInv
<1>3. hand[t] \in Noded /\ Noded' = Noded \ {hand[t]}
  BY <1>0, <1>1 DEF TypeOK, PlaceInv, Noded
<1>4. /\ Noded \in SUBSET Buffers /\ Cardinality(Noded) \in Nat /\ Cardinality(Noded') \in Nat
      /\ Cardinality(Noded') = Cardinality(Noded) - 1
  <2>1. Noded \in SUBSET Buffers /\ Noded' \in SUBSET Buffers
    BY DEF Noded
  <2> QED  BY <1>3, <2>1, Sizes, FS_RemoveElement
<1>5. NodeInv' /\ nodes' \in 0..Size
  BY <1>0, <1>1, <1>4, Sizes DEF NodeInv, TypeOK, Size
<1>6. TypeOK'
  BY <1>0, <1>1, <1>5 DEF TypeOK, streamVars, lifeVars, Size
<1>7. ThreadInv' /\ DueInv'
  BY <1>1, QuietThreads DEF lifeVars
<1> QED  BY <1>2, <1>5, <1>6, <1>7 DEF IInv

\* The buffer of a message that is written or given up becomes free or is lost.
LEMMA DoneInv ==
  ASSUME IInv, NEW t \in Flushers, Done(t),
         \/ free' = free \cup {hand[t]} /\ leaked' = leaked
         \/ free' = free /\ leaked' = leaked \cup {hand[t]}
  PROVE  IInv'
<1>0. TypeOK /\ PlaceInv /\ NodeInv
  BY DEF IInv
<1>1. /\ pc[t] = "write" /\ pc' = [pc EXCEPT ![t] = "pop"]
      /\ entity' = [entity EXCEPT ![hand[t]] = 0] /\ hand' = [hand EXCEPT ![t] = 0]
      /\ UNCHANGED <<nodes, pending, streamVars, lifeVars, retry, due>>
  BY DEF Done, Goto
<1>2. hand[t] \in Buffers /\ hand[t] # 0
  BY <1>0, <1>1 DEF TypeOK, PlaceInv
<1>3. TypeOK'
  BY <1>0, <1>1, <1>2 DEF TypeOK, streamVars, lifeVars
<1>4. Range(pending) \subseteq Buffers
  BY <1>0 DEF TypeOK, Range
<1>5. PlaceInv'
  <2>1. \A v \in Flushers : hand'[v] # 0 <=> pc'[v] \in {"push", "link", "unlinked", "write"}
    BY <1>0, <1>1, <1>2, <1>4, Sizes DEF TypeOK, PlaceInv
  <2>2. \A u, v \in Flushers : hand'[u] # 0 /\ hand'[u] = hand'[v] => u = v
    BY <1>0, <1>1, <1>2, <1>4, Sizes DEF TypeOK, PlaceInv
  <2>3. \A v \in Flushers : hand'[v] \notin free' \cup leaked' \cup Range(pending')
    BY <1>0, <1>1, <1>2, <1>4, Sizes DEF TypeOK, PlaceInv
  <2>4. \A i, j \in DOMAIN pending' : pending'[i] = pending'[j] => i = j
    BY <1>0, <1>1, <1>2, <1>4, Sizes DEF TypeOK, PlaceInv
  <2>5. /\ free' \cap leaked' = {} /\ free' \cap Range(pending') = {}
        /\ leaked' \cap Range(pending') = {}
    BY <1>0, <1>1, <1>2, <1>4, Sizes DEF TypeOK, PlaceInv
  <2>6. \A x \in Buffers :
          x \in free' \cup leaked' \cup Range(pending') \/ \E v \in Flushers : hand'[v] = x
    BY <1>0, <1>1, <1>2, <1>4, Sizes DEF TypeOK, PlaceInv
  <2> QED  BY <2>1, <2>2, <2>3, <2>4, <2>5, <2>6 DEF PlaceInv
<1>6. Noded' = Noded
  BY <1>0, <1>1, <1>2, Sizes DEF TypeOK, PlaceInv, Noded
<1>7. NodeInv'
  BY <1>0, <1>1, <1>6 DEF NodeInv
<1>8. ThreadInv' /\ DueInv'
  BY <1>1, QuietThreads DEF lifeVars
<1> QED  BY <1>3, <1>5, <1>7, <1>8 DEF IInv

\* Streams and levels appear in no part of the invariant but their types.
LEMMA StreamInv ==
  ASSUME IInv, UNCHANGED <<queueVars, lifeVars, pc, hand, retry, due>>,
         logLevel' \in Levels, fout' \in [Loggers -> Streams],
         stream' \in [Streams -> {"none", "good", "bad", "deleted"}]
  PROVE  IInv'
<1>1. TypeOK'
  BY DEF IInv, TypeOK, queueVars, lifeVars
<1>2. PlaceInv' /\ NodeInv'
  BY QuietPlaces DEF queueVars
<1>3. ThreadInv' /\ DueInv'
  BY DEF IInv, ThreadInv, DueInv, queueVars, lifeVars
<1> QED  BY <1>1, <1>2, <1>3 DEF IInv

LEMMA FlushStepInv ==
  ASSUME IInv, NEW t \in Flushers, FlushStep(t)
  PROVE  IInv'
<1>1. CASE Write(t)
  BY <1>1, DoneInv DEF Write
<1>2. CASE GiveUp(t)
  BY <1>2, DoneInv DEF GiveUp
<1>3. CASE PopNull(t)
  BY <1>3, StreamInv DEF PopNull, IInv, TypeOK, streamVars
<1> QED  BY <1>1, <1>2, <1>3, UnlinkInv, ReleaseNodeInv DEF FlushStep

-----------------------------------------------------------------------------
(* The logging thread and the calls that touch no message *)

\* A step that leaves messages, levels and streams alone: what is left to show.
LEMMA QuietStep ==
  ASSUME IInv, UNCHANGED <<queueVars, streamVars, hand, retry>>,
         NEW t \in Flushers, NEW to \in {"idle", "pop", "join", "gone", "created", "wait",
                                        "test", "leave", "ended"},
         pc' = [pc EXCEPT ![t] = to], pc[t] \notin Held,
         stop' \in Nat, run' \in BOOLEAN, busy' \in BOOLEAN, created' \in 0..Threads,
         due' \in [Workers -> SUBSET Buffers], ThreadInv', DueInv'
  PROVE  IInv'
<1>1. TypeOK
  BY DEF IInv
<1>2. TypeOK'
  BY <1>1 DEF TypeOK, queueVars, streamVars
<1>3. \A u \in Flushers : pc'[u] = pc[u] \/ {pc[u], pc'[u]} \cap Held = {}
  BY <1>1 DEF TypeOK, Held
<1>4. PlaceInv' /\ NodeInv'
  BY <1>3, QuietPlaces DEF queueVars
<1> QED  BY <1>2, <1>4 DEF IInv

LEMMA WorkerStepInv ==
  ASSUME IInv, NEW w \in Workers, WorkerStep(w)
  PROVE  IInv'
<1>0. /\ TypeOK /\ ThreadInv /\ DueInv /\ w \in Flushers /\ w \notin Clients
      /\ stop \in Nat /\ run \in BOOLEAN /\ busy \in BOOLEAN /\ created \in 0..Threads
      /\ due \in [Workers -> SUBSET Buffers]
  BY ThreadsApart DEF IInv, TypeOK
<1>1. CASE EnterRun(w)
  <2>1. /\ pc[w] = "created" /\ pc' = [pc EXCEPT ![w] = "wait"] /\ busy' = TRUE
        /\ UNCHANGED <<queueVars, streamVars, stop, run, created, hand, retry, due>>
    BY <1>1 DEF EnterRun, Goto
  <2>2. ThreadInv' /\ DueInv'
    BY <1>0, <2>1, QuietThreads DEF queueVars
  <2> QED  BY <1>0, <2>1, <2>2, QuietStep DEF Held
<1>2. CASE Wake(w)
  <2>1. /\ pc[w] = "wait" /\ pc' = [pc EXCEPT ![w] = "pop"]
        /\ due' = [due EXCEPT ![w] = Range(pending)]
        /\ UNCHANGED <<queueVars, streamVars, lifeVars, hand, retry>>
    BY <1>2 DEF Wake, Goto
  <2>2. Range(pending) \in SUBSET Buffers
    BY <1>0 DEF TypeOK, Range
  <2>3. due' \in [Workers -> SUBSET Buffers]
    BY <1>0, <2>1, <2>2
  <2>4. ThreadInv' /\ DueInv'
    BY <1>0, <2>1 DEF TypeOK, ThreadInv, DueInv, queueVars, lifeVars
  <2> QED  BY <1>0, <2>1, <2>3, <2>4, QuietStep DEF Held, lifeVars
<1>3. CASE FlushStep(w)
  BY <1>0, <1>3, FlushStepInv
<1>4. CASE TestStop(w) /\ stop > 0
  <2>1. /\ pc[w] = "test" /\ pc' = [pc EXCEPT ![w] = "leave"] /\ stop' = stop - 1
        /\ UNCHANGED <<queueVars, streamVars, run, busy, created, hand, retry, due>>
    BY <1>4 DEF TestStop, Goto
  <2>2. ThreadInv' /\ DueInv'
    BY <1>0, <2>1, QuietThreads DEF queueVars
  <2>3. stop' \in Nat
    BY <1>0, <1>4, <2>1
  <2> QED  BY <1>0, <2>1, <2>2, <2>3, QuietStep DEF Held
<1>5. CASE TestStop(w) /\ ~(stop > 0)
  <2>1. /\ pc[w] = "test" /\ pc' = [pc EXCEPT ![w] = "wait"] /\ due' = [due EXCEPT ![w] = {}]
        /\ UNCHANGED <<queueVars, streamVars, stop, run, busy, created, hand, retry>>
    BY <1>5 DEF TestStop, Goto
  <2>2. ThreadInv' /\ DueInv'
    BY <1>0, <2>1 DEF TypeOK, ThreadInv, DueInv, queueVars
  <2>3. due' \in [Workers -> SUBSET Buffers]
    BY <1>0, <2>1
  <2> QED  BY <1>0, <2>1, <2>2, <2>3, QuietStep DEF Held
<1>6. CASE LeaveRun(w)
  <2>1. /\ pc[w] = "leave" /\ pc' = [pc EXCEPT ![w] = "ended"] /\ busy' = FALSE
        /\ UNCHANGED <<queueVars, streamVars, stop, run, created, hand, retry, due>>
    BY <1>6 DEF LeaveRun, Goto
  <2>2. ThreadInv' /\ DueInv'
    BY <1>0, <2>1, QuietThreads DEF queueVars
  <2> QED  BY <1>0, <2>1, <2>2, QuietStep DEF Held
<1> QED  BY <1>1, <1>2, <1>3, <1>4, <1>5, <1>6 DEF WorkerStep

LEMMA CallInv ==
  ASSUME IInv, NEW c \in Control, Flush(c) \/ StopLogging(c) \/ RunLogging(c)
  PROVE  IInv'
<1>0. /\ TypeOK /\ ThreadInv /\ DueInv /\ c \in Flushers /\ c \in Clients
      /\ stop \in Nat /\ run \in BOOLEAN /\ busy \in BOOLEAN /\ created \in 0..Threads
      /\ due \in [Workers -> SUBSET Buffers] /\ pc = [t \in Flushers |-> pc[t]]
  BY ThreadsApart DEF IInv, TypeOK, Clients
<1>1. CASE Flush(c)
  <2>1. /\ pc[c] = "idle" /\ pc' = [pc EXCEPT ![c] = "pop"]
        /\ UNCHANGED <<queueVars, streamVars, lifeVars, hand, retry, due>>
    BY <1>1 DEF Flush, Goto
  <2>2. ThreadInv' /\ DueInv'
    BY <1>0, <2>1, QuietThreads DEF queueVars, lifeVars
  <2> QED  BY <1>0, <2>1, <2>2, QuietStep DEF Held, lifeVars
<1>2. CASE StopLogging(c)
  <2>1. /\ pc[c] = "idle" /\ run' = FALSE /\ stop' = stop + 1
        /\ UNCHANGED <<queueVars, streamVars, busy, created, pc, hand, retry, due>>
    BY <1>2 DEF StopLogging
  <2>2. pc' = [pc EXCEPT ![c] = "idle"]
    BY <1>0, <2>1
  <2>3. ThreadInv' /\ DueInv'
    BY <1>0, <2>1 DEF ThreadInv, DueInv, queueVars
  <2>4. stop' \in Nat
    BY <1>0, <2>1
  <2> QED  BY <1>0, <2>1, <2>2, <2>3, <2>4, QuietStep DEF Held
<1>3. CASE RunLogging(c) /\ busy
  <2>1. /\ pc[c] = "idle" /\ run' = TRUE
        /\ UNCHANGED <<queueVars, streamVars, stop, busy, created, pc, hand, retry, due>>
    BY <1>3 DEF RunLogging
  <2>2. pc' = [pc EXCEPT ![c] = "idle"]
    BY <1>0, <2>1
  <2>3. ThreadInv' /\ DueInv'
    BY <1>0, <2>1 DEF ThreadInv, DueInv, queueVars
  <2> QED  BY <1>0, <2>1, <2>2, <2>3, QuietStep DEF Held
<1>4. CASE RunLogging(c) /\ ~busy
  <2>1. /\ created < Threads /\ run' = TRUE /\ created' = created + 1
        /\ pc' = [pc EXCEPT ![created + 1] = "created"]
        /\ UNCHANGED <<queueVars, streamVars, stop, busy, hand, retry, due>>
    BY <1>4 DEF RunLogging
  <2>2. created + 1 \in Workers /\ created + 1 \in Flushers /\ created' \in 0..Threads
    BY <1>0, <2>1, ThreadsApart DEF Workers
  <2>3. pc[created + 1] = "none"
    BY <1>0, <2>2 DEF ThreadInv
  <2>4. ThreadInv'
    <3>1. \A w \in Workers : w # created + 1 => pc'[w] = pc[w]
      BY <1>0, <2>1, ThreadsApart
    <3>2. \A w \in Workers : w > created + 1 => w > created /\ w # created + 1
      BY <1>0, ThreadsApart DEF Workers
    <3> QED  BY <1>0, <2>1, <3>1, <3>2 DEF ThreadInv
  <2>5. DueInv'
    BY <1>0, <2>1, <2>2 DEF DueInv, queueVars
  <2> QED  BY <1>0, <2>1, <2>2, <2>3, <2>4, <2>5, QuietStep DEF Held
<1> QED  BY <1>1, <1>2, <1>3, <1>4

LEMMA ExitInv ==
  ASSUME IInv, Exit \/ Joined
  PROVE  IInv'
<1>0. /\ TypeOK /\ ThreadInv /\ DueInv /\ Main \in Flushers /\ Main \in Clients
      /\ stop \in Nat /\ run \in BOOLEAN /\ busy \in BOOLEAN /\ created \in 0..Threads
      /\ due \in [Workers -> SUBSET Buffers]
  BY ThreadsApart DEF IInv, TypeOK
<1>1. CASE Exit
  <2>1. /\ pc[Main] = "idle" /\ pc' = [pc EXCEPT ![Main] = "join"] /\ run' = FALSE
        /\ stop' = stop + 1
        /\ UNCHANGED <<queueVars, streamVars, busy, created, hand, retry, due>>
    BY <1>1 DEF Exit, Goto
  <2>2. ThreadInv' /\ DueInv'
    BY <1>0, <2>1, QuietThreads DEF queueVars
  <2>3. stop' \in Nat
    BY <1>0, <2>1
  <2> QED  BY <1>0, <2>1, <2>2, <2>3, QuietStep DEF Held
<1>2. CASE Joined
  <2>1. /\ pc[Main] = "join" /\ pc' = [pc EXCEPT ![Main] = "gone"]
        /\ UNCHANGED <<queueVars, streamVars, lifeVars, hand, retry, due>>
    BY <1>2 DEF Joined, Goto
  <2>2. ThreadInv' /\ DueInv'
    BY <1>0, <2>1, QuietThreads DEF queueVars, lifeVars
  <2> QED  BY <1>0, <2>1, <2>2, QuietStep DEF Held, lifeVars
<1> QED  BY <1>1, <1>2

\* One step per action.
LEMMA NextIInv == IInv /\ [Next]_vars => IInv'
<1> SUFFICES ASSUME IInv, [Next]_vars PROVE IInv'
  OBVIOUS
<1>0. TypeOK
  BY DEF IInv
<1>1. CASE \E c \in Writers, g \in Loggers : Log(c, g)
  BY <1>1, LogInv
<1>2. CASE \E c \in Clients : ClientStep(c)
  <2>1. ASSUME NEW c \in Clients, LinkStale(c) PROVE IInv'
    BY <1>0, <2>1, StreamInv DEF LinkStale, TypeOK, streamVars
  <2> QED  BY <1>2, <2>1, AllocNodeInv, LinkNodeInv, FlushStepInv DEF ClientStep, Flushers
<1>3. CASE \E c \in Control : Flush(c) \/ StopLogging(c) \/ RunLogging(c)
  BY <1>3, CallInv
<1>4. ASSUME NEW c \in Control, NEW g \in Loggers, SetOutStream(c, g)
      PROVE  IInv'
  <2>1. PICK s \in Streams : /\ stream' = [stream EXCEPT ![s] = "good", ![fout[g]] = "deleted"]
                             /\ fout' = [fout EXCEPT ![g] = s]
    BY <1>4 DEF SetOutStream
  <2>2. fout' \in [Loggers -> Streams]
    BY <1>0, <2>1 DEF TypeOK
  <2>3. stream' \in [Streams -> {"none", "good", "bad", "deleted"}]
    BY <1>0, <2>1 DEF TypeOK
  <2> QED  BY <1>0, <1>4, <2>2, <2>3, StreamInv DEF SetOutStream, TypeOK
<1>5. ASSUME NEW c \in Control, NEW l \in Levels, SetLogLevel(c, l)
      PROVE  IInv'
  BY <1>0, <1>5, StreamInv DEF SetLogLevel, TypeOK
<1>6. CASE \E w \in Workers : WorkerStep(w)
  BY <1>6, WorkerStepInv
<1>7. ASSUME NEW s \in Streams, StreamFails(s)
      PROVE  IInv'
  <2>1. stream' \in [Streams -> {"none", "good", "bad", "deleted"}]
    BY <1>0, <1>7 DEF StreamFails, TypeOK
  <2> QED  BY <1>0, <1>7, <2>1, StreamInv DEF StreamFails, TypeOK
<1>8. CASE Exit \/ Joined
  BY <1>8, ExitInv
<1>9. CASE UNCHANGED vars
  BY <1>0, <1>9, StreamInv DEF vars, streamVars, TypeOK
<1> QED  BY <1>1, <1>2, <1>3, <1>4, <1>5, <1>6, <1>7, <1>8, <1>9 DEF Next

-----------------------------------------------------------------------------
(* Theorems *)

\* The inductive invariant holds of Logger.cc, whatever clients and streams do.
THEOREM LogInvariant == SafetySpec => []IInv
<1>1. Init => IInv
  BY InitIInv
<1>2. IInv /\ [Next]_vars => IInv'
  BY NextIInv
<1> QED  BY <1>1, <1>2, PTL DEF SafetySpec

\* Push of pendingMsg_ in DoLog always finds a node: its retries, and the loss of
\* a buffer at the end of them, are dead code.
THEOREM PushAlwaysSucceeds == SafetySpec => []PushSucceeds
<1>1. IInv => PushSucceeds
  BY NodeLeft, ThreadsApart DEF IInv, PushSucceeds
<1> QED  BY <1>1, LogInvariant, PTL

\* A message that Log has accepted is in the queue, with one thread, written or
\* lost, and in one of these only: no two flushes take it, until a Push links to a
\* node that was released meanwhile or a Pop crashes.
THEOREM OnePlaceOnly == SafetySpec => []MessageInOnePlace
<1>1. ASSUME IInv, NEW b \in Buffers
      PROVE  Places(b) = 1
  <2> DEFINE I == {i \in DOMAIN pending : pending[i] = b}
             H == {t \in Flushers : hand[t] = b}
  <2>0. TypeOK /\ PlaceInv /\ b # 0
    BY <1>1, Sizes DEF IInv
  <2>1. Cardinality({}) = 0 /\ \A x : Cardinality({x}) = 1
    BY FS_EmptySet, FS_Singleton
  <2>2. IF b \in Range(pending) THEN \E i : I = {i} ELSE I = {}
    <3>1. CASE b \in Range(pending)
      <4>1. PICK i \in DOMAIN pending : pending[i] = b
        BY <3>1 DEF Range
      <4>2. I = {i}
        BY <2>0, <4>1 DEF PlaceInv
      <4> QED  BY <3>1, <4>2
    <3>2. CASE b \notin Range(pending)
      BY <3>2 DEF Range
    <3> QED  BY <3>1, <3>2
  <2>3. Cardinality(I) = IF b \in Range(pending) THEN 1 ELSE 0
    BY <2>1, <2>2
  <2>4. IF \E t \in Flushers : hand[t] = b THEN \E t : H = {t} ELSE H = {}
    <3>1. CASE \E t \in Flushers : hand[t] = b
      <4>1. PICK u \in Flushers : hand[u] = b
        BY <3>1
      <4>2. H = {u}
        BY <2>0, <4>1 DEF PlaceInv
      <4> QED  BY <3>1, <4>2
    <3>2. CASE ~ \E t \in Flushers : hand[t] = b
      BY <3>2
    <3> QED  BY <3>1, <3>2
  <2>5. Cardinality(H) = IF \E t \in Flushers : hand[t] = b THEN 1 ELSE 0
    BY <2>1, <2>4
  <2>6. Places(b) = Cardinality(I) + Cardinality(H)
                    + (IF b \in free THEN 1 ELSE 0) + (IF b \in leaked THEN 1 ELSE 0)
    BY DEF Places
  <2> HIDE DEF I, H
  <2> QED  BY <2>0, <2>3, <2>5, <2>6 DEF PlaceInv
<1>2. IInv => MessageInOnePlace
  BY <1>1 DEF MessageInOnePlace
<1> QED  BY <1>2, LogInvariant, PTL

\* LogWorker::Run returns only after everything queued when it last woke up has
\* been taken from the queue.
THEOREM FlushedFirst == SafetySpec => []FlushedBeforeEnd
<1>1. IInv => FlushedBeforeEnd
  BY DEF IInv, DueInv, FlushedBeforeEnd
<1> QED  BY <1>1, LogInvariant, PTL
=============================================================================
