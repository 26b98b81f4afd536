--------------------------- MODULE AsynLogAppender ---------------------------
(***************************************************************************)
(* The asynchronous log appender (slog/AsynLogAppender.cc, with            *)
(* FixedBuffer.h and LogFileAppender.cc).  A client copies a message into  *)
(* its own buffer and queues a pointer to it; one logging thread takes the *)
(* queue batch by batch, copies the messages into the file's buffer and    *)
(* writes that to the file.  A full buffer is given back by queueing it    *)
(* with length zero behind its messages.                                   *)
(*                                                                         *)
(* The condition variable is only ever waited on with a timeout, so that a *)
(* wait may end at any time: notify_one and m_curPendingMsg, which decide  *)
(* when to notify, change the time of a flush and nothing else.  Messages  *)
(* have length one; writes to the file succeed.                            *)
(***************************************************************************)
EXTENDS Integers, Sequences, FiniteSets, SequencesExt

CONSTANTS
  Clients,     \* threads that log
  MaxMsg,      \* bound on the messages; the k-th one appended is k
  BuffCap,     \* messages a buffer holds (S_BUFF_SIZE)
  FileCap,     \* messages the file's buffer holds (S_DEF_BUFF_SZ)
  FixSz,       \* m_fix_sz: buffers the pool starts with and shrinks to
  IncGran,     \* m_inc_gran: buffers added when the pool is empty
  MaxBuff,     \* number of buffers memory suffices for
  MaxUnrecycled, \* the pool grows no more above this (1024 * m_fix_sz)
  IdleLimit    \* empty wake-ups before the memory is shrunk (8)

Buffs == 1..MaxBuff
NoBuff == 0      \* the null pointer

ASSUME AppenderAssumption ==
  /\ {BuffCap, FileCap, FixSz, IncGran, IdleLimit} \subseteq Nat \ {0}
  /\ MaxMsg \in Nat /\ MaxBuff \in Nat /\ MaxUnrecycled \in Nat
  /\ FixSz <= MaxBuff

VARIABLES
  pb1,        \* *m_pb1: the queue clients append to, of [buff, at] records;
              \*   at = 0 (length zero) asks for the buffer to be recycled
  batch,      \* *m_pb2 while it is being written
  pos,        \* i of LoggingThreadFunc
  swapped,    \* m_pb1 is &m_pending_buff2
  fileBuff,   \* m_file_buff
  file,       \* what has been written
  mem,        \* [Buffs -> [1..BuffCap -> Nat]]  m_buff of each buffer
  used,       \* [Buffs -> 0..BuffCap]                 m_cur of each buffer
  pool,       \* m_pool
  unrecycled, \* m_unrecyled
  made,       \* number of buffers new has returned
  deleted,    \* buffers that were deleted
  running,    \* m_running
  stage,      \* "running", "stopping" (in Stop), "stopped", "crashed"
  wpc,        \* the logging thread: "wait", "write", "off"
  idle,       \* idle
  pc,         \* [Clients -> ...]  where the client is in Append; "exited"
  buff,       \* [Clients -> Buffs \cup {NoBuff}]  tl_buff_info->buff
  item,       \* [Clients -> BOOLEAN]  tl_buff_info is set
  logged,     \* history: the messages queued, in order
  dropped     \* history: the messages dropped for want of a buffer

queueVars == <<pb1, batch, pos, swapped>>
poolVars == <<mem, used, pool, unrecycled, made, deleted>>
fileVars == <<fileBuff, file>>
clientVars == <<pc, buff, item, logged, dropped>>
threadVars == <<running, stage, wpc, idle>>
appenderVars == <<queueVars, poolVars, fileVars, clientVars, threadVars>>

Entry == [buff : Buffs, at : 0..BuffCap]

TypeOK ==
  /\ pb1 \in Seq(Entry) /\ batch \in Seq(Entry)
  /\ pos \in 1..(Len(batch) + 1)
  /\ swapped \in BOOLEAN
  /\ fileBuff \in Seq(Nat) /\ file \in Seq(Nat)
  /\ Len(fileBuff) <= FileCap
  /\ mem \in [Buffs -> [1..BuffCap -> Nat]]
  /\ used \in [Buffs -> 0..BuffCap]
  /\ pool \in Seq(Buffs)
  /\ unrecycled \in Nat
  /\ made \in 0..MaxBuff
  /\ deleted \subseteq Buffs
  /\ running \in BOOLEAN
  /\ stage \in {"running", "stopping", "stopped", "crashed"}
  /\ wpc \in {"wait", "write", "off"}
  /\ idle \in 0..IdleLimit
  /\ pc \in [Clients -> {"idle", "first", "retire", "get", "store", "exited"}]
  /\ buff \in [Clients -> Buffs \cup {NoBuff}]
  /\ item \in [Clients -> BOOLEAN]
  /\ logged \in Seq(Nat)
  /\ dropped \in Nat

AppenderInit ==
  /\ pb1 = <<>> /\ batch = <<>> /\ pos = 1 /\ swapped = FALSE
  /\ fileBuff = <<>> /\ file = <<>>
  /\ mem = [b \in Buffs |-> [i \in 1..BuffCap |-> 0]]
  /\ used = [b \in Buffs |-> 0]
  /\ pool = [i \in 1..FixSz |-> i]
  /\ unrecycled = 0 /\ made = FixSz /\ deleted = {}
  /\ running = TRUE /\ stage = "running"
  /\ wpc = "wait" /\ idle = 0
  /\ pc = [c \in Clients |-> "idle"]
  /\ buff = [c \in Clients |-> NoBuff]
  /\ item = [c \in Clients |-> FALSE]
  /\ logged = <<>> /\ dropped = 0

Goto(c, from, to) == pc[c] = from /\ pc' = [pc EXCEPT ![c] = to]

-----------------------------------------------------------------------------
(* FixedBufferPool *)

\* The pool after EnlargePoolUnsafe, if GetBuff finds it empty: new returns the
\* next buffers until memory is exhausted.
Grown ==
  LET n == IF pool # <<>> \/ unrecycled > MaxUnrecycled THEN 0
           ELSE IF made + IncGran <= MaxBuff THEN IncGran ELSE MaxBuff - made
  IN  pool \o [i \in 1..n |-> made + i]

\* GetBuff: the newest buffer of the pool, or NULL.
GetBuff(c) ==
  /\ made' = made + Len(Grown) - Len(pool)
  /\ IF Grown = <<>>
       THEN UNCHANGED <<pool, unrecycled>> /\ buff' = [buff EXCEPT ![c] = NoBuff]
       ELSE /\ pool' = Front(Grown)
            /\ unrecycled' = unrecycled + 1
            /\ buff' = [buff EXCEPT ![c] = Last(Grown)]
  /\ UNCHANGED <<mem, used, deleted>>

Recycle(b) ==
  /\ used' = [used EXCEPT ![b] = 0]
  /\ pool' = Append(pool, b)
  /\ unrecycled' = unrecycled - 1
  /\ UNCHANGED <<mem, made, deleted>>

\* Mutation: the oldest buffers are deleted, the newest stay in the vector.
ShrinkWrongEnd ==
  /\ pool' = IF Len(pool) > FixSz THEN SubSeq(pool, 1, FixSz) ELSE pool
  /\ deleted' = IF Len(pool) > FixSz
                  THEN deleted \cup ToSet(SubSeq(pool, 1, Len(pool) - FixSz))
                  ELSE deleted
  /\ UNCHANGED <<mem, used, unrecycled, made>>

\* Shrink: the buffers beyond the first m_fix_sz are deleted.
Shrink ==
  /\ pool' = SubSeq(pool, 1, IF Len(pool) > FixSz THEN FixSz ELSE Len(pool))
  /\ deleted' = deleted \cup ToSet(SubSeq(pool, FixSz + 1, Len(pool)))
  /\ UNCHANGED <<mem, used, unrecycled, made>>

-----------------------------------------------------------------------------
(* A client in Append; the appender is not yet being destroyed. *)

\* The messages appended so far, those still in Append included.
Started == Len(logged) + dropped + Cardinality({c \in Clients : pc[c] \notin {"idle", "exited"}})

\* Append is called: the thread has no PerThreadItem yet, no buffer, a full
\* one, or one with room.
AppendMsg(c) ==
  /\ stage = "running"
  /\ Started < MaxMsg
  /\ Goto(c, "idle",
          IF ~item[c] THEN "first"
          ELSE IF buff[c] = NoBuff THEN "get"
          ELSE IF used[buff[c]] = BuffCap THEN "retire" ELSE "store")
  /\ item' = [item EXCEPT ![c] = TRUE]
  /\ UNCHANGED <<queueVars, poolVars, fileVars, threadVars, buff, logged, dropped>>

\* The first GetBuff of a thread; if it returns NULL there is a second one.
GetFirstBuff(c) ==
  /\ Goto(c, "first", IF Grown = <<>> THEN "get" ELSE "store")
  /\ GetBuff(c)
  /\ UNCHANGED <<queueVars, fileVars, threadVars, item, logged, dropped>>

\* Mutation: the full buffer is handed to the logging thread directly.
RetireBuffAtOnce(c) ==
  /\ Goto(c, "retire", "get")
  /\ Recycle(buff[c])
  /\ UNCHANGED <<queueVars, fileVars, threadVars, buff, item, logged, dropped>>

\* AddToWriter(NULL, 0, buff)
RetireBuff(c) ==
  /\ Goto(c, "retire", "get")
  /\ pb1' = Append(pb1, [buff |-> buff[c], at |-> 0])
  /\ UNCHANGED <<batch, pos, swapped>>
  /\ UNCHANGED <<poolVars, fileVars, threadVars, buff, item, logged, dropped>>

\* Without a buffer the message is dropped.
GetNextBuff(c) ==
  /\ Goto(c, "get", IF Grown = <<>> THEN "idle" ELSE "store")
  /\ GetBuff(c)
  /\ dropped' = IF Grown = <<>> THEN dropped + 1 ELSE dropped
  /\ UNCHANGED <<queueVars, fileVars, threadVars, item, logged>>

\* buff->Append, in memory only this thread writes, then AddToWriter.
StoreMsg(c) ==
  LET b == buff[c]
      i == used[b] + 1
      m == Len(logged) + dropped + 1
  IN  /\ pc[c] = "store"
      /\ i <= BuffCap
      /\ Goto(c, "store", "idle")
      /\ mem' = [mem EXCEPT ![b][i] = m]
      /\ used' = [used EXCEPT ![b] = i]
      /\ pb1' = Append(pb1, [buff |-> b, at |-> i])
      /\ logged' = Append(logged, m)
      /\ UNCHANGED <<batch, pos, swapped, pool, unrecycled, made, deleted>>
      /\ UNCHANGED <<fileVars, threadVars, buff, item, dropped>>

\* ~PerThreadItem at thread exit.  While the appender lives its buffer is
\* queued for recycling; AddToWriter asserts that there is one, and without one
\* the process aborts, which is CrashFlush.  Afterwards nothing is done with it.
ThreadExit(c) ==
  /\ stage # "crashed"
  /\ Goto(c, "idle", "exited")
  /\ \/ /\ item[c] /\ stage = "running"
        /\ buff[c] # NoBuff
        /\ pb1' = Append(pb1, [buff |-> buff[c], at |-> 0])
        /\ buff' = [buff EXCEPT ![c] = NoBuff]
     \/ ~(item[c] /\ stage = "running") /\ UNCHANGED <<pb1, buff>>
  /\ UNCHANGED <<batch, pos, swapped, poolVars, fileVars, threadVars, item, logged, dropped>>

-----------------------------------------------------------------------------
(* LoggingThreadFunc *)

\* timed_wait returns and there is nothing to do; at the IdleLimit-th time in a
\* row the memory is shrunk.
WaitIdle ==
  /\ stage # "crashed"
  /\ wpc = "wait" /\ running /\ pb1 = <<>>
  /\ idle < IdleLimit
  /\ idle' = idle + 1
  /\ IF idle' = IdleLimit THEN Shrink ELSE UNCHANGED poolVars
  /\ UNCHANGED <<queueVars, fileVars, clientVars, running, stage, wpc>>

\* The queue is swapped for the empty vector.
TakeBatch ==
  /\ stage # "crashed"
  /\ wpc = "wait" /\ pb1 # <<>>
  /\ batch' = pb1 /\ pb1' = <<>> /\ pos' = 1
  /\ swapped' = ~swapped
  /\ wpc' = "write"
  /\ UNCHANGED <<poolVars, fileVars, clientVars, running, stage, idle>>

\* LogFile::Append: a full file buffer is written first.
AppendToFile(m) ==
  IF Len(fileBuff) = FileCap
    THEN file' = file \o fileBuff /\ fileBuff' = <<m>>
    ELSE file' = file /\ fileBuff' = Append(fileBuff, m)

\* One entry of the batch.
WriteEntry ==
  /\ stage # "crashed"
  /\ wpc = "write" /\ pos <= Len(batch)
  /\ pos' = pos + 1
  /\ LET e == batch[pos] IN
     \/ e.at = 0 /\ Recycle(e.buff) /\ UNCHANGED fileVars
     \/ e.at > 0 /\ AppendToFile(mem[e.buff][e.at]) /\ UNCHANGED poolVars
  /\ UNCHANGED <<pb1, batch, swapped, clientVars, threadVars>>

\* Mutation: the batch is forgotten before it is written to the file.
FlushBatchLate ==
  /\ stage # "crashed"
  /\ wpc = "write" /\ pos > Len(batch)
  /\ batch' = <<>> /\ pos' = 1
  /\ wpc' = "wait" /\ idle' = 0
  /\ UNCHANGED <<pb1, swapped, poolVars, fileVars, clientVars, running, stage>>

\* m_log_file.Flush(true); vp->clear().
FlushBatch ==
  /\ stage # "crashed"
  /\ wpc = "write" /\ pos > Len(batch)
  /\ file' = file \o fileBuff /\ fileBuff' = <<>>
  /\ batch' = <<>> /\ pos' = 1
  /\ wpc' = "wait" /\ idle' = 0
  /\ UNCHANGED <<pb1, swapped, poolVars, clientVars, running, stage>>

\* Mutation: the thread ends as soon as m_running is false.
EndLoggingEarly ==
  /\ wpc = "wait" /\ ~running
  /\ wpc' = "off"
  /\ UNCHANGED <<queueVars, poolVars, fileVars, clientVars, running, stage, idle>>

\* !m_running and nothing is queued: the thread ends.
EndLogging ==
  /\ stage # "crashed"
  /\ wpc = "wait" /\ ~running /\ pb1 = <<>>
  /\ wpc' = "off"
  /\ UNCHANGED <<queueVars, poolVars, fileVars, clientVars, running, stage, idle>>

WriterStep == WaitIdle \/ TakeBatch \/ WriteEntry \/ FlushBatch \/ EndLogging

-----------------------------------------------------------------------------
\* ~AsynLogAppender runs when nobody refers to the appender, so no client is in
\* Append: Stop ...
Stop ==
  /\ stage = "running"
  /\ \A c \in Clients : pc[c] \in {"idle", "exited"}
  /\ stage' = "stopping"
  /\ running' = FALSE
  /\ UNCHANGED <<queueVars, poolVars, fileVars, clientVars, wpc, idle>>

\* ... joins the logging thread.
Joined ==
  /\ stage = "stopping" /\ wpc = "off"
  /\ stage' = "stopped"
  /\ UNCHANGED <<queueVars, poolVars, fileVars, clientVars, running, wpc, idle>>

\* What the entries of a queue point to in a memory; those without a message are
\* passed over.
MsgsIn(memory, s) ==
  LET picked[n \in 0..Len(s)] ==
        IF n = 0 THEN <<>>
        ELSE IF s[n].at = 0 THEN picked[n - 1]
        ELSE Append(picked[n - 1], memory[s[n].buff][s[n].at])
  IN  picked[Len(s)]

Msgs(s) == MsgsIn(mem, s)

\* Mutation: only the queue is written, not the batch.
CrashFlushQueueOnly ==
  /\ stage \in {"running", "stopping"}
  /\ stage' = "crashed"
  /\ file' = file \o Msgs(pb1)
  /\ UNCHANGED <<queueVars, poolVars, fileBuff, clientVars, running, wpc, idle>>

\* The signal handler: Flush(false) writes both vectors, m_pending_buff2 first,
\* and the process exits.
CrashFlush ==
  /\ stage \in {"running", "stopping"}
  /\ stage' = "crashed"
  /\ file' = file \o (IF swapped THEN Msgs(pb1) \o Msgs(batch) ELSE Msgs(batch) \o Msgs(pb1))
  /\ UNCHANGED <<queueVars, poolVars, fileBuff, clientVars, running, wpc, idle>>

ClientStep(c) ==
  /\ stage # "crashed"
  /\ GetFirstBuff(c) \/ RetireBuff(c) \/ GetNextBuff(c) \/ StoreMsg(c)

AppenderNext ==
  \/ \E c \in Clients : ClientStep(c) \/ AppendMsg(c) \/ ThreadExit(c)
  \/ WriterStep \/ Stop \/ Joined \/ CrashFlush

AppenderSafety == AppenderInit /\ [][AppenderNext]_appenderVars

\* The logging thread, which never waits without a timeout, a client inside
\* Append and the thread in Stop go on.
AppenderSpec ==
  /\ AppenderSafety
  /\ WF_appenderVars(WriterStep) /\ WF_appenderVars(Joined)
  /\ \A c \in Clients : WF_appenderVars(ClientStep(c))

-----------------------------------------------------------------------------
\* The entries not handled yet, in the order they will be.
Pending == SubSeq(batch, pos, Len(batch)) \o pb1

\* The messages are written in the order they were queued, each once and as it
\* was when it was queued: what a queued pointer points to has not been
\* overwritten, although buffers go back to the pool and to other clients
\* before the messages of later ones are written.
InOrder ==
  stage # "crashed" =>
    logged = file \o fileBuff \o Msgs(Pending)

\* The places of buffer b: in the pool, with a client, or queued for recycling.
Places(b) ==
  {<<"pool", i>> : i \in {i \in DOMAIN pool : pool[i] = b}}
    \cup {<<"client", c>> : c \in {c \in Clients : buff[c] = b /\ pc[c] # "get"}}
    \cup {<<"queue", i>> : i \in {i \in DOMAIN Pending : Pending[i] = [buff |-> b, at |-> 0]}}

\* A buffer that has been made and not deleted is in exactly one place, one
\* that was deleted is in none, and m_unrecyled counts those outside the pool.
BuffersConserved ==
  /\ \A b \in 1..made : Cardinality(Places(b)) = (IF b \in deleted THEN 0 ELSE 1)
  /\ unrecycled = made - Cardinality(deleted) - Len(pool)

\* The appender is destroyed only when everything queued is in the file.
DrainedAtStop == stage = "stopped" => file = logged

\* After a crash every message queued is in the file, unless the batch in hand
\* had already recycled a buffer, whichever: once one is back in the pool a
\* client may overwrite it, and what the file's own buffer held of it is in
\* neither place the handler writes from.
CrashKeepsMessages ==
  stage = "crashed" =>
    \A m \in ToSet(logged) \ ToSet(file) :
      \E i \in 1..(pos - 1) : batch[i].at = 0

\* A queued message gets into the file, whether or not anyone is notified.
MessageWritten ==
  \A n \in 1..MaxMsg : Len(logged) >= n ~> (Len(file) >= n \/ stage = "crashed")
-----------------------------------------------------------------------------
(* The inductive invariant, conjunct by conjunct. *)

\* When no client is in Append and when the logging thread has nothing in hand.
StopInv ==
  /\ stage = "running" => running
  /\ ~running => \A c \in Clients : pc[c] \in {"idle", "exited"}
  /\ wpc = "off" => ~running /\ pb1 = <<>>
  /\ wpc # "write" => batch = <<>> /\ pos = 1 /\ fileBuff = <<>>
  /\ stage = "stopped" => wpc = "off"

\* Where a client is in Append and whether it has a buffer.
HoldInv ==
  \A c \in Clients :
    /\ pc[c] \in {"store", "retire"} => buff[c] # NoBuff
    /\ pc[c] = "first" => buff[c] = NoBuff
    /\ ~item[c] => buff[c] = NoBuff /\ pc[c] \in {"idle", "exited"}

\* A client that has queued its buffer still points to it until GetBuff returns.
Holders == {c \in Clients : buff[c] # NoBuff /\ pc[c] # "get"}
Held == {buff[c] : c \in Holders}
Queued == {b \in Buffs : \E i \in DOMAIN Pending : Pending[i] = [buff |-> b, at |-> 0]}

\* The pool, the clients and the queue share the living buffers among them, the
\* pool and the clients without repetition.
PlaceInv ==
  /\ \A i, j \in DOMAIN pool : pool[i] = pool[j] => i = j
  /\ \A c, d \in Holders : buff[c] = buff[d] => c = d
  /\ ToSet(pool) \cap Held = {} /\ ToSet(pool) \cap Queued = {} /\ Held \cap Queued = {}
  /\ deleted \subseteq 1..made
  /\ ToSet(pool) \cup Held \cup Queued = (1..made) \ deleted

CountInv == unrecycled = made - Cardinality(deleted) - Len(pool)

\* Queued messages are in the used part of their buffers, and nothing of a buffer
\* is queued behind the request to recycle it.
QueueInv ==
  /\ \A i \in DOMAIN Pending : Pending[i].at <= used[Pending[i].buff]
  /\ \A i, j \in DOMAIN Pending :
       i < j /\ Pending[i].at = 0 => Pending[j].buff # Pending[i].buff

\* While the batch has recycled no buffer, what waits in the file's buffer is
\* still in the memory the batch points to.
FileBuffInv ==
  (\A i \in 1..(pos - 1) : batch[i].at # 0) =>
    \A k \in DOMAIN fileBuff : \E i \in 1..(pos - 1) :
      /\ batch[i].at <= used[batch[i].buff]
      /\ fileBuff[k] = mem[batch[i].buff][batch[i].at]

LogInv ==
  /\ TypeOK /\ StopInv /\ HoldInv /\ PlaceInv /\ CountInv
  /\ QueueInv /\ FileBuffInv /\ InOrder /\ CrashKeepsMessages
=============================================================================
