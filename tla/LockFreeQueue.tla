---------------------------- MODULE LockFreeQueue ----------------------------
(***************************************************************************)
(* The array queue of misc/LockFreeContainer.h, a ring with three indices. *)
(* A Push reserves a slot by moving write_, fills it, and publishes it by  *)
(* moving maxRead_, in the order of the reservations; a Pop reads the slot *)
(* first and owns it once it has moved read_.  Every access to an index or *)
(* to a slot is a step.                                                    *)
(*                                                                         *)
(* The indices carry no tag: a thread that sleeps between its reads and    *)
(* its swap while the others move the index once around the ring swaps a   *)
(* value that looks unchanged, and the code has nothing against it.  lag   *)
(* counts the steps of the index a thread has read and not swapped yet,    *)
(* and lapped records that a swap succeeded a whole lap or more too late.  *)
(***************************************************************************)
EXTENDS Integers, Sequences, SequencesExt

CONSTANTS
  Producers, Consumers,  \* the threads that push and those that pop
  RingSz,                \* maxSz_: the ring holds one item less
  MaxItems,              \* bound on the calls of Push; the k-th one pushes the item k
  Unset                  \* an uninitialised slot or local variable

ASSUME RingAssumption ==
  /\ RingSz \in Nat \ {0, 1} /\ MaxItems \in Nat
  /\ Producers \cap Consumers = {}
  /\ Unset \notin Nat

Callers == Producers \cup Consumers
Index == 0..(RingSz - 1)
Item == Nat \cup {Unset}

VARIABLES
  rd, wr, maxRead,   \* read_, write_, maxRead_
  ring,              \* [Index -> Item]      arr_
  at,                \* where each thread is
  old,               \* [Callers -> Index]   old_write of Push, old_read of Pop
  held,              \* [Callers -> Item]    val of Push, ret of Pop
  lag,               \* [Callers -> Nat]     history: steps of the index since it was read
  lapped,            \* history: a swap has succeeded after a whole lap of its index
  calls,             \* calls of Push so far
  reserved,          \* history: the items in the order their slots were reserved
  taken              \* history: the items in the order Pop took them

queueVars == <<rd, wr, maxRead, ring, at, old, held, lag, lapped, calls, reserved, taken>>

QueueInit ==
  /\ rd = 0 /\ wr = 0 /\ maxRead = 0
  /\ ring = [i \in Index |-> Unset]
  /\ at = [t \in Callers |-> "out"]
  /\ old = [t \in Callers |-> 0]
  /\ held = [t \in Callers |-> Unset]
  /\ lag = [t \in Callers |-> 0] /\ lapped = FALSE
  /\ calls = 0
  /\ reserved = <<>> /\ taken = <<>>

Move(t, from, to) == at[t] = from /\ at' = [at EXCEPT ![t] = to]

\* The call returns: its local variables are gone.
Return(t, from) ==
  /\ Move(t, from, "out")
  /\ old' = [old EXCEPT ![t] = 0]
  /\ held' = [held EXCEPT ![t] = Unset]

After(i) == (i + 1) % RingSz

\* Threads that have read the index t is about to swap, and not swapped it yet.
Watching(t) ==
  {u \in Callers \ {t} :
     at[u] \in IF t \in Producers THEN {"bound", "reserve"} ELSE {"test", "copy", "take"}}

\* The swap of t succeeds: the others are one step more behind.
Overtake(t) ==
  /\ lag' = [u \in Callers |-> CASE u \in Watching(t) -> lag[u] + 1
                                 [] u = t -> 0
                                 [] OTHER -> lag[u]]
  /\ lapped' = (lapped \/ lag[t] >= RingSz)

-----------------------------------------------------------------------------
(* Push *)

\* The call and its first read of write_.
PushItem(t) ==
  /\ Move(t, "out", "bound")
  /\ calls < MaxItems
  /\ calls' = calls + 1
  /\ held' = [held EXCEPT ![t] = calls + 1]
  /\ old' = [old EXCEPT ![t] = wr]
  /\ UNCHANGED <<rd, wr, maxRead, ring, lag, lapped, reserved, taken>>

\* write_ is read again when the swap has failed.
ReadWrite(t) ==
  /\ Move(t, "write", "bound")
  /\ old' = [old EXCEPT ![t] = wr]
  /\ UNCHANGED <<rd, wr, maxRead, ring, held, lag, lapped, calls, reserved, taken>>

\* read_ is read after write_; a full ring ends the call.
ReadBound(t) ==
  /\ IF After(old[t]) = rd
     THEN Return(t, "bound") /\ lag' = [lag EXCEPT ![t] = 0]
     ELSE Move(t, "bound", "reserve") /\ UNCHANGED <<old, held, lag>>
  /\ UNCHANGED <<rd, wr, maxRead, ring, lapped, calls, reserved, taken>>

\* Mutation: write_ is stored without comparing it with the value read.
ReserveSlotBlindly(t) ==
  /\ Move(t, "reserve", "fill")
  /\ wr' = After(old[t])
  /\ reserved' = Append(reserved, held[t])
  /\ Overtake(t)
  /\ UNCHANGED <<rd, maxRead, ring, old, held, calls, taken>>

\* The swap of write_: another try if it has moved.
ReserveSlot(t) ==
  /\ IF wr = old[t]
     THEN /\ Move(t, "reserve", "fill")
          /\ wr' = After(wr)
          /\ reserved' = Append(reserved, held[t])
          /\ Overtake(t)
     ELSE /\ Move(t, "reserve", "write")
          /\ lag' = [lag EXCEPT ![t] = 0]
          /\ UNCHANGED <<wr, lapped, reserved>>
  /\ UNCHANGED <<rd, maxRead, ring, old, held, calls, taken>>

FillSlot(t) ==
  /\ Move(t, "fill", "publish")
  /\ ring' = [ring EXCEPT ![old[t]] = held[t]]
  /\ UNCHANGED <<rd, wr, maxRead, old, held, lag, lapped, calls, reserved, taken>>

\* Mutation: the slot is published without waiting for those reserved before.
PublishAtOnce(t) ==
  /\ Return(t, "publish")
  /\ maxRead' = After(maxRead)
  /\ UNCHANGED <<rd, wr, ring, lag, lapped, calls, reserved, taken>>

\* The swap of maxRead_, repeated until the earlier slots are published.
Publish(t) ==
  /\ Return(t, "publish")
  /\ maxRead = old[t]
  /\ maxRead' = After(maxRead)
  /\ UNCHANGED <<rd, wr, ring, lag, lapped, calls, reserved, taken>>

-----------------------------------------------------------------------------
(* Pop *)

\* The call and its first read of read_.
PopItem(t) ==
  /\ Move(t, "out", "test")
  /\ old' = [old EXCEPT ![t] = rd]
  /\ UNCHANGED <<rd, wr, maxRead, ring, held, lag, lapped, calls, reserved, taken>>

\* read_ is read again when the swap has failed.
ReadRead(t) ==
  /\ Move(t, "read", "test")
  /\ old' = [old EXCEPT ![t] = rd]
  /\ UNCHANGED <<rd, wr, maxRead, ring, held, lag, lapped, calls, reserved, taken>>

\* Nothing is published at read_: the call returns.
TestEmptyRing(t) ==
  /\ IF old[t] = maxRead
     THEN Return(t, "test") /\ lag' = [lag EXCEPT ![t] = 0]
     ELSE Move(t, "test", "copy") /\ UNCHANGED <<old, held, lag>>
  /\ UNCHANGED <<rd, wr, maxRead, ring, lapped, calls, reserved, taken>>

CopySlot(t) ==
  /\ Move(t, "copy", "take")
  /\ held' = [held EXCEPT ![t] = ring[old[t]]]
  /\ UNCHANGED <<rd, wr, maxRead, ring, old, lag, lapped, calls, reserved, taken>>

\* The swap of read_: another try if it has moved.
TakeItem(t) ==
  /\ IF rd = old[t]
     THEN /\ Return(t, "take")
          /\ rd' = After(rd)
          /\ taken' = Append(taken, held[t])
          /\ Overtake(t)
     ELSE /\ Move(t, "take", "read")
          /\ lag' = [lag EXCEPT ![t] = 0]
          /\ held' = [held EXCEPT ![t] = Unset]
          /\ UNCHANGED <<rd, old, lapped, taken>>
  /\ UNCHANGED <<wr, maxRead, ring, calls, reserved>>

-----------------------------------------------------------------------------
QueueStep(t) ==
  \/ ReadWrite(t) \/ ReadBound(t) \/ ReserveSlot(t) \/ FillSlot(t) \/ Publish(t)
  \/ ReadRead(t) \/ TestEmptyRing(t) \/ CopySlot(t) \/ TakeItem(t)

QueueNext ==
  \/ \E t \in Producers : PushItem(t)
  \/ \E t \in Consumers : PopItem(t)
  \/ \E t \in Callers : QueueStep(t)

QueueSafety == QueueInit /\ [][QueueNext]_queueVars

\* A thread inside a call goes on.
QueueSpec ==
  /\ QueueSafety
  /\ \A t \in Callers : WF_queueVars(QueueStep(t))

-----------------------------------------------------------------------------
\* What Pop takes are the items pushed, each once, in the order their slots
\* were reserved, and no more than fit the ring are between the two: no Pop
\* returns a slot that is reserved and not filled, or was filled again.  Only a
\* call that slept while its index went once around the ring can break that:
\* the indices carry no tag, so that its swap succeeds.
RingFifo ==
  \/ lapped
  \/ /\ IsPrefix(taken, reserved)
     /\ Len(reserved) - Len(taken) < RingSz

\* Every call returns, though a Push waits for the earlier ones to publish
\* their slots and each kind of call starts again when another is faster.
RingCallReturns == \A t \in Callers : at[t] # "out" ~> at[t] = "out"
-----------------------------------------------------------------------------
(* The inductive invariant that the proof of RingFifo uses. *)

PushAt == {"out", "bound", "write", "reserve", "fill", "publish"}
PopAt == {"out", "test", "copy", "take", "read"}

QueueTypeOK ==
  /\ rd \in Index /\ wr \in Index /\ maxRead \in Index
  /\ ring \in [Index -> Item]
  /\ at \in [Callers -> PushAt \cup PopAt]
  /\ \A t \in Producers : at[t] \in PushAt
  /\ \A t \in Consumers : at[t] \in PopAt
  /\ old \in [Callers -> Index]
  /\ held \in [Callers -> Item]
  /\ lag \in [Callers -> Nat]
  /\ calls \in Nat
  /\ reserved \in Seq(Nat) /\ taken \in Seq(Item)

\* The slot of the item that was reserved as number n, from 0.
SlotOf(n) == n % RingSz

\* With p items published: the indices are the counts of the items taken,
\* published and reserved, at most RingSz - 1 of them apart.
IndexInv(p) ==
  /\ Len(taken) <= p /\ p <= Len(reserved) /\ Len(reserved) - Len(taken) < RingSz
  /\ rd = SlotOf(Len(taken)) /\ wr = SlotOf(Len(reserved)) /\ maxRead = SlotOf(p)

\* lag counts the steps of the index since it was read, so that an index that
\* looks unchanged is unchanged, and what was tested then still holds.
PusherOK(t) ==
  /\ at[t] \notin {"bound", "reserve"} => lag[t] = 0
  /\ at[t] \in {"bound", "reserve"} =>
       lag[t] <= Len(reserved) /\ old[t] = SlotOf(Len(reserved) - lag[t])
  /\ at[t] = "reserve" /\ lag[t] = 0 => Len(reserved) + 1 - Len(taken) < RingSz
  /\ at[t] # "out" => held[t] \in Nat

PopperOK(t, p) ==
  /\ at[t] \notin {"test", "copy", "take"} => lag[t] = 0
  /\ at[t] \in {"test", "copy", "take"} =>
       lag[t] <= Len(taken) /\ old[t] = SlotOf(Len(taken) - lag[t])
  /\ at[t] \in {"copy", "take"} /\ lag[t] = 0 => Len(taken) < p
  /\ at[t] = "take" /\ lag[t] = 0 => held[t] = reserved[Len(taken) + 1]

CallersInv(p) ==
  /\ \A t \in Producers : PusherOK(t)
  /\ \A t \in Consumers : PopperOK(t, p)

\* A thread that fills or publishes a slot owns it: it has the number of one
\* item that is reserved and not published.
TicketInv(p) ==
  /\ \A t \in Producers :
       at[t] \in {"fill", "publish"} =>
         \E n \in p..(Len(reserved) - 1) : old[t] = SlotOf(n) /\ held[t] = reserved[n + 1]
  /\ \A t, u \in Producers :
       at[t] \in {"fill", "publish"} /\ at[u] \in {"fill", "publish"} /\ old[t] = old[u]
         => t = u

\* The slots hold what was pushed, from when they are filled until they are taken.
RingInv(p) ==
  /\ \A i \in 1..Len(taken) : taken[i] = reserved[i]
  /\ \A n \in Len(taken)..(p - 1) : ring[SlotOf(n)] = reserved[n + 1]
  /\ \A t \in Producers : at[t] = "publish" => ring[old[t]] = held[t]

QueueIInv ==
  /\ QueueTypeOK
  /\ \E p \in 0..Len(reserved) : IndexInv(p) /\ CallersInv(p) /\ TicketInv(p) /\ RingInv(p)

\* It holds until a swap succeeds after a whole lap.
LappedOrQueueIInv == lapped \/ QueueIInv
=============================================================================
