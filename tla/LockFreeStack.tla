---------------------------- MODULE LockFreeStack ----------------------------
(***************************************************************************)
(* The array stack of misc/LockFreeContainer.h.  mask_ counts the threads  *)
(* inside Push in its upper half and those inside Pop in its lower half,   *)
(* and admits a thread only while the other half is zero: several pushes   *)
(* or several pops at a time, never both.  Inside, top_ is moved by        *)
(* compare-and-swap and the slot is accessed afterwards, unprotected.      *)
(*                                                                         *)
(* A loop that reads, tests and swaps until the swap succeeds is one step, *)
(* taken when it does: nothing that it read before matters.                *)
(***************************************************************************)
EXTENDS Integers, Sequences, FiniteSets, ProgramCounter

CONSTANTS
  MaxSz,                \* maxSz_
  MaxConcurrentRead,    \* maxConcurrentRead_ (0xff in the code)
  MaxConcurrentWrite,   \* maxConcurrntWrite_ (0xff in the code)
  MaxPush, MaxPop,      \* bounds on the calls; the k-th Push pushes the item k
  Junk                  \* an uninitialised slot, or the 0xcdcd Pop leaves

ASSUME StackAssumption ==
  /\ {MaxSz, MaxConcurrentRead, MaxConcurrentWrite} \subseteq Nat \ {0}
  /\ MaxPush \in Nat /\ MaxPop \in Nat
  /\ Junk \notin Nat

Slots == 0..(MaxSz - 1)
Values == Nat \cup {Junk}

VARIABLES
  top,         \* top_
  arr,         \* [Slots -> Values]  arr_
  readers,     \* lower half of mask_
  writers,     \* upper half of mask_
  slot,        \* [Threads -> 0..MaxSz]  the slot reserved; MaxSz: none (ret, suc false)
  val,         \* [Threads -> Values]    val of Push, ret of Pop
  pushes, pops,\* calls so far
  stack,       \* history: the items in the order top_ was moved for them
  due          \* [Threads -> Values]  history: the item Pop took off `stack'

vars == <<top, arr, readers, writers, pc, slot, val, pushes, pops, stack, due>>

PC == {"idle", "push", "reserve", "write", "pushed", "pop", "take", "read", "poison", "popped"}

TypeOK ==
  /\ top \in 0..MaxSz
  /\ arr \in [Slots -> Values]
  /\ readers \in 0..MaxConcurrentRead
  /\ writers \in 0..MaxConcurrentWrite
  /\ pc \in [Threads -> PC]
  /\ slot \in [Threads -> 0..MaxSz]
  /\ val \in [Threads -> Values]
  /\ pushes \in Nat /\ pops \in Nat
  /\ stack \in Seq(Nat)
  /\ due \in [Threads -> Values]

Init ==
  /\ top = 0
  /\ arr = [s \in Slots |-> Junk]
  /\ readers = 0 /\ writers = 0
  /\ pc = [t \in Threads |-> "idle"]
  /\ slot = [t \in Threads |-> MaxSz]
  /\ val = [t \in Threads |-> Junk]
  /\ pushes = 0 /\ pops = 0
  /\ stack = <<>>
  /\ due = [t \in Threads |-> Junk]

-----------------------------------------------------------------------------
(* Push *)

Push(t) ==
  /\ Goto(t, "idle", "push")
  /\ pushes < MaxPush
  /\ pushes' = pushes + 1
  /\ val' = [val EXCEPT ![t] = pushes + 1]
  /\ UNCHANGED <<top, arr, readers, writers, slot, pops, stack, due>>

\* Mutation: the readers' half is not masked out of the value compared.
AdmitWriterAmongReaders(t) ==
  /\ Goto(t, "push", "reserve")
  /\ writers < MaxConcurrentWrite
  /\ writers' = writers + 1
  /\ UNCHANGED <<top, arr, readers, slot, val, pushes, pops, stack, due>>

\* The 'write-lock': the swap expects mask_ to be the writers' count alone.
AdmitWriter(t) ==
  /\ Goto(t, "push", "reserve")
  /\ readers = 0
  /\ writers < MaxConcurrentWrite
  /\ writers' = writers + 1
  /\ UNCHANGED <<top, arr, readers, slot, val, pushes, pops, stack, due>>

\* A slot is reserved, unless the stack is full.
Reserve(t) ==
  /\ \/ /\ top = MaxSz
        /\ Goto(t, "reserve", "pushed")
        /\ UNCHANGED <<top, slot, stack>>
     \/ /\ top < MaxSz
        /\ Goto(t, "reserve", "write")
        /\ slot' = [slot EXCEPT ![t] = top]
        /\ top' = top + 1
        /\ stack' = Append(stack, val[t])
  /\ UNCHANGED <<arr, readers, writers, val, pushes, pops, due>>

WriteSlot(t) ==
  /\ Goto(t, "write", "pushed")
  /\ arr' = [arr EXCEPT ![slot[t]] = val[t]]
  /\ UNCHANGED <<top, readers, writers, slot, val, pushes, pops, stack, due>>

Finished(t) ==
  /\ slot' = [slot EXCEPT ![t] = MaxSz]
  /\ val' = [val EXCEPT ![t] = Junk]
  /\ due' = [due EXCEPT ![t] = Junk]
  /\ UNCHANGED <<top, arr, pushes, pops, stack>>

\* Mutation: a failed Push returns without releasing the 'write-lock'.
PushReturnsLocked(t) ==
  /\ Goto(t, "pushed", "idle")
  /\ writers' = IF slot[t] = MaxSz THEN writers ELSE writers - 1
  /\ Finished(t)
  /\ UNCHANGED readers

\* release 'write-lock'
PushReturns(t) ==
  /\ Goto(t, "pushed", "idle")
  /\ writers' = writers - 1
  /\ Finished(t)
  /\ UNCHANGED readers

-----------------------------------------------------------------------------
(* Pop *)

Pop(t) ==
  /\ Goto(t, "idle", "pop")
  /\ pops < MaxPop
  /\ pops' = pops + 1
  /\ UNCHANGED <<top, arr, readers, writers, slot, val, pushes, stack, due>>

AdmitReader(t) ==
  /\ Goto(t, "pop", "take")
  /\ writers = 0
  /\ readers < MaxConcurrentRead
  /\ readers' = readers + 1
  /\ UNCHANGED <<top, arr, writers, slot, val, pushes, pops, stack, due>>

\* The top slot is taken, unless the stack is empty.
Take(t) ==
  /\ \/ /\ top = 0
        /\ Goto(t, "take", "popped")
        /\ UNCHANGED <<top, slot, stack, due>>
     \/ /\ top > 0
        /\ Goto(t, "take", "read")
        /\ slot' = [slot EXCEPT ![t] = top - 1]
        /\ top' = top - 1
        /\ due' = [due EXCEPT ![t] = stack[Len(stack)]]
        /\ stack' = SubSeq(stack, 1, Len(stack) - 1)
  /\ UNCHANGED <<arr, readers, writers, val, pushes, pops>>

ReadSlot(t) ==
  /\ Goto(t, "read", "poison")
  /\ val' = [val EXCEPT ![t] = arr[slot[t]]]
  /\ UNCHANGED <<top, arr, readers, writers, slot, pushes, pops, stack, due>>

\* arr_[old_top - 1] = 0xcdcd
PoisonSlot(t) ==
  /\ Goto(t, "poison", "popped")
  /\ arr' = [arr EXCEPT ![slot[t]] = Junk]
  /\ UNCHANGED <<top, readers, writers, slot, val, pushes, pops, stack, due>>

PopReturns(t) ==
  /\ Goto(t, "popped", "idle")
  /\ readers' = readers - 1
  /\ Finished(t)
  /\ UNCHANGED writers

-----------------------------------------------------------------------------
Step(t) ==
  \/ AdmitWriter(t) \/ Reserve(t) \/ WriteSlot(t) \/ PushReturns(t)
  \/ AdmitReader(t) \/ Take(t) \/ ReadSlot(t) \/ PoisonSlot(t) \/ PopReturns(t)

Next == \E t \in Threads : Step(t) \/ Push(t) \/ Pop(t)

SafetySpec == Init /\ [][Next]_vars

\* A thread inside Push or Pop goes on when the mask admits it.
Spec == SafetySpec /\ \A t \in Threads : WF_vars(Step(t))

-----------------------------------------------------------------------------
\* Pop returns the item that was on top when it moved top_, never a slot that
\* is not written yet, was reused or holds 0xcdcd; and the assertions before the
\* mask is released hold: no thread is inside Pop while one is inside Push.
PopReturnsTop ==
  \A t \in Threads :
    /\ pc[t] = "poison" => val[t] = due[t] /\ val[t] # Junk
    /\ pc[t] = "pushed" => readers = 0
    /\ pc[t] = "popped" => writers = 0

\* Every call returns once the calls stop coming: the last thread out always
\* reopens the mask for the other side.  (An endless stream of overlapping
\* pops keeps a push out for ever.)
CallReturns == \A t \in Threads : pc[t] # "idle" ~> pc[t] = "idle"
-----------------------------------------------------------------------------
(* The inductive invariant that the proof of PopReturnsTop uses. *)

\* The threads that the mask has admitted.
Pushing == {t \in Threads : pc[t] \in {"reserve", "write", "pushed"}}
Popping == {t \in Threads : pc[t] \in {"take", "read", "poison", "popped"}}

\* The two halves of mask_ count them, and one half is zero.
MaskInv ==
  /\ IsFiniteSet(Pushing) /\ writers = Cardinality(Pushing)
  /\ IsFiniteSet(Popping) /\ readers = Cardinality(Popping)
  /\ writers = 0 \/ readers = 0

\* A reserved slot has one user: below top_ while it is written, at or above
\* top_ while it is read and poisoned.
SlotInv ==
  /\ \A t \in Threads : pc[t] = "write" => slot[t] \in 0..(top - 1)
  /\ \A t \in Threads : pc[t] \in {"read", "poison"} => slot[t] \in top..(MaxSz - 1)
  /\ \A t, u \in Threads :
       /\ pc[t] \in {"write", "read", "poison"} /\ pc[u] \in {"write", "read", "poison"}
       /\ slot[t] = slot[u]
       => t = u

\* The slots below top_ hold the stack, but for those not written yet; a slot
\* that was taken holds its item until it has been read.
ItemInv ==
  /\ Len(stack) = top
  /\ \A s \in 0..(top - 1) :
       arr[s] = stack[s + 1] \/ \E t \in Threads : pc[t] = "write" /\ slot[t] = s
  /\ \A t \in Threads :
       /\ pc[t] \in {"push", "reserve", "write"} => val[t] \in Nat
       /\ pc[t] = "write" => stack[slot[t] + 1] = val[t]
       /\ pc[t] \in {"read", "poison"} => due[t] \in Nat
       /\ pc[t] = "read" => arr[slot[t]] = due[t]
       /\ pc[t] = "poison" => val[t] = due[t]

StackIInv == TypeOK /\ MaskInv /\ SlotInv /\ ItemInv
=============================================================================
