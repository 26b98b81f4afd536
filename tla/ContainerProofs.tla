-------------------------- MODULE ContainerProofs --------------------------
(***************************************************************************)
(* Theorems about the two array containers of misc/LockFreeContainer.h and *)
(* about the per-thread memory of misc/PerThreadMemory.h, for any number   *)
(* of threads, any capacity and any bound on the calls.                    *)
(***************************************************************************)
EXTENDS LockFreeStack, LockFreeQueue, PerThreadMemory, LinkProofs


-----------------------------------------------------------------------------
(* The stack *)

\* A thread enters or leaves the set that one half of the mask counts.
LEMMA OneMore ==
  ASSUME NEW S, IsFiniteSet(S), NEW x, x \notin S
  PROVE  IsFiniteSet(S \cup {x}) /\ Cardinality(S \cup {x}) = Cardinality(S) + 1
  BY FS_AddElement

LEMMA OneLess ==
  ASSUME NEW S, IsFiniteSet(S), NEW x \in S
  PROVE  /\ IsFiniteSet(S \ {x}) /\ Cardinality(S \ {x}) = Cardinality(S) - 1
         /\ Cardinality(S) \in Nat /\ Cardinality(S) > 0
<1>1. IsFiniteSet(S \ {x}) /\ Cardinality(S \ {x}) = Cardinality(S) - 1
  BY FS_RemoveElement
<1>2. Cardinality(S) \in Nat /\ Cardinality(S \ {x}) \in Nat
  BY <1>1, FS_CardinalityType
<1> QED  BY <1>1, <1>2

\* A half of the mask that is zero has admitted nobody.
LEMMA MaskExcludes ==
  ASSUME TypeOK, MaskInv
  PROVE  /\ writers = 0 => \A t \in Threads : pc[t] \notin {"reserve", "write", "pushed"}
         /\ readers = 0 => \A t \in Threads : pc[t] \notin {"take", "read", "poison", "popped"}
         /\ \A t \in Threads : pc[t] \in {"reserve", "write", "pushed"} => readers = 0 /\ writers > 0
         /\ \A t \in Threads : pc[t] \in {"take", "read", "poison", "popped"} => writers = 0 /\ readers > 0
<1>1. ASSUME NEW t \in Threads, pc[t] \in {"reserve", "write", "pushed"}
      PROVE  writers > 0 /\ readers = 0
  <2>1. t \in Pushing
    BY <1>1 DEF Pushing
  <2>2. Cardinality(Pushing) > 0 /\ Cardinality(Pushing) \in Nat
    BY <2>1, OneLess DEF MaskInv
  <2> QED  BY <2>2 DEF MaskInv
<1>2. ASSUME NEW t \in Threads, pc[t] \in {"take", "read", "poison", "popped"}
      PROVE  readers > 0 /\ writers = 0
  <2>1. t \in Popping
    BY <1>2 DEF Popping
  <2>2. Cardinality(Popping) > 0 /\ Cardinality(Popping) \in Nat
    BY <2>1, OneLess DEF MaskInv
  <2> QED  BY <2>2 DEF MaskInv
<1> QED  BY <1>1, <1>2

\* A thread goes from one place to another.
LEMMA GotoType ==
  ASSUME TypeOK, NEW t \in Threads, NEW from, NEW to \in PC, Goto(t, from, to)
  PROVE  pc' \in [Threads -> PC]
  BY DEF TypeOK, Goto

\* At the start nobody is inside and the stack is empty.
LEMMA StackInit == Init => StackIInv
<1> SUFFICES ASSUME Init PROVE StackIInv
  OBVIOUS
<1>1. TypeOK
  BY StackAssumption DEF Init, TypeOK, PC, Values
<1>2. Pushing = {} /\ Popping = {}
  BY DEF Init, Pushing, Popping
<1>3. MaskInv
  BY <1>2, FS_EmptySet DEF Init, MaskInv
<1>4. SlotInv /\ ItemInv
  BY DEF Init, SlotInv, ItemInv
<1> QED  BY <1>1, <1>3, <1>4 DEF StackIInv

\* Calling Push or Pop asks for nothing yet.
LEMMA CallInv ==
  ASSUME NEW t \in Threads, Push(t) \/ Pop(t), StackIInv
  PROVE  StackIInv'
<1>0. TypeOK /\ MaskInv /\ SlotInv /\ ItemInv
  BY DEF StackIInv
<1>1. TypeOK'
  <2>1. pc' \in [Threads -> PC]
    BY <1>0, GotoType DEF Push, Pop, PC
  <2>2. pushes' \in Nat /\ pops' \in Nat /\ val' \in [Threads -> Values]
    <3>1. CASE Push(t)
      <4>1. pushes + 1 \in Nat /\ pushes + 1 \in Values
        BY <1>0 DEF TypeOK, Values
      <4> QED  BY <1>0, <3>1, <4>1 DEF TypeOK, Push
    <3>2. CASE Pop(t)
      BY <1>0, <3>2 DEF TypeOK, Pop
    <3> QED  BY <3>1, <3>2
  <2> QED  BY <1>0, <2>1, <2>2 DEF TypeOK, Push, Pop
<1>a. /\ pc[t] = "idle" /\ pc'[t] \in {"push", "pop"} /\ \A u \in Threads \ {t} : pc'[u] = pc[u]
      /\ UNCHANGED <<top, arr, readers, writers, slot, stack, due>>
  BY <1>0 DEF TypeOK, Push, Pop, Goto
<1>b. \A u \in Threads : u # t \/ pc'[t] = "pop" => val'[u] = val[u]
  BY <1>0 DEF TypeOK, Push, Pop, Goto
<1>c. pc'[t] = "push" => val'[t] \in Nat
  BY <1>0 DEF TypeOK, Push, Pop, Goto
<1>2. MaskInv'
  <2>1. Pushing' = Pushing /\ Popping' = Popping
    BY <1>a DEF Pushing, Popping
  <2> QED  BY <1>0, <1>a, <2>1 DEF MaskInv
<1>3. SlotInv'
  BY <1>0, <1>a DEF SlotInv
<1>4. ItemInv'
  BY <1>0, <1>a, <1>b, <1>c DEF ItemInv
<1> QED  BY <1>1, <1>2, <1>3, <1>4 DEF StackIInv

\* The mask admits a thread to its half only while the other half is zero.
LEMMA AdmitInv ==
  ASSUME NEW t \in Threads, AdmitWriter(t) \/ AdmitReader(t), StackIInv
  PROVE  StackIInv'
<1>0. TypeOK /\ MaskInv /\ SlotInv /\ ItemInv
  BY DEF StackIInv
<1>1. TypeOK'
  <2>1. pc' \in [Threads -> PC]
    BY <1>0, GotoType DEF AdmitWriter, AdmitReader, PC
  <2>2. readers' \in 0..MaxConcurrentRead /\ writers' \in 0..MaxConcurrentWrite
    BY <1>0, StackAssumption DEF TypeOK, AdmitWriter, AdmitReader
  <2> QED  BY <1>0, <2>1, <2>2 DEF TypeOK, AdmitWriter, AdmitReader
<1>a. /\ \A u \in Threads \ {t} : pc'[u] = pc[u]
      /\ UNCHANGED <<top, arr, slot, val, stack, due>>
  BY <1>0 DEF TypeOK, AdmitWriter, AdmitReader, Goto
<1>2. MaskInv'
  <2>1. CASE AdmitWriter(t)
    <3>1. pc[t] = "push" /\ pc'[t] = "reserve" /\ writers' = writers + 1 /\ readers' = readers /\ readers = 0
      BY <1>0, <2>1 DEF TypeOK, AdmitWriter, Goto
    <3>2. Pushing' = Pushing \cup {t} /\ t \notin Pushing /\ Popping' = Popping
      BY <1>a, <3>1 DEF Pushing, Popping
    <3> QED  BY <1>0, <3>1, <3>2, OneMore DEF MaskInv
  <2>2. CASE AdmitReader(t)
    <3>1. pc[t] = "pop" /\ pc'[t] = "take" /\ readers' = readers + 1 /\ writers' = writers /\ writers = 0
      BY <1>0, <2>2 DEF TypeOK, AdmitReader, Goto
    <3>2. Popping' = Popping \cup {t} /\ t \notin Popping /\ Pushing' = Pushing
      BY <1>a, <3>1 DEF Pushing, Popping
    <3> QED  BY <1>0, <3>1, <3>2, OneMore DEF MaskInv
  <2> QED  BY <2>1, <2>2
<1>b. \/ pc[t] = "push" /\ pc'[t] = "reserve"
      \/ pc[t] = "pop" /\ pc'[t] = "take"
  BY <1>0 DEF TypeOK, AdmitWriter, AdmitReader, Goto
<1>3. SlotInv'
  BY <1>0, <1>a, <1>b DEF SlotInv
<1>4. ItemInv'
  BY <1>0, <1>a, <1>b DEF ItemInv
<1> QED  BY <1>1, <1>2, <1>3, <1>4 DEF StackIInv

\* The last step of a call gives the mask back.
LEMMA ReleaseInv ==
  ASSUME NEW t \in Threads, PushReturns(t) \/ PopReturns(t), StackIInv
  PROVE  StackIInv'
<1>0. TypeOK /\ MaskInv /\ SlotInv /\ ItemInv
  BY DEF StackIInv
<1>a. /\ pc[t] \in {"pushed", "popped"} /\ pc'[t] = "idle" /\ \A u \in Threads \ {t} : pc'[u] = pc[u]
      /\ UNCHANGED <<top, arr, stack>>
      /\ \A u \in Threads \ {t} : slot'[u] = slot[u] /\ val'[u] = val[u] /\ due'[u] = due[u]
  BY <1>0 DEF TypeOK, PushReturns, PopReturns, Goto, Finished
<1>b. \/ pc[t] = "pushed" /\ writers' = writers - 1 /\ readers' = readers /\ writers > 0
      \/ pc[t] = "popped" /\ readers' = readers - 1 /\ writers' = writers /\ readers > 0
  BY <1>0, MaskExcludes DEF PushReturns, PopReturns, Goto
<1>1. TypeOK'
  <2>1. /\ pc' \in [Threads -> PC] /\ slot' \in [Threads -> 0..MaxSz]
        /\ val' \in [Threads -> Values] /\ due' \in [Threads -> Values]
    <3>1. pc' \in [Threads -> PC]
      BY <1>0, GotoType DEF PushReturns, PopReturns, PC
    <3>2. MaxSz \in 0..MaxSz /\ Junk \in Values
      BY StackAssumption DEF Values
    <3> QED  BY <1>0, <3>1, <3>2 DEF TypeOK, PushReturns, PopReturns, Finished
  <2>2. readers' \in 0..MaxConcurrentRead /\ writers' \in 0..MaxConcurrentWrite
    BY <1>0, <1>b, StackAssumption DEF TypeOK
  <2>3. UNCHANGED <<pushes, pops>>
    BY DEF PushReturns, PopReturns, Finished
  <2> QED  BY <1>0, <1>a, <2>1, <2>2, <2>3 DEF TypeOK
<1>2. MaskInv'
  <2>1. CASE pc[t] = "pushed"
    <3>1. Pushing' = Pushing \ {t} /\ t \in Pushing /\ Popping' = Popping
      BY <1>a, <2>1 DEF Pushing, Popping
    <3>2. writers' = writers - 1 /\ readers' = readers /\ readers = 0
      BY <1>0, <1>b, <2>1, MaskExcludes
    <3> QED  BY <1>0, <3>1, <3>2, OneLess DEF MaskInv
  <2>2. CASE pc[t] = "popped"
    <3>1. Popping' = Popping \ {t} /\ t \in Popping /\ Pushing' = Pushing
      BY <1>a, <2>2 DEF Pushing, Popping
    <3>2. readers' = readers - 1 /\ writers' = writers /\ writers = 0
      BY <1>0, <1>b, <2>2, MaskExcludes
    <3> QED  BY <1>0, <3>1, <3>2, OneLess DEF MaskInv
  <2> QED  BY <1>a, <2>1, <2>2
<1>3. SlotInv'
  BY <1>0, <1>a DEF SlotInv
<1>4. ItemInv'
  <2>1. Len(stack') = top'
    BY <1>0, <1>a DEF ItemInv
  <2>2. \A s \in 0..(top' - 1) :
          arr'[s] = stack'[s + 1] \/ \E u \in Threads : pc'[u] = "write" /\ slot'[u] = s
    BY <1>0, <1>a DEF ItemInv
  <2> QED  BY <1>0, <1>a, <2>1, <2>2 DEF ItemInv
<1> QED  BY <1>1, <1>2, <1>3, <1>4 DEF StackIInv

\* A call that stays inside its half of the mask.
LEMMA InsideMask ==
  ASSUME NEW t \in Threads, TypeOK, MaskInv, UNCHANGED <<readers, writers>>,
         \A u \in Threads \ {t} : pc'[u] = pc[u],
         \/ pc[t] \in {"reserve", "write", "pushed"} /\ pc'[t] \in {"reserve", "write", "pushed"}
         \/ pc[t] \in {"take", "read", "poison", "popped"} /\ pc'[t] \in {"take", "read", "poison", "popped"}
  PROVE  MaskInv'
<1>1. Pushing' = Pushing /\ Popping' = Popping
  BY DEF Pushing, Popping
<1> QED  BY <1>1 DEF MaskInv

\* Push moves top_ while nobody pops: the slot it gets is in nobody's use.
LEMMA ReserveInv ==
  ASSUME NEW t \in Threads, Reserve(t), StackIInv
  PROVE  StackIInv'
<1>0. TypeOK /\ MaskInv /\ SlotInv /\ ItemInv
  BY DEF StackIInv
<1>a. pc[t] = "reserve" /\ pc'[t] \in {"write", "pushed"} /\ \A u \in Threads \ {t} : pc'[u] = pc[u]
  BY <1>0 DEF TypeOK, Reserve, Goto
<1>b. \A u \in Threads : pc[u] \notin {"take", "read", "poison", "popped"}
  BY <1>0, <1>a, MaskExcludes
<1>2. MaskInv'
  BY <1>0, <1>a, InsideMask DEF Reserve
<1>3. CASE top = MaxSz
  <2>1. pc'[t] = "pushed" /\ UNCHANGED <<top, slot, stack, arr, val, due>>
    BY <1>0, <1>3 DEF TypeOK, Reserve, Goto
  <2>2. TypeOK'
    <3>1. pc' \in [Threads -> PC]
      BY <1>0, GotoType DEF Reserve, PC
    <3> QED  BY <1>0, <2>1, <3>1 DEF TypeOK, Reserve
  <2>3. SlotInv' /\ ItemInv'
    BY <1>0, <1>a, <1>b, <2>1 DEF SlotInv, ItemInv
  <2> QED  BY <1>2, <2>2, <2>3 DEF StackIInv
<1>4. CASE top # MaxSz
  <2>0. /\ pc'[t] = "write" /\ top < MaxSz /\ top \in Nat /\ val[t] \in Nat /\ stack \in Seq(Nat)
        /\ Len(stack) = top /\ UNCHANGED <<arr, val, due>>
    BY <1>0, <1>4, <1>a DEF TypeOK, ItemInv, Reserve, Goto
  <2>1. /\ top' = top + 1 /\ slot'[t] = top /\ \A u \in Threads \ {t} : slot'[u] = slot[u]
        /\ stack' = Append(stack, val[t])
    BY <1>0, <1>4 DEF TypeOK, Reserve
  <2>2. /\ stack' \in Seq(Nat) /\ Len(stack') = top + 1 /\ stack'[top + 1] = val[t]
        /\ \A i \in 1..top : stack'[i] = stack[i]
    BY <2>0, <2>1, AppendProperties
  <2>3. TypeOK'
    <3>1. slot' \in [Threads -> 0..MaxSz] /\ pc' \in [Threads -> PC] /\ top' \in 0..MaxSz
      <4>1. pc' \in [Threads -> PC]
        BY <1>0, GotoType DEF Reserve, PC
      <4>2. slot' \in [Threads -> 0..MaxSz]
        BY <1>0, <1>4, <2>0 DEF TypeOK, Reserve
      <4> QED  BY <2>0, <2>1, <4>1, <4>2, StackAssumption
    <3> QED  BY <1>0, <2>2, <3>1 DEF TypeOK, Reserve
  <2>4. SlotInv'
    <3>1. \A u \in Threads : pc'[u] = "write" => slot'[u] \in 0..(top' - 1) /\ (u = t \/ slot'[u] < top)
      BY <1>0, <1>a, <2>0, <2>1 DEF SlotInv
    <3>2. \A u \in Threads : pc'[u] \notin {"read", "poison"}
      BY <1>a, <1>b
    <3>3. ASSUME NEW u \in Threads, NEW v \in Threads, pc'[u] = "write", pc'[v] = "write",
                 slot'[u] = slot'[v]
          PROVE  u = v
      BY <1>0, <1>a, <2>0, <2>1, <3>1, <3>3 DEF SlotInv
    <3> QED  BY <3>1, <3>2, <3>3 DEF SlotInv
  <2>5. ItemInv'
    <3>1. ASSUME NEW s \in 0..(top' - 1)
          PROVE  arr'[s] = stack'[s + 1] \/ \E u \in Threads : pc'[u] = "write" /\ slot'[u] = s
      <4>1. CASE s = top
        BY <2>0, <2>1, <4>1
      <4>2. CASE s # top
        <5>1. s \in 0..(top - 1) /\ s + 1 \in 1..top
          BY <2>0, <2>1, <4>2
        <5>2. arr[s] = stack[s + 1] \/ \E u \in Threads : pc[u] = "write" /\ slot[u] = s
          BY <1>0, <5>1 DEF ItemInv
        <5> QED  BY <1>a, <2>0, <2>1, <2>2, <5>1, <5>2
      <4> QED  BY <4>1, <4>2
    <3>2. \A u \in Threads : pc'[u] = "write" => stack'[slot'[u] + 1] = val'[u]
      <4>1. \A u \in Threads \ {t} : pc[u] = "write" => slot[u] + 1 \in 1..top
        BY <1>0, <2>0 DEF SlotInv
      <4> QED  BY <1>0, <1>a, <2>0, <2>1, <2>2, <4>1 DEF ItemInv
    <3>3. \A u \in Threads : pc'[u] \in {"push", "reserve", "write"} => val'[u] \in Nat
      BY <1>0, <1>a, <2>0 DEF ItemInv
    <3>4. \A u \in Threads : pc'[u] \notin {"read", "poison"}
      BY <1>a, <1>b
    <3> QED  BY <2>1, <2>2, <3>1, <3>2, <3>3, <3>4 DEF ItemInv
  <2> QED  BY <1>2, <2>3, <2>4, <2>5 DEF StackIInv
<1> QED  BY <1>3, <1>4

\* Pop moves top_ while nobody pushes: the slot it gets is written.
LEMMA TakeInv ==
  ASSUME NEW t \in Threads, Take(t), StackIInv
  PROVE  StackIInv'
<1>0. TypeOK /\ MaskInv /\ SlotInv /\ ItemInv
  BY DEF StackIInv
<1>a. pc[t] = "take" /\ pc'[t] \in {"read", "popped"} /\ \A u \in Threads \ {t} : pc'[u] = pc[u]
  BY <1>0 DEF TypeOK, Take, Goto
<1>b. \A u \in Threads : pc[u] \notin {"reserve", "write", "pushed"}
  BY <1>0, <1>a, MaskExcludes
<1>2. MaskInv'
  BY <1>0, <1>a, InsideMask DEF Take
<1>3. CASE top = 0
  <2>1. pc'[t] = "popped" /\ UNCHANGED <<top, slot, stack, arr, val, due>>
    BY <1>0, <1>3 DEF TypeOK, Take, Goto
  <2>2. TypeOK'
    <3>1. pc' \in [Threads -> PC]
      BY <1>0, GotoType DEF Take, PC
    <3> QED  BY <1>0, <2>1, <3>1 DEF TypeOK, Take
  <2>3. SlotInv' /\ ItemInv'
    BY <1>0, <1>a, <1>b, <2>1 DEF SlotInv, ItemInv
  <2> QED  BY <1>2, <2>2, <2>3 DEF StackIInv
<1>4. CASE top # 0
  <2>0. /\ pc'[t] = "read" /\ top > 0 /\ top \in Nat /\ top <= MaxSz /\ stack \in Seq(Nat)
        /\ Len(stack) = top /\ UNCHANGED <<arr, val>>
    BY <1>0, <1>4, <1>a, StackAssumption DEF TypeOK, ItemInv, Take, Goto
  <2>1. /\ top' = top - 1 /\ slot'[t] = top - 1 /\ \A u \in Threads \ {t} : slot'[u] = slot[u]
        /\ due'[t] = stack[top] /\ \A u \in Threads \ {t} : due'[u] = due[u]
        /\ stack' = SubSeq(stack, 1, top - 1)
    BY <1>0, <1>4, <2>0 DEF TypeOK, Take
  <2>2. /\ stack' \in Seq(Nat) /\ Len(stack') = top - 1 /\ stack[top] \in Nat
        /\ \A i \in 1..(top - 1) : stack'[i] = stack[i]
    <3>1. \A i \in 1..top : stack[i] \in Nat
      BY <2>0, ElementOfSeq
    <3> QED  BY <2>0, <2>1, <3>1, SubSeqProperties
  <2>3. arr[top - 1] = stack[top]
    <3>1. top - 1 \in 0..(top - 1) /\ (top - 1) + 1 = top
      BY <2>0
    <3> QED  BY <1>0, <1>b, <3>1 DEF ItemInv
  <2>4. TypeOK'
    <3>1. slot' \in [Threads -> 0..MaxSz] /\ pc' \in [Threads -> PC] /\ top' \in 0..MaxSz
      <4>1. pc' \in [Threads -> PC]
        BY <1>0, GotoType DEF Take, PC
      <4>2. slot' \in [Threads -> 0..MaxSz]
        <5>1. top - 1 \in 0..MaxSz
          BY <2>0, StackAssumption
        <5> QED  BY <1>0, <1>4, <5>1 DEF TypeOK, Take
      <4> QED  BY <2>0, <2>1, <4>1, <4>2, StackAssumption
    <3>2. due' \in [Threads -> Values]
      BY <1>0, <1>4, <2>0, <2>2 DEF TypeOK, Take, Values
    <3> QED  BY <1>0, <2>2, <3>1, <3>2 DEF TypeOK, Take
  <2>5. SlotInv'
    <3>1. \A u \in Threads : pc'[u] \in {"read", "poison"} =>
            slot'[u] \in top'..(MaxSz - 1) /\ (u = t \/ slot'[u] >= top)
      BY <1>0, <1>a, <2>0, <2>1, StackAssumption DEF SlotInv, TypeOK
    <3>2. \A u \in Threads : pc'[u] # "write"
      BY <1>a, <1>b
    <3>3. ASSUME NEW u \in Threads, NEW v \in Threads, pc'[u] \in {"read", "poison"},
                 pc'[v] \in {"read", "poison"}, slot'[u] = slot'[v]
          PROVE  u = v
      BY <1>0, <1>a, <2>0, <2>1, <3>1, <3>3 DEF SlotInv
    <3> QED  BY <3>1, <3>2, <3>3 DEF SlotInv
  <2>6. ItemInv'
    <3>1. ASSUME NEW s \in 0..(top' - 1)
          PROVE  arr'[s] = stack'[s + 1]
      <4>1. s \in 0..(top - 1) /\ s + 1 \in 1..(top - 1)
        BY <2>0, <2>1
      <4>2. arr[s] = stack[s + 1]
        BY <1>0, <1>b, <4>1 DEF ItemInv
      <4> QED  BY <2>0, <2>2, <4>1, <4>2
    <3>2. \A u \in Threads : pc'[u] \in {"read", "poison"} => due'[u] \in Nat
      BY <1>0, <1>a, <2>1, <2>2 DEF ItemInv
    <3>3. \A u \in Threads : pc'[u] = "read" => arr'[slot'[u]] = due'[u]
      BY <1>0, <1>a, <2>0, <2>1, <2>3 DEF ItemInv
    <3>4. \A u \in Threads : pc'[u] = "poison" => val'[u] = due'[u]
      BY <1>0, <1>a, <2>0, <2>1 DEF ItemInv
    <3>5. \A u \in Threads : /\ pc'[u] \in {"push", "reserve", "write"} => val'[u] \in Nat
                             /\ pc'[u] # "write"
      BY <1>0, <1>a, <1>b, <2>0 DEF ItemInv
    <3> QED  BY <2>1, <2>2, <3>1, <3>2, <3>3, <3>4, <3>5 DEF ItemInv
  <2> QED  BY <1>2, <2>4, <2>5, <2>6 DEF StackIInv
<1> QED  BY <1>3, <1>4

\* Writing the slot that was reserved makes the array hold the item.
LEMMA WriteSlotInv ==
  ASSUME NEW t \in Threads, WriteSlot(t), StackIInv
  PROVE  StackIInv'
<1>0. TypeOK /\ MaskInv /\ SlotInv /\ ItemInv
  BY DEF StackIInv
<1>a. /\ pc[t] = "write" /\ pc'[t] = "pushed" /\ \A u \in Threads \ {t} : pc'[u] = pc[u]
      /\ UNCHANGED <<top, slot, val, stack, due>>
  BY <1>0 DEF TypeOK, WriteSlot, Goto
<1>b. \A u \in Threads : pc[u] \notin {"take", "read", "poison", "popped"}
  BY <1>0, <1>a, MaskExcludes
<1>c. slot[t] \in Slots /\ slot[t] \in 0..(top - 1) /\ val[t] \in Nat /\ stack[slot[t] + 1] = val[t]
  BY <1>0, <1>a, StackAssumption DEF TypeOK, SlotInv, ItemInv, Slots
<1>d. arr'[slot[t]] = val[t] /\ \A s \in Slots : s # slot[t] => arr'[s] = arr[s]
  BY <1>0, <1>c DEF TypeOK, WriteSlot
<1>1. TypeOK'
  BY <1>0, <1>c DEF TypeOK, WriteSlot, Goto, PC, Values
<1>2. MaskInv'
  BY <1>0, <1>a, InsideMask DEF WriteSlot
<1>3. SlotInv'
  BY <1>0, <1>a DEF SlotInv
<1>4. ItemInv'
  <2>1. ASSUME NEW s \in 0..(top - 1)
        PROVE  arr'[s] = stack'[s + 1] \/ \E u \in Threads : pc'[u] = "write" /\ slot'[u] = s
    <3>1. s \in Slots
      BY <1>0, StackAssumption DEF TypeOK, Slots
    <3>2. CASE s = slot[t]
      BY <1>a, <1>c, <1>d, <3>2
    <3>3. CASE s # slot[t]
      <4>1. arr[s] = stack[s + 1] \/ \E u \in Threads \ {t} : pc[u] = "write" /\ slot[u] = s
        BY <1>0, <3>3 DEF ItemInv
      <4> QED  BY <1>a, <1>d, <3>1, <3>3, <4>1
    <3> QED  BY <3>2, <3>3
  <2>2. \A u \in Threads : pc'[u] \notin {"read", "poison"}
    BY <1>a, <1>b
  <2> QED  BY <1>0, <1>a, <2>1, <2>2 DEF ItemInv
<1> QED  BY <1>1, <1>2, <1>3, <1>4 DEF StackIInv

\* Reading and poisoning a slot that was taken touches no other thread's slot.
LEMMA ReadPoisonInv ==
  ASSUME NEW t \in Threads, ReadSlot(t) \/ PoisonSlot(t), StackIInv
  PROVE  StackIInv'
<1>0. TypeOK /\ MaskInv /\ SlotInv /\ ItemInv
  BY DEF StackIInv
<1>a. /\ \/ pc[t] = "read" /\ pc'[t] = "poison"
         \/ pc[t] = "poison" /\ pc'[t] = "popped"
      /\ \A u \in Threads \ {t} : pc'[u] = pc[u] /\ val'[u] = val[u]
      /\ UNCHANGED <<top, slot, stack, due>>
  BY <1>0 DEF TypeOK, ReadSlot, PoisonSlot, Goto
<1>b. \A u \in Threads : pc[u] \notin {"reserve", "write", "pushed"}
  BY <1>0, <1>a, MaskExcludes
<1>c. slot[t] \in Slots /\ slot[t] \in top..(MaxSz - 1) /\ top \in Nat
  BY <1>0, <1>a DEF TypeOK, SlotInv, Slots
<1>d. /\ \A s \in Slots : s # slot[t] => arr'[s] = arr[s]
      /\ pc[t] = "read" => arr' = arr /\ val'[t] = arr[slot[t]]
  BY <1>0, <1>c DEF TypeOK, ReadSlot, PoisonSlot, Goto
<1>1. TypeOK'
  BY <1>0, <1>c DEF TypeOK, ReadSlot, PoisonSlot, Goto, PC, Values
<1>2. MaskInv'
  BY <1>0, <1>a, InsideMask DEF ReadSlot, PoisonSlot
<1>3. SlotInv'
  BY <1>0, <1>a DEF SlotInv
<1>4. ItemInv'
  <2>1. ASSUME NEW s \in 0..(top - 1)
        PROVE  arr'[s] = stack'[s + 1]
    <3>1. s \in Slots /\ s # slot[t]
      BY <1>0, <1>c, StackAssumption DEF TypeOK, Slots
    <3>2. arr[s] = stack[s + 1]
      BY <1>0, <1>b DEF ItemInv
    <3> QED  BY <1>a, <1>d, <3>1, <3>2
  <2>2. ASSUME NEW u \in Threads, pc'[u] = "read"
        PROVE  arr'[slot'[u]] = due'[u]
    <3>1. u # t /\ pc[u] = "read"
      BY <1>a, <2>2
    <3>2. slot[u] # slot[t] /\ slot[u] \in Slots
      BY <1>0, <1>a, <1>c, <3>1 DEF SlotInv, Slots
    <3> QED  BY <1>0, <1>a, <1>d, <3>1, <3>2 DEF ItemInv
  <2>3. \A u \in Threads : pc'[u] = "poison" => val'[u] = due'[u]
    BY <1>0, <1>a, <1>d DEF ItemInv
  <2>4. \A u \in Threads : /\ pc'[u] \in {"push", "reserve", "write"} => val'[u] \in Nat
                           /\ pc'[u] # "write"
                           /\ pc'[u] \in {"read", "poison"} => due'[u] \in Nat
    BY <1>0, <1>a, <1>b DEF ItemInv
  <2>5. Len(stack') = top'
    BY <1>0, <1>a DEF ItemInv
  <2> QED  BY <1>a, <2>1, <2>2, <2>3, <2>4, <2>5 DEF ItemInv
<1> QED  BY <1>1, <1>2, <1>3, <1>4 DEF StackIInv

\* StackIInv is inductive.
LEMMA StackNext == StackIInv /\ [Next]_vars => StackIInv'
<1> SUFFICES ASSUME StackIInv, [Next]_vars PROVE StackIInv'
  OBVIOUS
<1>1. CASE UNCHANGED vars
  BY <1>1 DEF StackIInv, TypeOK, MaskInv, SlotInv, ItemInv, Pushing, Popping, vars
<1>2. ASSUME NEW t \in Threads, Step(t) PROVE StackIInv'
  BY <1>2, AdmitInv, ReserveInv, WriteSlotInv, ReleaseInv, TakeInv, ReadPoisonInv DEF Step
<1>3. ASSUME NEW t \in Threads, Push(t) \/ Pop(t) PROVE StackIInv'
  BY <1>3, CallInv
<1> QED  BY <1>1, <1>2, <1>3 DEF Next

\* The invariant of the stack: the mask counts who is inside, a reserved slot has
\* one user, and the array below top_ holds the stack.
THEOREM StackInvariant == SafetySpec => []StackIInv
  BY StackInit, StackNext, PTL DEF SafetySpec

\* Pop returns the item that was on top when it moved top_, and no thread is inside
\* Pop while one is inside Push, for any number of threads and any capacity.
THEOREM PopsReturnTheTop == SafetySpec => []PopReturnsTop
<1>1. StackIInv => PopReturnsTop
  <2> SUFFICES ASSUME StackIInv PROVE PopReturnsTop
    OBVIOUS
  <2>1. TypeOK /\ MaskInv /\ ItemInv
    BY DEF StackIInv
  <2>2. \A t \in Threads : pc[t] = "poison" => val[t] = due[t] /\ due[t] \in Nat
    BY <2>1 DEF ItemInv
  <2> QED  BY <2>1, <2>2, MaskExcludes, StackAssumption DEF PopReturnsTop
<1> QED  BY <1>1, StackInvariant, PTL

-----------------------------------------------------------------------------
(* Arithmetic modulo the size of the ring *)

LEMMA DivMod ==
  ASSUME NEW n \in Nat \ {0}, NEW a \in Nat
  PROVE  a \div n \in Nat /\ a = n * (a \div n) + (a % n) /\ a % n \in 0..(n - 1)
  OBVIOUS

LEMMA ModUnique ==
  ASSUME NEW n \in Nat \ {0}, NEW q \in Int, NEW r \in 0..(n - 1), NEW a \in Int, a = n * q + r
  PROVE  a % n = r
  OBVIOUS

\* Two numbers that are less than n apart have different remainders.
LEMMA ModInjective ==
  ASSUME NEW n \in Nat \ {0}, NEW a \in Nat, NEW b \in Nat,
         a <= b, b - a < n, a % n = b % n
  PROVE  a = b
<1>1. PICK p \in Nat, q \in Nat, r \in 0..(n - 1) : a = n * p + r /\ b = n * q + r
  BY DivMod
<1>2. b - a = n * (q - p)
  BY <1>1
<1>3. CASE q - p >= 1
  <2>1. n * (q - p) >= n
    BY <1>3
  <2> QED  BY <1>2, <2>1
<1>4. CASE q - p <= 0
  <2>1. q - p < 0 => n * (q - p) < 0
    BY <1>4
  <2> QED  BY <1>1, <1>2, <1>4, <2>1
<1> QED  BY <1>3, <1>4

\* The successor of a remainder, around the ring.
LEMMA ModSuccessor ==
  ASSUME NEW n \in Nat \ {0}, NEW a \in Nat
  PROVE  ((a % n) + 1) % n = (a + 1) % n
<1>1. PICK q \in Nat, r \in 0..(n - 1) : a = n * q + r /\ r = a % n
  BY DivMod
<1>2. PICK b \in Nat, s \in Nat : b = a + 1 /\ s = r + 1
  OBVIOUS
<1>3. b = n * q + s
  <2>1. a = n * q + r
    BY <1>1
  <2>2. PICK m \in Nat : m = n * q
    OBVIOUS
  <2>3. a = m + r
    BY <2>1, <2>2
  <2>4. b = m + s
    BY <1>2, <2>3
  <2> QED  BY <2>2, <2>4
<1>4. CASE s < n
  <2>1. s \in 0..(n - 1) /\ s = n * 0 + s
    BY <1>4
  <2>2. b % n = s
    BY <1>3, <2>1, ModUnique
  <2>3. s % n = s
    BY <2>1, ModUnique
  <2> QED  BY <1>1, <1>2, <2>2, <2>3
<1>5. CASE s = n
  <2>1. PICK k \in Nat : k = q + 1
    OBVIOUS
  <2>2. n * k = n * q + n
    BY <2>1
  <2>3. 0 \in 0..(n - 1) /\ b = n * k + 0 /\ n = n * 1 + 0
    BY <1>3, <1>5, <2>2
  <2>4. b % n = 0
    BY <2>3, ModUnique
  <2>5. n % n = 0
    BY <2>3, ModUnique
  <2> QED  BY <1>1, <1>2, <1>5, <2>4, <2>5
<1> QED  BY <1>2, <1>4, <1>5

\* Items less than a lap apart have different slots, and those a lap apart the same.
LEMMA SlotFacts ==
  /\ \A a \in Nat : SlotOf(a) \in Index /\ After(SlotOf(a)) = SlotOf(a + 1)
  /\ \A a, b \in Nat : a <= b /\ b - a < RingSz /\ SlotOf(a) = SlotOf(b) => a = b
  /\ \A a, b \in Nat : b = a + RingSz => SlotOf(b) = SlotOf(a)
<1>0. RingSz \in Nat \ {0}
  BY RingAssumption
<1>1. ASSUME NEW a \in Nat PROVE SlotOf(a) \in Index
  BY <1>0, DivMod DEF SlotOf, Index
<1>2. ASSUME NEW a \in Nat PROVE After(SlotOf(a)) = SlotOf(a + 1)
  BY <1>0, ModSuccessor DEF SlotOf, After
<1>3. ASSUME NEW a \in Nat, NEW b \in Nat, a <= b, b - a < RingSz, SlotOf(a) = SlotOf(b)
      PROVE  a = b
  BY <1>0, <1>3, ModInjective DEF SlotOf
<1>4. ASSUME NEW a \in Nat, NEW b \in Nat, b = a + RingSz
      PROVE  SlotOf(b) = SlotOf(a)
  <2>1. PICK q \in Nat, r \in 0..(RingSz - 1) : a = RingSz * q + r /\ r = a % RingSz
    BY <1>0, DivMod
  <2>2. PICK k \in Nat, m \in Nat : k = q + 1 /\ m = RingSz * q
    BY <1>0
  <2>3. RingSz * k = m + RingSz
    BY <1>0, <2>2
  <2>4. a = m + r
    BY <2>1, <2>2
  <2>5. b = RingSz * k + r
    BY <1>0, <1>4, <2>3, <2>4
  <2>6. b % RingSz = r
    BY <1>0, <2>5, ModUnique
  <2> QED  BY <2>1, <2>6 DEF SlotOf
<1> QED  BY <1>1, <1>2, <1>3, <1>4

-----------------------------------------------------------------------------
(* The queue *)

\* The counts that the indices stand for.
LEMMA Counts ==
  ASSUME QueueTypeOK, NEW p \in 0..Len(reserved), IndexInv(p)
  PROVE  /\ Len(reserved) \in Nat /\ Len(taken) \in Nat /\ p \in Nat /\ RingSz \in Nat
         /\ Len(taken) <= p /\ p <= Len(reserved) /\ Len(reserved) - Len(taken) < RingSz
         /\ \A i \in 1..Len(reserved) : reserved[i] \in Nat
         /\ \A t \in Callers : lag[t] \in Nat /\ old[t] \in Index /\ held[t] \in Item
<1>1. Len(reserved) \in Nat /\ Len(taken) \in Nat
  BY LenProperties DEF QueueTypeOK
<1>2. \A i \in 1..Len(reserved) : reserved[i] \in Nat
  BY ElementOfSeq DEF QueueTypeOK
<1> QED  BY <1>1, <1>2, RingAssumption DEF QueueTypeOK, IndexInv

\* An empty ring.
LEMMA QueueInitInv == QueueInit => QueueIInv
<1> SUFFICES ASSUME QueueInit PROVE QueueIInv
  OBVIOUS
<1>1. /\ Len(reserved) = 0 /\ Len(taken) = 0 /\ reserved \in Seq(Nat) /\ taken \in Seq(Item)
      /\ 0 \in Index /\ RingSz \in Nat \ {0, 1} /\ 0 \in Nat
  BY RingAssumption DEF QueueInit, Index
<1>2. QueueTypeOK
  BY <1>1 DEF QueueInit, QueueTypeOK, PushAt, PopAt, Item, Callers
<1>3. SlotOf(0) = 0
  <2>1. 0 = RingSz * 0 + 0 /\ 0 \in 0..(RingSz - 1)
    BY <1>1
  <2> QED  BY <1>1, <2>1, ModUnique DEF SlotOf
<1>4. IndexInv(0)
  BY <1>1, <1>3 DEF QueueInit, IndexInv
<1>5. CallersInv(0) /\ TicketInv(0) /\ RingInv(0)
  BY <1>1 DEF QueueInit, CallersInv, PusherOK, PopperOK, TicketInv, RingInv, Callers
<1> QED  BY <1>1, <1>2, <1>4, <1>5 DEF QueueIInv

\* A step that changes nothing but the local variables of one thread, which is
\* not left with a slot of its own.
LEMMA LocalStep ==
  ASSUME QueueTypeOK, NEW p \in 0..Len(reserved), IndexInv(p), CallersInv(p), TicketInv(p), RingInv(p),
         NEW t \in Callers, QueueTypeOK',
         UNCHANGED <<rd, wr, maxRead, ring, reserved, taken>>,
         \A u \in Callers \ {t} : /\ at'[u] = at[u] /\ old'[u] = old[u]
                                  /\ held'[u] = held[u] /\ lag'[u] = lag[u],
         at'[t] \notin {"fill", "publish"},
         t \in Producers => PusherOK(t)', t \in Consumers => PopperOK(t, p)'
  PROVE  QueueIInv'
<1>1. IndexInv(p)'
  BY DEF IndexInv
<1>2. CallersInv(p)'
  BY DEF CallersInv, PusherOK, PopperOK, Callers
<1>3. TicketInv(p)'
  BY DEF TicketInv, Callers
<1>4. RingInv(p)'
  BY DEF RingInv, Callers
<1> QED  BY <1>1, <1>2, <1>3, <1>4 DEF QueueIInv

\* Where a thread is tells what kind of thread it is.
LEMMA Kinds ==
  ASSUME QueueTypeOK, NEW t \in Callers
  PROVE  /\ at[t] \in {"bound", "write", "reserve", "fill", "publish"} => t \in Producers /\ t \notin Consumers
         /\ at[t] \in {"test", "copy", "take", "read"} => t \in Consumers /\ t \notin Producers
  BY RingAssumption DEF QueueTypeOK, PushAt, PopAt, Callers

\* Push reads write_: nothing has moved since.
LEMMA ReadIndexPush ==
  ASSUME NEW t \in Callers, \/ t \in Producers /\ PushItem(t)
                            \/ ReadWrite(t),
         QueueIInv
  PROVE  QueueIInv'
<1>0. QueueTypeOK
  BY DEF QueueIInv
<1>1. PICK p \in 0..Len(reserved) : IndexInv(p) /\ CallersInv(p) /\ TicketInv(p) /\ RingInv(p)
  BY DEF QueueIInv
<1>2. t \in Producers /\ t \notin Consumers
  BY <1>0, Kinds, RingAssumption DEF ReadWrite, Move
<1>3. /\ at[t] \in {"out", "write"} /\ at'[t] = "bound" /\ old'[t] = wr /\ lag' = lag
      /\ held'[t] \in Nat
      /\ \A u \in Callers \ {t} : at'[u] = at[u] /\ old'[u] = old[u] /\ held'[u] = held[u]
      /\ UNCHANGED <<rd, wr, maxRead, ring, reserved, taken>>
  BY <1>0, <1>1, <1>2 DEF QueueTypeOK, CallersInv, PusherOK, PushItem, ReadWrite, Move
<1>4. QueueTypeOK'
  <2>1. at' \in [Callers -> PushAt \cup PopAt] /\ old' \in [Callers -> Index] /\ held' \in [Callers -> Item]
    <3>1. at' \in [Callers -> PushAt \cup PopAt]
      BY <1>0 DEF QueueTypeOK, PushItem, ReadWrite, Move, PushAt
    <3>2. old' \in [Callers -> Index]
      BY <1>0 DEF QueueTypeOK, PushItem, ReadWrite
    <3>3. held' = held \/ held' = [held EXCEPT ![t] = calls + 1]
      BY DEF PushItem, ReadWrite
    <3>4. calls + 1 \in Item
      BY <1>0 DEF QueueTypeOK, Item
    <3> QED  BY <1>0, <3>1, <3>2, <3>3, <3>4 DEF QueueTypeOK
  <2>2. calls' \in Nat
    BY <1>0 DEF QueueTypeOK, PushItem, ReadWrite
  <2>3. \A u \in Producers : at'[u] \in PushAt
    BY <1>0, <1>3 DEF QueueTypeOK, PushAt, Callers
  <2>4. \A u \in Consumers : at'[u] \in PopAt
    BY <1>0, <1>2, <1>3 DEF QueueTypeOK, Callers
  <2> QED  BY <1>0, <1>3, <2>1, <2>2, <2>3, <2>4 DEF QueueTypeOK
<1>5. PusherOK(t)'
  <2>1. lag[t] = 0 /\ Len(reserved) \in Nat /\ wr = SlotOf(Len(reserved))
    BY <1>0, <1>1, <1>2, <1>3, Counts DEF CallersInv, PusherOK, IndexInv
  <2>2. Len(reserved) - 0 = Len(reserved)
    BY <2>1
  <2> QED  BY <1>3, <2>1, <2>2 DEF PusherOK
<1> QED  BY <1>0, <1>1, <1>2, <1>3, <1>4, <1>5, LocalStep

\* Push tests whether the ring is full: if write_ has not moved there is room.
LEMMA ReadBoundInv ==
  ASSUME NEW t \in Callers, ReadBound(t), QueueIInv
  PROVE  QueueIInv'
<1>0. QueueTypeOK
  BY DEF QueueIInv
<1>1. PICK p \in 0..Len(reserved) : IndexInv(p) /\ CallersInv(p) /\ TicketInv(p) /\ RingInv(p)
  BY DEF QueueIInv
<1>2. at[t] = "bound" /\ t \in Producers /\ t \notin Consumers
  BY <1>0, Kinds DEF ReadBound, Return, Move
<1>3. /\ \A u \in Callers \ {t} : at'[u] = at[u] /\ old'[u] = old[u] /\ held'[u] = held[u] /\ lag'[u] = lag[u]
      /\ UNCHANGED <<rd, wr, maxRead, ring, reserved, taken, calls>>
      /\ \/ at'[t] = "out" /\ lag'[t] = 0
         \/ at'[t] = "reserve" /\ old' = old /\ held' = held /\ lag' = lag /\ After(old[t]) # rd
  BY <1>0 DEF QueueTypeOK, ReadBound, Return, Move
<1>4. QueueTypeOK'
  <2>1. at' \in [Callers -> PushAt \cup PopAt]
    BY <1>0 DEF QueueTypeOK, ReadBound, Return, Move, PushAt
  <2>2. old' \in [Callers -> Index] /\ held' \in [Callers -> Item] /\ lag' \in [Callers -> Nat]
    <3>1. 0 \in Index /\ Unset \in Item /\ 0 \in Nat
      BY RingAssumption DEF Index, Item
    <3> QED  BY <1>0, <3>1 DEF QueueTypeOK, ReadBound, Return
  <2>3. \A u \in Producers : at'[u] \in PushAt
    BY <1>0, <1>3 DEF QueueTypeOK, PushAt, Callers
  <2>4. \A u \in Consumers : at'[u] \in PopAt
    BY <1>0, <1>2, <1>3 DEF QueueTypeOK, Callers
  <2> QED  BY <1>0, <1>3, <2>1, <2>2, <2>3, <2>4 DEF QueueTypeOK
<1>5. PusherOK(t)'
  <2>1. CASE at'[t] = "out" /\ lag'[t] = 0
    BY <2>1 DEF PusherOK
  <2>2. CASE at'[t] = "reserve" /\ old' = old /\ held' = held /\ lag' = lag /\ After(old[t]) # rd
    <3>1. lag[t] <= Len(reserved) /\ old[t] = SlotOf(Len(reserved) - lag[t]) /\ held[t] \in Nat
      BY <1>1, <1>2 DEF CallersInv, PusherOK
    <3>2. ASSUME lag[t] = 0 PROVE Len(reserved) + 1 - Len(taken) < RingSz
      <4>0. /\ Len(reserved) \in Nat /\ Len(taken) \in Nat /\ RingSz \in Nat
            /\ Len(taken) <= Len(reserved) /\ Len(reserved) - Len(taken) < RingSz
        BY <1>0, <1>1, Counts
      <4>1. Len(reserved) - 0 = Len(reserved)
        BY <4>0
      <4>2. After(old[t]) = SlotOf(Len(reserved) + 1) /\ rd = SlotOf(Len(taken))
        BY <1>1, <3>1, <3>2, <4>0, <4>1, SlotFacts DEF IndexInv
      <4>3. Len(reserved) + 1 # Len(taken) + RingSz
        <5>1. Len(reserved) + 1 \in Nat
          BY <4>0
        <5> QED  BY <2>2, <4>0, <4>2, <5>1, SlotFacts
      <4> QED  BY <4>0, <4>3
    <3> QED  BY <1>3, <2>2, <3>1, <3>2 DEF PusherOK
  <2> QED  BY <1>3, <2>1, <2>2
<1>6. at'[t] \notin {"fill", "publish"}
  BY <1>3
<1> QED  BY <1>0, <1>1, <1>2, <1>3, <1>4, <1>5, <1>6, LocalStep

\* Push swaps write_: it succeeds only if nothing has moved, so that there is room
\* and the slot is nobody's; otherwise the call starts again.
LEMMA ReserveSlotInv ==
  ASSUME ~lapped', NEW t \in Callers, ReserveSlot(t), QueueIInv
  PROVE  QueueIInv'
<1>0. QueueTypeOK
  BY DEF QueueIInv
<1>1. PICK p \in 0..Len(reserved) : IndexInv(p) /\ CallersInv(p) /\ TicketInv(p) /\ RingInv(p)
  BY DEF QueueIInv
<1>2. at[t] = "reserve" /\ t \in Producers /\ t \notin Consumers
  BY <1>0, Kinds DEF ReserveSlot, Move
<1>3. /\ Len(reserved) \in Nat /\ Len(taken) \in Nat /\ p \in Nat /\ RingSz \in Nat
      /\ Len(taken) <= p /\ p <= Len(reserved) /\ Len(reserved) - Len(taken) < RingSz
      /\ \A u \in Callers : lag[u] \in Nat
  BY <1>0, <1>1, Counts
<1>4. /\ lag[t] <= Len(reserved) /\ old[t] = SlotOf(Len(reserved) - lag[t]) /\ held[t] \in Nat
      /\ lag[t] = 0 => Len(reserved) + 1 - Len(taken) < RingSz
  BY <1>1, <1>2 DEF CallersInv, PusherOK
<1>t. /\ at' \in [Callers -> PushAt \cup PopAt] /\ at'[t] \in PushAt
      /\ \A u \in Callers \ {t} : at'[u] = at[u]
  BY <1>0 DEF QueueTypeOK, ReserveSlot, Move, PushAt
<1>5. CASE wr # old[t]
  <2>1. /\ at'[t] = "write" /\ lag'[t] = 0 /\ \A u \in Callers \ {t} : lag'[u] = lag[u]
        /\ UNCHANGED <<rd, wr, maxRead, ring, reserved, taken, old, held, calls>>
    BY <1>0, <1>5 DEF QueueTypeOK, ReserveSlot, Move
  <2>2. QueueTypeOK'
    <3>1. lag' \in [Callers -> Nat]
      <4>1. 0 \in Nat
        BY <1>3
      <4> QED  BY <1>0, <1>5, <4>1 DEF QueueTypeOK, ReserveSlot
    <3> QED  BY <1>0, <1>2, <1>t, <2>1, <3>1 DEF QueueTypeOK, Callers
  <2>3. PusherOK(t)'
    BY <1>4, <2>1 DEF PusherOK
  <2> QED  BY <1>0, <1>1, <1>2, <1>t, <2>1, <2>2, <2>3, LocalStep
<1>6. CASE wr = old[t]
  <2>1. /\ at'[t] = "fill" /\ wr' = After(wr) /\ reserved' = Append(reserved, held[t]) /\ Overtake(t)
        /\ UNCHANGED <<rd, maxRead, ring, taken, old, held, calls>>
    BY <1>0, <1>6 DEF QueueTypeOK, ReserveSlot, Move
  <2>2. lag[t] = 0 /\ wr = SlotOf(Len(reserved))
    <3>0. ~(lag[t] >= RingSz)
      BY <2>1, Zenon DEF Overtake
    <3>1. Len(reserved) - lag[t] \in Nat /\ Len(reserved) - (Len(reserved) - lag[t]) = lag[t] /\ lag[t] < RingSz
      BY <1>3, <1>4, <3>0
    <3>2. wr = SlotOf(Len(reserved))
      BY <1>1 DEF IndexInv
    <3>3. PICK m \in Nat : m = Len(reserved) - lag[t]
      BY <3>1
    <3>4. m <= Len(reserved) /\ Len(reserved) - m < RingSz /\ SlotOf(m) = SlotOf(Len(reserved))
      BY <1>3, <1>4, <1>6, <3>1, <3>2, <3>3
    <3>5. m = Len(reserved)
      BY <1>3, <3>4, SlotFacts
    <3> QED  BY <1>3, <3>2, <3>3, <3>5
  <2>3. Len(reserved) + 1 - Len(taken) < RingSz
    BY <1>4, <2>2
  <2>4. /\ reserved' \in Seq(Nat) /\ Len(reserved') = Len(reserved) + 1
        /\ reserved'[Len(reserved) + 1] = held[t]
        /\ \A i \in 1..Len(reserved) : reserved'[i] = reserved[i]
    BY <1>0, <1>4, <2>1, AppendProperties DEF QueueTypeOK
  <2>5. /\ lag'[t] = 0
        /\ \A u \in Callers \ {t} :
             IF at[u] \in {"bound", "reserve"} THEN lag'[u] = lag[u] + 1
                                               ELSE lag'[u] = lag[u]
    BY <1>2, <2>1 DEF Overtake, Watching
  <2>6. QueueTypeOK'
    <3>1. lag' \in [Callers -> Nat]
      <4>1. \A u \in Callers : lag'[u] \in Nat
        BY <1>3, <2>5
      <4>2. lag' = [u \in Callers |-> lag'[u]]
        BY <2>1 DEF Overtake
      <4> QED  BY <4>1, <4>2
    <3>2. wr' \in Index
      <4>1. wr' = SlotOf(Len(reserved) + 1) /\ Len(reserved) + 1 \in Nat
        BY <1>3, <2>1, <2>2, SlotFacts
      <4> QED  BY <4>1, SlotFacts
    <3> QED  BY <1>0, <1>2, <1>t, <2>1, <2>4, <3>1, <3>2 DEF QueueTypeOK, Callers
  <2>7. IndexInv(p)'
    <3>1. wr' = SlotOf(Len(reserved) + 1)
      BY <1>3, <2>1, <2>2, SlotFacts
    <3> QED  BY <1>1, <1>3, <2>1, <2>3, <2>4, <3>1 DEF IndexInv
  <2>8. CallersInv(p)'
    <3>1. ASSUME NEW u \in Producers PROVE PusherOK(u)'
      <4>1. PusherOK(u) /\ u \in Callers /\ lag[u] \in Nat
        BY <1>1, <1>3 DEF CallersInv, Callers
      <4>2. CASE u = t
        BY <1>4, <2>1, <2>5, <4>2 DEF PusherOK
      <4>3. CASE u # t /\ at[u] \in {"bound", "reserve"}
        <5>1. at'[u] = at[u] /\ lag'[u] = lag[u] + 1 /\ lag'[u] # 0
          BY <1>t, <2>5, <4>1, <4>3
        <5>2. (Len(reserved) + 1) - (lag[u] + 1) = Len(reserved) - lag[u]
          BY <1>3, <4>1
        <5>3. lag[u] + 1 <= Len(reserved) + 1
          BY <1>3, <4>1, <4>3 DEF PusherOK
        <5> QED  BY <2>1, <2>4, <4>1, <4>3, <5>1, <5>2, <5>3 DEF PusherOK
      <4>4. CASE u # t /\ at[u] \notin {"bound", "reserve"}
        BY <1>t, <2>1, <2>5, <4>1, <4>4 DEF PusherOK
      <4> QED  BY <4>2, <4>3, <4>4
    <3>2. ASSUME NEW u \in Consumers PROVE PopperOK(u, p)'
      <4>1. PopperOK(u, p) /\ u \in Callers \ {t} /\ at[u] \in PopAt
        BY <1>0, <1>1, <1>2 DEF CallersInv, Callers, QueueTypeOK
      <4>2. at'[u] = at[u] /\ lag'[u] = lag[u]
        BY <1>t, <2>5, <4>1 DEF PopAt
      <4>3. Len(taken) < p => reserved'[Len(taken) + 1] = reserved[Len(taken) + 1]
        <5>1. Len(taken) < p => Len(taken) + 1 \in 1..Len(reserved)
          BY <1>3
        <5> QED  BY <2>4, <5>1
      <4> QED  BY <2>1, <4>1, <4>2, <4>3 DEF PopperOK
    <3> QED  BY <3>1, <3>2 DEF CallersInv
  <2>9. TicketInv(p)'
    <3>1. ASSUME NEW u \in Producers \ {t}, at[u] \in {"fill", "publish"}
          PROVE  /\ \E n \in p..(Len(reserved') - 1) : old'[u] = SlotOf(n) /\ held'[u] = reserved'[n + 1]
                 /\ old[u] # old[t]
      <4>1. PICK n \in p..(Len(reserved) - 1) : old[u] = SlotOf(n) /\ held[u] = reserved[n + 1]
        BY <1>1, <3>1 DEF TicketInv
      <4>2. n \in Nat /\ n + 1 \in 1..Len(reserved) /\ n \in p..(Len(reserved') - 1)
        BY <1>3, <2>4, <4>1
      <4>3. SlotOf(n) # SlotOf(Len(reserved))
        <5>1. n <= Len(reserved) /\ Len(reserved) - n < RingSz /\ n # Len(reserved)
          BY <1>3, <4>1
        <5> QED  BY <1>3, <4>2, <5>1, SlotFacts
      <4> QED  BY <1>6, <2>1, <2>2, <2>4, <4>1, <4>2, <4>3
    <3>2. \E n \in p..(Len(reserved') - 1) : old'[t] = SlotOf(n) /\ held'[t] = reserved'[n + 1]
      <4>1. Len(reserved) \in p..(Len(reserved') - 1)
        BY <1>3, <2>4
      <4> QED  BY <1>6, <2>1, <2>2, <2>4, <4>1
    <3>3. \A u \in Producers \ {t} : at'[u] = at[u]
      BY <1>t DEF Callers
    <3>4. \A u \in Producers : at'[u] \in {"fill", "publish"} =>
            \E n \in p..(Len(reserved') - 1) : old'[u] = SlotOf(n) /\ held'[u] = reserved'[n + 1]
      BY <3>1, <3>2, <3>3
    <3>5. \A u, v \in Producers :
            at'[u] \in {"fill", "publish"} /\ at'[v] \in {"fill", "publish"} /\ old'[u] = old'[v] => u = v
      BY <1>1, <2>1, <3>1, <3>3 DEF TicketInv
    <3> QED  BY <3>4, <3>5 DEF TicketInv
  <2>10. RingInv(p)'
    <3>1. \A i \in 1..Len(taken) : taken[i] = reserved'[i]
      <4>1. \A i \in 1..Len(taken) : i \in 1..Len(reserved)
        BY <1>3
      <4> QED  BY <1>1, <2>4, <4>1 DEF RingInv
    <3>2. \A n \in Len(taken)..(p - 1) : ring[SlotOf(n)] = reserved'[n + 1]
      <4>1. \A n \in Len(taken)..(p - 1) : n + 1 \in 1..Len(reserved)
        BY <1>3
      <4> QED  BY <1>1, <2>4, <4>1 DEF RingInv
    <3>3. \A u \in Producers : at'[u] = "publish" => at[u] = "publish"
      BY <1>t, <2>1 DEF Callers
    <3> QED  BY <1>1, <2>1, <3>1, <3>2, <3>3 DEF RingInv
  <2>11. p \in 0..Len(reserved')
    BY <1>3, <2>4
  <2> QED  BY <2>6, <2>7, <2>8, <2>9, <2>10, <2>11 DEF QueueIInv
<1> QED  BY <1>5, <1>6

\* Push fills its slot, which is no other thread's and holds no published item.
LEMMA FillSlotInv ==
  ASSUME NEW t \in Callers, FillSlot(t), QueueIInv
  PROVE  QueueIInv'
<1>0. QueueTypeOK
  BY DEF QueueIInv
<1>1. PICK p \in 0..Len(reserved) : IndexInv(p) /\ CallersInv(p) /\ TicketInv(p) /\ RingInv(p)
  BY DEF QueueIInv
<1>2. at[t] = "fill" /\ t \in Producers /\ t \notin Consumers
  BY <1>0, Kinds DEF FillSlot, Move
<1>3. /\ Len(reserved) \in Nat /\ Len(taken) \in Nat /\ p \in Nat /\ RingSz \in Nat
      /\ Len(taken) <= p /\ p <= Len(reserved) /\ Len(reserved) - Len(taken) < RingSz
      /\ old[t] \in Index /\ held[t] \in Item
  BY <1>0, <1>1, Counts
<1>4. /\ at'[t] = "publish" /\ \A u \in Callers \ {t} : at'[u] = at[u]
      /\ UNCHANGED <<rd, wr, maxRead, reserved, taken, old, held, lag, calls>>
      /\ ring'[old[t]] = held[t] /\ \A i \in Index : i # old[t] => ring'[i] = ring[i]
  BY <1>0, <1>3 DEF QueueTypeOK, FillSlot, Move
<1>5. QueueTypeOK'
  <2>1. at' \in [Callers -> PushAt \cup PopAt] /\ ring' \in [Index -> Item]
    BY <1>0, <1>3 DEF QueueTypeOK, FillSlot, Move, PushAt
  <2> QED  BY <1>0, <1>2, <1>4, <2>1 DEF QueueTypeOK, Callers, PushAt
<1>6. IndexInv(p)'
  BY <1>1, <1>4 DEF IndexInv
<1>7. CallersInv(p)'
  <2>1. ASSUME NEW u \in Producers PROVE PusherOK(u)'
    BY <1>1, <1>2, <1>4 DEF CallersInv, PusherOK, Callers
  <2>2. ASSUME NEW u \in Consumers PROVE PopperOK(u, p)'
    BY <1>1, <1>2, <1>4 DEF CallersInv, PopperOK, Callers
  <2> QED  BY <2>1, <2>2 DEF CallersInv
<1>8. TicketInv(p)'
  <2>1. \A u \in Producers : at'[u] \in {"fill", "publish"} <=> at[u] \in {"fill", "publish"}
    BY <1>2, <1>4 DEF Callers
  <2> QED  BY <1>1, <1>4, <2>1 DEF TicketInv
<1>9. RingInv(p)'
  <2>1. ASSUME NEW n \in Len(taken)..(p - 1) PROVE ring'[SlotOf(n)] = reserved[n + 1]
    <3>1. PICK m \in p..(Len(reserved) - 1) : old[t] = SlotOf(m)
      BY <1>1, <1>2 DEF TicketInv
    <3>2. n \in Nat /\ m \in Nat /\ n <= m /\ m - n < RingSz /\ n # m
      BY <1>3
    <3>3. SlotOf(n) # old[t] /\ SlotOf(n) \in Index
      BY <3>1, <3>2, SlotFacts
    <3> QED  BY <1>1, <1>4, <3>3 DEF RingInv
  <2>2. ASSUME NEW u \in Producers, at'[u] = "publish" PROVE ring'[old[u]] = held[u]
    <3>1. CASE u = t
      BY <1>4, <3>1
    <3>2. CASE u # t
      <4>1. at[u] = "publish" /\ old[u] # old[t] /\ old[u] \in Index
        BY <1>0, <1>1, <1>2, <1>4, <2>2, <3>2 DEF TicketInv, Callers, QueueTypeOK
      <4> QED  BY <1>1, <1>4, <4>1 DEF RingInv
    <3> QED  BY <3>1, <3>2
  <2> QED  BY <1>1, <1>4, <2>1, <2>2 DEF RingInv
<1> QED  BY <1>4, <1>5, <1>6, <1>7, <1>8, <1>9 DEF QueueIInv

\* Push publishes its slot when all earlier ones are published: it is the next one.
LEMMA PublishInv ==
  ASSUME NEW t \in Callers, Publish(t), QueueIInv
  PROVE  QueueIInv'
<1>0. QueueTypeOK
  BY DEF QueueIInv
<1>1. PICK p \in 0..Len(reserved) : IndexInv(p) /\ CallersInv(p) /\ TicketInv(p) /\ RingInv(p)
  BY DEF QueueIInv
<1>2. at[t] = "publish" /\ t \in Producers /\ t \notin Consumers
  BY <1>0, Kinds DEF Publish, Return, Move
<1>3. /\ Len(reserved) \in Nat /\ Len(taken) \in Nat /\ p \in Nat /\ RingSz \in Nat
      /\ Len(taken) <= p /\ p <= Len(reserved) /\ Len(reserved) - Len(taken) < RingSz
  BY <1>0, <1>1, Counts
<1>4. /\ at'[t] = "out"
      /\ \A u \in Callers \ {t} : at'[u] = at[u] /\ old'[u] = old[u] /\ held'[u] = held[u]
      /\ UNCHANGED <<rd, wr, ring, reserved, taken, lag, calls>>
      /\ maxRead = old[t] /\ maxRead' = After(maxRead)
  BY <1>0 DEF QueueTypeOK, Publish, Return, Move
<1>5. old[t] = SlotOf(p) /\ held[t] = reserved[p + 1] /\ p < Len(reserved)
  <2>1. PICK m \in p..(Len(reserved) - 1) : old[t] = SlotOf(m) /\ held[t] = reserved[m + 1]
    BY <1>1, <1>2 DEF TicketInv
  <2>2. maxRead = SlotOf(p)
    BY <1>1 DEF IndexInv
  <2>3. m \in Nat /\ p <= m /\ m - p < RingSz
    BY <1>3
  <2>4. m = p
    BY <1>3, <1>4, <2>1, <2>2, <2>3, SlotFacts
  <2> QED  BY <1>3, <2>1, <2>4
<1>6. QueueTypeOK'
  <2>1. at' \in [Callers -> PushAt \cup PopAt]
    BY <1>0 DEF QueueTypeOK, Publish, Return, Move, PushAt
  <2>2. old' \in [Callers -> Index] /\ held' \in [Callers -> Item]
    <3>1. 0 \in Index /\ Unset \in Item
      BY RingAssumption DEF Index, Item
    <3> QED  BY <1>0, <3>1 DEF QueueTypeOK, Publish, Return
  <2>3. maxRead' \in Index
    BY <1>3, <1>4, <1>5, SlotFacts
  <2>4. (\A u \in Producers : at'[u] \in PushAt) /\ (\A u \in Consumers : at'[u] \in PopAt)
    BY <1>0, <1>2, <1>4 DEF QueueTypeOK, Callers, PushAt
  <2> QED  BY <1>0, <1>4, <2>1, <2>2, <2>3, <2>4 DEF QueueTypeOK
<1> DEFINE q == p + 1
<1>q. q \in 0..Len(reserved) /\ q = p + 1 /\ q - 1 = p
  BY <1>3, <1>5
<1> HIDE DEF q
<1>7. IndexInv(q)'
  <2>1. maxRead' = SlotOf(q)
    BY <1>3, <1>4, <1>5, <1>q, SlotFacts
  <2> QED  BY <1>1, <1>3, <1>4, <1>5, <1>q, <2>1 DEF IndexInv
<1>8. CallersInv(q)'
  <2>1. ASSUME NEW u \in Producers PROVE PusherOK(u)'
    BY <1>1, <1>2, <1>4 DEF CallersInv, PusherOK, Callers
  <2>2. ASSUME NEW u \in Consumers PROVE PopperOK(u, q)'
    <3>1. PopperOK(u, p) /\ u \in Callers \ {t}
      BY <1>1, <1>2 DEF CallersInv, Callers
    <3>2. Len(taken) < p => Len(taken) < q
      BY <1>3, <1>q
    <3> QED  BY <1>4, <3>1, <3>2 DEF PopperOK
  <2> QED  BY <2>1, <2>2 DEF CallersInv
<1>9. TicketInv(q)'
  <2>1. \A u \in Producers : at'[u] \in {"fill", "publish"} =>
          u # t /\ at[u] = at'[u] /\ old'[u] = old[u] /\ held'[u] = held[u]
    BY <1>4 DEF Callers
  <2>2. ASSUME NEW u \in Producers, at'[u] \in {"fill", "publish"}
        PROVE  \E n \in q..(Len(reserved) - 1) : old'[u] = SlotOf(n) /\ held'[u] = reserved[n + 1]
    <3>1. PICK n \in p..(Len(reserved) - 1) : old[u] = SlotOf(n) /\ held[u] = reserved[n + 1]
      BY <1>1, <2>1, <2>2 DEF TicketInv
    <3>2. old[u] # old[t]
      BY <1>1, <1>2, <2>1, <2>2 DEF TicketInv
    <3>3. n # p
      BY <1>5, <3>1, <3>2
    <3>4. n \in q..(Len(reserved) - 1)
      BY <1>3, <1>q, <3>3
    <3> QED  BY <2>1, <2>2, <3>1, <3>4
  <2>3. \A u, v \in Producers :
          at'[u] \in {"fill", "publish"} /\ at'[v] \in {"fill", "publish"} /\ old'[u] = old'[v] => u = v
    BY <1>1, <2>1 DEF TicketInv
  <2> QED  BY <1>4, <2>2, <2>3 DEF TicketInv
<1>10. RingInv(q)'
  <2>1. ring[SlotOf(p)] = reserved[p + 1]
    BY <1>1, <1>2, <1>5 DEF RingInv
  <2>2. \A n \in Len(taken)..(q - 1) : ring[SlotOf(n)] = reserved[n + 1]
    <3>1. \A n \in Len(taken)..(q - 1) : n = p \/ n \in Len(taken)..(p - 1)
      BY <1>3, <1>q
    <3> QED  BY <1>1, <2>1, <3>1 DEF RingInv
  <2>3. \A u \in Producers : at'[u] = "publish" =>
          at[u] = "publish" /\ old'[u] = old[u] /\ held'[u] = held[u]
    BY <1>4 DEF Callers
  <2> QED  BY <1>1, <1>4, <2>2, <2>3 DEF RingInv
<1>11. q \in 0..Len(reserved')
  BY <1>4, <1>q
<1> QED  BY <1>6, <1>7, <1>8, <1>9, <1>10, <1>11 DEF QueueIInv

\* Pop reads read_: nothing has moved since.
LEMMA ReadIndexPop ==
  ASSUME NEW t \in Callers, \/ t \in Consumers /\ PopItem(t)
                            \/ ReadRead(t),
         QueueIInv
  PROVE  QueueIInv'
<1>0. QueueTypeOK
  BY DEF QueueIInv
<1>1. PICK p \in 0..Len(reserved) : IndexInv(p) /\ CallersInv(p) /\ TicketInv(p) /\ RingInv(p)
  BY DEF QueueIInv
<1>2. t \in Consumers /\ t \notin Producers
  BY <1>0, Kinds, RingAssumption DEF ReadRead, Move
<1>3. /\ at[t] \in {"out", "read"} /\ at'[t] = "test" /\ old'[t] = rd
      /\ \A u \in Callers \ {t} : at'[u] = at[u] /\ old'[u] = old[u]
      /\ UNCHANGED <<rd, wr, maxRead, ring, held, lag, calls, reserved, taken>>
  BY <1>0 DEF QueueTypeOK, PopItem, ReadRead, Move
<1>4. QueueTypeOK'
  <2>1. at' \in [Callers -> PushAt \cup PopAt] /\ old' \in [Callers -> Index]
    BY <1>0 DEF QueueTypeOK, PopItem, ReadRead, Move, PopAt
  <2>2. (\A u \in Producers : at'[u] \in PushAt) /\ (\A u \in Consumers : at'[u] \in PopAt)
    BY <1>0, <1>2, <1>3 DEF QueueTypeOK, Callers, PopAt
  <2> QED  BY <1>0, <1>3, <2>1, <2>2 DEF QueueTypeOK
<1>5. PopperOK(t, p)'
  <2>1. lag[t] = 0 /\ Len(taken) \in Nat /\ rd = SlotOf(Len(taken))
    BY <1>0, <1>1, <1>2, <1>3, Counts DEF CallersInv, PopperOK, IndexInv
  <2>2. Len(taken) - 0 = Len(taken)
    BY <2>1
  <2> QED  BY <1>3, <2>1, <2>2 DEF PopperOK
<1> QED  BY <1>0, <1>1, <1>2, <1>3, <1>4, <1>5, LocalStep

\* Pop tests whether a slot is published: if read_ has not moved, one is.
LEMMA TestEmptyInv ==
  ASSUME NEW t \in Callers, TestEmptyRing(t), QueueIInv
  PROVE  QueueIInv'
<1>0. QueueTypeOK
  BY DEF QueueIInv
<1>1. PICK p \in 0..Len(reserved) : IndexInv(p) /\ CallersInv(p) /\ TicketInv(p) /\ RingInv(p)
  BY DEF QueueIInv
<1>2. at[t] = "test" /\ t \in Consumers /\ t \notin Producers
  BY <1>0, Kinds DEF TestEmptyRing, Return, Move
<1>3. /\ \A u \in Callers \ {t} : at'[u] = at[u] /\ old'[u] = old[u] /\ held'[u] = held[u] /\ lag'[u] = lag[u]
      /\ UNCHANGED <<rd, wr, maxRead, ring, reserved, taken, calls>>
      /\ \/ at'[t] = "out" /\ lag'[t] = 0
         \/ at'[t] = "copy" /\ old' = old /\ lag' = lag /\ old[t] # maxRead
  BY <1>0 DEF QueueTypeOK, TestEmptyRing, Return, Move
<1>4. QueueTypeOK'
  <2>1. at' \in [Callers -> PushAt \cup PopAt]
    BY <1>0 DEF QueueTypeOK, TestEmptyRing, Return, Move, PopAt
  <2>2. old' \in [Callers -> Index] /\ held' \in [Callers -> Item] /\ lag' \in [Callers -> Nat]
    <3>1. 0 \in Index /\ Unset \in Item /\ 0 \in Nat
      BY RingAssumption DEF Index, Item
    <3> QED  BY <1>0, <3>1 DEF QueueTypeOK, TestEmptyRing, Return
  <2>3. (\A u \in Producers : at'[u] \in PushAt) /\ (\A u \in Consumers : at'[u] \in PopAt)
    BY <1>0, <1>2, <1>3 DEF QueueTypeOK, Callers, PopAt
  <2> QED  BY <1>0, <1>3, <2>1, <2>2, <2>3 DEF QueueTypeOK
<1>5. PopperOK(t, p)'
  <2>1. CASE at'[t] = "out" /\ lag'[t] = 0
    BY <2>1 DEF PopperOK
  <2>2. CASE at'[t] = "copy" /\ old' = old /\ lag' = lag /\ old[t] # maxRead
    <3>0. Len(taken) \in Nat /\ p \in Nat /\ Len(taken) <= p
      BY <1>0, <1>1, Counts
    <3>1. lag[t] <= Len(taken) /\ old[t] = SlotOf(Len(taken) - lag[t])
      BY <1>1, <1>2 DEF CallersInv, PopperOK
    <3>2. lag[t] = 0 => Len(taken) # p
      <4>1. Len(taken) - 0 = Len(taken)
        BY <3>0
      <4> QED  BY <1>1, <2>2, <3>1, <4>1 DEF IndexInv
    <3>3. lag[t] = 0 => Len(taken) < p
      BY <3>0, <3>2
    <3> QED  BY <1>3, <2>2, <3>1, <3>3 DEF PopperOK
  <2> QED  BY <1>3, <2>1, <2>2
<1>6. at'[t] \notin {"fill", "publish"}
  BY <1>3
<1> QED  BY <1>0, <1>1, <1>2, <1>3, <1>4, <1>5, <1>6, LocalStep

\* Pop copies the slot before it owns it: if read_ has not moved the copy is right.
LEMMA CopySlotInv ==
  ASSUME NEW t \in Callers, CopySlot(t), QueueIInv
  PROVE  QueueIInv'
<1>0. QueueTypeOK
  BY DEF QueueIInv
<1>1. PICK p \in 0..Len(reserved) : IndexInv(p) /\ CallersInv(p) /\ TicketInv(p) /\ RingInv(p)
  BY DEF QueueIInv
<1>2. at[t] = "copy" /\ t \in Consumers /\ t \notin Producers
  BY <1>0, Kinds DEF CopySlot, Move
<1>3. /\ at'[t] = "take" /\ held'[t] = ring[old[t]]
      /\ \A u \in Callers \ {t} : at'[u] = at[u] /\ held'[u] = held[u]
      /\ UNCHANGED <<rd, wr, maxRead, ring, old, lag, calls, reserved, taken>>
  BY <1>0 DEF QueueTypeOK, CopySlot, Move
<1>4. QueueTypeOK'
  <2>1. at' \in [Callers -> PushAt \cup PopAt] /\ held' \in [Callers -> Item]
    BY <1>0 DEF QueueTypeOK, CopySlot, Move, PopAt
  <2>2. (\A u \in Producers : at'[u] \in PushAt) /\ (\A u \in Consumers : at'[u] \in PopAt)
    BY <1>0, <1>2, <1>3 DEF QueueTypeOK, Callers, PopAt
  <2> QED  BY <1>0, <1>3, <2>1, <2>2 DEF QueueTypeOK
<1>5. PopperOK(t, p)'
  <2>0. Len(taken) \in Nat /\ p \in Nat /\ Len(taken) - 0 = Len(taken)
    BY <1>0, <1>1, Counts
  <2>1. /\ lag[t] <= Len(taken) /\ old[t] = SlotOf(Len(taken) - lag[t])
        /\ lag[t] = 0 => Len(taken) < p
    BY <1>1, <1>2 DEF CallersInv, PopperOK
  <2>2. lag[t] = 0 => held'[t] = reserved[Len(taken) + 1]
    <3>1. lag[t] = 0 => Len(taken) \in Len(taken)..(p - 1)
      BY <2>0, <2>1
    <3> QED  BY <1>1, <1>3, <2>0, <2>1, <3>1 DEF RingInv
  <2> QED  BY <1>3, <2>1, <2>2 DEF PopperOK
<1> QED  BY <1>0, <1>1, <1>2, <1>3, <1>4, <1>5, LocalStep

\* Pop swaps read_: it succeeds only if nothing has moved, so that the item it
\* copied is the next one; otherwise the call starts again.
LEMMA TakeItemInv ==
  ASSUME ~lapped', NEW t \in Callers, TakeItem(t), QueueIInv
  PROVE  QueueIInv'
<1>0. QueueTypeOK
  BY DEF QueueIInv
<1>1. PICK p \in 0..Len(reserved) : IndexInv(p) /\ CallersInv(p) /\ TicketInv(p) /\ RingInv(p)
  BY DEF QueueIInv
<1>2. at[t] = "take" /\ t \in Consumers /\ t \notin Producers
  BY <1>0, Kinds DEF TakeItem, Return, Move
<1>3. /\ Len(reserved) \in Nat /\ Len(taken) \in Nat /\ p \in Nat /\ RingSz \in Nat
      /\ Len(taken) <= p /\ p <= Len(reserved) /\ Len(reserved) - Len(taken) < RingSz
      /\ \A u \in Callers : lag[u] \in Nat
      /\ 0 \in Nat /\ 0 \in Index /\ Unset \in Item
  BY <1>0, <1>1, Counts, RingAssumption DEF Index, Item
<1>4. /\ lag[t] <= Len(taken) /\ old[t] = SlotOf(Len(taken) - lag[t])
      /\ lag[t] = 0 => Len(taken) < p /\ held[t] = reserved[Len(taken) + 1]
  BY <1>1, <1>2 DEF CallersInv, PopperOK
<1>t. /\ at' \in [Callers -> PushAt \cup PopAt] /\ held' \in [Callers -> Item]
      /\ old' \in [Callers -> Index]
      /\ \A u \in Callers \ {t} : at'[u] = at[u] /\ held'[u] = held[u] /\ old'[u] = old[u]
      /\ at'[t] \in {"out", "read"}
  BY <1>0, <1>3 DEF QueueTypeOK, TakeItem, Return, Move, PopAt
<1>u. (\A u \in Producers : at'[u] \in PushAt) /\ (\A u \in Consumers : at'[u] \in PopAt)
  BY <1>0, <1>2, <1>t DEF QueueTypeOK, Callers, PopAt
<1>5. CASE rd # old[t]
  <2>1. /\ at'[t] = "read" /\ lag'[t] = 0 /\ \A u \in Callers \ {t} : lag'[u] = lag[u]
        /\ UNCHANGED <<rd, wr, maxRead, ring, reserved, taken, calls>>
    BY <1>0, <1>5 DEF QueueTypeOK, TakeItem, Move
  <2>2. QueueTypeOK'
    <3>1. lag' \in [Callers -> Nat]
      <4>1. lag' = [lag EXCEPT ![t] = 0] /\ 0 \in Nat
        BY <1>3, <1>5 DEF TakeItem
      <4> QED  BY <1>0, <4>1 DEF QueueTypeOK
    <3> QED  BY <1>0, <1>t, <1>u, <2>1, <3>1 DEF QueueTypeOK
  <2>3. PopperOK(t, p)'
    BY <2>1 DEF PopperOK
  <2> QED  BY <1>0, <1>1, <1>2, <1>t, <2>1, <2>2, <2>3, LocalStep
<1>6. CASE rd = old[t]
  <2>1. /\ at'[t] = "out" /\ rd' = After(rd) /\ taken' = Append(taken, held[t]) /\ Overtake(t)
        /\ UNCHANGED <<wr, maxRead, ring, calls, reserved>>
    BY <1>0, <1>6 DEF QueueTypeOK, TakeItem, Return, Move
  <2>2. lag[t] = 0 /\ rd = SlotOf(Len(taken))
    <3>0. ~(lag[t] >= RingSz)
      BY <2>1, Zenon DEF Overtake
    <3>1. Len(taken) - lag[t] \in Nat /\ Len(taken) - (Len(taken) - lag[t]) = lag[t] /\ lag[t] < RingSz
      BY <1>3, <1>4, <3>0
    <3>2. rd = SlotOf(Len(taken))
      BY <1>1 DEF IndexInv
    <3>3. PICK m \in Nat : m = Len(taken) - lag[t]
      BY <3>1
    <3>4. m <= Len(taken) /\ Len(taken) - m < RingSz /\ SlotOf(m) = SlotOf(Len(taken))
      BY <1>3, <1>4, <1>6, <3>1, <3>2, <3>3
    <3>5. m = Len(taken)
      BY <1>3, <3>4, SlotFacts
    <3> QED  BY <1>3, <3>2, <3>3, <3>5
  <2>3. Len(taken) < p /\ held[t] = reserved[Len(taken) + 1] /\ held[t] \in Item
    BY <1>0, <1>4, <2>2 DEF QueueTypeOK
  <2>4. /\ taken' \in Seq(Item) /\ Len(taken') = Len(taken) + 1
        /\ taken'[Len(taken) + 1] = held[t]
        /\ \A i \in 1..Len(taken) : taken'[i] = taken[i]
    BY <1>0, <2>1, <2>3, AppendProperties DEF QueueTypeOK
  <2>5. /\ lag'[t] = 0
        /\ \A u \in Callers \ {t} :
             IF at[u] \in {"test", "copy", "take"} THEN lag'[u] = lag[u] + 1
                                                   ELSE lag'[u] = lag[u]
    BY <1>2, <2>1 DEF Overtake, Watching
  <2>6. QueueTypeOK'
    <3>1. lag' \in [Callers -> Nat]
      <4>1. \A u \in Callers : lag'[u] \in Nat
        BY <1>3, <2>5
      <4>2. lag' = [u \in Callers |-> lag'[u]]
        BY <2>1 DEF Overtake
      <4> QED  BY <4>1, <4>2
    <3>2. rd' \in Index
      <4>1. rd' = SlotOf(Len(taken) + 1) /\ Len(taken) + 1 \in Nat
        BY <1>3, <2>1, <2>2, SlotFacts
      <4> QED  BY <4>1, SlotFacts
    <3> QED  BY <1>0, <1>t, <1>u, <2>1, <2>4, <3>1, <3>2 DEF QueueTypeOK
  <2>7. IndexInv(p)'
    <3>1. rd' = SlotOf(Len(taken) + 1)
      BY <1>3, <2>1, <2>2, SlotFacts
    <3> QED  BY <1>1, <1>3, <2>1, <2>3, <2>4, <3>1 DEF IndexInv
  <2>8. CallersInv(p)'
    <3>1. ASSUME NEW u \in Producers PROVE PusherOK(u)'
      <4>1. PusherOK(u) /\ u \in Callers \ {t} /\ at[u] \in PushAt
        BY <1>0, <1>1, <1>2 DEF CallersInv, Callers, QueueTypeOK
      <4>2. at'[u] = at[u] /\ lag'[u] = lag[u] /\ old'[u] = old[u] /\ held'[u] = held[u]
        BY <1>t, <2>5, <4>1 DEF PushAt
      <4>3. Len(reserved) + 1 - Len(taken) < RingSz => Len(reserved) + 1 - Len(taken') < RingSz
        BY <1>3, <2>4
      <4> QED  BY <2>1, <4>1, <4>2, <4>3 DEF PusherOK
    <3>2. ASSUME NEW u \in Consumers PROVE PopperOK(u, p)'
      <4>1. PopperOK(u, p) /\ u \in Callers /\ lag[u] \in Nat
        BY <1>1, <1>3 DEF CallersInv, Callers
      <4>2. CASE u = t
        BY <2>1, <2>5, <4>2 DEF PopperOK
      <4>3. CASE u # t /\ at[u] \in {"test", "copy", "take"}
        <5>1. at'[u] = at[u] /\ old'[u] = old[u] /\ lag'[u] = lag[u] + 1 /\ lag'[u] # 0
          BY <1>t, <2>5, <4>1, <4>3
        <5>2. (Len(taken) + 1) - (lag[u] + 1) = Len(taken) - lag[u]
          BY <1>3, <4>1
        <5>3. lag[u] + 1 <= Len(taken) + 1
          BY <1>3, <4>1, <4>3 DEF PopperOK
        <5> QED  BY <2>4, <4>1, <4>3, <5>1, <5>2, <5>3 DEF PopperOK
      <4>4. CASE u # t /\ at[u] \notin {"test", "copy", "take"}
        BY <1>t, <2>1, <2>5, <4>1, <4>4 DEF PopperOK
      <4> QED  BY <4>2, <4>3, <4>4
    <3> QED  BY <3>1, <3>2 DEF CallersInv
  <2>9. TicketInv(p)'
    <3>1. \A u \in Producers : at'[u] = at[u] /\ old'[u] = old[u] /\ held'[u] = held[u]
      BY <1>2, <1>t DEF Callers
    <3>2. \A u \in Producers :
            at[u] \in {"fill", "publish"} =>
              \E n \in p..(Len(reserved) - 1) : old[u] = SlotOf(n) /\ held[u] = reserved[n + 1]
      BY <1>1, Zenon DEF TicketInv
    <3>3. \A u, v \in Producers :
            at[u] \in {"fill", "publish"} /\ at[v] \in {"fill", "publish"} /\ old[u] = old[v]
              => u = v
      BY <1>1, Zenon DEF TicketInv
    <3>4. reserved' = reserved
      BY <2>1
    <3>5. \A u \in Producers :
            at'[u] \in {"fill", "publish"} =>
              \E n \in p..(Len(reserved) - 1) : old'[u] = SlotOf(n) /\ held'[u] = reserved[n + 1]
      BY <3>1, <3>2
    <3>6. \A u, v \in Producers :
            at'[u] \in {"fill", "publish"} /\ at'[v] \in {"fill", "publish"} /\ old'[u] = old'[v]
              => u = v
      BY <3>1, <3>3
    <3> QED  BY <3>4, <3>5, <3>6 DEF TicketInv
  <2>10. RingInv(p)'
    <3>1. \A i \in 1..(Len(taken) + 1) : taken'[i] = reserved[i]
      <4>1. \A i \in 1..(Len(taken) + 1) : i = Len(taken) + 1 \/ i \in 1..Len(taken)
        BY <1>3
      <4> QED  BY <1>1, <2>3, <2>4, <4>1 DEF RingInv
    <3>2. \A n \in (Len(taken) + 1)..(p - 1) : ring[SlotOf(n)] = reserved[n + 1]
      <4>1. \A n \in (Len(taken) + 1)..(p - 1) : n \in Len(taken)..(p - 1)
        BY <1>3
      <4> QED  BY <1>1, <4>1 DEF RingInv
    <3>3. \A u \in Producers : at'[u] = at[u] /\ old'[u] = old[u] /\ held'[u] = held[u]
      BY <1>2, <1>t DEF Callers
    <3> QED  BY <1>1, <2>1, <2>4, <3>1, <3>2, <3>3 DEF RingInv
  <2> QED  BY <2>1, <2>6, <2>7, <2>8, <2>9, <2>10 DEF QueueIInv
<1> QED  BY <1>5, <1>6

\* QueueIInv is inductive, as long as no swap succeeds after a whole lap.
LEMMA QueueNextInv ==
  ASSUME QueueIInv, [QueueNext]_queueVars, ~lapped'
  PROVE  QueueIInv'
<1>1. CASE UNCHANGED queueVars
  BY <1>1 DEF QueueIInv, QueueTypeOK, IndexInv, CallersInv, PusherOK, PopperOK, TicketInv, RingInv,
              queueVars
<1>2. ASSUME NEW t \in Callers, QueueStep(t) PROVE QueueIInv'
  BY <1>2, ReadIndexPush, ReadBoundInv, ReserveSlotInv, FillSlotInv, PublishInv,
     ReadIndexPop, TestEmptyInv, CopySlotInv, TakeItemInv DEF QueueStep
<1>3. ASSUME NEW t \in Producers, PushItem(t) PROVE QueueIInv'
  BY <1>3, ReadIndexPush DEF Callers
<1>4. ASSUME NEW t \in Consumers, PopItem(t) PROVE QueueIInv'
  BY <1>4, ReadIndexPop DEF Callers
<1> QED  BY <1>1, <1>2, <1>3, <1>4 DEF QueueNext

\* Once a swap has succeeded after a whole lap this stays so.
LEMMA LappedStays ==
  ASSUME lapped, [QueueNext]_queueVars
  PROVE  lapped'
<1>1. CASE UNCHANGED queueVars
  BY <1>1, Zenon DEF queueVars
<1>2. ASSUME NEW t, PushItem(t) \/ PopItem(t) \/ ReadWrite(t) \/ ReadRead(t) \/ ReadBound(t)
             \/ FillSlot(t) \/ Publish(t) \/ TestEmptyRing(t) \/ CopySlot(t)
      PROVE  lapped'
  BY <1>2, Zenon DEF PushItem, PopItem, ReadWrite, ReadRead, ReadBound, FillSlot, Publish,
                     TestEmptyRing, CopySlot
<1>3. ASSUME NEW t, ReserveSlot(t) \/ TakeItem(t) PROVE lapped'
  BY <1>3, Zenon DEF ReserveSlot, TakeItem, Overtake
<1> QED  BY <1>1, <1>2, <1>3 DEF QueueNext, QueueStep

\* The invariant of the ring, for every size of it and any number of threads: it
\* holds until a swap of Push or Pop succeeds a whole lap of its index too late.
THEOREM RingInvariant == QueueSafety => []LappedOrQueueIInv
<1>1. QueueInit => LappedOrQueueIInv
  BY QueueInitInv DEF LappedOrQueueIInv
<1>2. LappedOrQueueIInv /\ [QueueNext]_queueVars => LappedOrQueueIInv'
  BY QueueNextInv, LappedStays, Zenon DEF LappedOrQueueIInv
<1> QED  BY <1>1, <1>2, PTL DEF QueueSafety

\* Pop takes the items in the order their slots were reserved, each once, and the
\* ring never holds more than fit, for any number of threads and any size of the
\* ring; the one exception is a call that slept for a whole lap of its index.
THEOREM RingIsFifo == QueueSafety => []RingFifo
<1>1. QueueIInv => RingFifo
  <2> SUFFICES ASSUME QueueIInv PROVE RingFifo
    OBVIOUS
  <2>0. QueueTypeOK
    BY DEF QueueIInv
  <2>1. PICK p \in 0..Len(reserved) : IndexInv(p) /\ CallersInv(p) /\ TicketInv(p) /\ RingInv(p)
    BY DEF QueueIInv
  <2>2. /\ Len(reserved) \in Nat /\ Len(taken) \in Nat /\ Len(taken) <= Len(reserved)
        /\ Len(reserved) - Len(taken) < RingSz
    BY <2>0, <2>1, Counts
  <2>3. SubSeq(taken, 1, Len(taken)) = SubSeq(reserved, 1, Len(taken))
    BY <2>0, <2>1, <2>2 DEF RingInv, QueueTypeOK
  <2> QED  BY <2>2, <2>3 DEF RingFifo, IsPrefix
<1>2. LappedOrQueueIInv => RingFifo
  BY <1>1, Zenon DEF LappedOrQueueIInv, RingFifo
<1> QED  BY <1>2, RingInvariant, PTL

-----------------------------------------------------------------------------
(* Per-thread memory *)

PerThreadTypes ==
  /\ built \in 0..MaxList
  /\ key \in [Threads -> 0..built]
  /\ first \in [Lists -> Nodes \cup {NIL}]
  /\ next \in [Lists -> [Nodes -> Nodes \cup {NIL}]]
  /\ number \in [Lists -> Int]
  /\ inUse \subseteq (1..built) \X Nodes
  /\ pc \in [Threads -> {"idle", "get", "count", "deq", "deqcas", "enq", "enqcas"}]
  /\ list \in [Threads -> 0..built]
  /\ node \in [Threads -> Nodes \cup {NIL}]
  /\ oldHead \in [Threads -> Nodes \cup {NIL}]
  /\ sz \in [Threads -> Int]

\* A list has one owner, and only its owner takes nodes from it.
OwnerTakes ==
  /\ \A t, u \in Threads : key[t] = key[u] /\ key[t] # NoList => t = u
  /\ \A t \in Threads : pc[t] \in {"get", "count", "deq", "deqcas"} =>
                          list[t] = key[t] /\ key[t] # NoList

\* What a taker has read of the list stays true, whatever is put in front.
TakerKnows ==
  \A t \in Threads, l \in 1..built : list[t] = l =>
    /\ pc[t] \in {"count", "deq"} => first[l] # NIL
    /\ pc[t] \in {"deq", "deqcas"} => sz[t] > 0
    /\ pc[t] = "deqcas" => node[t] \in Linked(l) /\ next[l][node[t]] = oldHead[t]

\* The next of a node about to be put back is its putter's to write.
PutterKnows ==
  \A t \in Threads : pc[t] \in {"enq", "enqcas"} =>
    /\ list[t] # NoList /\ node[t] \in Nodes
    /\ pc[t] = "enqcas" => next[list[t]][node[t]] = oldHead[t]

\* Every list is a list: no cycle, no end but NIL.
Chains == \A l \in 1..built : ListOf(Nodes, next[l], first[l], NIL, Linked(l))

PutBy(t, l, n) == pc[t] \in {"enq", "enqcas"} /\ list[t] = l /\ node[t] = n

\* No node is in two places.
Apart ==
  /\ \A l \in 1..built : \A n \in Linked(l) : <<l, n>> \notin inUse
  /\ \A t \in Threads, l \in 1..built, n \in Nodes :
       PutBy(t, l, n) => /\ n \notin Linked(l) /\ <<l, n>> \notin inUse
                         /\ \A u \in Threads : PutBy(u, l, n) => u = t
  /\ \A t \in Threads, l \in 1..built :
       key[t] = l => /\ Dummy \notin Linked(l) /\ <<l, Dummy>> \notin inUse
                     /\ \A u \in Threads : ~PutBy(u, l, Dummy)

\* No node is lost.
Covered ==
  \A l \in 1..built, n \in Nodes :
    \/ n \in Linked(l) \/ <<l, n>> \in inUse \/ \E t \in Threads : PutBy(t, l, n)
    \/ n = Dummy /\ HasDummy(l)

Counted ==
  \A l \in 1..built :
    number[l] = Cardinality(Linked(l)) + Cardinality(Putting(l)) - Cardinality(Taking(l))

PerThreadIInv ==
  /\ PerThreadTypes /\ OwnerTakes /\ TakerKnows /\ PutterKnows
  /\ Chains /\ Apart /\ Covered /\ Counted

-----------------------------------------------------------------------------
\* A list of S is linked by no more than population_ + 1 links.
LEMMA LinkedIs ==
  ASSUME NEW link, NEW p, NEW S, ListOf(Nodes, link, p, NIL, S)
  PROVE  Reached(link, p, NIL, Population + 1) = S
<1>1. IsFiniteSet(S) /\ S \in SUBSET Nodes
  BY ListFacts
<1>2. IsFiniteSet(Nodes) /\ Cardinality(Nodes) = Population + 1
  <2>1. 0 \in Int /\ Population \in Int
    BY PerThreadAssumption
  <2>2. IsFiniteSet(0..Population)
        /\ Cardinality(0..Population) = IF 0 > Population THEN 0 ELSE Population - 0 + 1
    BY <2>1, FS_Interval, Zenon
  <2> QED  BY <2>2, PerThreadAssumption DEF Nodes
<1>3. Cardinality(S) \in Nat /\ Cardinality(S) <= Population + 1
  BY <1>1, <1>2, FS_Subset, FS_CardinalityType
<1>4. PICK k \in Nat : k = Population + 1
  BY PerThreadAssumption
<1>5. Cardinality(S) <= k + 1
  BY <1>3, <1>4
<1>6. Reached(link, p, NIL, k) = S
  BY <1>5, ListReached
<1> QED  BY <1>4, <1>6

\* A step that neither changes a list nor moves a node keeps every node in its place.
LEMMA QuietStep ==
  ASSUME PerThreadIInv, UNCHANGED <<built, key, first, next, number, inUse>>,
         NEW t \in Threads,
         \A u \in Threads : u # t => pc'[u] = pc[u] /\ list'[u] = list[u] /\ node'[u] = node[u],
         \A l \in 1..built, n \in Nodes : PutBy(t, l, n)' <=> PutBy(t, l, n),
         \A l \in 1..built : t \in Putting(l)' <=> t \in Putting(l),
         \A l \in 1..built : t \in Taking(l)' <=> t \in Taking(l)
  PROVE  Chains' /\ Apart' /\ Covered' /\ Counted' /\ \A l \in 1..built : Linked(l)' = Linked(l)
<1>1. \A l : Linked(l)' = Linked(l)
  BY DEF Linked
<1>2. \A u \in Threads, l \in 1..built, n \in Nodes : PutBy(u, l, n)' <=> PutBy(u, l, n)
  <2> SUFFICES ASSUME NEW u \in Threads, NEW l \in 1..built, NEW n \in Nodes, u # t
               PROVE  PutBy(u, l, n)' <=> PutBy(u, l, n)
    OBVIOUS
  <2> QED  BY DEF PutBy
<1>3. ASSUME NEW l \in 1..built PROVE Putting(l)' = Putting(l) /\ Taking(l)' = Taking(l)
  <2>1. ASSUME NEW u \in Threads
        PROVE  (u \in Putting(l)' <=> u \in Putting(l)) /\ (u \in Taking(l)' <=> u \in Taking(l))
    <3>1. CASE u = t
      BY <3>1
    <3>2. CASE u # t
      BY <3>2 DEF Putting, Taking
    <3> QED  BY <3>1, <3>2
  <2> QED  BY <2>1 DEF Putting, Taking
<1>4. Chains'
  BY <1>1 DEF PerThreadIInv, Chains
<1>5. Apart'
  BY <1>1, <1>2, PerThreadAssumption DEF PerThreadIInv, Apart, Dummy, Nodes
<1>6. \A l : HasDummy(l)' <=> HasDummy(l)
  BY DEF HasDummy
<1>7. Covered'
  BY <1>1, <1>2, <1>6, Zenon DEF PerThreadIInv, Covered
<1>8. Counted'
  BY <1>1, <1>3 DEF PerThreadIInv, Counted
<1> QED  BY <1>1, <1>4, <1>5, <1>7, <1>8

\* The empty memory.
LEMMA PerThreadInit == MemoryInit => PerThreadIInv
<1> SUFFICES ASSUME MemoryInit PROVE PerThreadIInv
  OBVIOUS
<1> USE DEF MemoryInit
<1>1. PerThreadTypes
  BY PerThreadAssumption DEF PerThreadTypes, Lists, NoList
<1>2. OwnerTakes
  BY DEF OwnerTakes
<1>3. 1..built = {}
  OBVIOUS
<1>4. TakerKnows /\ PutterKnows
  BY DEF TakerKnows, PutterKnows
<1>5. Chains
  BY <1>3 DEF Chains
<1>6. Apart
  BY <1>3 DEF Apart
<1>7. Covered
  BY <1>3 DEF Covered
<1>8. Counted
  BY <1>3 DEF Counted
<1> QED  BY <1>1, <1>2, <1>4, <1>5, <1>6, <1>7, <1>8 DEF PerThreadIInv

\* The list of a thread that is neither idle nor without one.
LEMMA HasList ==
  ASSUME PerThreadIInv, NEW t \in Threads, pc[t] # "idle"
  PROVE  list[t] \in 1..built /\ list[t] \in Lists /\ 1..built \subseteq Lists
<1>1. list[t] # 0 /\ list[t] \in 0..built /\ built \in 0..MaxList
  BY DEF PerThreadIInv, PerThreadTypes, OwnerTakes, PutterKnows, NoList
<1> QED  BY <1>1, PerThreadAssumption DEF Lists

\* AllocBuffer on the thread's own list.
LEMMA AllocBufferInv ==
  ASSUME PerThreadIInv, NEW t \in Threads, AllocBuffer(t)
  PROVE  PerThreadIInv'
<1> USE DEF AllocBuffer, Goto
<1>1. PerThreadTypes'
  BY DEF PerThreadIInv, PerThreadTypes
<1>2. /\ \A u \in Threads : u # t => pc'[u] = pc[u] /\ list'[u] = list[u]
      /\ pc'[t] = "get" /\ list'[t] = key[t] /\ pc[t] = "idle"
      /\ UNCHANGED <<built, key, first, next, number, inUse, node, oldHead, sz>>
  BY DEF PerThreadIInv, PerThreadTypes
<1> HIDE DEF AllocBuffer, Goto
<1>3. OwnerTakes'
  BY <1>2 DEF PerThreadIInv, OwnerTakes, AllocBuffer
<1>4. Chains' /\ Apart' /\ Covered' /\ Counted' /\ \A l \in 1..built : Linked(l)' = Linked(l)
  BY <1>2, QuietStep DEF PutBy, Putting, Taking
<1>5. TakerKnows'
  BY <1>2, <1>4 DEF PerThreadIInv, TakerKnows
<1>6. PutterKnows'
  BY <1>2 DEF PerThreadIInv, PutterKnows
<1> QED  BY <1>1, <1>3, <1>4, <1>5, <1>6 DEF PerThreadIInv

\* The test of GetFreeBufferFromList.
LEMMA TestListInv ==
  ASSUME PerThreadIInv, NEW t \in Threads, TestEmpty(t)
  PROVE  PerThreadIInv'
<1> USE DEF TestEmpty, Goto, EndCall
<1>1. PerThreadTypes'
  BY DEF PerThreadIInv, PerThreadTypes, NoList
<1>2. /\ \A u \in Threads : u # t => /\ pc'[u] = pc[u] /\ list'[u] = list[u]
                                     /\ node'[u] = node[u] /\ oldHead'[u] = oldHead[u] /\ sz'[u] = sz[u]
      /\ UNCHANGED <<built, key, first, next, number, inUse>>
      /\ pc[t] = "get"
      /\ \/ pc'[t] = "idle"
         \/ pc'[t] = "count" /\ first[list[t]] # NIL /\ list'[t] = list[t]
  BY DEF PerThreadIInv, PerThreadTypes
<1> HIDE DEF TestEmpty, Goto, EndCall
<1>3. OwnerTakes'
  BY <1>2 DEF PerThreadIInv, OwnerTakes
<1>4. Chains' /\ Apart' /\ Covered' /\ Counted' /\ \A l \in 1..built : Linked(l)' = Linked(l)
  BY <1>2, QuietStep DEF PutBy, Putting, Taking
<1>5. TakerKnows'
  BY <1>2, <1>4 DEF PerThreadIInv, TakerKnows
<1>6. PutterKnows'
  BY <1>2 DEF PerThreadIInv, PutterKnows
<1> QED  BY <1>1, <1>3, <1>4, <1>5, <1>6 DEF PerThreadIInv

\* The first node and its next are read.
LEMMA ReadFirstInv ==
  ASSUME PerThreadIInv, NEW t \in Threads, ReadFirst(t)
  PROVE  PerThreadIInv'
<1>0. list[t] \in 1..built /\ list[t] \in Lists
  BY HasList DEF ReadFirst
<1> USE DEF ReadFirst, Goto
<1>1. PerThreadTypes'
  BY <1>0 DEF PerThreadIInv, PerThreadTypes
<1>2. /\ \A u \in Threads : u # t => /\ pc'[u] = pc[u] /\ node'[u] = node[u] /\ oldHead'[u] = oldHead[u]
      /\ UNCHANGED <<built, key, first, next, number, inUse, list, sz>>
      /\ pc[t] = "deq" /\ pc'[t] = "deqcas" /\ first[list[t]] # NIL
      /\ node'[t] = first[list[t]] /\ oldHead'[t] = next[list[t]][first[list[t]]]
  BY DEF PerThreadIInv, PerThreadTypes
<1> HIDE DEF ReadFirst, Goto
<1>3. OwnerTakes'
  BY <1>2 DEF PerThreadIInv, OwnerTakes
<1>4. Chains' /\ Apart' /\ Covered' /\ Counted' /\ \A l \in 1..built : Linked(l)' = Linked(l)
  BY <1>2, QuietStep DEF PutBy, Putting, Taking
<1>5. first[list[t]] \in Linked(list[t])
  <2>1. ListOf(Nodes, next[list[t]], first[list[t]], NIL, Linked(list[t]))
    BY <1>0 DEF PerThreadIInv, Chains
  <2> QED  BY <1>2, <2>1, ListFacts
<1>6. TakerKnows'
  BY <1>2, <1>4, <1>5 DEF PerThreadIInv, TakerKnows
<1>7. PutterKnows'
  BY <1>2 DEF PerThreadIInv, PutterKnows
<1> QED  BY <1>1, <1>3, <1>4, <1>6, <1>7 DEF PerThreadIInv

\* A swap that fails, of a taker or of a putter: around the loop.
LEMMA SwapFailsInv ==
  ASSUME PerThreadIInv, NEW t \in Threads,
         \/ Dequeue(t) /\ first[list[t]] # node[t]
         \/ Enqueue(t) /\ first[list[t]] # oldHead[t]
  PROVE  PerThreadIInv'
<1>0. list[t] \in 1..built /\ list[t] \in Lists
  BY HasList DEF Dequeue, Enqueue
<1> USE DEF Dequeue, Enqueue, Goto
<1>1. PerThreadTypes'
  BY <1>0 DEF PerThreadIInv, PerThreadTypes
<1>2. /\ \A u \in Threads : u # t => /\ pc'[u] = pc[u] /\ node'[u] = node[u] /\ oldHead'[u] = oldHead[u]
      /\ UNCHANGED <<built, key, first, next, number, inUse, list, sz>>
      /\ \/ pc[t] = "deqcas" /\ pc'[t] = "deq"
         \/ pc[t] = "enqcas" /\ pc'[t] = "enq" /\ node' = node
  BY DEF PerThreadIInv, PerThreadTypes
<1> HIDE DEF Dequeue, Enqueue, Goto
<1>3. OwnerTakes'
  BY <1>2 DEF PerThreadIInv, OwnerTakes
<1>4. Chains' /\ Apart' /\ Covered' /\ Counted' /\ \A l \in 1..built : Linked(l)' = Linked(l)
  BY <1>2, QuietStep DEF PutBy, Putting, Taking
<1>5. pc[t] = "deqcas" => first[list[t]] # NIL
  <2>1. ListOf(Nodes, next[list[t]], first[list[t]], NIL, Linked(list[t]))
    BY <1>0 DEF PerThreadIInv, Chains
  <2>2. pc[t] = "deqcas" => node[t] \in Linked(list[t])
    BY <1>0 DEF PerThreadIInv, TakerKnows
  <2> QED  BY <2>1, <2>2, ListFacts
<1>6. TakerKnows'
  BY <1>2, <1>4, <1>5 DEF PerThreadIInv, TakerKnows
<1>7. PutterKnows'
  BY <1>2 DEF PerThreadIInv, PutterKnows
<1> QED  BY <1>1, <1>3, <1>4, <1>6, <1>7 DEF PerThreadIInv

\* The threads at a list are finitely many.
LEMMA ThreadsAt ==
  \A l : IsFiniteSet(Putting(l)) /\ IsFiniteSet(Taking(l))
<1>1. \A l : Putting(l) \in SUBSET Threads /\ Taking(l) \in SUBSET Threads
  BY DEF Putting, Taking
<1>2. IsFiniteSet(Threads)
  BY PerThreadAssumption
<1> QED  BY <1>1, <1>2, FS_Subset

\* node_number is counted down before the node is taken.
LEMMA CountDownInv ==
  ASSUME PerThreadIInv, NEW t \in Threads, CountDown(t)
  PROVE  PerThreadIInv'
<1>0. list[t] \in 1..built /\ list[t] \in Lists /\ 1..built \subseteq Lists
  BY HasList DEF CountDown, Goto
<1> USE DEF CountDown, Goto
<1>1. PerThreadTypes'
  BY <1>0 DEF PerThreadIInv, PerThreadTypes
<1>2. /\ \A u \in Threads : u # t => pc'[u] = pc[u] /\ sz'[u] = sz[u]
      /\ UNCHANGED <<built, key, first, next, inUse, list, node, oldHead>>
      /\ pc[t] = "count" /\ pc'[t] = "deq" /\ sz'[t] = number[list[t]]
      /\ \A l \in Lists : number'[l] = IF l = list[t] THEN number[l] - 1 ELSE number[l]
  BY <1>0 DEF PerThreadIInv, PerThreadTypes
<1> HIDE DEF CountDown, Goto
<1>3. OwnerTakes'
  BY <1>2 DEF PerThreadIInv, OwnerTakes
<1>4. \A l : Linked(l)' = Linked(l)
  BY <1>2 DEF Linked
<1>5. \A u, l, n : PutBy(u, l, n)' <=> PutBy(u, l, n)
  <2> SUFFICES ASSUME NEW u, NEW l, NEW n PROVE PutBy(u, l, n)' <=> PutBy(u, l, n)
    OBVIOUS
  <2>1. pc'[u] = pc[u] \/ u = t
    BY DEF CountDown, Goto, PerThreadIInv, PerThreadTypes
  <2> QED  BY <1>2, <2>1 DEF PutBy
<1>6. Chains'
  BY <1>2, <1>4 DEF PerThreadIInv, Chains
<1>7. Apart'
  BY <1>2, <1>4, <1>5 DEF PerThreadIInv, Apart
<1>8. Covered'
  BY <1>2, <1>4, <1>5, Zenon DEF PerThreadIInv, Covered, HasDummy
<1>9. /\ \A l : l = list[t] => Taking(l) = {} /\ Taking(l)' = {t}
      /\ \A l : Putting(l)' = Putting(l)
  <2>1. \A u \in Threads : pc[u] \in {"deq", "deqcas"} /\ list[u] = list[t] => u = t
    BY <1>2 DEF PerThreadIInv, OwnerTakes
  <2>2. \A l : l = list[t] => Taking(l) = {}
    BY <1>2, <2>1 DEF Taking
  <2>3. \A l : l = list[t] => Taking(l)' = {t}
    BY <1>2, <2>1 DEF Taking
  <2>4. \A l : Putting(l)' = Putting(l)
    <3>1. \A u \in Threads : pc'[u] \in {"enq", "enqcas"} <=> pc[u] \in {"enq", "enqcas"}
      BY <1>2
    <3> QED  BY <1>2, <3>1 DEF Putting
  <2> QED  BY <2>2, <2>3, <2>4
<1>10. \A l : l # list[t] => Taking(l)' = Taking(l)
  BY <1>2 DEF Taking
<1>11. /\ Cardinality({}) = 0 /\ Cardinality({t}) = 1
       /\ \A l : IsFiniteSet(Putting(l)) /\ Cardinality(Putting(l)) \in Nat
       /\ \A l \in 1..built : Cardinality(Linked(l)) \in Nat
  <2>1. \A l \in 1..built : IsFiniteSet(Linked(l))
    BY ListFacts DEF PerThreadIInv, Chains
  <2> QED  BY <2>1, ThreadsAt, FS_CardinalityType, FS_EmptySet, FS_Singleton
<1>12. Counted'
  <2> SUFFICES ASSUME NEW l \in 1..built
               PROVE  number'[l] = Cardinality(Linked(l)') + Cardinality(Putting(l)')
                                     - Cardinality(Taking(l)')
    BY <1>2 DEF Counted
  <2>1. number[l] = Cardinality(Linked(l)) + Cardinality(Putting(l)) - Cardinality(Taking(l))
    BY DEF PerThreadIInv, Counted
  <2>2. CASE l = list[t]
    <3>1. Cardinality(Taking(l)) = 0 /\ Cardinality(Taking(l)') = 1
      BY <1>9, <1>11, <2>2
    <3>2. Linked(l)' = Linked(l) /\ Putting(l)' = Putting(l)
      BY <1>4, <1>9
    <3>3. number'[l] = number[l] - 1
      BY <1>0, <1>2, <2>2
    <3> QED  BY <1>11, <2>1, <3>1, <3>2, <3>3
  <2>3. CASE l # list[t]
    BY <1>0, <1>2, <1>4, <1>9, <1>10, <2>1, <2>3
  <2> QED  BY <2>2, <2>3
<1>13. number[list[t]] > 0
  <2>1. PICK l \in 1..built : l = list[t]
    BY <1>0
  <2>2. first[l] # NIL
    BY <1>2, <2>1 DEF PerThreadIInv, TakerKnows
  <2>3. Linked(l) # {} /\ IsFiniteSet(Linked(l))
    BY <2>2, ListFacts DEF PerThreadIInv, Chains
  <2>4. Cardinality(Linked(l)) # 0
    BY <2>3, FS_EmptySet
  <2>5. number[l] = Cardinality(Linked(l)) + Cardinality(Putting(l)) - Cardinality(Taking(l))
    BY DEF PerThreadIInv, Counted
  <2>6. Cardinality(Taking(l)) = 0
    BY <1>9, <1>11, <2>1
  <2> QED  BY <1>11, <2>1, <2>4, <2>5, <2>6
<1>14. TakerKnows'
  BY <1>2, <1>4, <1>13 DEF PerThreadIInv, TakerKnows
<1>15. PutterKnows'
  BY <1>2 DEF PerThreadIInv, PutterKnows
<1> QED  BY <1>1, <1>3, <1>6, <1>7, <1>8, <1>12, <1>14, <1>15 DEF PerThreadIInv

\* The first node is taken off the list, and is the client's.
LEMMA DequeueInv ==
  ASSUME PerThreadIInv, NEW t \in Threads, Dequeue(t), first[list[t]] = node[t]
  PROVE  PerThreadIInv'
<1>0. PICK k : k = list[t] /\ k \in 1..built /\ k \in Lists /\ 1..built \subseteq Lists
  BY HasList DEF Dequeue
<1>1. PICK m \in Nodes : m = node[t] /\ m \in Linked(k) /\ m = first[k] /\ next[k][m] = oldHead[t]
  <2>1. node[t] \in Linked(k) /\ next[k][node[t]] = oldHead[t]
    BY <1>0 DEF Dequeue, PerThreadIInv, TakerKnows
  <2>2. Linked(k) \subseteq Nodes
    BY <1>0, ListFacts DEF PerThreadIInv, Chains
  <2> QED  BY <1>0, <2>1, <2>2
<1> USE DEF Dequeue, Goto, EndCall
<1>2. PerThreadTypes'
  <2>0. /\ first \in [Lists -> Nodes \cup {NIL}] /\ oldHead[t] \in Nodes \cup {NIL}
        /\ next \in [Lists -> [Nodes -> Nodes \cup {NIL}]]
    BY DEF PerThreadIInv, PerThreadTypes
  <2>a. first' \in [Lists -> Nodes \cup {NIL}]
    BY <1>0, <1>1, <2>0
  <2>b. next' = [next EXCEPT ![k][m] = NIL]
    BY <1>0, <1>1
  <2>1. next' \in [Lists -> [Nodes -> Nodes \cup {NIL}]]
    BY <2>0, <2>b
  <2>2. inUse' \subseteq (1..built) \X Nodes
    BY <1>0, <1>1 DEF PerThreadIInv, PerThreadTypes
  <2>3. /\ pc \in [Threads -> {"idle", "get", "count", "deq", "deqcas", "enq", "enqcas"}]
        /\ list \in [Threads -> 0..built] /\ node \in [Threads -> Nodes \cup {NIL}]
        /\ oldHead \in [Threads -> Nodes \cup {NIL}] /\ sz \in [Threads -> Int]
        /\ 0 \in 0..built /\ UNCHANGED <<built, key, number>>
    BY DEF PerThreadIInv, PerThreadTypes
  <2>4. /\ pc' \in [Threads -> {"idle", "get", "count", "deq", "deqcas", "enq", "enqcas"}]
        /\ list' \in [Threads -> 0..built] /\ node' \in [Threads -> Nodes \cup {NIL}]
        /\ oldHead' \in [Threads -> Nodes \cup {NIL}] /\ sz' \in [Threads -> Int]
    BY <1>1, <2>3 DEF NoList
  <2> QED  BY <2>a, <2>1, <2>2, <2>3, <2>4 DEF PerThreadIInv, PerThreadTypes
<1>3. /\ \A u \in Threads : u # t => /\ pc'[u] = pc[u] /\ list'[u] = list[u]
                                     /\ node'[u] = node[u] /\ oldHead'[u] = oldHead[u] /\ sz'[u] = sz[u]
      /\ UNCHANGED <<built, key, number>>
      /\ pc[t] = "deqcas" /\ pc'[t] = "idle"
      /\ inUse' = inUse \cup {<<k, m>>}
  BY <1>0, <1>1 DEF PerThreadIInv, PerThreadTypes
<1>4. /\ \A l \in Lists : l # k => first'[l] = first[l] /\ next'[l] = next[l]
      /\ first'[k] = next[k][m]
      /\ \A n \in Nodes : n # m => next'[k][n] = next[k][n]
  BY <1>0, <1>1 DEF PerThreadIInv, PerThreadTypes
<1> HIDE DEF Dequeue, Goto, EndCall
<1>5. OwnerTakes'
  BY <1>3 DEF PerThreadIInv, OwnerTakes
<1>6. \A l \in 1..built : l # k => Linked(l)' = Linked(l)
  BY <1>0, <1>4 DEF Linked
<1>7. ListOf(Nodes, next'[k], first'[k], NIL, Linked(k) \ {m}) /\ Linked(k)' = Linked(k) \ {m}
  <2>1. ListOf(Nodes, next[k], m, NIL, Linked(k)) /\ m # NIL
    BY <1>0, <1>1, ListFacts DEF PerThreadIInv, Chains
  <2>2. PICK R : R = Linked(k) \ {m}
    OBVIOUS
  <2>3. ListOf(Nodes, next[k], first'[k], NIL, R)
    BY <1>4, <2>1, <2>2, ListPop
  <2>4. \A n \in R : next'[k][n] = next[k][n]
    <3>1. R \subseteq Nodes
      BY <2>3, ListFacts
    <3> QED  BY <1>4, <2>2, <3>1
  <2>5. ListOf(Nodes, next'[k], first'[k], NIL, R)
    BY <2>3, <2>4, ListFrame
  <2>6. Linked(k)' = R
    BY <2>5, LinkedIs DEF Linked
  <2> QED  BY <2>2, <2>5, <2>6
<1>8. Chains'
  <2> SUFFICES ASSUME NEW l \in 1..built PROVE ListOf(Nodes, next'[l], first'[l], NIL, Linked(l)')
    BY <1>3 DEF Chains
  <2>1. CASE l = k
    BY <1>7, <2>1
  <2>2. CASE l # k
    BY <1>0, <1>4, <1>6, <2>2 DEF PerThreadIInv, Chains
  <2> QED  BY <2>1, <2>2
<1>9. \A u \in Threads : \A l, n : PutBy(u, l, n)' <=> PutBy(u, l, n)
  BY <1>3 DEF PutBy
<1>10. Apart'
  <2>1. ASSUME NEW l \in 1..built, NEW n \in Linked(l)' PROVE <<l, n>> \notin inUse'
    BY <1>3, <1>6, <1>7 DEF PerThreadIInv, Apart
  <2>2. ASSUME NEW u \in Threads, NEW l \in 1..built, NEW n \in Nodes, PutBy(u, l, n)
        PROVE  /\ n \notin Linked(l)' /\ <<l, n>> \notin inUse'
               /\ \A v \in Threads : PutBy(v, l, n) => v = u
    BY <1>1, <1>3, <1>6, <1>7, <2>2 DEF PerThreadIInv, Apart
  <2>3. ASSUME NEW u \in Threads, NEW l \in 1..built, key[u] = l
        PROVE  /\ Dummy \notin Linked(l)' /\ <<l, Dummy>> \notin inUse'
               /\ \A v \in Threads : ~PutBy(v, l, Dummy)
    BY <1>1, <1>3, <1>6, <1>7, <2>3 DEF PerThreadIInv, Apart
  <2> QED  BY <1>3, <1>9, <2>1, <2>2, <2>3 DEF Apart
<1>11. Covered'
  <2> SUFFICES ASSUME NEW l \in 1..built, NEW n \in Nodes
               PROVE  \/ n \in Linked(l)' \/ <<l, n>> \in inUse' \/ \E u \in Threads : PutBy(u, l, n)'
                      \/ n = Dummy /\ HasDummy(l)
    BY <1>3 DEF Covered, HasDummy
  <2>1. n \in Linked(l) => n \in Linked(l)' \/ <<l, n>> \in inUse'
    BY <1>3, <1>6, <1>7
  <2>2. <<l, n>> \in inUse => <<l, n>> \in inUse'
    BY <1>3
  <2> QED  BY <1>9, <2>1, <2>2, Zenon DEF PerThreadIInv, Covered
<1>12. Counted'
  <2> SUFFICES ASSUME NEW l \in 1..built
               PROVE  number[l] = Cardinality(Linked(l)') + Cardinality(Putting(l)')
                                    - Cardinality(Taking(l)')
    BY <1>3 DEF Counted
  <2>1. number[l] = Cardinality(Linked(l)) + Cardinality(Putting(l)) - Cardinality(Taking(l))
    BY DEF PerThreadIInv, Counted
  <2>2. Putting(l)' = Putting(l)
    BY <1>3 DEF Putting
  <2>3. CASE l # k
    <3>1. Taking(l)' = Taking(l)
      BY <1>0, <1>3, <2>3 DEF Taking
    <3> QED  BY <1>6, <2>1, <2>2, <2>3, <3>1
  <2>4. CASE l = k
    <3>1. t \in Taking(l) /\ Taking(l)' = Taking(l) \ {t}
      BY <1>0, <1>3, <2>4 DEF Taking
    <3>2. IsFiniteSet(Linked(l)) /\ IsFiniteSet(Taking(l)) /\ IsFiniteSet(Putting(l))
      BY ThreadsAt, ListFacts DEF PerThreadIInv, Chains
    <3>3. Cardinality(Taking(l)') = Cardinality(Taking(l)) - 1
      BY <3>1, <3>2, FS_RemoveElement
    <3>4. Cardinality(Linked(l)') = Cardinality(Linked(l)) - 1
      BY <1>1, <1>7, <2>4, <3>2, FS_RemoveElement
    <3>5. /\ Cardinality(Taking(l)) \in Nat /\ Cardinality(Linked(l)) \in Nat
          /\ Cardinality(Putting(l)) \in Nat
      BY <3>2, FS_CardinalityType
    <3> QED  BY <2>1, <2>2, <3>3, <3>4, <3>5
  <2> QED  BY <2>3, <2>4
<1>13. TakerKnows'
  <2> SUFFICES ASSUME NEW u \in Threads, NEW l \in 1..built, list'[u] = l, u # t,
                      pc[u] \in {"count", "deq", "deqcas"}
               PROVE  /\ pc[u] \in {"count", "deq"} => first'[l] # NIL
                      /\ pc[u] \in {"deq", "deqcas"} => sz'[u] > 0
                      /\ pc[u] = "deqcas" => node'[u] \in Linked(l)' /\ next'[l][node'[u]] = oldHead'[u]
    BY <1>3 DEF TakerKnows
  <2>1. l # k
    BY <1>0, <1>3 DEF PerThreadIInv, OwnerTakes
  <2>2. /\ pc[u] \in {"count", "deq"} => first[l] # NIL
        /\ pc[u] \in {"deq", "deqcas"} => sz[u] > 0
        /\ pc[u] = "deqcas" => node[u] \in Linked(l) /\ next[l][node[u]] = oldHead[u]
    BY <1>3 DEF PerThreadIInv, TakerKnows
  <2> QED  BY <1>0, <1>3, <1>4, <1>6, <2>1, <2>2
<1>14. PutterKnows'
  <2> SUFFICES ASSUME NEW u \in Threads, u # t, pc[u] \in {"enq", "enqcas"}
               PROVE  /\ list[u] # NoList /\ node[u] \in Nodes
                      /\ pc[u] = "enqcas" => next'[list[u]][node[u]] = oldHead[u]
    BY <1>3 DEF PutterKnows
  <2>1. /\ list[u] # NoList /\ node[u] \in Nodes
        /\ pc[u] = "enqcas" => next[list[u]][node[u]] = oldHead[u]
    BY DEF PerThreadIInv, PutterKnows
  <2>2. list[u] \in 1..built
    BY HasList
  <2>3. list[u] = k => node[u] # m
    BY <1>1, <2>1, <2>2 DEF PerThreadIInv, Apart, PutBy
  <2>4. list[u] = k => next'[list[u]][node[u]] = next[list[u]][node[u]]
    BY <1>4, <2>1, <2>3
  <2>5. list[u] # k => next'[list[u]][node[u]] = next[list[u]][node[u]]
    BY <1>0, <1>4, <2>2
  <2> QED  BY <2>1, <2>4, <2>5
<1> QED  BY <1>2, <1>5, <1>8, <1>10, <1>11, <1>12, <1>13, <1>14 DEF PerThreadIInv

\* A thread builds its list: the nodes but the dummy, which is its own.
LEMMA InitPerThreadListInv ==
  ASSUME PerThreadIInv, NEW t \in Threads, InitPerThreadList(t)
  PROVE  PerThreadIInv'
<1>0. PICK k : k = built + 1 /\ k \in Lists /\ 1..built \subseteq Lists /\ k \notin 1..built
               /\ built \in Nat /\ k # NoList /\ 1..k = (1..built) \cup {k}
  BY PerThreadAssumption DEF InitPerThreadList, Lists, NoList, PerThreadIInv, PerThreadTypes
<1> USE DEF InitPerThreadList, Goto
<1>1. /\ built' = k /\ key[t] = NoList /\ pc[t] = "idle" /\ pc'[t] = "get"
      /\ key'[t] = k /\ list'[t] = k
      /\ \A u \in Threads : u # t => pc'[u] = pc[u] /\ key'[u] = key[u] /\ list'[u] = list[u]
      /\ \A l \in Lists : l # k => /\ first'[l] = first[l] /\ next'[l] = next[l]
                                   /\ number'[l] = number[l]
      /\ first'[k] = 1 /\ number'[k] = Population
      /\ next'[k] = [n \in Nodes |-> IF n = Dummy THEN NIL ELSE n + 1]
      /\ UNCHANGED <<inUse, node, oldHead, sz>>
  BY <1>0 DEF PerThreadIInv, PerThreadTypes, Dummy
<1>2. PerThreadTypes'
  <2>0. 0..built \subseteq 0..k /\ k \in 0..k /\ 1..built \subseteq 1..k /\ k \in 0..MaxList
    BY <1>0, PerThreadAssumption DEF PerThreadIInv, PerThreadTypes
  <2>1. 1 \in Nodes /\ \A n \in Nodes : n + 1 \in Nodes \cup {NIL}
    BY PerThreadAssumption DEF Nodes, NIL
  <2>a. first' = [first EXCEPT ![k] = 1] /\ number' = [number EXCEPT ![k] = Population]
    BY <1>0 DEF Dummy
  <2>b. first \in [Lists -> Nodes \cup {NIL}] /\ number \in [Lists -> Int]
    BY DEF PerThreadIInv, PerThreadTypes
  <2>c. first' \in [Lists -> Nodes \cup {NIL}]
    BY <2>1, <2>a, <2>b, Zenon
  <2>d. Population \in Int
    BY PerThreadAssumption
  <2>2. first' \in [Lists -> Nodes \cup {NIL}] /\ number' \in [Lists -> Int]
    BY <2>a, <2>b, <2>c, <2>d, Zenon
  <2>3. [n \in Nodes |-> IF n = Dummy THEN NIL ELSE n + 1] \in [Nodes -> Nodes \cup {NIL}]
    BY <2>1
  <2>4. next' \in [Lists -> [Nodes -> Nodes \cup {NIL}]]
    BY <2>3 DEF PerThreadIInv, PerThreadTypes
  <2>5. key' \in [Threads -> 0..k] /\ list' \in [Threads -> 0..k]
    BY <1>0, <2>0 DEF PerThreadIInv, PerThreadTypes
  <2>6. inUse' \subseteq (1..k) \X Nodes
    BY <1>1, <2>0 DEF PerThreadIInv, PerThreadTypes
  <2>7. /\ pc' \in [Threads -> {"idle", "get", "count", "deq", "deqcas", "enq", "enqcas"}]
        /\ node' \in [Threads -> Nodes \cup {NIL}] /\ oldHead' \in [Threads -> Nodes \cup {NIL}]
        /\ sz' \in [Threads -> Int]
    BY DEF PerThreadIInv, PerThreadTypes
  <2> HIDE DEF InitPerThreadList, Goto
  <2> QED  BY <1>1, <2>0, <2>2, <2>4, <2>5, <2>6, <2>7 DEF PerThreadTypes
<1> HIDE DEF InitPerThreadList, Goto
<1>3. \A u \in Threads : key[u] # k /\ list[u] # k
  BY <1>0 DEF PerThreadIInv, PerThreadTypes
<1>4. OwnerTakes'
  <2>1. \A u, v \in Threads : key'[u] = key'[v] /\ key'[u] # NoList => u = v
    BY <1>1, <1>3 DEF PerThreadIInv, OwnerTakes
  <2>2. \A u \in Threads : pc'[u] \in {"get", "count", "deq", "deqcas"} =>
                             list'[u] = key'[u] /\ key'[u] # NoList
    BY <1>0, <1>1 DEF PerThreadIInv, OwnerTakes
  <2> QED  BY <2>1, <2>2 DEF OwnerTakes
<1>5. \A l \in 1..built : Linked(l)' = Linked(l)
  BY <1>0, <1>1 DEF Linked
<1>6. ListOf(Nodes, next'[k], first'[k], NIL, 1..Population) /\ Linked(k)' = 1..Population
  <2>1. PICK R : R = 1..Population
    OBVIOUS
  <2>2. /\ 1..Population \subseteq Nodes /\ Population \in Nat /\ Population # 0
        /\ \A n \in 1..Population :
             n # NIL /\ next'[k][n] = IF n = Population THEN NIL ELSE n + 1
    BY <1>1, PerThreadAssumption DEF Nodes, NIL, Dummy
  <2>3. first'[k] = IF Population = 0 THEN NIL ELSE 1
    BY <1>1, <2>2
  <2>4. ListOf(Nodes, next'[k], first'[k], NIL, R)
    BY <2>1, <2>2, <2>3, ListInterval
  <2>5. Linked(k)' = R
    BY <2>4, LinkedIs DEF Linked
  <2> QED  BY <2>1, <2>4, <2>5
<1>7. Chains'
  <2>1. \A l \in 1..built : ListOf(Nodes, next'[l], first'[l], NIL, Linked(l)')
    BY <1>0, <1>1, <1>5 DEF PerThreadIInv, Chains
  <2> QED  BY <1>0, <1>1, <1>6, <2>1 DEF Chains
<1>8. \A u \in Threads : \A l, n : PutBy(u, l, n)' <=> PutBy(u, l, n)
  BY <1>1 DEF PutBy
<1>9. \A u \in Threads : \A n : ~PutBy(u, k, n) /\ <<k, n>> \notin inUse
  <2>1. \A u \in Threads : \A n : ~PutBy(u, k, n)
    BY <1>3 DEF PutBy
  <2>2. \A n : <<k, n>> \notin inUse
    BY <1>0 DEF PerThreadIInv, PerThreadTypes
  <2> QED  BY <2>1, <2>2
<1>10. Dummy \in Nodes /\ Dummy \notin 1..Population /\ Nodes = {Dummy} \cup 1..Population
  BY PerThreadAssumption DEF Dummy, Nodes
<1>11. Apart'
  <2>1. ASSUME NEW l \in 1..k, NEW n \in Linked(l)' PROVE <<l, n>> \notin inUse
    BY <1>0, <1>5, <1>9 DEF PerThreadIInv, Apart
  <2>2. ASSUME NEW u \in Threads, NEW l \in 1..k, NEW n \in Nodes, PutBy(u, l, n)
        PROVE  /\ n \notin Linked(l)' /\ <<l, n>> \notin inUse
               /\ \A v \in Threads : PutBy(v, l, n) => v = u
    BY <1>0, <1>5, <1>9, <2>2 DEF PerThreadIInv, Apart
  <2>3. ASSUME NEW u \in Threads, NEW l \in 1..k, key'[u] = l
        PROVE  /\ Dummy \notin Linked(l)' /\ <<l, Dummy>> \notin inUse
               /\ \A v \in Threads : ~PutBy(v, l, Dummy)
    <3>1. CASE l = k
      BY <1>6, <1>9, <1>10, <3>1
    <3>2. CASE l # k
      <4>1. l \in 1..built /\ key[u] = l
        BY <1>0, <1>1, <2>3, <3>2
      <4> QED  BY <1>5, <4>1 DEF PerThreadIInv, Apart
    <3> QED  BY <3>1, <3>2
  <2> QED  BY <1>1, <1>8, <2>1, <2>2, <2>3 DEF Apart
<1>12. Covered'
  <2> SUFFICES ASSUME NEW l \in 1..k, NEW n \in Nodes
               PROVE  \/ n \in Linked(l)' \/ <<l, n>> \in inUse \/ \E u \in Threads : PutBy(u, l, n)
                      \/ n = Dummy /\ HasDummy(l)'
    BY <1>1, <1>8, Zenon DEF Covered
  <2>1. CASE l = k
    <3>1. HasDummy(k)'
      BY <1>1 DEF HasDummy
    <3> QED  BY <1>6, <1>10, <2>1, <3>1
  <2>2. CASE l # k
    <3>1. l \in 1..built
      BY <1>0, <2>2
    <3>2. HasDummy(l) => HasDummy(l)'
      <4> SUFFICES ASSUME NEW u \in Threads, key[u] = l PROVE key'[u] = l
        BY DEF HasDummy
      <4>1. u # t
        BY <1>0, <1>1, <3>1 DEF NoList
      <4> QED  BY <1>1, <4>1
    <3> QED  BY <1>5, <3>1, <3>2, Zenon DEF PerThreadIInv, Covered
  <2> QED  BY <2>1, <2>2
<1>13. Counted'
  <2> SUFFICES ASSUME NEW l \in 1..k
               PROVE  number'[l] = Cardinality(Linked(l)') + Cardinality(Putting(l)')
                                     - Cardinality(Taking(l)')
    BY <1>1 DEF Counted
  <2>1. CASE l = k
    <3>1. Putting(l)' = {} /\ Taking(l)' = {}
      BY <1>1, <1>3, <2>1 DEF Putting, Taking
    <3>2. Cardinality({}) = 0
      BY FS_EmptySet
    <3>3. Cardinality(1..Population) = Population
      <4>1. 1 \in Int /\ Population \in Int
        BY PerThreadAssumption
      <4>2. Cardinality(1..Population) = IF 1 > Population THEN 0 ELSE Population - 1 + 1
        BY <4>1, FS_Interval, Zenon
      <4> QED  BY <4>2, PerThreadAssumption
    <3>4. Cardinality(Linked(l)') = Population /\ number'[l] = Population
      BY <1>1, <1>6, <2>1, <3>3
    <3>5. Cardinality(Putting(l)') = 0 /\ Cardinality(Taking(l)') = 0
      BY <3>1, <3>2
    <3> QED  BY <3>4, <3>5, PerThreadAssumption
  <2>2. CASE l # k
    <3>1. l \in 1..built
      BY <1>0, <2>2
    <3>2. Putting(l)' = Putting(l) /\ Taking(l)' = Taking(l)
      BY <1>1, <1>3, <2>2 DEF Putting, Taking
    <3> QED  BY <1>0, <1>1, <1>5, <2>2, <3>1, <3>2 DEF PerThreadIInv, Counted
  <2> QED  BY <2>1, <2>2
<1>14. TakerKnows'
  <2> SUFFICES ASSUME NEW u \in Threads, NEW l \in 1..k, list[u] = l, u # t
               PROVE  /\ pc[u] \in {"count", "deq"} => first'[l] # NIL
                      /\ pc[u] \in {"deq", "deqcas"} => sz[u] > 0
                      /\ pc[u] = "deqcas" => node[u] \in Linked(l)' /\ next'[l][node[u]] = oldHead[u]
    BY <1>1 DEF TakerKnows
  <2>1. l \in 1..built /\ l # k
    BY <1>0, <1>3
  <2> QED  BY <1>0, <1>1, <1>5, <2>1 DEF PerThreadIInv, TakerKnows
<1>15. PutterKnows'
  <2> SUFFICES ASSUME NEW u \in Threads, pc[u] \in {"enq", "enqcas"}, u # t
               PROVE  /\ list[u] # NoList /\ node[u] \in Nodes
                      /\ pc[u] = "enqcas" => next'[list[u]][node[u]] = oldHead[u]
    BY <1>1 DEF PutterKnows
  <2>1. list[u] \in 1..built
    BY HasList
  <2>2. next'[list[u]] = next[list[u]]
    BY <1>0, <1>1, <2>1
  <2> QED  BY <2>2 DEF PerThreadIInv, PutterKnows
<1> QED  BY <1>2, <1>4, <1>7, <1>11, <1>12, <1>13, <1>14, <1>15 DEF PerThreadIInv

\* A node leaves its place, a client's hands or the owner's dummy, to be put back.
LEMMA DoReleaseInv ==
  ASSUME PerThreadIInv, NEW t \in Threads, NEW k \in 1..built, NEW m \in Nodes,
         DoReleaseBuffer(t, k, m),
         \/ /\ <<k, m>> \in inUse /\ inUse' = inUse \ {<<k, m>>} /\ key' = key
         \/ /\ key[t] = k /\ m = Dummy /\ inUse' = inUse
            /\ key' = [key EXCEPT ![t] = NoList]
  PROVE  PerThreadIInv'
<1>0. k \in Lists /\ 1..built \subseteq Lists /\ k # NoList
  BY PerThreadAssumption DEF Lists, NoList, PerThreadIInv, PerThreadTypes
<1> USE DEF DoReleaseBuffer, Goto
<1>1. PerThreadTypes'
  <2>1. key' \in [Threads -> 0..built] /\ inUse' \subseteq (1..built) \X Nodes
    BY DEF PerThreadIInv, PerThreadTypes, NoList
  <2>2. list' \in [Threads -> 0..built]
    BY DEF PerThreadIInv, PerThreadTypes
  <2>3. node' \in [Threads -> Nodes \cup {NIL}] /\ number' \in [Lists -> Int]
        /\ sz' \in [Threads -> Int]
    BY <1>0 DEF PerThreadIInv, PerThreadTypes
  <2> QED  BY <1>0, <2>1, <2>2, <2>3 DEF PerThreadIInv, PerThreadTypes
<1>2. /\ UNCHANGED <<built, first, next, oldHead>>
      /\ pc[t] = "idle" /\ pc'[t] = "enq" /\ list'[t] = k /\ node'[t] = m
      /\ \A u \in Threads : u # t => /\ pc'[u] = pc[u] /\ list'[u] = list[u]
                                     /\ node'[u] = node[u] /\ sz'[u] = sz[u]
      /\ \A l \in Lists : number'[l] = IF l = k THEN number[l] + 1 ELSE number[l]
      /\ \A u \in Threads : key'[u] = key[u] \/ key'[u] = NoList
      /\ \A u \in Threads : u # t => key'[u] = key[u]
  BY <1>0 DEF PerThreadIInv, PerThreadTypes
<1> HIDE DEF DoReleaseBuffer, Goto
<1>3. OwnerTakes'
  BY <1>2 DEF PerThreadIInv, OwnerTakes
<1>4. \A l : Linked(l)' = Linked(l)
  BY <1>2 DEF Linked
<1>5. \A u \in Threads : \A l, n :
        PutBy(u, l, n)' <=> IF u = t THEN l = k /\ n = m ELSE PutBy(u, l, n)
  BY <1>2 DEF PutBy
<1>6. \A l, n : ~PutBy(t, l, n)
  BY <1>2 DEF PutBy
<1>7. /\ m \notin Linked(k) /\ <<k, m>> \notin inUse' /\ inUse' \subseteq inUse
      /\ \A u \in Threads : ~PutBy(u, k, m)
  <2>1. CASE <<k, m>> \in inUse /\ inUse' = inUse \ {<<k, m>>}
    BY <2>1 DEF PerThreadIInv, Apart
  <2>2. CASE key[t] = k /\ m = Dummy /\ inUse' = inUse
    BY <2>2 DEF PerThreadIInv, Apart
  <2> QED  BY <2>1, <2>2
<1>8. \A u \in Threads, l \in 1..built : key'[u] = l => key[u] = l /\ ~(l = k /\ m = Dummy)
  <2> SUFFICES ASSUME NEW u \in Threads, NEW l \in 1..built, key'[u] = l
               PROVE  key[u] = l /\ ~(l = k /\ m = Dummy)
    OBVIOUS
  <2>0. l # NoList
    BY DEF NoList, PerThreadIInv, PerThreadTypes
  <2>1. key[u] = l
    BY <1>2, <2>0
  <2>2. CASE <<k, m>> \in inUse /\ key' = key
    BY <2>1, <2>2 DEF PerThreadIInv, Apart
  <2>3. CASE key[t] = k /\ key' = [key EXCEPT ![t] = NoList]
    <3>1. u # t
      BY <2>0, <2>3 DEF PerThreadIInv, PerThreadTypes
    <3>2. key[u] # key[t]
      BY <2>0, <2>1, <3>1 DEF PerThreadIInv, OwnerTakes
    <3> QED  BY <2>1, <2>3, <3>2
  <2> QED  BY <2>2, <2>3
<1>9. Chains'
  BY <1>2, <1>4 DEF PerThreadIInv, Chains
<1>10. Apart'
  <2>1. ASSUME NEW l \in 1..built, NEW n \in Linked(l) PROVE <<l, n>> \notin inUse'
    BY <1>7 DEF PerThreadIInv, Apart
  <2>2. ASSUME NEW u \in Threads, NEW l \in 1..built, NEW n \in Nodes, PutBy(u, l, n)'
        PROVE  /\ n \notin Linked(l) /\ <<l, n>> \notin inUse'
               /\ \A v \in Threads : PutBy(v, l, n)' => v = u
    <3>1. CASE u = t
      BY <1>5, <1>7, <2>2, <3>1
    <3>2. CASE u # t
      <4>1. PutBy(u, l, n) /\ ~(l = k /\ n = m)
        BY <1>5, <1>7, <2>2, <3>2
      <4> QED  BY <1>5, <1>7, <4>1 DEF PerThreadIInv, Apart
    <3> QED  BY <3>1, <3>2
  <2>3. ASSUME NEW u \in Threads, NEW l \in 1..built, key'[u] = l
        PROVE  /\ Dummy \notin Linked(l) /\ <<l, Dummy>> \notin inUse'
               /\ \A v \in Threads : ~PutBy(v, l, Dummy)'
    <3>1. key[u] = l /\ ~(l = k /\ m = Dummy)
      BY <1>8, <2>3
    <3> QED  BY <1>5, <1>7, <3>1 DEF PerThreadIInv, Apart
  <2> QED  BY <1>2, <1>4, <2>1, <2>2, <2>3 DEF Apart
<1>11. Covered'
  <2> SUFFICES ASSUME NEW l \in 1..built, NEW n \in Nodes, ~(l = k /\ n = m)
               PROVE  \/ n \in Linked(l) \/ <<l, n>> \in inUse' \/ \E u \in Threads : PutBy(u, l, n)'
                      \/ n = Dummy /\ HasDummy(l)'
    BY <1>2, <1>4, <1>5, Zenon DEF Covered
  <2>1. <<l, n>> \in inUse => <<l, n>> \in inUse'
    OBVIOUS
  <2>2. \A u \in Threads : PutBy(u, l, n) => PutBy(u, l, n)'
    BY <1>5, <1>6
  <2>3. n = Dummy /\ HasDummy(l) => HasDummy(l)'
    <3> SUFFICES ASSUME n = Dummy, NEW u \in Threads, key[u] = l PROVE key'[u] = l
      BY DEF HasDummy
    <3>1. CASE key' = key
      BY <3>1
    <3>2. CASE key[t] = k /\ m = Dummy
      BY <1>2, <3>2
    <3> QED  BY <3>1, <3>2
  <2> QED  BY <2>1, <2>2, <2>3, Zenon DEF PerThreadIInv, Covered
<1>12. Counted'
  <2> SUFFICES ASSUME NEW l \in 1..built
               PROVE  number'[l] = Cardinality(Linked(l)) + Cardinality(Putting(l)')
                                     - Cardinality(Taking(l)')
    BY <1>2, <1>4 DEF Counted
  <2>1. number[l] = Cardinality(Linked(l)) + Cardinality(Putting(l)) - Cardinality(Taking(l))
    BY DEF PerThreadIInv, Counted
  <2>2. Taking(l)' = Taking(l)
    BY <1>2 DEF Taking
  <2>3. CASE l # k
    <3>1. Putting(l)' = Putting(l)
      BY <1>2, <2>3 DEF Putting
    <3> QED  BY <1>0, <1>2, <2>1, <2>2, <2>3, <3>1
  <2>4. CASE l = k
    <3>1. t \notin Putting(l) /\ Putting(l)' = Putting(l) \cup {t}
      BY <1>2, <2>4 DEF Putting
    <3>2. IsFiniteSet(Linked(l)) /\ IsFiniteSet(Taking(l)) /\ IsFiniteSet(Putting(l))
      BY ThreadsAt, ListFacts DEF PerThreadIInv, Chains
    <3>3. Cardinality(Putting(l)') = Cardinality(Putting(l)) + 1
      BY <3>1, <3>2, FS_AddElement
    <3>4. /\ Cardinality(Taking(l)) \in Nat /\ Cardinality(Linked(l)) \in Nat
          /\ Cardinality(Putting(l)) \in Nat
      BY <3>2, FS_CardinalityType
    <3>5. number'[l] = number[l] + 1
      BY <1>0, <1>2, <2>4
    <3> QED  BY <2>1, <2>2, <3>3, <3>4, <3>5
  <2> QED  BY <2>3, <2>4
<1>13. TakerKnows'
  BY <1>2, <1>4 DEF PerThreadIInv, TakerKnows
<1>14. PutterKnows'
  BY <1>0, <1>2 DEF PerThreadIInv, PutterKnows
<1> QED  BY <1>1, <1>3, <1>9, <1>10, <1>11, <1>12, <1>13, <1>14 DEF PerThreadIInv

\* The calls that give a node back.
LEMMA ReleaseBufferInv ==
  ASSUME PerThreadIInv, NEW t \in Threads,
         \/ FreeCurThreadMemory(t) \/ OnThreadExit(t)
         \/ \E l \in Lists, n \in Nodes : ReleaseBuffer(t, l, n)
  PROVE  PerThreadIInv'
<1>1. CASE FreeCurThreadMemory(t) \/ OnThreadExit(t)
  <2>1. key[t] \in 1..built /\ Dummy \in Nodes
    BY <1>1, PerThreadAssumption
       DEF FreeCurThreadMemory, OnThreadExit, PerThreadIInv, PerThreadTypes, NoList, Nodes, Dummy
  <2>2. DoReleaseBuffer(t, key[t], Dummy) /\ inUse' = inUse /\ key' = [key EXCEPT ![t] = NoList]
    BY <1>1 DEF FreeCurThreadMemory, OnThreadExit
  <2> QED  BY <2>1, <2>2, DoReleaseInv
<1>2. ASSUME NEW l \in Lists, NEW n \in Nodes, ReleaseBuffer(t, l, n) PROVE PerThreadIInv'
  <2>1. l \in 1..built /\ <<l, n>> \in inUse
    BY <1>2 DEF ReleaseBuffer, PerThreadIInv, PerThreadTypes
  <2>2. DoReleaseBuffer(t, l, n) /\ inUse' = inUse \ {<<l, n>>} /\ key' = key
    BY <1>2 DEF ReleaseBuffer
  <2> QED  BY <2>1, <2>2, DoReleaseInv
<1> QED  BY <1>1, <1>2

\* The first node is read, and linked behind the one to be put back.
LEMMA ReadHeadInv ==
  ASSUME PerThreadIInv, NEW t \in Threads, ReadHead(t)
  PROVE  PerThreadIInv'
<1>0. PICK k : k = list[t] /\ k \in 1..built /\ k \in Lists /\ 1..built \subseteq Lists
  BY HasList DEF ReadHead, Goto
<1>1. PICK m \in Nodes : m = node[t] /\ PutBy(t, k, m) /\ m \notin Linked(k)
  BY <1>0 DEF ReadHead, Goto, PerThreadIInv, PutterKnows, Apart, PutBy
<1> USE DEF ReadHead, Goto
<1>2. PerThreadTypes'
  <2>1. next' = [next EXCEPT ![k] = [next[k] EXCEPT ![m] = first[k]]]
    BY <1>0, <1>1
  <2>2. next \in [Lists -> [Nodes -> Nodes \cup {NIL}]] /\ first[k] \in Nodes \cup {NIL}
    BY <1>0 DEF PerThreadIInv, PerThreadTypes
  <2>3. next' \in [Lists -> [Nodes -> Nodes \cup {NIL}]]
    <3> HIDE DEF ReadHead, Goto
    <3>1. [next[k] EXCEPT ![m] = first[k]] \in [Nodes -> Nodes \cup {NIL}]
      BY <1>0, <2>2
    <3> QED  BY <2>1, <2>2, <3>1
  <2>4. oldHead' \in [Threads -> Nodes \cup {NIL}]
    BY <1>0, <2>2 DEF PerThreadIInv, PerThreadTypes
  <2> QED  BY <2>3, <2>4 DEF PerThreadIInv, PerThreadTypes
<1>3. /\ \A u \in Threads : u # t => pc'[u] = pc[u] /\ oldHead'[u] = oldHead[u]
      /\ UNCHANGED <<built, key, first, number, inUse, list, node, sz>>
      /\ pc[t] = "enq" /\ pc'[t] = "enqcas" /\ oldHead'[t] = first[k]
  BY <1>0 DEF PerThreadIInv, PerThreadTypes
<1>4. /\ \A l \in Lists : l # k => next'[l] = next[l]
      /\ \A n \in Nodes : next'[k][n] = IF n = m THEN first[k] ELSE next[k][n]
  BY <1>0, <1>1 DEF PerThreadIInv, PerThreadTypes
<1> HIDE DEF ReadHead, Goto
<1>5. OwnerTakes'
  BY <1>3 DEF PerThreadIInv, OwnerTakes
<1>6. ListOf(Nodes, next'[k], first'[k], NIL, Linked(k)) /\ Linked(k)' = Linked(k)
  <2>1. ListOf(Nodes, next[k], first'[k], NIL, Linked(k))
    BY <1>0, <1>3 DEF PerThreadIInv, Chains
  <2>2. PICK R : R = Linked(k)
    OBVIOUS
  <2>3. \A n \in R : next'[k][n] = next[k][n]
    <3>1. R \subseteq Nodes
      BY <2>1, <2>2, ListFacts
    <3> QED  BY <1>1, <1>4, <2>2, <3>1
  <2>4. ListOf(Nodes, next'[k], first'[k], NIL, R)
    BY <2>1, <2>2, <2>3, ListFrame
  <2>5. Linked(k)' = R
    BY <2>4, LinkedIs DEF Linked
  <2> QED  BY <2>2, <2>4, <2>5
<1>7. \A l \in 1..built : Linked(l)' = Linked(l)
  <2> SUFFICES ASSUME NEW l \in 1..built, l # k PROVE Linked(l)' = Linked(l)
    BY <1>6
  <2> QED  BY <1>0, <1>3, <1>4 DEF Linked
<1>8. Chains'
  <2> SUFFICES ASSUME NEW l \in 1..built, l # k
               PROVE  ListOf(Nodes, next'[l], first'[l], NIL, Linked(l)')
    BY <1>3, <1>6 DEF Chains
  <2> QED  BY <1>0, <1>3, <1>4, <1>7 DEF PerThreadIInv, Chains
<1>9. \A u \in Threads : \A l, n : PutBy(u, l, n)' <=> PutBy(u, l, n)
  BY <1>3 DEF PutBy
<1>10. Apart'
  BY <1>3, <1>7, <1>9 DEF PerThreadIInv, Apart
<1>11. Covered'
  BY <1>3, <1>7, <1>9, Zenon DEF PerThreadIInv, Covered, HasDummy
<1>12. Counted'
  <2> SUFFICES ASSUME NEW l \in 1..built
               PROVE  number[l] = Cardinality(Linked(l)') + Cardinality(Putting(l)')
                                    - Cardinality(Taking(l)')
    BY <1>3 DEF Counted
  <2>1. Putting(l)' = Putting(l) /\ Taking(l)' = Taking(l)
    BY <1>3 DEF Putting, Taking
  <2> QED  BY <1>7, <2>1 DEF PerThreadIInv, Counted
<1>13. TakerKnows'
  <2> SUFFICES ASSUME NEW u \in Threads, NEW l \in 1..built, list[u] = l, u # t
               PROVE  /\ pc[u] \in {"count", "deq"} => first[l] # NIL
                      /\ pc[u] \in {"deq", "deqcas"} => sz[u] > 0
                      /\ pc[u] = "deqcas" => node[u] \in Linked(l) /\ next'[l][node[u]] = oldHead[u]
    BY <1>3, <1>7 DEF TakerKnows
  <2>1. /\ pc[u] \in {"count", "deq"} => first[l] # NIL
        /\ pc[u] \in {"deq", "deqcas"} => sz[u] > 0
        /\ pc[u] = "deqcas" => node[u] \in Linked(l) /\ next[l][node[u]] = oldHead[u]
    BY DEF PerThreadIInv, TakerKnows
  <2>2. node[u] \in Linked(l) => next'[l][node[u]] = next[l][node[u]]
    <3>1. Linked(l) \subseteq Nodes
      BY ListFacts DEF PerThreadIInv, Chains
    <3>2. CASE l = k
      BY <1>1, <1>4, <3>1, <3>2
    <3>3. CASE l # k
      BY <1>0, <1>4, <3>3
    <3> QED  BY <3>2, <3>3
  <2> QED  BY <2>1, <2>2
<1>14. PutterKnows'
  <2> SUFFICES ASSUME NEW u \in Threads, pc'[u] \in {"enq", "enqcas"}
               PROVE  /\ list[u] # NoList /\ node[u] \in Nodes
                      /\ pc'[u] = "enqcas" => next'[list[u]][node[u]] = oldHead'[u]
    BY <1>3 DEF PutterKnows
  <2>1. CASE u = t
    BY <1>0, <1>1, <1>3, <1>4, <2>1 DEF PerThreadIInv, PutterKnows
  <2>2. CASE u # t
    <3>1. /\ list[u] # NoList /\ node[u] \in Nodes
          /\ pc[u] = "enqcas" => next[list[u]][node[u]] = oldHead[u]
      BY <1>3, <2>2 DEF PerThreadIInv, PutterKnows
    <3>2. list[u] \in 1..built
      BY <1>3, <2>2, HasList
    <3>3. list[u] = k => node[u] # m
      <4> SUFFICES ASSUME list[u] = k, node[u] = m PROVE FALSE
        OBVIOUS
      <4>1. PutBy(u, k, m)
        BY <1>3, <2>2 DEF PutBy
      <4> QED  BY <1>0, <1>1, <2>2, <4>1 DEF PerThreadIInv, Apart
    <3>4. next'[list[u]][node[u]] = next[list[u]][node[u]]
      <4>1. CASE list[u] = k
        BY <1>4, <3>1, <3>3, <4>1
      <4>2. CASE list[u] # k
        BY <1>0, <1>4, <3>2, <4>2
      <4> QED  BY <4>1, <4>2
    <3> QED  BY <1>3, <2>2, <3>1, <3>4
  <2> QED  BY <2>1, <2>2
<1> QED  BY <1>2, <1>5, <1>8, <1>10, <1>11, <1>12, <1>13, <1>14 DEF PerThreadIInv

\* The node is put in front of the list.
LEMMA EnqueueInv ==
  ASSUME PerThreadIInv, NEW t \in Threads, Enqueue(t), first[list[t]] = oldHead[t]
  PROVE  PerThreadIInv'
<1>0. PICK k : k = list[t] /\ k \in 1..built /\ k \in Lists /\ 1..built \subseteq Lists
  BY HasList DEF Enqueue
<1>1. PICK m \in Nodes : /\ m = node[t] /\ PutBy(t, k, m) /\ next[k][m] = first[k]
                         /\ m \notin Linked(k) /\ <<k, m>> \notin inUse
                         /\ \A u \in Threads : PutBy(u, k, m) => u = t
  BY <1>0 DEF Enqueue, PerThreadIInv, PutterKnows, Apart, PutBy
<1> USE DEF Enqueue, Goto, EndCall
<1>2. PerThreadTypes'
  <2>1. first' \in [Lists -> Nodes \cup {NIL}]
    BY <1>0, <1>1 DEF PerThreadIInv, PerThreadTypes
  <2> QED  BY <2>1 DEF PerThreadIInv, PerThreadTypes, NoList
<1>3. /\ \A u \in Threads : u # t => /\ pc'[u] = pc[u] /\ list'[u] = list[u]
                                     /\ node'[u] = node[u] /\ oldHead'[u] = oldHead[u] /\ sz'[u] = sz[u]
      /\ UNCHANGED <<built, key, next, number, inUse>>
      /\ pc[t] = "enqcas" /\ pc'[t] = "idle"
      /\ \A l \in Lists : first'[l] = IF l = k THEN m ELSE first[l]
  BY <1>0, <1>1 DEF PerThreadIInv, PerThreadTypes
<1> HIDE DEF Enqueue, Goto, EndCall
<1>4. OwnerTakes'
  BY <1>3 DEF PerThreadIInv, OwnerTakes
<1>5. \A l \in 1..built : l # k => Linked(l)' = Linked(l)
  BY <1>0, <1>3 DEF Linked
<1>6. /\ ListOf(Nodes, next'[k], first'[k], NIL, Linked(k) \cup {m})
      /\ Linked(k)' = Linked(k) \cup {m} /\ first'[k] # NIL
  <2>1. ListOf(Nodes, next[k], first[k], NIL, Linked(k))
    BY <1>0 DEF PerThreadIInv, Chains
  <2>2. m # NIL
    BY PerThreadAssumption DEF Nodes, NIL
  <2>3. PICK R : R = Linked(k) \cup {m}
    OBVIOUS
  <2>4. ListOf(Nodes, next[k], m, NIL, R)
    BY <1>1, <2>1, <2>2, <2>3, ListPush
  <2>5. ListOf(Nodes, next'[k], first'[k], NIL, R)
    BY <1>0, <1>3, <2>4
  <2>6. Linked(k)' = R
    BY <2>5, LinkedIs DEF Linked
  <2> QED  BY <1>0, <1>3, <2>2, <2>3, <2>5, <2>6
<1>7. Chains'
  <2> SUFFICES ASSUME NEW l \in 1..built, l # k
               PROVE  ListOf(Nodes, next'[l], first'[l], NIL, Linked(l)')
    BY <1>3, <1>6 DEF Chains
  <2> QED  BY <1>0, <1>3, <1>5 DEF PerThreadIInv, Chains
<1>8. \A u \in Threads : \A l, n : PutBy(u, l, n)' <=> (u # t /\ PutBy(u, l, n))
  BY <1>3 DEF PutBy
<1>9. Apart'
  <2>1. ASSUME NEW l \in 1..built, NEW n \in Linked(l)' PROVE <<l, n>> \notin inUse
    BY <1>1, <1>5, <1>6 DEF PerThreadIInv, Apart
  <2>2. ASSUME NEW u \in Threads, NEW l \in 1..built, NEW n \in Nodes, PutBy(u, l, n), u # t
        PROVE  /\ n \notin Linked(l)' /\ <<l, n>> \notin inUse
               /\ \A v \in Threads : PutBy(v, l, n) => v = u
    <3>1. /\ n \notin Linked(l) /\ <<l, n>> \notin inUse
          /\ \A v \in Threads : PutBy(v, l, n) => v = u
      BY <2>2 DEF PerThreadIInv, Apart
    <3>2. ~(l = k /\ n = m)
      BY <1>1, <2>2
    <3> QED  BY <1>5, <1>6, <3>1, <3>2
  <2>3. ASSUME NEW u \in Threads, NEW l \in 1..built, key[u] = l
        PROVE  /\ Dummy \notin Linked(l)' /\ <<l, Dummy>> \notin inUse
               /\ \A v \in Threads : ~PutBy(v, l, Dummy)
    <3>1. /\ Dummy \notin Linked(l) /\ <<l, Dummy>> \notin inUse
          /\ \A v \in Threads : ~PutBy(v, l, Dummy)
      BY <2>3 DEF PerThreadIInv, Apart
    <3>2. ~(l = k /\ Dummy = m)
      BY <1>1, <3>1
    <3> QED  BY <1>5, <1>6, <3>1, <3>2
  <2> QED  BY <1>3, <1>8, <2>1, <2>2, <2>3 DEF Apart
<1>10. Covered'
  <2> SUFFICES ASSUME NEW l \in 1..built, NEW n \in Nodes
               PROVE  \/ n \in Linked(l)' \/ <<l, n>> \in inUse \/ \E u \in Threads : PutBy(u, l, n)'
                      \/ n = Dummy /\ HasDummy(l)
    BY <1>3 DEF Covered, HasDummy
  <2>1. n \in Linked(l) => n \in Linked(l)'
    BY <1>5, <1>6
  <2>2. ASSUME NEW u \in Threads, PutBy(u, l, n)
        PROVE  n \in Linked(l)' \/ \E v \in Threads : PutBy(v, l, n)'
    <3>1. CASE u = t
      <4>1. l = k /\ n = m
        BY <1>1, <2>2, <3>1 DEF PutBy
      <4> QED  BY <1>6, <4>1
    <3>2. CASE u # t
      BY <1>8, <2>2, <3>2
    <3> QED  BY <3>1, <3>2
  <2> QED  BY <2>1, <2>2, Zenon DEF PerThreadIInv, Covered
<1>11. Counted'
  <2> SUFFICES ASSUME NEW l \in 1..built
               PROVE  number[l] = Cardinality(Linked(l)') + Cardinality(Putting(l)')
                                    - Cardinality(Taking(l)')
    BY <1>3 DEF Counted
  <2>1. number[l] = Cardinality(Linked(l)) + Cardinality(Putting(l)) - Cardinality(Taking(l))
    BY DEF PerThreadIInv, Counted
  <2>2. Taking(l)' = Taking(l)
    BY <1>3 DEF Taking
  <2>3. CASE l # k
    <3>1. Putting(l)' = Putting(l)
      BY <1>0, <1>3, <2>3 DEF Putting
    <3> QED  BY <1>5, <2>1, <2>2, <2>3, <3>1
  <2>4. CASE l = k
    <3>1. t \in Putting(l) /\ Putting(l)' = Putting(l) \ {t}
      BY <1>0, <1>3, <2>4 DEF Putting
    <3>2. IsFiniteSet(Linked(l)) /\ IsFiniteSet(Taking(l)) /\ IsFiniteSet(Putting(l))
      BY ThreadsAt, ListFacts DEF PerThreadIInv, Chains
    <3>3. Cardinality(Putting(l)') = Cardinality(Putting(l)) - 1
      BY <3>1, <3>2, FS_RemoveElement
    <3>4. Cardinality(Linked(l)') = Cardinality(Linked(l)) + 1
      BY <1>1, <1>6, <2>4, <3>2, FS_AddElement
    <3>5. /\ Cardinality(Taking(l)) \in Nat /\ Cardinality(Linked(l)) \in Nat
          /\ Cardinality(Putting(l)) \in Nat
      BY <3>2, FS_CardinalityType
    <3> QED  BY <2>1, <2>2, <3>3, <3>4, <3>5
  <2> QED  BY <2>3, <2>4
<1>12. TakerKnows'
  <2> SUFFICES ASSUME NEW u \in Threads, NEW l \in 1..built, list[u] = l, u # t
               PROVE  /\ pc[u] \in {"count", "deq"} => first'[l] # NIL
                      /\ pc[u] \in {"deq", "deqcas"} => sz[u] > 0
                      /\ pc[u] = "deqcas" => node[u] \in Linked(l)' /\ next[l][node[u]] = oldHead[u]
    BY <1>3 DEF TakerKnows
  <2>1. /\ pc[u] \in {"count", "deq"} => first[l] # NIL
        /\ pc[u] \in {"deq", "deqcas"} => sz[u] > 0
        /\ pc[u] = "deqcas" => node[u] \in Linked(l) /\ next[l][node[u]] = oldHead[u]
    BY DEF PerThreadIInv, TakerKnows
  <2>2. Linked(l) \subseteq Linked(l)' /\ (first'[l] = first[l] \/ first'[l] # NIL)
    BY <1>0, <1>3, <1>5, <1>6
  <2> QED  BY <2>1, <2>2
<1>13. PutterKnows'
  BY <1>3 DEF PerThreadIInv, PutterKnows
<1> QED  BY <1>2, <1>4, <1>7, <1>9, <1>10, <1>11, <1>12, <1>13 DEF PerThreadIInv

\* Every step keeps the nodes in their places and the count right.
LEMMA PerThreadNext == PerThreadIInv /\ [MemoryNext]_memoryVars => PerThreadIInv'
<1> SUFFICES ASSUME PerThreadIInv, [MemoryNext]_memoryVars PROVE PerThreadIInv'
  OBVIOUS
<1>1. ASSUME NEW t \in Threads, MemoryStep(t) PROVE PerThreadIInv'
  <2>1. CASE Dequeue(t)
    BY <2>1, DequeueInv, SwapFailsInv
  <2>2. CASE Enqueue(t)
    BY <2>2, EnqueueInv, SwapFailsInv
  <2>3. CASE TestEmpty(t) \/ CountDown(t) \/ ReadFirst(t) \/ ReadHead(t)
    BY <2>3, TestListInv, CountDownInv, ReadFirstInv, ReadHeadInv
  <2> QED  BY <1>1, <2>1, <2>2, <2>3 DEF MemoryStep
<1>2. ASSUME NEW t \in Threads, InitPerThreadList(t) \/ AllocBuffer(t) PROVE PerThreadIInv'
  BY <1>2, InitPerThreadListInv, AllocBufferInv
<1>3. CASE UNCHANGED memoryVars
  <2> USE <1>3 DEF memoryVars
  <2>1. PerThreadTypes' /\ OwnerTakes' /\ PutterKnows'
    BY DEF PerThreadIInv, PerThreadTypes, OwnerTakes, PutterKnows
  <2>2. \A l : Linked(l)' = Linked(l) /\ Putting(l)' = Putting(l) /\ Taking(l)' = Taking(l)
    BY DEF Linked, Putting, Taking
  <2>3. (\A u, l, n : PutBy(u, l, n)' <=> PutBy(u, l, n)) /\ \A l : HasDummy(l)' <=> HasDummy(l)
    BY DEF PutBy, HasDummy
  <2>4. TakerKnows' /\ Chains' /\ Counted'
    BY <2>2 DEF PerThreadIInv, TakerKnows, Chains, Counted
  <2>5. Apart'
    BY <2>2, <2>3 DEF PerThreadIInv, Apart
  <2>6. Covered'
    BY <2>2, <2>3, Zenon DEF PerThreadIInv, Covered
  <2> QED  BY <2>1, <2>4, <2>5, <2>6 DEF PerThreadIInv
<1> QED  BY <1>1, <1>2, <1>3, ReleaseBufferInv DEF MemoryNext

\* The lists of PerThreadMemory are lists, whatever the threads do.
THEOREM PerThreadInvariant == MemorySafetySpec => []PerThreadIInv
<1> QED  BY PerThreadInit, PerThreadNext, PTL DEF MemorySafetySpec

\* node_number counts the nodes of the list but for the ones on their way, and
\* who has counted one down finds one: GetFreeBufferFromList's assertions.
THEOREM CountIsRight == MemorySafetySpec => []CountMatches
<1>1. PerThreadIInv => CountMatches
  <2> SUFFICES ASSUME PerThreadIInv PROVE CountMatches
    OBVIOUS
  <2>1. TakerFindsNode
    <3> SUFFICES ASSUME NEW t \in Threads, pc[t] = "deq"
                 PROVE  first[list[t]] # NIL /\ sz[t] > 0
      BY DEF TakerFindsNode
    <3>1. list[t] \in 1..built
      BY HasList
    <3> QED  BY <3>1 DEF PerThreadIInv, TakerKnows
  <2> QED  BY <2>1 DEF CountMatches, PerThreadIInv, Counted
<1> QED  BY <1>1, PerThreadInvariant, PTL

\* No node is lost and none has two owners: each is linked, held, on its way
\* back, or the dummy of its list's owner.
THEOREM NodesHaveOnePlace == MemorySafetySpec => []NodeInOnePlace
<1>1. PerThreadIInv => NodeInOnePlace
  <2> SUFFICES ASSUME PerThreadIInv, NEW l \in 1..built, NEW n \in Nodes
               PROVE  Cardinality((IF n \in Linked(l) THEN {"linked"} ELSE {})
                        \cup (IF <<l, n>> \in inUse THEN {"held"} ELSE {})
                        \cup {t \in Putting(l) : node[t] = n}
                        \cup (IF n = Dummy /\ HasDummy(l) THEN {"dummy"} ELSE {})) = 1
    BY DEF NodeInOnePlace
  <2> DEFINE on == IF n \in Linked(l) THEN {"linked"} ELSE {}
             hd == IF <<l, n>> \in inUse THEN {"held"} ELSE {}
             pt == {t \in Putting(l) : node[t] = n}
             dm == IF n = Dummy /\ HasDummy(l) THEN {"dummy"} ELSE {}
  <2>1. \A t : t \in pt <=> t \in Threads /\ PutBy(t, l, n)
    BY DEF Putting, PutBy
  <2> HIDE DEF pt
  <2>2. CASE n \in Linked(l)
    <3>1. on = {"linked"} /\ hd = {} /\ pt = {} /\ dm = {}
      BY <2>1, <2>2 DEF PerThreadIInv, Apart, HasDummy
    <3>2. on \cup hd \cup pt \cup dm = {"linked"}
      BY <3>1
    <3>3. Cardinality(on \cup hd \cup pt \cup dm) = 1
      BY <3>2, FS_Singleton, Zenon
    <3> QED  BY <3>3 DEF pt
  <2>3. CASE <<l, n>> \in inUse
    <3>1. on = {} /\ hd = {"held"} /\ pt = {} /\ dm = {}
      BY <2>1, <2>3 DEF PerThreadIInv, Apart, HasDummy
    <3>2. on \cup hd \cup pt \cup dm = {"held"}
      BY <3>1
    <3>3. Cardinality(on \cup hd \cup pt \cup dm) = 1
      BY <3>2, FS_Singleton, Zenon
    <3> QED  BY <3>3 DEF pt
  <2>4. ASSUME NEW t \in Threads, PutBy(t, l, n)
        PROVE  Cardinality(on \cup hd \cup pt \cup dm) = 1
    <3>1. on = {} /\ hd = {} /\ pt = {t} /\ dm = {}
      BY <2>1, <2>4 DEF PerThreadIInv, Apart, HasDummy
    <3>2. on \cup hd \cup pt \cup dm = {t}
      BY <3>1
    <3>3. Cardinality(on \cup hd \cup pt \cup dm) = 1
      BY <3>2, FS_Singleton, Zenon
    <3> QED  BY <3>3 DEF pt
  <2>5. CASE n = Dummy /\ HasDummy(l)
    <3>1. on = {} /\ hd = {} /\ pt = {} /\ dm = {"dummy"}
      BY <2>1, <2>5 DEF PerThreadIInv, Apart, HasDummy
    <3>2. on \cup hd \cup pt \cup dm = {"dummy"}
      BY <3>1
    <3>3. Cardinality(on \cup hd \cup pt \cup dm) = 1
      BY <3>2, FS_Singleton, Zenon
    <3> QED  BY <3>3 DEF pt
  <2>6. \/ n \in Linked(l) \/ <<l, n>> \in inUse \/ \E t \in Threads : PutBy(t, l, n)
        \/ n = Dummy /\ HasDummy(l)
    BY Zenon DEF PerThreadIInv, Covered
  <2> QED  BY <2>2, <2>3, <2>4, <2>5, <2>6 DEF pt
<1> QED  BY <1>1, PerThreadInvariant, PTL

-----------------------------------------------------------------------------
\* Who puts a node back has counted without it.
PutterCount ==
  /\ freed = {}
  /\ \A t \in Threads : pc[t] \in {"enq", "enqcas"} => sz[t] <= Population

\* A node that is neither linked nor on its way is not counted: the count is at
\* most population_ when a release reads it.
LEMMA CountBeforeRelease ==
  ASSUME PerThreadIInv, NEW k \in 1..built, NEW m \in Nodes, m \notin Linked(k),
         \A u \in Threads : ~PutBy(u, k, m)
  PROVE  number[k] <= Population
<1>1. IsFiniteSet(Linked(k)) /\ Linked(k) \subseteq Nodes
  BY ListFacts DEF PerThreadIInv, Chains
<1>2. PICK P : P = Putting(k)
  OBVIOUS
<1>3. IsFiniteSet(P) /\ IsFiniteSet(Taking(k))
  BY <1>2, ThreadsAt
<1>4. \A u \in P : u \in Threads /\ PutBy(u, k, node[u]) /\ node[u] \in Nodes
  BY <1>2 DEF Putting, PutBy, PerThreadIInv, PutterKnows
<1> DEFINE f == [u \in P |-> node[u]]
           R == {n \in Nodes : \E u \in P : node[u] = n}
<1>5. f \in Bijection(P, R)
  <2>1. f \in [P -> R] /\ \A n \in R : \E u \in P : f[u] = n
    BY <1>4
  <2>2. ASSUME NEW u \in P, NEW v \in P, node[u] = node[v] PROVE u = v
    <3>1. PICK n \in Nodes : n = node[u] /\ n = node[v]
      BY <1>4, <2>2
    <3>2. PutBy(u, k, n) /\ PutBy(v, k, n) /\ u \in Threads /\ v \in Threads
      BY <1>4, <3>1
    <3> QED  BY <3>2 DEF PerThreadIInv, Apart
  <2>3. \A u, v \in P : f[u] = f[v] => u = v
    BY <2>2
  <2> HIDE DEF f, R
  <2> QED  BY <2>1, <2>3, Zenon DEF Bijection, Injection, Surjection, IsInjective
<1>6. IsFiniteSet(R) /\ Cardinality(R) = Cardinality(P)
  <2>1. ExistsBijection(P, R)
    BY <1>5, Zenon DEF ExistsBijection
  <2> QED  BY <1>3, <2>1, FS_Bijection
<1>7. R \cap Linked(k) = {} /\ m \notin R /\ R \subseteq Nodes
  <2>1. ASSUME NEW n \in R PROVE n \notin Linked(k) /\ n # m
    <3>1. PICK u \in P : node[u] = n /\ n \in Nodes
      OBVIOUS
    <3>2. PutBy(u, k, n) /\ u \in Threads
      BY <1>4, <3>1
    <3> QED  BY <3>1, <3>2 DEF PerThreadIInv, Apart
  <2> QED  BY <2>1
<1> HIDE DEF R, f
<1>8. PICK U : U = Linked(k) \cup R
  OBVIOUS
<1>9. Cardinality(U) = Cardinality(Linked(k)) + Cardinality(R)
  <2>1. Cardinality(Linked(k) \cup R)
          = Cardinality(Linked(k)) + Cardinality(R) - Cardinality(Linked(k) \cap R)
    BY <1>1, <1>6, FS_Union, Zenon
  <2>2. Linked(k) \cap R = {}
    BY <1>7
  <2>3. Cardinality(Linked(k)) \in Nat /\ Cardinality(R) \in Nat /\ Cardinality({}) = 0
    BY <1>1, <1>6, FS_CardinalityType, FS_EmptySet
  <2>4. Cardinality(Linked(k) \cap R) = 0 /\ Cardinality(U) = Cardinality(Linked(k) \cup R)
    BY <1>8, <2>2, <2>3, Zenon
  <2> QED  BY <2>1, <2>3, <2>4
<1>10. IsFiniteSet(Nodes) /\ Cardinality(Nodes) = Population + 1
  <2>1. 0 \in Int /\ Population \in Int
    BY PerThreadAssumption
  <2>2. IsFiniteSet(0..Population)
        /\ Cardinality(0..Population) = IF 0 > Population THEN 0 ELSE Population - 0 + 1
    BY <2>1, FS_Interval, Zenon
  <2> QED  BY <2>2, PerThreadAssumption DEF Nodes
<1>11. Cardinality(U) <= Population
  <2>1. PICK V : V = Nodes \ {m}
    OBVIOUS
  <2>2. IsFiniteSet(V) /\ Cardinality(V) = Population
    <3>1. IsFiniteSet(Nodes \ {m}) /\ Cardinality(Nodes \ {m}) = Cardinality(Nodes) - 1
      BY <1>10, FS_RemoveElement, Zenon
    <3>2. IsFiniteSet(V) /\ Cardinality(V) = (Population + 1) - 1
      BY <1>10, <2>1, <3>1, Zenon
    <3> QED  BY <3>2, PerThreadAssumption
  <2>3. U \in SUBSET V
    BY <1>1, <1>7, <1>8, <2>1
  <2> QED  BY <2>2, <2>3, FS_Subset
<1>12. /\ Cardinality(Taking(k)) \in Nat /\ Cardinality(Linked(k)) \in Nat
       /\ Cardinality(P) \in Nat
  BY <1>1, <1>3, FS_CardinalityType
<1>13. number[k] = Cardinality(Linked(k)) + Cardinality(P) - Cardinality(Taking(k))
  BY <1>2 DEF PerThreadIInv, Counted
<1> QED  BY <1>6, <1>9, <1>11, <1>12, <1>13, PerThreadAssumption

\* Every step keeps what a putter knows of the count.
LEMMA PutterCountNext ==
  PerThreadIInv /\ PutterCount /\ [MemoryNext]_memoryVars => PutterCount'
<1> SUFFICES ASSUME PerThreadIInv, PutterCount, [MemoryNext]_memoryVars PROVE PutterCount'
  OBVIOUS
<1>1. ASSUME NEW t \in Threads, NEW k \in 1..built, NEW m \in Nodes, DoReleaseBuffer(t, k, m),
             m \notin Linked(k), \A u \in Threads : ~PutBy(u, k, m)
      PROVE  PutterCount'
  <2>1. number[k] <= Population
    BY <1>1, CountBeforeRelease
  <2>2. /\ freed' = freed /\ sz'[t] = number[k]
        /\ \A u \in Threads : u # t => pc'[u] = pc[u] /\ sz'[u] = sz[u]
    BY <1>1 DEF DoReleaseBuffer, Goto, PerThreadIInv, PerThreadTypes
  <2> QED  BY <2>1, <2>2 DEF PutterCount
<1>2. ASSUME NEW t \in Threads, FreeCurThreadMemory(t) \/ OnThreadExit(t) PROVE PutterCount'
  <2>1. key[t] \in 1..built /\ Dummy \in Nodes
    BY <1>2, PerThreadAssumption
       DEF FreeCurThreadMemory, OnThreadExit, PerThreadIInv, PerThreadTypes, NoList, Nodes, Dummy
  <2>2. DoReleaseBuffer(t, key[t], Dummy)
    BY <1>2 DEF FreeCurThreadMemory, OnThreadExit
  <2>3. Dummy \notin Linked(key[t]) /\ \A u \in Threads : ~PutBy(u, key[t], Dummy)
    BY <2>1 DEF PerThreadIInv, Apart
  <2> QED  BY <1>1, <2>1, <2>2, <2>3
<1>3. ASSUME NEW t \in Threads, NEW l \in Lists, NEW n \in Nodes, ReleaseBuffer(t, l, n)
      PROVE  PutterCount'
  <2>1. l \in 1..built /\ <<l, n>> \in inUse /\ DoReleaseBuffer(t, l, n)
    BY <1>3 DEF ReleaseBuffer, PerThreadIInv, PerThreadTypes
  <2>2. n \notin Linked(l) /\ \A u \in Threads : ~PutBy(u, l, n)
    BY <2>1 DEF PerThreadIInv, Apart
  <2> QED  BY <1>1, <2>1, <2>2
<1>4. ASSUME NEW t \in Threads, Enqueue(t) PROVE PutterCount'
  <2>1. sz[t] <= Population /\ sz[t] \in Int /\ sz[t] # Population + 1
    BY <1>4, PerThreadAssumption DEF Enqueue, PutterCount, PerThreadIInv, PerThreadTypes
  <2>2. /\ freed' = freed
        /\ \A u \in Threads : \/ sz'[u] = sz[u] /\ (pc'[u] = pc[u] \/ u = t)
                              \/ pc'[u] = "idle"
    BY <1>4, <2>1 DEF Enqueue, Goto, EndCall, PerThreadIInv, PerThreadTypes
  <2> QED  BY <2>1, <2>2 DEF PutterCount
<1>5. ASSUME NEW t \in Threads,
             \/ TestEmpty(t) \/ CountDown(t) \/ ReadFirst(t) \/ Dequeue(t) \/ ReadHead(t)
             \/ InitPerThreadList(t) \/ AllocBuffer(t)
      PROVE  PutterCount'
  <2>1. /\ freed' = freed
        /\ \A u \in Threads : u # t => pc'[u] = pc[u] /\ sz'[u] = sz[u]
        /\ pc'[t] \notin {"enq", "enqcas"} \/ (pc[t] = "enq" /\ sz' = sz)
    BY <1>5 DEF TestEmpty, CountDown, ReadFirst, Dequeue, ReadHead, InitPerThreadList,
                AllocBuffer, Goto, EndCall, PerThreadIInv, PerThreadTypes
  <2> QED  BY <2>1 DEF PutterCount
<1>6. CASE UNCHANGED memoryVars
  BY <1>6 DEF memoryVars, PutterCount
<1> QED  BY <1>2, <1>3, <1>4, <1>5, <1>6 DEF MemoryNext, MemoryStep

\* Cleaner is never called: the count a release reads is at most population_,
\* and DoReleaseBuffer waits for population_ + 1.  No list is ever freed, with
\* any number of threads and buffers.
THEOREM NoListIsFreed == MemorySafetySpec => [](freed = {})
<1>1. MemoryInit => PutterCount
  BY DEF MemoryInit, PutterCount
<1>2. PutterCount => freed = {}
  BY DEF PutterCount
<1> QED  BY <1>1, <1>2, PutterCountNext, PerThreadInvariant, PTL DEF MemorySafetySpec
=============================================================================
