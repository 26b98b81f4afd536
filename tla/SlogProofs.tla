----------------------------- MODULE SlogProofs -----------------------------
(***************************************************************************)
(* slog, for any threads, units, buffers and messages.                     *)
(*                                                                         *)
(* The logger: the nifty counter works; in whatever order the units are    *)
(* initialised, a log statement finds the appender.  A record tells what   *)
(* was logged and when: numbers of any width read back.                    *)
(*                                                                         *)
(* The asynchronous appender: messages reach the file in the order they    *)
(* were queued, no buffer is lost or shared, and what is queued survives   *)
(* destruction and, within limits, a crash.                                *)
(***************************************************************************)
EXTENDS SlogLogger, AsynLogAppender, FiniteSetTheorems, SequenceTheorems, WellFoundedInduction, TLAPS

Objects == Units \X Kinds

\* Constructing an object adds it to the initializers or leaves them alone.
LEMMA ConstructCounts ==
  ASSUME NEW s \in Seq(Objects), NEW o \in Objects,
         IsFiniteSet(Initializers(s)), s # <<>> => 1 \in Initializers(s)
  PROVE  /\ Append(s, o) \in Seq(Objects) /\ Append(s, o) # <<>>
         /\ IsFiniteSet(Initializers(Append(s, o)))
         /\ Cardinality(Initializers(Append(s, o))) =
              Cardinality(Initializers(s)) + IF o[2] = "initializer" THEN 1 ELSE 0
         /\ s # <<>> \/ o[2] = "initializer" => 1 \in Initializers(Append(s, o))
<1>1. /\ Append(s, o) \in Seq(Objects) /\ Len(s) \in Nat /\ Append(s, o) # <<>>
      /\ DOMAIN s = 1..Len(s) /\ DOMAIN Append(s, o) = 1..(Len(s) + 1)
      /\ Append(s, o)[Len(s) + 1] = o
      /\ \A i \in 1..Len(s) : Append(s, o)[i] = s[i]
      /\ s = <<>> <=> Len(s) = 0
  OBVIOUS
<1>2. CASE o[2] = "initializer"
  <2>1. Initializers(Append(s, o)) = Initializers(s) \cup {Len(s) + 1}
    BY <1>1, <1>2 DEF Initializers
  <2>2. Len(s) + 1 \notin Initializers(s)
    BY <1>1 DEF Initializers
  <2>3. /\ IsFiniteSet(Initializers(Append(s, o)))
        /\ Cardinality(Initializers(Append(s, o))) = Cardinality(Initializers(s)) + 1
    BY <2>1, <2>2, FS_AddElement
  <2>4. 1 \in Initializers(Append(s, o))
    BY <1>1, <2>1
  <2> QED  BY <1>1, <1>2, <2>3, <2>4
<1>3. CASE o[2] # "initializer"
  <2>1. Initializers(Append(s, o)) = Initializers(s)
    BY <1>1, <1>3 DEF Initializers
  <2>2. Cardinality(Initializers(s)) \in Nat
    BY FS_CardinalityType
  <2> QED  BY <1>1, <1>3, <2>1, <2>2
<1> QED  BY <1>2, <1>3

\* Destroying the last object takes it from them.
LEMMA DestroyCounts ==
  ASSUME NEW s \in Seq(Objects), s # <<>>,
         IsFiniteSet(Initializers(s)), 1 \in Initializers(s)
  PROVE  /\ Front(s) \in Seq(Objects)
         /\ IsFiniteSet(Initializers(Front(s)))
         /\ Cardinality(Initializers(Front(s))) =
              Cardinality(Initializers(s)) - IF Last(s)[2] = "initializer" THEN 1 ELSE 0
         /\ Front(s) # <<>> => 1 \in Initializers(Front(s))
<1>1. /\ Front(s) \in Seq(Objects) /\ Len(s) \in Nat \ {0}
      /\ DOMAIN s = 1..Len(s) /\ DOMAIN Front(s) = 1..(Len(s) - 1)
      /\ \A i \in 1..(Len(s) - 1) : Front(s)[i] = s[i]
      /\ Front(s) # <<>> => Len(s) > 1
  BY DEF Front
<1>2. Front(s) # <<>> => 1 \in Initializers(Front(s))
  BY <1>1 DEF Initializers
<1>3. CASE Last(s)[2] = "initializer"
  <2>1. Len(s) \in Initializers(s) /\ Initializers(Front(s)) = Initializers(s) \ {Len(s)}
    BY <1>1, <1>3 DEF Initializers, Last
  <2> QED  BY <1>1, <1>2, <1>3, <2>1, FS_RemoveElement
<1>4. CASE Last(s)[2] # "initializer"
  <2>1. Initializers(Front(s)) = Initializers(s)
    BY <1>1, <1>4 DEF Initializers, Last
  <2>2. Cardinality(Initializers(s)) \in Nat
    BY FS_CardinalityType
  <2> QED  BY <1>1, <1>2, <1>4, <2>1, <2>2
<1> QED  BY <1>3, <1>4

\* While there are objects the counter is not zero.
LEMMA CounterPositive ==
  ASSUME LifeInv, objects # <<>>
  PROVE  counter > 0
<1>1. 1 \in Initializers(objects) /\ IsFiniteSet(Initializers(objects))
  BY DEF LifeInv, CounterInv
<1>2. Cardinality(Initializers(objects)) # 0
  BY <1>1, FS_EmptySet
<1> QED  BY <1>2 DEF LifeInv, LifeTypeOK, CounterInv

\* At the start there is nothing.
LEMMA InitLifeInv == Init => LifeInv
<1> SUFFICES ASSUME Init PROVE LifeInv
  OBVIOUS
<1>1. Initializers(<<>>) = {}
  BY DEF Initializers
<1>2. CounterInv
  BY <1>1, FS_EmptySet DEF Init, CounterInv
<1>3. LifeTypeOK /\ AppenderInv /\ LoggingInv
  BY DEF Init, LifeTypeOK, AppenderInv, LoggingInv
<1> QED  BY <1>2, <1>3 DEF LifeInv

\* A process that ends takes its log statements along.
LEMMA AbandonInv ==
  ASSUME LifeInv, Abandon
  PROVE  LifeInv'
  BY DEF LifeInv, LifeTypeOK, CounterInv, AppenderInv, LoggingInv, Abandon, timeVars

\* A thread that goes on with a log statement may go on.
LEMMA StatementInv ==
  ASSUME LifeInv, NEW t \in Threads, Running(t) \/ open[t] # <<>> \/ stamping[t],
         UNCHANGED lifeVars, stamping' \in [Threads -> BOOLEAN], DOMAIN open' = Threads,
         \A u \in Threads \ {t} : open'[u] = open[u] /\ stamping'[u] = stamping[u]
  PROVE  LifeInv'
<1>1. LifeTypeOK' /\ CounterInv' /\ AppenderInv'
  BY DEF LifeInv, LifeTypeOK, CounterInv, AppenderInv, lifeVars
<1>2. LoggingInv'
  BY DEF LifeInv, LifeTypeOK, LoggingInv, Running, lifeVars
<1> QED  BY <1>1, <1>2 DEF LifeInv

\* The steps of a log statement.
LEMMA LogStepInv ==
  ASSUME LifeInv, NEW t \in Threads, LogStep(t)
  PROVE  LifeInv'
<1>0. DOMAIN open = Threads /\ stamping \in [Threads -> BOOLEAN]
  BY DEF LifeInv, LifeTypeOK
<1>1. CASE \E lvl \in Levels : TryLog(t, lvl)
  <2>1. PICK lvl \in Levels : TryLog(t, lvl)
    BY <1>1
  <2>2. /\ Running(t) /\ UNCHANGED lifeVars
        /\ stamping' = [stamping EXCEPT ![t] = TRUE]
        /\ \E s : open' = [open EXCEPT ![t] = s]
    BY <2>1 DEF TryLog
  <2> QED  BY <1>0, <2>2, StatementInv
<1>2. CASE Stamp(t)
  BY <1>0, <1>2, StatementInv DEF Stamp, SetTop
<1>3. CASE \E v \in Signed \cup Unsigned : PutValue(t, v)
  BY <1>0, <1>3, StatementInv DEF PutValue, SetTop, CanPut, Busy
<1>4. CASE \E v \in Pointers : PutAddress(t, v)
  BY <1>0, <1>4, StatementInv DEF PutAddress, SetTop, CanPut, Busy
<1>5. CASE \E len \in Texts : PutText(t, len)
  BY <1>0, <1>5, StatementInv, AbandonInv DEF PutText, SetTop, CanPut, Busy
<1>6. CASE Finish(t)
  BY <1>0, <1>6, StatementInv, AbandonInv DEF Finish, Busy
<1>7. CASE \E len \in Reals : FmtAppend(t, len)
  BY <1>0, <1>7, StatementInv DEF FmtAppend, SetTop, CanPut, Busy
<1> QED  BY <1>1, <1>2, <1>3, <1>4, <1>5, <1>6, <1>7 DEF LogStep

\* Construction: the first initializer creates the appender.
LEMMA ConstructInv ==
  ASSUME LifeInv, NEW u \in Units, ConstructInitializer(u) \/ ConstructGlobal(u)
  PROVE  LifeInv'
<1> USE DEF Kinds, Objects
<1>0. LifeTypeOK /\ CounterInv /\ AppenderInv /\ LoggingInv
  BY DEF LifeInv
<1>1. CASE ConstructInitializer(u)
  <2> DEFINE o == <<u, "initializer">>
  <2>1. o \in Objects /\ o[2] = "initializer" /\ objects' = Append(objects, o)
    BY <1>1 DEF ConstructInitializer
  <2> HIDE DEF o
  <2>2. CounterInv' /\ objects' \in Seq(Objects)
    BY <1>0, <1>1, <2>1, ConstructCounts DEF CounterInv, LifeTypeOK, ConstructInitializer
  <2>3. LifeTypeOK' /\ AppenderInv' /\ LoggingInv'
    BY <1>0, <1>1, <2>1, <2>2, ConstructCounts
       DEF LifeTypeOK, AppenderInv, LoggingInv, CounterInv, ConstructInitializer
  <2> QED  BY <2>2, <2>3 DEF LifeInv
<1>2. CASE ConstructGlobal(u)
  <2> DEFINE o == <<u, "global">>
  <2>1. o \in Objects /\ o[2] # "initializer" /\ objects' = Append(objects, o)
    BY <1>2 DEF ConstructGlobal
  <2> HIDE DEF o
  <2>2. CounterInv' /\ objects' \in Seq(Objects)
    <3>1. objects # <<>> /\ phase = "static" /\ UNCHANGED <<counter, phase>>
      BY <1>2 DEF ConstructGlobal
    <3>2. /\ IsFiniteSet(Initializers(objects')) /\ objects' \in Seq(Objects)
          /\ Cardinality(Initializers(objects')) = Cardinality(Initializers(objects)) + 0
          /\ 1 \in Initializers(objects')
      BY <1>0, <2>1, <3>1, ConstructCounts DEF CounterInv, LifeTypeOK
    <3> QED  BY <1>0, <3>1, <3>2 DEF CounterInv, LifeTypeOK
  <2>3. LifeTypeOK' /\ AppenderInv' /\ LoggingInv'
    BY <1>0, <1>2, <2>1, <2>2, ConstructCounts
       DEF LifeTypeOK, AppenderInv, LoggingInv, CounterInv, ConstructGlobal
  <2> QED  BY <2>2, <2>3 DEF LifeInv
<1> QED  BY <1>1, <1>2

\* Destruction: only the last initializer destroys the appender.
LEMMA DestroyInv ==
  ASSUME LifeInv, DestroyObject
  PROVE  LifeInv'
<1> USE DEF Kinds, Objects
<1>0. LifeTypeOK /\ CounterInv /\ AppenderInv /\ LoggingInv
  BY DEF LifeInv
<1>1. objects \in Seq(Objects) /\ objects # <<>> /\ 1 \in Initializers(objects) /\ counter > 0
  BY <1>0, CounterPositive DEF LifeTypeOK, CounterInv, DestroyObject
<1>2. CounterInv' /\ objects' \in Seq(Objects)
  BY <1>0, <1>1, DestroyCounts DEF CounterInv, LifeTypeOK, DestroyObject, DestroyInitializer
<1>3. LifeTypeOK' /\ AppenderInv'
  BY <1>0, <1>1, <1>2 DEF LifeTypeOK, AppenderInv, DestroyObject, DestroyInitializer
<1>4. LoggingInv'
  BY <1>0 DEF LoggingInv, LifeTypeOK, DestroyObject, Idle
<1> QED  BY <1>2, <1>3, <1>4 DEF LifeInv

\* The beginning and the end of main.
LEMMA MainInv ==
  ASSUME LifeInv, (\E l \in Levels : InitLogging(l)) \/ ExitMain
  PROVE  LifeInv'
<1>0. LifeTypeOK /\ CounterInv /\ AppenderInv /\ LoggingInv
  BY DEF LifeInv
<1>1. CASE \E l \in Levels : InitLogging(l)
  <2>1. PICK u \in Units : Cardinality(Constructed(u)) = 2
    BY <1>1, SlogAssumption DEF InitLogging
  <2>2. objects # <<>>
    <3>1. objects = <<>> => Constructed(u) = {}
      BY DEF Constructed
    <3> QED  BY <2>1, <3>1, FS_EmptySet
  <2> QED  BY <1>0, <1>1, <2>2 DEF LifeInv, LifeTypeOK, CounterInv, AppenderInv, LoggingInv, InitLogging, Idle
<1>2. CASE ExitMain
  BY <1>0, <1>2 DEF LifeInv, LifeTypeOK, CounterInv, AppenderInv, LoggingInv, ExitMain, Idle
<1> QED  BY <1>1, <1>2

\* Every step keeps the invariant.
LEMMA NextLifeInv == LifeInv /\ [Next]_vars => LifeInv'
<1> SUFFICES ASSUME LifeInv, [Next]_vars PROVE LifeInv'
  OBVIOUS
<1>1. CASE UNCHANGED vars \/ Tick \/ \E l \in Levels : SetLogLevel(l)
  BY <1>1 DEF LifeInv, LifeTypeOK, CounterInv, AppenderInv, LoggingInv, Tick, SetLogLevel, vars, lifeVars
<1>2. CASE LifeStep
  BY <1>1, <1>2, ConstructInv, DestroyInv, MainInv DEF LifeStep
<1>3. CASE \E t \in Threads : LogStep(t)
  BY <1>3, LogStepInv
<1> QED  BY <1>1, <1>2, <1>3 DEF Next

\* The counter of slogLoggerInitializer, the appender and who may log keep in step.
THEOREM LifeInvariant == Spec => []LifeInv
  BY InitLifeInv, NextLifeInv, PTL DEF Spec

\* A log statement finds an appender, before, in and after main: the first object of
\* all is an initializer, and it is the last one destroyed.
THEOREM AppenderStaysAlive == Spec => []AppenderAlive
<1>1. LifeInv => AppenderAlive
  BY CounterPositive DEF LifeInv, LifeTypeOK, CounterInv, AppenderInv, LoggingInv, AppenderAlive
<1> QED  BY <1>1, LifeInvariant, PTL

-----------------------------------------------------------------------------
(* The asynchronous appender.  The messages a queue points to: MsgsIn is a     *)
(* recursive function, and what it computes is proved by induction, the        *)
(* property being membership in a set.                                         *)

\* What the buffers hold.
Memory == [Buffs -> [1..BuffCap -> Nat]]

\* A set of naturals that holds the successors of all below it is all of them.
LEMMA Induct ==
  ASSUME NEW S \in SUBSET Nat, 0 \in S, \A n \in S : n + 1 \in S
  PROVE  \A n \in Nat : n \in S
<1> DEFINE Less == OpToRel(<, Nat)
<1>1. \A x, y \in Nat : <<y, x>> \in Less <=> y < x
  BY Zenon DEF OpToRel
<1>2. IsWellFoundedOn(Less, Nat)
  BY NatLessThanWellFounded, Zenon
<1> HIDE DEF Less
<1>3. SUFFICES ASSUME Nat \ S # {} PROVE FALSE
  OBVIOUS
<1>4. Nat \ S \subseteq Nat
  OBVIOUS
<1>5. PICK x \in Nat \ S : \A y \in Nat \ S : ~ (<<y, x>> \in Less)
  BY <1>2, <1>3, <1>4, WFMin, Zenon
<1>6. \A y \in Nat \ S : ~ (y < x)
  BY <1>1, <1>5, Zenon
<1>7. x # 0 /\ x - 1 \in Nat
  BY <1>5
<1>8. x - 1 \in S
  BY <1>6, <1>7
<1>9. (x - 1) + 1 = x
  BY <1>5
<1> QED  BY <1>5, <1>8, <1>9

\* The messages of the first n entries of a queue, for every n.
IsPicked(f, memory, s) ==
  f = [n \in 0..Len(s) |->
        IF n = 0 THEN <<>>
        ELSE IF s[n].at = 0 THEN f[n - 1]
        ELSE Append(f[n - 1], memory[s[n].buff][s[n].at])]

\* The recursive function of MsgsIn exists.
LEMMA MsgsPicked ==
  ASSUME NEW memory, NEW s, \E f : IsPicked(f, memory, s)
  PROVE  \E f : IsPicked(f, memory, s) /\ MsgsIn(memory, s) = f[Len(s)]
<1> DEFINE g == CHOOSE f : IsPicked(f, memory, s)
<1>1. IsPicked(g, memory, s)
  OBVIOUS
<1>2. MsgsIn(memory, s) = g[Len(s)]
  BY DEF MsgsIn, IsPicked
<1> QED  BY <1>1, <1>2

\* Induction on sequences, for a set of them.
LEMMA InductSeq ==
  ASSUME NEW T, NEW S, <<>> \in S, \A s \in Seq(T), e \in T : s \in S => Append(s, e) \in S
  PROVE  Seq(T) \subseteq S
<1> DEFINE N == {n \in Nat : \A s \in Seq(T) : Len(s) = n => s \in S}
<1>1. 0 \in N
  BY EmptySeq
<1>2. ASSUME NEW n \in N PROVE n + 1 \in N
  <2> SUFFICES ASSUME NEW s \in Seq(T), Len(s) = n + 1 PROVE s \in S
    OBVIOUS
  <2>1. s # <<>>
    BY EmptySeq
  <2>2. PICK t \in Seq(T), e \in T : s = Append(t, e)
    BY <2>1, SequenceEmptyOrAppend
  <2>3. Len(t) = n
    BY <2>2, AppendProperties, LenProperties
  <2> QED  BY <2>2, <2>3
<1>3. N \in SUBSET Nat
  OBVIOUS
<1> HIDE DEF N
<1>4. \A n \in Nat : n \in N
  BY <1>1, <1>2, <1>3, Induct
<1>5. \A s \in Seq(T) : Len(s) \in N
  BY <1>4, LenProperties
<1> QED  BY <1>5 DEF N

\* One entry more.
LEMMA PickedAppend ==
  ASSUME NEW memory, NEW s \in Seq(Entry), NEW e \in Entry, NEW f, IsPicked(f, memory, s)
  PROVE  \E g : /\ IsPicked(g, memory, Append(s, e))
                /\ g[Len(s) + 1] = IF e.at = 0 THEN f[Len(s)]
                                   ELSE Append(f[Len(s)], memory[e.buff][e.at])
<1>1. PICK n \in Nat : n = Len(s)
  BY LenProperties
<1>2. PICK t : t = Append(s, e)
  OBVIOUS
<1>3. Len(t) = n + 1 /\ t[n + 1] = e /\ \A k \in 1..n : t[k] = s[k]
  BY <1>1, <1>2, AppendProperties
<1>4. PICK last : last = IF e.at = 0 THEN f[n] ELSE Append(f[n], memory[e.buff][e.at])
  OBVIOUS
<1>5. PICK g : g = [k \in 0..(n + 1) |-> IF k = n + 1 THEN last ELSE f[k]]
  OBVIOUS
<1>6. g[n + 1] = last /\ \A k \in 0..n : g[k] = f[k]
  BY <1>5
<1>7. \A k \in 0..n : f[k] = IF k = 0 THEN <<>>
                             ELSE IF s[k].at = 0 THEN f[k - 1]
                             ELSE Append(f[k - 1], memory[s[k].buff][s[k].at])
  BY <1>1 DEF IsPicked
<1>8. ASSUME NEW k \in 0..(n + 1)
      PROVE  g[k] = IF k = 0 THEN <<>>
                    ELSE IF t[k].at = 0 THEN g[k - 1]
                    ELSE Append(g[k - 1], memory[t[k].buff][t[k].at])
  <2>1. CASE k = 0
    BY <1>6, <1>7, <2>1
  <2>2. CASE k = n + 1
    <3>1. g[k - 1] = f[n] /\ t[k] = e /\ k # 0
      BY <1>3, <1>6, <2>2
    <3> QED  BY <1>4, <1>6, <2>2, <3>1
  <2>3. CASE k \in 1..n
    <3>1. g[k] = f[k] /\ g[k - 1] = f[k - 1] /\ t[k] = s[k] /\ k # 0 /\ k \in 0..n
      BY <1>3, <1>6, <2>3
    <3> QED  BY <1>7, <3>1
  <2> QED  BY <2>1, <2>2, <2>3
<1>9. IsPicked(g, memory, t)
  BY <1>3, <1>5, <1>8 DEF IsPicked
<1> QED  BY <1>1, <1>2, <1>4, <1>6, <1>9

\* It exists for every queue.
LEMMA PickedExists ==
  ASSUME NEW memory
  PROVE  \A s \in Seq(Entry) : \E f : IsPicked(f, memory, s)
<1> DEFINE S == {s \in Seq(Entry) : \E f : IsPicked(f, memory, s)}
<1>1. <<>> \in S
  <2>1. IsPicked([n \in 0..0 |-> <<>>], memory, <<>>)
    BY EmptySeq DEF IsPicked
  <2> QED  BY <2>1, EmptySeq
<1>2. ASSUME NEW s \in Seq(Entry), NEW e \in Entry, s \in S PROVE Append(s, e) \in S
  BY <1>2, PickedAppend, AppendProperties
<1> HIDE DEF S
<1>3. Seq(Entry) \subseteq S
  BY <1>1, <1>2, InductSeq
<1> QED  BY <1>3 DEF S

\* There is only one.
LEMMA PickedUnique ==
  ASSUME NEW memory, NEW s \in Seq(Entry), NEW f, NEW g,
         IsPicked(f, memory, s), IsPicked(g, memory, s)
  PROVE  f = g
<1>1. PICK n \in Nat : n = Len(s)
  BY LenProperties
<1> DEFINE S == {k \in Nat : k <= n => f[k] = g[k]}
<1>2. \A k \in 0..n : /\ f[k] = IF k = 0 THEN <<>>
                                ELSE IF s[k].at = 0 THEN f[k - 1]
                                ELSE Append(f[k - 1], memory[s[k].buff][s[k].at])
                      /\ g[k] = IF k = 0 THEN <<>>
                                ELSE IF s[k].at = 0 THEN g[k - 1]
                                ELSE Append(g[k - 1], memory[s[k].buff][s[k].at])
  BY <1>1 DEF IsPicked
<1>3. 0 \in S
  <2>1. 0 \in 0..n
    BY <1>1
  <2>2. f[0] = <<>> /\ g[0] = <<>>
    BY <1>2, <2>1
  <2> QED  BY <2>2
<1>4. ASSUME NEW k \in S PROVE k + 1 \in S
  <2> SUFFICES ASSUME k + 1 <= n PROVE f[k + 1] = g[k + 1]
    OBVIOUS
  <2>1. PICK j : j = k + 1
    OBVIOUS
  <2>2. j \in 0..n /\ j # 0 /\ j - 1 = k
    BY <2>1
  <2>3. f[k] = g[k]
    BY <2>2
  <2>4. f[j] = g[j]
    BY <1>2, <2>2, <2>3
  <2> QED  BY <2>1, <2>4
<1>5. S \in SUBSET Nat
  OBVIOUS
<1> HIDE DEF S
<1>6. \A k \in Nat : k \in S
  BY <1>3, <1>4, <1>5, Induct
<1>7. \A k \in 0..n : f[k] = g[k]
  BY <1>6 DEF S
<1>8. /\ f = [k \in 0..n |-> f[k]] /\ g = [k \in 0..n |-> g[k]]
  BY <1>1, Zenon DEF IsPicked
<1> QED  BY <1>7, <1>8

\* The messages of a queue, entry by entry.
LEMMA MsgsAppend ==
  ASSUME NEW memory, NEW s \in Seq(Entry), NEW e \in Entry
  PROVE  MsgsIn(memory, Append(s, e)) =
           IF e.at = 0 THEN MsgsIn(memory, s)
           ELSE Append(MsgsIn(memory, s), memory[e.buff][e.at])
<1>1. Append(s, e) \in Seq(Entry) /\ Len(Append(s, e)) = Len(s) + 1
  BY AppendProperties
<1>2. PICK f : IsPicked(f, memory, s) /\ MsgsIn(memory, s) = f[Len(s)]
  BY PickedExists, MsgsPicked
<1>3. PICK g : /\ IsPicked(g, memory, Append(s, e))
               /\ g[Len(s) + 1] = IF e.at = 0 THEN f[Len(s)]
                                  ELSE Append(f[Len(s)], memory[e.buff][e.at])
  BY <1>2, PickedAppend
<1>4. PICK h : IsPicked(h, memory, Append(s, e)) /\ MsgsIn(memory, Append(s, e)) = h[Len(Append(s, e))]
  BY <1>1, PickedExists, MsgsPicked
<1>5. g = h
  BY <1>1, <1>3, <1>4, PickedUnique
<1> QED  BY <1>1, <1>2, <1>3, <1>4, <1>5

\* An empty queue has no message.
LEMMA MsgsEmpty ==
  ASSUME NEW memory
  PROVE  MsgsIn(memory, <<>>) = <<>>
<1>1. <<>> \in Seq(Entry) /\ Len(<<>>) = 0
  BY EmptySeq
<1>2. PICK f : IsPicked(f, memory, <<>>) /\ MsgsIn(memory, <<>>) = f[Len(<<>>)]
  BY <1>1, PickedExists, MsgsPicked
<1> QED  BY <1>1, <1>2 DEF IsPicked

\* What an entry with a message points to.
LEMMA EntryMsg ==
  ASSUME NEW memory \in Memory, NEW e \in Entry, e.at # 0
  PROVE  memory[e.buff][e.at] \in Nat
<1>1. e.at \in 1..BuffCap /\ e.buff \in Buffs
  BY AppenderAssumption DEF Entry
<1> QED  BY <1>1 DEF Memory

\* Append, element by element.
LEMMA AppendFacts ==
  ASSUME NEW T, NEW s \in Seq(T), NEW e \in T
  PROVE  /\ Append(s, e) \in Seq(T) /\ Len(s) \in Nat
         /\ DOMAIN s = 1..Len(s) /\ Len(Append(s, e)) = Len(s) + 1
         /\ DOMAIN Append(s, e) = 1..(Len(s) + 1)
         /\ Append(s, e)[Len(s) + 1] = e
         /\ \A i \in 1..Len(s) : Append(s, e)[i] = s[i]
OBVIOUS

\* The members of a sequence with one element more.
LEMMA ToSetAppend ==
  ASSUME NEW T, NEW s \in Seq(T), NEW e \in T
  PROVE  ToSet(Append(s, e)) = ToSet(s) \cup {e}
<1>1. PICK t : t = Append(s, e)
  OBVIOUS
<1>2. PICK n \in Nat : n = Len(s)
  BY AppendFacts
<1>3. DOMAIN t = 1..(n + 1) /\ DOMAIN s = 1..n
  BY <1>1, <1>2, AppendFacts
<1>4. t[n + 1] = e /\ \A i \in 1..n : t[i] = s[i]
  BY <1>1, <1>2, AppendFacts
<1>5. ToSet(s) = {s[i] : i \in 1..n} /\ ToSet(t) = {t[i] : i \in 1..(n + 1)}
  BY <1>3 DEF ToSet
<1>6. \A i \in 1..(n + 1) : i \in 1..n \/ i = n + 1
  OBVIOUS
<1>7. 1..n \subseteq 1..(n + 1) /\ n + 1 \in 1..(n + 1)
  OBVIOUS
<1>8. ToSet(t) \subseteq ToSet(s) \cup {e}
  BY <1>4, <1>5, <1>6
<1>9. ToSet(s) \cup {e} \subseteq ToSet(t)
  <2>1. e \in ToSet(t)
    BY <1>4, <1>5, <1>7
  <2>2. ASSUME NEW i \in 1..n PROVE s[i] \in ToSet(t)
    BY <1>4, <1>5, <1>7
  <2> QED  BY <1>5, <2>1, <2>2
<1> QED  BY <1>1, <1>8, <1>9

\* Appending to the second of two sequences.
LEMMA ConcatAppend ==
  ASSUME NEW T, NEW p \in Seq(T), NEW q \in Seq(T), NEW v \in T
  PROVE  p \o Append(q, v) = Append(p \o q, v) /\ p \o q \in Seq(T)
<1>1. /\ Append(p \o q, v) = (p \o q) \o <<v>> /\ Append(q, v) = q \o <<v>> /\ <<v>> \in Seq(T)
      /\ p \o q \in Seq(T)
  BY AppendIsConcat, ConcatProperties
<1> QED  BY <1>1, ConcatAssociative

\* Appending to the last of three sequences.
LEMMA ThreeAppend ==
  ASSUME NEW s \in Seq(Nat), NEW t \in Seq(Nat), NEW p \in Seq(Nat), NEW m \in Nat
  PROVE  s \o t \o Append(p, m) = Append(s \o t \o p, m)
<1>1. PICK w \in Seq(Nat) : w = s \o t
  BY ConcatProperties
<1>2. w \o Append(p, m) = Append(w \o p, m)
  BY ConcatAppend
<1> QED  BY <1>1, <1>2

\* Entries with a message point into the memory.
LEMMA MsgsType ==
  ASSUME NEW memory \in Memory
  PROVE  \A s \in Seq(Entry) : MsgsIn(memory, s) \in Seq(Nat)
<1> DEFINE S == {s \in Seq(Entry) : MsgsIn(memory, s) \in Seq(Nat)}
<1>1. <<>> \in S
  BY EmptySeq, MsgsEmpty
<1>2. ASSUME NEW s \in Seq(Entry), NEW e \in Entry, s \in S PROVE Append(s, e) \in S
  <2>1. MsgsIn(memory, s) \in Seq(Nat) /\ Append(s, e) \in Seq(Entry)
    BY <1>2, AppendFacts
  <2>2. CASE e.at = 0
    BY <2>1, <2>2, MsgsAppend
  <2>3. CASE e.at # 0
    <3>1. PICK v \in Nat : v = memory[e.buff][e.at]
      BY <2>3, EntryMsg
    <3>2. MsgsIn(memory, Append(s, e)) = Append(MsgsIn(memory, s), v)
      BY <2>3, <3>1, MsgsAppend
    <3>3. Append(MsgsIn(memory, s), v) \in Seq(Nat)
      BY <2>1
    <3> QED  BY <2>1, <3>2, <3>3
  <2> QED  BY <2>2, <2>3
<1> HIDE DEF S
<1>3. Seq(Entry) \subseteq S
  BY <1>1, <1>2, InductSeq
<1> QED  BY <1>3 DEF S

\* The messages of two queues one behind the other.
LEMMA MsgsConcat ==
  ASSUME NEW memory \in Memory, NEW s \in Seq(Entry)
  PROVE  \A t \in Seq(Entry) : MsgsIn(memory, s \o t) = MsgsIn(memory, s) \o MsgsIn(memory, t)
<1> DEFINE S == {t \in Seq(Entry) : MsgsIn(memory, s \o t) = MsgsIn(memory, s) \o MsgsIn(memory, t)}
<1>0. MsgsIn(memory, s) \in Seq(Nat)
  BY MsgsType
<1>1. <<>> \in S
  BY <1>0, EmptySeq, MsgsEmpty, ConcatEmptySeq
<1>2. ASSUME NEW t \in Seq(Entry), NEW e \in Entry, t \in S PROVE Append(t, e) \in S
  <2>1. s \o Append(t, e) = Append(s \o t, e) /\ s \o t \in Seq(Entry)
    BY ConcatAppend
  <2>2. MsgsIn(memory, s \o t) = MsgsIn(memory, s) \o MsgsIn(memory, t)
    BY <1>2
  <2>3. PICK p, q \in Seq(Nat) : p = MsgsIn(memory, s) /\ q = MsgsIn(memory, t)
    BY MsgsType
  <2>4. CASE e.at = 0
    <3>1. MsgsIn(memory, Append(t, e)) = MsgsIn(memory, t)
      BY <2>4, MsgsAppend
    <3>2. MsgsIn(memory, Append(s \o t, e)) = MsgsIn(memory, s \o t)
      BY <2>1, <2>4, MsgsAppend
    <3> QED  BY <2>1, <2>2, <3>1, <3>2, AppendFacts
  <2>5. CASE e.at # 0
    <3>1. PICK v \in Nat : v = memory[e.buff][e.at]
      BY <2>5, EntryMsg
    <3>2. MsgsIn(memory, s \o Append(t, e)) = Append(p \o q, v)
      BY <2>1, <2>2, <2>3, <2>5, <3>1, MsgsAppend
    <3>3. MsgsIn(memory, Append(t, e)) = Append(q, v)
      BY <2>3, <2>5, <3>1, MsgsAppend
    <3>4. p \o Append(q, v) = Append(p \o q, v)
      BY ConcatAppend
    <3> QED  BY <2>3, <3>2, <3>3, <3>4, AppendFacts
  <2> QED  BY <2>4, <2>5
<1> HIDE DEF S
<1>3. Seq(Entry) \subseteq S
  BY <1>1, <1>2, InductSeq
<1> QED  BY <1>3 DEF S

\* They depend on what the entries point to and on nothing else.
LEMMA MsgsSame ==
  ASSUME NEW memory, NEW other
  PROVE  \A s \in Seq(Entry) :
           (\A i \in DOMAIN s : s[i].at # 0 =>
              other[s[i].buff][s[i].at] = memory[s[i].buff][s[i].at])
             => MsgsIn(other, s) = MsgsIn(memory, s)
<1> DEFINE Same(s) == \A i \in DOMAIN s : s[i].at # 0 =>
                        other[s[i].buff][s[i].at] = memory[s[i].buff][s[i].at]
           S == {s \in Seq(Entry) : Same(s) => MsgsIn(other, s) = MsgsIn(memory, s)}
<1>1. <<>> \in S
  BY EmptySeq, MsgsEmpty
<1>2. ASSUME NEW s \in Seq(Entry), NEW e \in Entry, s \in S PROVE Append(s, e) \in S
  <2> SUFFICES ASSUME Same(Append(s, e))
               PROVE  MsgsIn(other, Append(s, e)) = MsgsIn(memory, Append(s, e))
    BY AppendProperties
  <2>1. /\ DOMAIN s = 1..Len(s) /\ DOMAIN Append(s, e) = 1..(Len(s) + 1) /\ Len(s) \in Nat
        /\ Append(s, e)[Len(s) + 1] = e /\ \A i \in 1..Len(s) : Append(s, e)[i] = s[i]
    BY AppendFacts
  <2>2. Same(s)
    BY <2>1
  <2>3. e.at # 0 => other[e.buff][e.at] = memory[e.buff][e.at]
    BY <2>1
  <2>4. MsgsIn(other, s) = MsgsIn(memory, s)
    BY <1>2, <2>2
  <2> QED  BY <2>3, <2>4, MsgsAppend
<1> HIDE DEF S
<1>3. Seq(Entry) \subseteq S
  BY <1>1, <1>2, InductSeq
<1> QED  BY <1>3 DEF S

\* What an entry with a message points to is among them.
LEMMA MsgsHas ==
  ASSUME NEW memory \in Memory
  PROVE  \A s \in Seq(Entry) : \A i \in DOMAIN s :
           s[i].at # 0 => memory[s[i].buff][s[i].at] \in ToSet(MsgsIn(memory, s))
<1> DEFINE Has(s) == \A i \in DOMAIN s :
                       s[i].at # 0 => memory[s[i].buff][s[i].at] \in ToSet(MsgsIn(memory, s))
           S == {s \in Seq(Entry) : Has(s)}
<1>1. <<>> \in S
  BY EmptySeq
<1>2. ASSUME NEW s \in Seq(Entry), NEW e \in Entry, s \in S PROVE Append(s, e) \in S
  <2> SUFFICES ASSUME NEW i \in DOMAIN Append(s, e), Append(s, e)[i].at # 0
               PROVE  memory[Append(s, e)[i].buff][Append(s, e)[i].at]
                        \in ToSet(MsgsIn(memory, Append(s, e)))
    BY AppendProperties
  <2>1. /\ DOMAIN s = 1..Len(s) /\ DOMAIN Append(s, e) = 1..(Len(s) + 1) /\ Len(s) \in Nat
        /\ Append(s, e)[Len(s) + 1] = e /\ \A j \in 1..Len(s) : Append(s, e)[j] = s[j]
    OBVIOUS
  <2>2. PICK p \in Seq(Nat) : p = MsgsIn(memory, s)
    BY MsgsType
  <2>3. CASE e.at = 0
    <3>1. i \in 1..Len(s)
      BY <2>1, <2>3
    <3> QED  BY <1>2, <2>1, <2>3, <3>1, MsgsAppend
  <2>4. CASE e.at # 0
    <3>1. PICK v : v = memory[e.buff][e.at]
      OBVIOUS
    <3>2. MsgsIn(memory, Append(s, e)) = Append(p, v)
      BY <2>2, <2>4, <3>1, MsgsAppend
    <3>3. v \in Nat
      BY <2>4, <3>1, EntryMsg
    <3>4. v \in ToSet(Append(p, v)) /\ ToSet(p) \subseteq ToSet(Append(p, v))
      BY <3>3, ToSetAppend
    <3>5. CASE i = Len(s) + 1
      BY <2>1, <3>1, <3>2, <3>4, <3>5
    <3>6. CASE i \in 1..Len(s)
      <4>1. memory[s[i].buff][s[i].at] \in ToSet(p)
        BY <1>2, <2>1, <2>2, <3>6
      <4> QED  BY <2>1, <3>2, <3>4, <3>6, <4>1
    <3> QED  BY <2>1, <3>5, <3>6
  <2> QED  BY <2>3, <2>4
<1> HIDE DEF S
<1>3. Seq(Entry) \subseteq S
  BY <1>1, <1>2, InductSeq
<1> QED  BY <1>3 DEF S

-----------------------------------------------------------------------------
(* The queue of entries not handled yet *)

QueuedIn(q) == {b \in Buffs : \E i \in DOMAIN q : q[i] = [buff |-> b, at |-> 0]}
InUse(q, u) == \A i \in DOMAIN q : q[i].at <= u[q[i].buff]
Ordered(q) == \A i, j \in DOMAIN q : i < j /\ q[i].at = 0 => q[j].buff # q[i].buff
Freed(e) == IF e.at = 0 THEN {e.buff} ELSE {}

\* An entry and its fields.
LEMMA EntryFacts ==
  ASSUME NEW e \in Entry
  PROVE  /\ e.buff \in Buffs /\ e.at \in 0..BuffCap /\ e.at \in Nat
         /\ e = [buff |-> e.buff, at |-> e.at]
BY AppenderAssumption DEF Entry

\* A record is a request to recycle a buffer if its length is zero.
LEMMA QueuedAt ==
  ASSUME NEW q \in Seq(Entry)
  PROVE  QueuedIn(q) = {q[i].buff : i \in {i \in DOMAIN q : q[i].at = 0}}
<1>1. \A i \in DOMAIN q : q[i] \in Entry
  BY LenProperties
<1>2. \A i \in DOMAIN q : q[i].buff \in Buffs /\ q[i] = [buff |-> q[i].buff, at |-> q[i].at]
  BY <1>1, EntryFacts
<1>3. ASSUME NEW b \in QueuedIn(q)
      PROVE  b \in {q[i].buff : i \in {i \in DOMAIN q : q[i].at = 0}}
  <2>1. PICK i \in DOMAIN q : q[i] = [buff |-> b, at |-> 0]
    BY DEF QueuedIn
  <2>2. q[i].buff = b /\ q[i].at = 0
    BY <2>1
  <2> QED  BY <2>2
<1>4. ASSUME NEW i \in DOMAIN q, q[i].at = 0 PROVE q[i].buff \in QueuedIn(q)
  BY <1>2, <1>4 DEF QueuedIn
<1> QED  BY <1>3, <1>4

\* An entry is queued.
LEMMA QueueAppend ==
  ASSUME NEW q \in Seq(Entry), NEW e \in Entry
  PROVE  /\ Append(q, e) \in Seq(Entry)
         /\ QueuedIn(Append(q, e)) = QueuedIn(q) \cup Freed(e)
         /\ Ordered(q) /\ e.buff \notin QueuedIn(q) => Ordered(Append(q, e))
         /\ \A u : InUse(q, u) /\ e.at <= u[e.buff] => InUse(Append(q, e), u)
<1>1. PICK r : r = Append(q, e)
  OBVIOUS
<1>2. PICK n \in Nat : n = Len(q)
  BY AppendFacts
<1>3. r \in Seq(Entry) /\ DOMAIN r = 1..(n + 1) /\ DOMAIN q = 1..n
  BY <1>1, <1>2, AppendFacts
<1>4. r[n + 1] = e /\ \A i \in 1..n : r[i] = q[i]
  BY <1>1, <1>2, AppendFacts
<1>5. \A i \in 1..(n + 1) : i \in 1..n \/ i = n + 1
  OBVIOUS
<1>6. 1..n \subseteq 1..(n + 1) /\ n + 1 \in 1..(n + 1)
  OBVIOUS
<1>7. QueuedIn(r) = QueuedIn(q) \cup Freed(e)
  <2>1. QueuedIn(r) \subseteq QueuedIn(q) \cup Freed(e)
    <3> SUFFICES ASSUME NEW i \in DOMAIN r, r[i].at = 0 PROVE r[i].buff \in QueuedIn(q) \cup Freed(e)
      BY <1>3, QueuedAt
    <3>1. CASE i = n + 1
      BY <1>4, <3>1 DEF Freed
    <3>2. CASE i \in 1..n
      BY <1>3, <1>4, <3>2, QueuedAt
    <3> QED  BY <1>3, <1>5, <3>1, <3>2
  <2>2. QueuedIn(q) \subseteq QueuedIn(r)
    <3> SUFFICES ASSUME NEW i \in DOMAIN q, q[i].at = 0 PROVE q[i].buff \in QueuedIn(r)
      BY QueuedAt
    <3>1. i \in DOMAIN r /\ r[i] = q[i]
      BY <1>3, <1>4, <1>6
    <3> QED  BY <1>3, <3>1, QueuedAt
  <2>3. Freed(e) \subseteq QueuedIn(r)
    <3>1. n + 1 \in DOMAIN r /\ r[n + 1] = e
      BY <1>3, <1>4, <1>6
    <3>2. e.at = 0 => e.buff \in QueuedIn(r)
      BY <1>3, <3>1, QueuedAt
    <3> QED  BY <3>2 DEF Freed
  <2> QED  BY <2>1, <2>2, <2>3
<1>8. ASSUME Ordered(q), e.buff \notin QueuedIn(q) PROVE Ordered(r)
  <2> SUFFICES ASSUME NEW i \in DOMAIN r, NEW j \in DOMAIN r, i < j, r[i].at = 0
               PROVE  r[j].buff # r[i].buff
    BY DEF Ordered
  <2>1. i \in 1..n /\ r[i] = q[i]
    BY <1>3, <1>4
  <2>2. CASE j = n + 1
    <3>1. q[i].buff \in QueuedIn(q)
      BY <1>3, <2>1, QueuedAt
    <3> QED  BY <1>4, <1>8, <2>1, <2>2, <3>1
  <2>3. CASE j \in 1..n
    BY <1>3, <1>4, <1>8, <2>1, <2>3 DEF Ordered
  <2> QED  BY <1>3, <1>5, <2>2, <2>3
<1>9. ASSUME NEW u, InUse(q, u), e.at <= u[e.buff] PROVE InUse(r, u)
  BY <1>3, <1>4, <1>5, <1>9 DEF InUse
<1> QED  BY <1>1, <1>3, <1>7, <1>8, <1>9

\* The first entry of a queue is handled.
LEMMA QueueHead ==
  ASSUME NEW e \in Entry, NEW r \in Seq(Entry), NEW q, q = <<e>> \o r
  PROVE  /\ q \in Seq(Entry)
         /\ QueuedIn(q) = QueuedIn(r) \cup Freed(e)
         /\ Ordered(q) => Ordered(r)
         /\ Ordered(q) /\ e.at = 0 => \A i \in DOMAIN r : r[i].buff # e.buff
         /\ \A u : InUse(q, u) => InUse(r, u) /\ e.at <= u[e.buff]
<1>1. PICK n \in Nat : n = Len(r)
  BY LenProperties
<1>2. <<e>> \in Seq(Entry) /\ Len(<<e>>) = 1 /\ <<e>>[1] = e
  OBVIOUS
<1>3. q \in Seq(Entry) /\ DOMAIN q = 1..(n + 1) /\ DOMAIN r = 1..n
  <2>1. q \in Seq(Entry) /\ Len(q) = 1 + n
    BY <1>1, <1>2, ConcatProperties
  <2> QED  BY <1>1, <2>1, LenProperties
<1>4. q[1] = e /\ \A i \in 1..n : q[i + 1] = r[i]
  <2>1. \A i \in 1..(1 + n) : q[i] = IF i <= 1 THEN <<e>>[i] ELSE r[i - 1]
    BY <1>1, <1>2, ConcatProperties
  <2>2. \A i \in 1..n : i + 1 \in 1..(1 + n) /\ ~(i + 1 <= 1) /\ (i + 1) - 1 = i
    OBVIOUS
  <2>3. 1 \in 1..(1 + n)
    OBVIOUS
  <2>4. q[1] = e
    BY <1>2, <2>1, <2>3
  <2>5. ASSUME NEW i \in 1..n PROVE q[i + 1] = r[i]
    <3>1. PICK j : j = i + 1
      OBVIOUS
    <3>2. j \in 1..(1 + n) /\ ~(j <= 1) /\ j - 1 = i
      BY <2>2, <3>1
    <3>3. q[j] = r[i]
      BY <2>1, <3>2
    <3> QED  BY <3>1, <3>3
  <2> QED  BY <2>4, <2>5
<1>5. \A i \in DOMAIN r : i + 1 \in DOMAIN q /\ q[i + 1] = r[i] /\ i \in Nat /\ 1 < i + 1
  BY <1>3, <1>4
<1>6. \A i \in DOMAIN q : i = 1 \/ (i - 1 \in DOMAIN r /\ q[i] = r[i - 1])
  <2>1. \A i \in 1..(n + 1) : i = 1 \/ (i - 1 \in 1..n /\ (i - 1) + 1 = i)
    OBVIOUS
  <2> QED  BY <1>3, <1>4, <2>1
<1>7. 1 \in DOMAIN q
  BY <1>3
<1>8. QueuedIn(q) = QueuedIn(r) \cup Freed(e)
  <2>1. QueuedIn(q) \subseteq QueuedIn(r) \cup Freed(e)
    <3>0. QueuedIn(q) = {q[i].buff : i \in {i \in DOMAIN q : q[i].at = 0}}
      BY <1>3, QueuedAt
    <3> SUFFICES ASSUME NEW i \in DOMAIN q, q[i].at = 0 PROVE q[i].buff \in QueuedIn(r) \cup Freed(e)
      BY <3>0
    <3>1. CASE i = 1
      <4>1. q[i] = e
        BY <1>4, <3>1
      <4>2. q[i].buff \in Freed(e)
        BY <4>1 DEF Freed
      <4> QED  BY <4>2
    <3>2. CASE i - 1 \in DOMAIN r /\ q[i] = r[i - 1]
      <4>1. PICK j \in DOMAIN r : q[i] = r[j]
        BY <3>2
      <4> QED  BY <4>1, QueuedAt
    <3> QED  BY <1>6, <3>1, <3>2
  <2>2. QueuedIn(r) \subseteq QueuedIn(q)
    <3> SUFFICES ASSUME NEW i \in DOMAIN r, r[i].at = 0 PROVE r[i].buff \in QueuedIn(q)
      BY QueuedAt
    <3> QED  BY <1>3, <1>5, QueuedAt
  <2>3. Freed(e) \subseteq QueuedIn(q)
    <3>1. ASSUME e.at = 0 PROVE e.buff \in QueuedIn(q)
      <4>1. PICK i \in DOMAIN q : q[i] = e
        BY <1>4, <1>7
      <4> QED  BY <1>3, <3>1, <4>1, QueuedAt
    <3> QED  BY <3>1 DEF Freed
  <2> QED  BY <2>1, <2>2, <2>3
<1>9. ASSUME Ordered(q)
      PROVE  Ordered(r) /\ (e.at = 0 => \A i \in DOMAIN r : r[i].buff # e.buff)
  <2>1. ASSUME NEW i \in DOMAIN r, NEW j \in DOMAIN r, i < j, r[i].at = 0
        PROVE  r[j].buff # r[i].buff
    <3>1. i + 1 < j + 1
      BY <1>5, <2>1
    <3> QED  BY <1>5, <1>9, <2>1, <3>1 DEF Ordered
  <2>2. ASSUME NEW i \in DOMAIN r, e.at = 0 PROVE r[i].buff # e.buff
    <3>1. PICK j \in DOMAIN q : q[j] = r[i] /\ 1 < j
      BY <1>5
    <3>2. PICK k \in DOMAIN q : q[k] = e /\ k = 1
      BY <1>4, <1>7
    <3> QED  BY <1>9, <2>2, <3>1, <3>2 DEF Ordered
  <2> QED  BY <2>1, <2>2 DEF Ordered
<1>10. ASSUME NEW u, InUse(q, u) PROVE InUse(r, u) /\ e.at <= u[e.buff]
  BY <1>4, <1>5, <1>7, <1>10 DEF InUse
<1> QED  BY <1>3, <1>8, <1>9, <1>10

-----------------------------------------------------------------------------
(* Where the buffers are: in the pool p, with the clients H, whose buffers are *)
(* those of f, or in the queue, Q.                                             *)

HeldBy(H, f) == {f[c] : c \in H}

Placed(p, H, f, Q, alive) ==
  /\ \A i, j \in DOMAIN p : p[i] = p[j] => i = j
  /\ \A c, d \in H : f[c] = f[d] => c = d
  /\ ToSet(p) \cap HeldBy(H, f) = {} /\ ToSet(p) \cap Q = {} /\ HeldBy(H, f) \cap Q = {}
  /\ ToSet(p) \cup HeldBy(H, f) \cup Q = alive

\* The places depend on the buffers of the clients that hold one.
LEMMA PlacedSame ==
  ASSUME NEW p, NEW H, NEW f, NEW g, NEW Q, NEW alive,
         Placed(p, H, f, Q, alive), \A c \in H : g[c] = f[c]
  PROVE  Placed(p, H, g, Q, alive)
<1>1. HeldBy(H, g) = HeldBy(H, f)
  BY DEF HeldBy
<1>2. \A c, d \in H : g[c] = g[d] => c = d
  BY DEF Placed
<1> QED  BY <1>1, <1>2 DEF Placed

\* A client queues its buffer.
LEMMA PlacedRetire ==
  ASSUME NEW p, NEW H, NEW f, NEW Q, NEW alive, NEW c \in H,
         Placed(p, H, f, Q, alive)
  PROVE  Placed(p, H \ {c}, f, Q \cup {f[c]}, alive) /\ f[c] \in alive /\ f[c] \notin Q
<1>1. HeldBy(H, f) = HeldBy(H \ {c}, f) \cup {f[c]}
  BY DEF HeldBy
<1>2. f[c] \notin HeldBy(H \ {c}, f)
  BY DEF HeldBy, Placed
<1>3. \A a, b \in H \ {c} : f[a] = f[b] => a = b
  BY DEF Placed
<1> QED  BY <1>1, <1>2, <1>3 DEF Placed

\* The logging thread recycles a queued buffer.
LEMMA PlacedRecycle ==
  ASSUME NEW T, NEW p \in Seq(T), NEW H, NEW f, NEW Q, NEW alive, NEW b \in T, b \notin Q,
         Placed(p, H, f, Q \cup {b}, alive)
  PROVE  Placed(Append(p, b), H, f, Q, alive)
<1>1. ToSet(Append(p, b)) = ToSet(p) \cup {b}
  BY ToSetAppend
<1>2. b \notin ToSet(p)
  BY DEF Placed
<1>3. ASSUME NEW i \in DOMAIN Append(p, b), NEW j \in DOMAIN Append(p, b),
             Append(p, b)[i] = Append(p, b)[j]
      PROVE  i = j
  <2>1. PICK n \in Nat : n = Len(p)
    BY AppendFacts
  <2>2. PICK r : r = Append(p, b)
    OBVIOUS
  <2>3. /\ DOMAIN r = 1..(n + 1) /\ DOMAIN p = 1..n
        /\ r[n + 1] = b /\ \A k \in 1..n : r[k] = p[k]
    BY <2>1, <2>2, AppendFacts
  <2>4. \A k \in 1..n : r[k] # b
    BY <1>2, <2>3 DEF ToSet
  <2>5. \A k \in 1..(n + 1) : k \in 1..n \/ k = n + 1
    OBVIOUS
  <2>6. \A k, l \in 1..n : r[k] = r[l] => k = l
    BY <2>3 DEF Placed
  <2> QED  BY <1>3, <2>2, <2>3, <2>4, <2>5, <2>6
<1> QED  BY <1>1, <1>2, <1>3 DEF Placed

\* A client gets the newest buffer of the pool.
LEMMA PlacedGet ==
  ASSUME NEW T, NEW p \in Seq(T), p # <<>>, NEW H, NEW f, NEW g, NEW Q, NEW alive,
         NEW c, c \notin H, g[c] = Last(p), \A d \in H : g[d] = f[d],
         Placed(p, H, f, Q, alive)
  PROVE  /\ Placed(Front(p), H \cup {c}, g, Q, alive)
         /\ Front(p) \in Seq(T) /\ Len(Front(p)) = Len(p) - 1 /\ Last(p) \in T
<1>1. PICK n \in Nat \ {0} : n = Len(p)
  BY EmptySeq
<1>2. PICK r : r = Front(p)
  OBVIOUS
<1>3. /\ r \in Seq(T) /\ Len(r) = n - 1 /\ DOMAIN r = 1..(n - 1) /\ DOMAIN p = 1..n
      /\ \A k \in 1..(n - 1) : r[k] = p[k]
  BY <1>1, <1>2 DEF Front
<1>4. Last(p) = p[n] /\ p[n] \in T
  BY <1>1 DEF Last
<1>5. \A k \in 1..n : k \in 1..(n - 1) \/ k = n
  OBVIOUS
<1>6. n \in 1..n /\ 1..(n - 1) \subseteq 1..n /\ n \notin 1..(n - 1)
  OBVIOUS
<1>7. ToSet(p) = ToSet(r) \cup {p[n]}
  <2>1. ToSet(p) = {p[k] : k \in 1..n} /\ ToSet(r) = {r[k] : k \in 1..(n - 1)}
    BY <1>3 DEF ToSet
  <2>2. ToSet(p) \subseteq ToSet(r) \cup {p[n]}
    BY <1>3, <1>5, <2>1
  <2>3. ToSet(r) \subseteq ToSet(p) /\ p[n] \in ToSet(p)
    BY <1>3, <1>6, <2>1
  <2> QED  BY <2>2, <2>3
<1>8. p[n] \notin ToSet(r)
  <2>1. \A k \in 1..(n - 1) : p[k] # p[n]
    BY <1>3, <1>6 DEF Placed
  <2> QED  BY <1>3, <2>1 DEF ToSet
<1>9. HeldBy(H \cup {c}, g) = HeldBy(H, f) \cup {p[n]} /\ p[n] \notin HeldBy(H, f)
  <2>1. HeldBy(H \cup {c}, g) = HeldBy(H, f) \cup {p[n]}
    BY <1>4 DEF HeldBy
  <2> QED  BY <1>7, <2>1 DEF Placed
<1>10. \A a, b \in H \cup {c} : g[a] = g[b] => a = b
  <2>1. \A a \in H : g[a] # p[n]
    BY <1>9 DEF HeldBy
  <2>2. \A a, b \in H : g[a] = g[b] => a = b
    BY DEF Placed
  <2> QED  BY <1>4, <2>1, <2>2
<1>11. \A i, j \in DOMAIN r : r[i] = r[j] => i = j
  BY <1>3, <1>6 DEF Placed
<1>12. Placed(r, H \cup {c}, g, Q, alive)
  BY <1>7, <1>8, <1>9, <1>10, <1>11 DEF Placed
<1> QED  BY <1>1, <1>2, <1>3, <1>4, <1>12

\* The empty pool gets n new buffers.
LEMMA PlacedGrow ==
  ASSUME NEW H, NEW f, NEW Q, NEW m \in Nat, NEW n \in Nat, NEW D \in SUBSET (1..m),
         Placed(<<>>, H, f, Q, (1..m) \ D)
  PROVE  Placed([i \in 1..n |-> m + i], H, f, Q, (1..(m + n)) \ D)
<1>1. PICK p : p = [i \in 1..n |-> m + i]
  OBVIOUS
<1>2. ToSet(p) = (m + 1)..(m + n)
  <2>1. ToSet(p) = {m + i : i \in 1..n}
    BY <1>1 DEF ToSet
  <2>2. \A k \in (m + 1)..(m + n) : k - m \in 1..n /\ m + (k - m) = k
    OBVIOUS
  <2>3. \A i \in 1..n : m + i \in (m + 1)..(m + n)
    OBVIOUS
  <2> QED  BY <2>1, <2>2, <2>3
<1>3. ToSet(<<>>) = {}
  BY DEF ToSet
<1>4. \A i, j \in DOMAIN p : p[i] = p[j] => i = j
  BY <1>1
<1>5. (1..(m + n)) \ D = ((m + 1)..(m + n)) \cup ((1..m) \ D)
  OBVIOUS
<1>6. ((m + 1)..(m + n)) \cap (1..m) = {}
  OBVIOUS
<1> QED  BY <1>1, <1>2, <1>3, <1>4, <1>5, <1>6 DEF Placed

\* A sequence without repetitions has as many members as its length.
LEMMA CountDistinct ==
  ASSUME NEW T, NEW s \in Seq(T), \A i, j \in DOMAIN s : s[i] = s[j] => i = j
  PROVE  IsFiniteSet(ToSet(s)) /\ Cardinality(ToSet(s)) = Len(s)
<1>1. PICK n \in Nat : n = Len(s)
  BY LenProperties
<1>2. DOMAIN s = 1..n /\ s = [i \in 1..n |-> s[i]]
  BY <1>1, LenProperties
<1>3. ToSet(s) = {s[i] : i \in 1..n}
  BY <1>2 DEF ToSet
<1>4. s \in Bijection(1..n, ToSet(s))
  <2>1. s \in [1..n -> ToSet(s)] /\ \A y \in ToSet(s) : \E i \in 1..n : s[i] = y
    BY <1>2, <1>3
  <2>2. \A i, j \in 1..n : s[i] = s[j] => i = j
    BY <1>2
  <2> QED  BY <1>2, <2>1, <2>2, Zenon DEF Bijection, Injection, Surjection, IsInjective
<1>5. IsFiniteSet(1..n) /\ Cardinality(1..n) = n
  <2>1. 1 \in Int /\ n \in Int
    OBVIOUS
  <2>2. IsFiniteSet(1..n) /\ Cardinality(1..n) = IF 1 > n THEN 0 ELSE n - 1 + 1
    BY <2>1, FS_Interval, Zenon
  <2> QED  BY <2>2
<1>6. ExistsBijection(1..n, ToSet(s))
  BY <1>4 DEF ExistsBijection
<1> QED  BY <1>1, <1>5, <1>6, FS_Bijection

\* The first k buffers of pool p are r, the others gone; rest are the living without them.
CutAt(p, k, alive, r, gone, rest) ==
  /\ k \in Nat /\ k <= Len(p) /\ r = SubSeq(p, 1, k)
  /\ gone = ToSet(SubSeq(p, k + 1, Len(p))) /\ rest = alive \ gone

\* The pool is cut after the k-th buffer and the others are deleted.
LEMMA PlacedShrink ==
  ASSUME NEW T, NEW p \in Seq(T), NEW H, NEW f, NEW Q, NEW alive, Placed(p, H, f, Q, alive),
         NEW k, NEW r, NEW gone, NEW rest, CutAt(p, k, alive, r, gone, rest)
  PROVE  /\ Placed(r, H, f, Q, rest)
         /\ r \in Seq(T) /\ Len(r) = k
         /\ gone \subseteq alive /\ gone \subseteq T
         /\ IsFiniteSet(gone) /\ Cardinality(gone) = Len(p) - k
<1>1. PICK n \in Nat : n = Len(p)
  BY LenProperties
<1>3. PICK s : s = SubSeq(p, k + 1, n)
  OBVIOUS
<1>4. k \in Nat /\ k <= n /\ DOMAIN p = 1..n
  BY <1>1, LenProperties DEF CutAt
<1>5. /\ r \in Seq(T) /\ Len(r) = k /\ DOMAIN r = 1..k
      /\ \A i \in 1..k : r[i] = p[i]
  BY <1>1, <1>4 DEF CutAt
<1>6. /\ s \in Seq(T) /\ Len(s) = n - k /\ DOMAIN s = 1..(n - k)
      /\ \A i \in 1..(n - k) : s[i] = p[k + i]
  BY <1>1, <1>3, <1>4
<1>7. gone = ToSet(s)
  BY <1>1, <1>3 DEF CutAt
<1>8. \A i \in 1..n : i \in 1..k \/ (i - k \in 1..(n - k) /\ k + (i - k) = i)
  BY <1>4
<1>9. 1..k \subseteq 1..n /\ \A i \in 1..(n - k) : k + i \in 1..n /\ k + i \notin 1..k
  BY <1>4
<1>10. ToSet(p) = ToSet(r) \cup gone
  <2>1. /\ ToSet(p) = {p[i] : i \in 1..n} /\ ToSet(r) = {r[i] : i \in 1..k}
        /\ gone = {s[i] : i \in 1..(n - k)}
    BY <1>4, <1>5, <1>6, <1>7 DEF ToSet
  <2>2. ASSUME NEW i \in 1..n PROVE p[i] \in ToSet(r) \cup gone
    <3>1. CASE i \in 1..k
      BY <1>5, <2>1, <3>1
    <3>2. CASE i - k \in 1..(n - k) /\ k + (i - k) = i
      <4>1. PICK j \in 1..(n - k) : k + j = i
        BY <3>2
      <4> QED  BY <1>6, <2>1, <4>1
    <3> QED  BY <1>8, <3>1, <3>2
  <2>3. ToSet(r) \subseteq ToSet(p) /\ gone \subseteq ToSet(p)
    BY <1>5, <1>6, <1>9, <2>1
  <2> QED  BY <2>1, <2>2, <2>3
<1>11. ToSet(r) \cap gone = {}
  <2>1. ASSUME NEW i \in 1..k, NEW j \in 1..(n - k) PROVE r[i] # s[j]
    <3>1. PICK l \in 1..n : l = k + j /\ l \notin 1..k
      BY <1>9
    <3>2. p[i] # p[l]
      BY <1>4, <1>9, <3>1 DEF Placed
    <3> QED  BY <1>5, <1>6, <3>1, <3>2
  <2>2. ToSet(r) = {r[i] : i \in 1..k} /\ gone = {s[i] : i \in 1..(n - k)}
    BY <1>5, <1>6, <1>7 DEF ToSet
  <2> QED  BY <2>1, <2>2
<1>12. \A i, j \in DOMAIN r : r[i] = r[j] => i = j
  BY <1>4, <1>5, <1>9 DEF Placed
<1>13. IsFiniteSet(gone) /\ Cardinality(gone) = n - k
  <2>1. \A i, j \in 1..(n - k) : s[i] = s[j] => i = j
    <3> SUFFICES ASSUME NEW i \in 1..(n - k), NEW j \in 1..(n - k), s[i] = s[j] PROVE i = j
      OBVIOUS
    <3>1. k + i = k + j
      BY <1>4, <1>6, <1>9 DEF Placed
    <3> QED  BY <1>4, <3>1
  <2>2. \A i, j \in DOMAIN s : s[i] = s[j] => i = j
    BY <1>6, <2>1
  <2> QED  BY <1>6, <1>7, <2>2, CountDistinct
<1>14. gone \subseteq alive
  BY <1>10 DEF Placed
<1>15. Placed(r, H, f, Q, rest)
  BY <1>10, <1>11, <1>12, <1>14 DEF Placed, CutAt
<1>16. gone \subseteq T
  BY <1>6, <1>7 DEF ToSet
<1> QED  BY <1>1, <1>5, <1>13, <1>14, <1>15, <1>16

\* The pool and the deleted buffers are among the buffers made.
LEMMA PlacedCount ==
  ASSUME NEW T, NEW p \in Seq(T), NEW H, NEW f, NEW Q, NEW m \in Nat, NEW D \in SUBSET (1..m),
         Placed(p, H, f, Q, (1..m) \ D)
  PROVE  /\ IsFiniteSet(D) /\ Cardinality(D) \in Nat /\ Len(p) \in Nat
         /\ m - Cardinality(D) - Len(p) \in Nat
<1>1. PICK n \in Nat : n = Len(p)
  BY LenProperties
<1>2. PICK gone : gone = ToSet(p)
  OBVIOUS
<1>3. gone \subseteq 1..m /\ gone \cap D = {}
  BY <1>2 DEF Placed
<1>4. IsFiniteSet(gone) /\ Cardinality(gone) = Len(p)
  BY <1>2, CountDistinct DEF Placed
<1>5. IsFiniteSet(1..m) /\ Cardinality(1..m) = m
  <2>1. 1 \in Int /\ m \in Int
    OBVIOUS
  <2>2. IsFiniteSet(1..m) /\ Cardinality(1..m) = IF 1 > m THEN 0 ELSE m - 1 + 1
    BY <2>1, FS_Interval, Zenon
  <2> QED  BY <2>2
<1>6. IsFiniteSet(D) /\ Cardinality(D) \in Nat
  BY <1>5, FS_Subset, FS_CardinalityType
<1>7. Cardinality(D \cup gone) = Cardinality(D) + Cardinality(gone) - Cardinality(D \cap gone)
  BY <1>4, <1>6, FS_Union
<1>8. Cardinality(D \cap gone) = 0
  <2>1. D \cap gone = {}
    BY <1>3
  <2> QED  BY <2>1, FS_EmptySet
<1>9. D \cup gone \in SUBSET (1..m)
  BY <1>3
<1>10. Cardinality(D \cup gone) <= m
  BY <1>5, <1>9, FS_Subset
<1> QED  BY <1>1, <1>4, <1>6, <1>7, <1>8, <1>10

-----------------------------------------------------------------------------
(* What the steps do with the queue *)

\* The queue and what it is made of.
LEMMA PendingType ==
  ASSUME TypeOK
  PROVE  /\ Pending \in Seq(Entry) /\ SubSeq(batch, pos, Len(batch)) \in Seq(Entry)
         /\ pb1 \in Seq(Entry) /\ batch \in Seq(Entry) /\ pos \in Nat \ {0} /\ Len(batch) \in Nat
         /\ DOMAIN batch = 1..Len(batch) /\ mem \in Memory
<1>1. /\ pb1 \in Seq(Entry) /\ batch \in Seq(Entry) /\ Len(batch) \in Nat
      /\ DOMAIN batch = 1..Len(batch) /\ mem \in Memory
  BY LenProperties DEF TypeOK, Memory
<1>2. pos \in Nat \ {0} /\ pos <= Len(batch) + 1
  BY <1>1 DEF TypeOK
<1>3. \A i \in pos..Len(batch) : batch[i] \in Entry
  BY <1>1, <1>2
<1>4. SubSeq(batch, pos, Len(batch)) \in Seq(Entry)
  BY <1>1, <1>2, <1>3
<1> QED  BY <1>1, <1>2, <1>4, ConcatProperties DEF Pending

\* AddToWriter puts an entry at the end of the queue.
LEMMA PendingAppend ==
  ASSUME TypeOK, NEW e \in Entry, pb1' = Append(pb1, e), UNCHANGED <<batch, pos>>
  PROVE  Pending' = Append(Pending, e)
<1>1. PICK s \in Seq(Entry) : s = SubSeq(batch, pos, Len(batch))
  BY PendingType
<1>2. Pending = s \o pb1 /\ Pending' = s \o Append(pb1, e)
  BY <1>1 DEF Pending
<1> QED  BY <1>2, ConcatAppend, PendingType

\* The queue depends on the two vectors and i only.
LEMMA PendingSame ==
  ASSUME UNCHANGED <<pb1, batch, pos>>
  PROVE  Pending' = Pending
BY DEF Pending

\* Swapping the vectors does not change the queue ...
LEMMA PendingTake ==
  ASSUME TypeOK, batch = <<>>, pos = 1, batch' = pb1, pb1' = <<>>, pos' = 1
  PROVE  Pending' = Pending
<1>1. SubSeq(batch, pos, Len(batch)) = <<>>
  OBVIOUS
<1>2. SubSeq(pb1, 1, Len(pb1)) = pb1
  BY DEF TypeOK
<1>3. Pending = <<>> \o pb1 /\ Pending' = pb1 \o <<>>
  BY <1>1, <1>2 DEF Pending
<1> QED  BY <1>3, ConcatEmptySeq, PendingType

\* ... nor does clearing the batch that was written ...
LEMMA PendingFlush ==
  ASSUME TypeOK, pos > Len(batch), batch' = <<>>, pos' = 1, pb1' = pb1
  PROVE  Pending' = Pending
<1>1. SubSeq(batch, pos, Len(batch)) = <<>>
  BY PendingType
<1>2. SubSeq(<<>>, 1, Len(<<>>)) = <<>>
  OBVIOUS
<1>3. Pending = <<>> \o pb1 /\ Pending' = <<>> \o pb1
  BY <1>1, <1>2 DEF Pending
<1> QED  BY <1>3

\* ... and each turn of the loop takes its first entry.
LEMMA PendingWrite ==
  ASSUME TypeOK, pos <= Len(batch), pos' = pos + 1, UNCHANGED <<pb1, batch>>
  PROVE  Pending' \in Seq(Entry) /\ batch[pos] \in Entry /\ Pending = <<batch[pos]>> \o Pending'
<1>1. /\ batch \in Seq(Entry) /\ pos \in 1..Len(batch) /\ Len(batch) \in Nat /\ pos \in Nat
      /\ pb1 \in Seq(Entry) /\ batch[pos] \in Entry /\ <<batch[pos]>> \in Seq(Entry)
  BY PendingType
<1>2. \A i \in (pos + 1)..Len(batch) : batch[i] \in Entry
  BY <1>1
<1>3. PICK t \in Seq(Entry) : t = SubSeq(batch, pos + 1, Len(batch))
  <2>1. SubSeq(batch, pos + 1, Len(batch)) \in Seq(Entry)
    BY <1>1, <1>2
  <2> QED  BY <2>1
<1>4. PICK s \in Seq(Entry) : s = SubSeq(batch, pos, Len(batch))
  BY PendingType
<1>5. s = <<batch[pos]>> \o t
  <2>0. Len(batch) - pos \in Nat
    BY <1>1
  <2>1. PICK n \in Nat : n = Len(batch) - pos
    BY <2>0
  <2>2. Len(s) = n + 1 /\ \A i \in 1..(n + 1) : s[i] = batch[pos + i - 1]
    <3>1. Len(s) = Len(batch) - pos + 1 /\ \A i \in 1..(Len(batch) - pos + 1) : s[i] = batch[pos + i - 1]
      BY <1>1, <1>4
    <3> QED  BY <2>1, <3>1
  <2>3. Len(t) = n /\ \A i \in 1..n : t[i] = batch[pos + 1 + i - 1]
    BY <1>1, <1>3, <2>1
  <2>4. PICK e \in Entry : e = batch[pos]
    BY <1>1
  <2>5. PICK u : u = <<e>> \o t
    OBVIOUS
  <2>6. <<e>> \in Seq(Entry) /\ Len(<<e>>) = 1 /\ <<e>>[1] = e
    OBVIOUS
  <2>7. /\ u \in Seq(Entry) /\ Len(u) = 1 + n
        /\ \A i \in 1..(1 + n) : u[i] = IF i <= 1 THEN <<e>>[i] ELSE t[i - 1]
    BY <2>3, <2>5, <2>6, ConcatProperties
  <2>8. ASSUME NEW i \in 1..(n + 1) PROVE u[i] = s[i]
    <3>1. CASE i = 1
      BY <1>1, <2>2, <2>4, <2>6, <2>7, <3>1
    <3>2. CASE i # 1
      <4>1. i - 1 \in 1..n /\ pos + 1 + (i - 1) - 1 = pos + i - 1
        BY <1>1, <3>2
      <4>2. t[i - 1] = batch[pos + i - 1]
        BY <2>3, <4>1
      <4> QED  BY <2>2, <2>7, <3>2, <4>2
    <3> QED  BY <3>1, <3>2
  <2>9. u = s
    BY <2>2, <2>7, <2>8, SeqEqual
  <2> QED  BY <2>4, <2>5, <2>9
<1>6. Pending = s \o pb1 /\ Pending' = t \o pb1
  BY <1>3, <1>4 DEF Pending
<1>7. (<<batch[pos]>> \o t) \o pb1 = <<batch[pos]>> \o (t \o pb1)
  BY <1>1, ConcatAssociative
<1>8. t \o pb1 \in Seq(Entry)
  BY <1>1, ConcatProperties
<1> QED  BY <1>1, <1>5, <1>6, <1>7, <1>8

-----------------------------------------------------------------------------
(* The invariant, step by step *)

\* PlaceInv as a statement about the queue.
LEMMA PlaceForm ==
  /\ PlaceInv <=> /\ deleted \subseteq 1..made
                  /\ Placed(pool, Holders, buff, QueuedIn(Pending), (1..made) \ deleted)
  /\ PlaceInv' <=> /\ deleted' \subseteq 1..made'
                   /\ Placed(pool', Holders', buff', QueuedIn(Pending'), (1..made') \ deleted')
<1>1. Held = HeldBy(Holders, buff) /\ Held' = HeldBy(Holders', buff')
  BY DEF Held, HeldBy
<1>2. Queued = QueuedIn(Pending) /\ Queued' = QueuedIn(Pending')
  BY DEF Queued, QueuedIn
<1> QED  BY <1>1, <1>2 DEF PlaceInv, Placed

\* The same for QueueInv.
LEMMA QueueForm ==
  /\ QueueInv <=> InUse(Pending, used) /\ Ordered(Pending)
  /\ QueueInv' <=> InUse(Pending', used') /\ Ordered(Pending')
BY DEF QueueInv, InUse, Ordered

\* The pool and the queue are left alone, and nobody gets or gives up a buffer.
LEMMA FramePlaces ==
  ASSUME PlaceInv, CountInv, UNCHANGED <<pool, unrecycled, made, deleted>>,
         QueuedIn(Pending') = QueuedIn(Pending),
         Holders' = Holders, \A c \in Holders : buff'[c] = buff[c]
  PROVE  PlaceInv' /\ CountInv'
<1>1. Placed(pool, Holders, buff, QueuedIn(Pending), (1..made) \ deleted)
  BY PlaceForm
<1>2. Placed(pool, Holders, buff', QueuedIn(Pending), (1..made) \ deleted)
  BY <1>1, PlacedSame
<1>3. PlaceInv'
  BY <1>2, PlaceForm
<1> QED  BY <1>3 DEF CountInv

\* Nothing is queued, stored, written or crashed.
LEMMA FrameQueue ==
  ASSUME QueueInv, FileBuffInv, InOrder, stage # "crashed", stage' # "crashed",
         UNCHANGED <<pb1, batch, pos, fileVars, mem, used, logged>>
  PROVE  QueueInv' /\ FileBuffInv' /\ InOrder' /\ CrashKeepsMessages'
<1>1. Pending' = Pending
  BY PendingSame
<1>2. QueueInv'
  BY <1>1, QueueForm
<1>3. FileBuffInv'
  BY DEF FileBuffInv, fileVars
<1>4. InOrder'
  BY <1>1 DEF InOrder, Msgs, fileVars
<1>5. CrashKeepsMessages'
  BY DEF CrashKeepsMessages
<1> QED  BY <1>2, <1>3, <1>4, <1>5

\* A client enters Append.
LEMMA AppendMsgInv ==
  ASSUME LogInv, NEW c \in Clients, AppendMsg(c)
  PROVE  LogInv'
<1> USE DEF LogInv
<1>1. /\ UNCHANGED <<pb1, batch, pos, swapped, fileVars, mem, used, pool, unrecycled, made, deleted>>
      /\ UNCHANGED <<running, stage, wpc, idle, buff, logged, dropped>>
      /\ stage = "running" /\ pc[c] = "idle"
  BY DEF AppendMsg, Goto, queueVars, poolVars, threadVars
<1>2. PICK to \in {"first", "get", "retire", "store"} :
        /\ pc' = [pc EXCEPT ![c] = to] /\ item' = [item EXCEPT ![c] = TRUE]
        /\ to = "first" => ~item[c]
        /\ to # "first" => item[c]
        /\ to = "get" => buff[c] = NoBuff
        /\ to \in {"retire", "store"} => buff[c] # NoBuff
  BY DEF AppendMsg, Goto
<1>3. TypeOK'
  BY <1>1, <1>2 DEF TypeOK, fileVars
<1>4. StopInv'
  BY <1>1, <1>2 DEF StopInv, fileVars, TypeOK
<1>5. HoldInv'
  BY <1>1, <1>2 DEF HoldInv, TypeOK
<1>6. Holders' = Holders
  BY <1>1, <1>2 DEF Holders, TypeOK, HoldInv
<1>7. QueuedIn(Pending') = QueuedIn(Pending)
  BY <1>1, PendingSame
<1>8. PlaceInv' /\ CountInv'
  BY <1>1, <1>6, <1>7, FramePlaces
<1>9. QueueInv' /\ FileBuffInv' /\ InOrder' /\ CrashKeepsMessages'
  BY <1>1, FrameQueue
<1> QED  BY <1>3, <1>4, <1>5, <1>8, <1>9

\* What GetBuff finds in the pool.
LEMMA GrownFacts ==
  ASSUME TypeOK
  PROVE  \E n \in Nat : /\ Grown = IF pool = <<>> THEN [i \in 1..n |-> made + i] ELSE pool
                        /\ pool # <<>> => n = 0
                        /\ made + n <= MaxBuff
                        /\ Len(Grown) = Len(pool) + n /\ Grown \in Seq(Buffs)
<1>1. /\ pool \in Seq(Buffs) /\ Len(pool) \in Nat /\ made \in Nat /\ MaxBuff \in Nat
      /\ made <= MaxBuff /\ IncGran \in Nat
  BY LenProperties, AppenderAssumption DEF TypeOK
<1>2. PICK n : /\ n = IF pool # <<>> \/ unrecycled > MaxUnrecycled THEN 0
                      ELSE IF made + IncGran <= MaxBuff THEN IncGran ELSE MaxBuff - made
               /\ Grown = pool \o [i \in 1..n |-> made + i]
  BY DEF Grown
<1>3. n \in Nat /\ made + n <= MaxBuff /\ (pool # <<>> => n = 0)
  BY <1>1, <1>2
<1>4. PICK g : g = [i \in 1..n |-> made + i]
  OBVIOUS
<1>5. g \in Seq(Buffs) /\ Len(g) = n
  <2>1. \A i \in 1..n : made + i \in Buffs
    BY <1>1, <1>3 DEF Buffs
  <2> QED  BY <1>3, <1>4, <2>1
<1>6. CASE pool = <<>>
  <2>1. Grown = g
    BY <1>2, <1>4, <1>5, <1>6, ConcatEmptySeq
  <2>2. Len(pool) = 0
    BY <1>6
  <2> QED  BY <1>3, <1>4, <1>5, <1>6, <2>1, <2>2
<1>7. CASE pool # <<>>
  <2>1. n = 0
    BY <1>3, <1>7
  <2>2. g = <<>>
    BY <1>5, <2>1
  <2>3. Grown = pool
    BY <1>1, <1>2, <1>4, <2>2, ConcatEmptySeq
  <2> QED  BY <1>1, <1>3, <1>7, <2>1, <2>3
<1> QED  BY <1>6, <1>7

\* The buffer a client gets comes from the pool.
LEMMA GetStep ==
  ASSUME TypeOK, HoldInv, PlaceInv, CountInv, NEW c \in Clients, pc[c] \in {"first", "get"},
         GetBuff(c), NEW to, pc' = [pc EXCEPT ![c] = to],
         Grown # <<>> => to = "store", UNCHANGED <<pb1, batch, pos>>
  PROVE  /\ PlaceInv' /\ CountInv'
         /\ pool' \in Seq(Buffs) /\ unrecycled' \in Nat /\ made' \in 0..MaxBuff
         /\ buff' \in [Clients -> Buffs \cup {NoBuff}]
         /\ buff'[c] = NoBuff <=> Grown = <<>>
         /\ \A d \in Clients \ {c} : buff'[d] = buff[d]
         /\ UNCHANGED <<mem, used, deleted>>
<1>1. PICK n \in Nat : /\ Grown = IF pool = <<>> THEN [i \in 1..n |-> made + i] ELSE pool
                       /\ pool # <<>> => n = 0
                       /\ made + n <= MaxBuff
                       /\ Len(Grown) = Len(pool) + n /\ Grown \in Seq(Buffs)
  BY GrownFacts
<1>2. PICK g \in Seq(Buffs) : g = Grown
  BY <1>1
<1>3. /\ made \in Nat /\ Len(pool) \in Nat /\ pool \in Seq(Buffs) /\ unrecycled \in Nat
      /\ pc \in [Clients -> {"idle", "first", "retire", "get", "store", "exited"}]
      /\ buff \in [Clients -> Buffs \cup {NoBuff}] /\ MaxBuff \in Nat
  BY LenProperties, AppenderAssumption DEF TypeOK
<1>4. made' = made + n /\ made' \in 0..MaxBuff
  <2>1. made' = made + Len(Grown) - Len(pool)
    BY DEF GetBuff
  <2> QED  BY <1>1, <1>3, <2>1
<1>5. UNCHANGED <<mem, used, deleted>>
  BY DEF GetBuff
<1>6. c \notin Holders
  BY DEF Holders, HoldInv
<1>7. /\ deleted \in SUBSET (1..made)
      /\ Placed(pool, Holders, buff, QueuedIn(Pending), (1..made) \ deleted)
  BY PlaceForm
<1>8. Placed(g, Holders, buff, QueuedIn(Pending), (1..(made + n)) \ deleted)
  <2>1. CASE pool = <<>>
    <3>1. Placed(<<>>, Holders, buff, QueuedIn(Pending), (1..made) \ deleted)
      BY <1>7, <2>1
    <3>2. Placed([i \in 1..n |-> made + i], Holders, buff, QueuedIn(Pending), (1..(made + n)) \ deleted)
      BY <1>3, <1>7, <3>1, PlacedGrow
    <3> QED  BY <1>1, <1>2, <2>1, <3>2
  <2>2. CASE pool # <<>>
    <3>1. g = pool /\ made + n = made
      BY <1>1, <1>2, <1>3, <2>2
    <3> QED  BY <1>7, <3>1
  <2> QED  BY <2>1, <2>2
<1>9. Pending' = Pending
  BY PendingSame
<1>10. deleted' \subseteq 1..made'
  BY <1>3, <1>4, <1>5, <1>7
<1>11. \A d \in Clients \ {c} : pc'[d] = pc[d]
  BY <1>3
<1>12. pc'[c] = to
  BY <1>3
<1>13. Cardinality(deleted) \in Nat
  BY <1>3, <1>7, PlacedCount
<1>14. CASE g = <<>>
  <2>1. UNCHANGED <<pool, unrecycled>> /\ buff' = [buff EXCEPT ![c] = NoBuff]
    BY <1>2, <1>14 DEF GetBuff
  <2>2. pool = <<>> /\ n = 0
    <3>1. Len(g) = 0 /\ Len(g) = Len(pool) + n
      <4>1. Len(g) = Len(pool) + n
        BY <1>1, <1>2
      <4>2. Len(g) = 0
        BY <1>14, EmptySeq
      <4> QED  BY <4>1, <4>2
    <3>2. Len(pool) = 0 /\ n = 0
      <4>1. PICK l \in Nat : l = Len(pool)
        BY <1>3
      <4>2. l + n = 0
        BY <3>1, <4>1
      <4>3. l = 0 /\ n = 0
        BY <4>2
      <4> QED  BY <4>1, <4>3
    <3> QED  BY <1>3, <3>2, EmptySeq
  <2>3. buff'[c] = NoBuff /\ \A d \in Clients \ {c} : buff'[d] = buff[d]
    BY <1>3, <2>1
  <2>4. buff' \in [Clients -> Buffs \cup {NoBuff}]
    BY <1>3, <2>1
  <2>5. Holders' = Holders
    BY <1>6, <1>11, <2>3 DEF Holders
  <2>6. \A d \in Holders : buff'[d] = buff[d]
    BY <1>6, <2>3 DEF Holders
  <2>7. made' = made
    BY <1>3, <1>4, <2>2
  <2>8. PlaceInv' /\ CountInv'
    BY <1>5, <1>9, <2>1, <2>5, <2>6, <2>7, FramePlaces
  <2> QED  BY <1>2, <1>3, <1>4, <1>5, <1>14, <2>1, <2>3, <2>4, <2>8
<1>15. CASE g # <<>>
  <2>1. /\ pool' = Front(g) /\ unrecycled' = unrecycled + 1
        /\ buff' = [buff EXCEPT ![c] = Last(g)]
    BY <1>2, <1>15 DEF GetBuff
  <2>2. to = "store"
    BY <1>2, <1>15
  <2>3. buff'[c] = Last(g) /\ \A d \in Clients \ {c} : buff'[d] = buff[d]
    BY <1>3, <2>1
  <2>4. \A d \in Holders : buff'[d] = buff[d]
    BY <1>6, <2>3 DEF Holders
  <2>5. /\ Placed(pool', Holders \cup {c}, buff', QueuedIn(Pending), (1..(made + n)) \ deleted)
        /\ pool' \in Seq(Buffs) /\ Len(pool') = Len(g) - 1 /\ Last(g) \in Buffs
    <3>1. PICK H, f, Q, alive : /\ H = Holders /\ f = buff /\ Q = QueuedIn(Pending)
                                /\ alive = (1..(made + n)) \ deleted
      OBVIOUS
    <3>2. PICK h : h = buff'
      OBVIOUS
    <3>3. Placed(g, H, f, Q, alive) /\ c \notin H /\ h[c] = Last(g) /\ \A d \in H : h[d] = f[d]
      BY <1>6, <1>8, <2>3, <2>4, <3>1, <3>2
    <3>4. /\ Placed(Front(g), H \cup {c}, h, Q, alive)
          /\ Front(g) \in Seq(Buffs) /\ Len(Front(g)) = Len(g) - 1 /\ Last(g) \in Buffs
      BY <1>15, <3>3, PlacedGet
    <3> QED  BY <2>1, <3>1, <3>2, <3>4
  <2>6. buff'[c] # NoBuff
    BY <2>3, <2>5 DEF Buffs, NoBuff
  <2>7. Holders' = Holders \cup {c}
    BY <1>6, <1>11, <1>12, <2>2, <2>3, <2>6 DEF Holders
  <2>8. PlaceInv'
    BY <1>4, <1>5, <1>9, <1>10, <2>5, <2>7, PlaceForm
  <2>9. CountInv' /\ unrecycled' \in Nat
    <3>1. Len(g) = Len(pool) + n
      BY <1>1, <1>2
    <3>2. unrecycled = made - Cardinality(deleted) - Len(pool)
      BY DEF CountInv
    <3>3. unrecycled' = made' - Cardinality(deleted) - Len(pool')
      BY <1>3, <1>4, <1>13, <2>1, <2>5, <3>1, <3>2
    <3> QED  BY <1>3, <1>5, <2>1, <3>3 DEF CountInv
  <2>10. buff' \in [Clients -> Buffs \cup {NoBuff}]
    BY <1>3, <2>1, <2>5
  <2> QED  BY <1>2, <1>4, <1>5, <1>15, <2>3, <2>5, <2>6, <2>8, <2>9, <2>10
<1> QED  BY <1>14, <1>15

\* Steps of a client that only ask the pool for a buffer.
LEMMA GetBuffInv ==
  ASSUME LogInv, NEW c \in Clients, stage # "crashed", GetFirstBuff(c) \/ GetNextBuff(c)
  PROVE  LogInv'
<1> USE DEF LogInv
<1>1. /\ UNCHANGED <<pb1, batch, pos, swapped, fileVars>>
      /\ UNCHANGED <<running, stage, wpc, idle, item, logged>>
      /\ GetBuff(c) /\ pc[c] \in {"first", "get"}
  BY DEF GetFirstBuff, GetNextBuff, Goto, queueVars, threadVars
<1>2. dropped' \in Nat
  BY DEF GetFirstBuff, GetNextBuff, TypeOK
<1>3. PICK to \in {"idle", "get", "store"} :
        /\ pc' = [pc EXCEPT ![c] = to]
        /\ to = "store" <=> Grown # <<>>
  BY DEF GetFirstBuff, GetNextBuff, Goto
<1>4. /\ PlaceInv' /\ CountInv'
      /\ pool' \in Seq(Buffs) /\ unrecycled' \in Nat /\ made' \in 0..MaxBuff
      /\ buff' \in [Clients -> Buffs \cup {NoBuff}]
      /\ buff'[c] = NoBuff <=> Grown = <<>>
      /\ \A d \in Clients \ {c} : buff'[d] = buff[d]
      /\ UNCHANGED <<mem, used, deleted>>
  BY <1>1, <1>3, GetStep
<1>5. TypeOK'
  BY <1>1, <1>2, <1>3, <1>4 DEF TypeOK, fileVars
<1>6. /\ pc \in [Clients -> {"idle", "first", "retire", "get", "store", "exited"}]
      /\ running \in BOOLEAN /\ pc'[c] = to /\ \A d \in Clients \ {c} : pc'[d] = pc[d]
  BY <1>3 DEF TypeOK
<1>7. running
  BY <1>1 DEF StopInv
<1>8. StopInv'
  BY <1>1, <1>7 DEF StopInv, fileVars
<1>9. item[c]
  BY <1>1 DEF HoldInv
<1>10. HoldInv'
  <2> SUFFICES ASSUME NEW d \in Clients
               PROVE  /\ pc'[d] \in {"store", "retire"} => buff'[d] # NoBuff
                      /\ pc'[d] = "first" => buff'[d] = NoBuff
                      /\ ~item'[d] => buff'[d] = NoBuff /\ pc'[d] \in {"idle", "exited"}
    BY DEF HoldInv
  <2>1. CASE d = c
    BY <1>1, <1>3, <1>4, <1>6, <1>9, <2>1
  <2>2. CASE d # c
    BY <1>1, <1>4, <1>6, <2>2 DEF HoldInv
  <2> QED  BY <2>1, <2>2
<1>11. QueueInv' /\ FileBuffInv' /\ InOrder' /\ CrashKeepsMessages'
  BY <1>1, <1>4, FrameQueue
<1> QED  BY <1>4, <1>5, <1>8, <1>10, <1>11

\* The buffer of a client is queued for recycling, and the client gives it up.
LEMMA RetireStep ==
  ASSUME TypeOK, PlaceInv, CountInv, QueueInv, FileBuffInv, InOrder,
         NEW c \in Holders, stage # "crashed", stage' # "crashed",
         pb1' = Append(pb1, [buff |-> buff[c], at |-> 0]),
         UNCHANGED <<batch, pos, fileVars, mem, used, pool, unrecycled, made, deleted, logged>>,
         Holders' = Holders \ {c}, \A d \in Clients \ {c} : buff'[d] = buff[d]
  PROVE  /\ PlaceInv' /\ CountInv' /\ QueueInv' /\ FileBuffInv' /\ InOrder' /\ CrashKeepsMessages'
         /\ pb1' \in Seq(Entry)
<1>1. PICK e : e = [buff |-> buff[c], at |-> 0]
  OBVIOUS
<1>2. e \in Entry /\ e.at = 0 /\ e.buff = buff[c]
  <2>1. buff[c] \in Buffs
    BY DEF Holders, TypeOK
  <2>2. 0 \in 0..BuffCap
    BY AppenderAssumption
  <2> QED  BY <1>1, <2>1, <2>2 DEF Entry
<1>3. pb1' = Append(pb1, e)
  BY <1>1
<1>4. Pending' = Append(Pending, e) /\ Pending \in Seq(Entry)
  BY <1>2, <1>3, PendingAppend, PendingType
<1>5. PICK q \in Seq(Entry) : q = Pending
  BY <1>4
<1>6. /\ deleted \subseteq 1..made
      /\ Placed(pool, Holders, buff, QueuedIn(q), (1..made) \ deleted)
  BY <1>5, PlaceForm
<1>7. /\ Placed(pool, Holders \ {c}, buff, QueuedIn(q) \cup {buff[c]}, (1..made) \ deleted)
      /\ buff[c] \notin QueuedIn(q)
  <2>1. PICK H, f, Q, alive : /\ H = Holders /\ f = buff /\ Q = QueuedIn(q)
                              /\ alive = (1..made) \ deleted
    OBVIOUS
  <2>2. Placed(pool, H, f, Q, alive) /\ c \in H
    BY <1>6, <2>1
  <2>3. Placed(pool, H \ {c}, f, Q \cup {f[c]}, alive) /\ f[c] \notin Q
    BY <2>2, PlacedRetire
  <2> QED  BY <2>1, <2>3
<1>8. /\ QueuedIn(Append(q, e)) = QueuedIn(q) \cup Freed(e)
      /\ Ordered(q) /\ e.buff \notin QueuedIn(q) => Ordered(Append(q, e))
      /\ \A u : InUse(q, u) /\ e.at <= u[e.buff] => InUse(Append(q, e), u)
  BY <1>2, QueueAppend
<1>9. PlaceInv'
  <2>1. QueuedIn(Pending') = QueuedIn(q) \cup {buff[c]}
    BY <1>2, <1>4, <1>5, <1>8 DEF Freed
  <2>2. \A d \in Holders \ {c} : buff'[d] = buff[d]
    BY DEF Holders
  <2>3. Placed(pool, Holders \ {c}, buff', QueuedIn(q) \cup {buff[c]}, (1..made) \ deleted)
    BY <1>7, <2>2, PlacedSame
  <2> QED  BY <1>6, <2>1, <2>3, PlaceForm
<1>10. CountInv'
  BY DEF CountInv
<1>11. QueueInv'
  <2>1. InUse(q, used) /\ Ordered(q)
    BY <1>5, QueueForm
  <2>2. e.at <= used[e.buff]
    BY <1>2 DEF TypeOK, Entry
  <2> QED  BY <1>2, <1>4, <1>5, <1>7, <1>8, <2>1, <2>2, QueueForm
<1>12. InOrder'
  <2>1. MsgsIn(mem, Append(q, e)) = MsgsIn(mem, q)
    BY <1>2, MsgsAppend
  <2> QED  BY <1>4, <1>5, <2>1 DEF InOrder, Msgs, fileVars
<1>13. FileBuffInv'
  BY DEF FileBuffInv, fileVars
<1>14. CrashKeepsMessages'
  BY DEF CrashKeepsMessages
<1>15. pb1' \in Seq(Entry)
  BY <1>2, <1>3 DEF TypeOK
<1> QED  BY <1>9, <1>10, <1>11, <1>12, <1>13, <1>14, <1>15

\* The invariant after RetireBuff.
LEMMA RetireBuffInv ==
  ASSUME LogInv, NEW c \in Clients, stage # "crashed", RetireBuff(c)
  PROVE  LogInv'
<1> USE DEF LogInv
<1>1. /\ UNCHANGED <<batch, pos, fileVars, mem, used, pool, unrecycled, made, deleted, logged>>
      /\ UNCHANGED <<swapped, running, stage, wpc, idle, item, buff, dropped>>
      /\ pb1' = Append(pb1, [buff |-> buff[c], at |-> 0])
      /\ pc[c] = "retire" /\ pc' = [pc EXCEPT ![c] = "get"]
  BY DEF RetireBuff, Goto, poolVars, threadVars
<1>2. /\ pc \in [Clients -> {"idle", "first", "retire", "get", "store", "exited"}]
      /\ running \in BOOLEAN /\ pc'[c] = "get" /\ \A d \in Clients \ {c} : pc'[d] = pc[d]
  BY <1>1 DEF TypeOK
<1>3. c \in Holders /\ buff[c] # NoBuff
  BY <1>1 DEF Holders, HoldInv
<1>4. Holders' = Holders \ {c}
  BY <1>1, <1>2 DEF Holders
<1>5. /\ PlaceInv' /\ CountInv' /\ QueueInv' /\ FileBuffInv' /\ InOrder' /\ CrashKeepsMessages'
      /\ pb1' \in Seq(Entry)
  BY <1>1, <1>3, <1>4, RetireStep
<1>6. TypeOK'
  BY <1>1, <1>5 DEF TypeOK, fileVars
<1>7. running
  BY <1>1 DEF StopInv
<1>8. StopInv'
  BY <1>1, <1>7 DEF StopInv, fileVars
<1>9. HoldInv'
  BY <1>1, <1>2 DEF HoldInv
<1> QED  BY <1>5, <1>6, <1>8, <1>9

\* A client exits.
LEMMA ThreadExitInv ==
  ASSUME LogInv, NEW c \in Clients, ThreadExit(c)
  PROVE  LogInv'
<1> USE DEF LogInv
<1>1. /\ UNCHANGED <<batch, pos, fileVars, mem, used, pool, unrecycled, made, deleted, logged>>
      /\ UNCHANGED <<swapped, running, stage, wpc, idle, item, dropped>>
      /\ pc[c] = "idle" /\ pc' = [pc EXCEPT ![c] = "exited"] /\ stage # "crashed"
  BY DEF ThreadExit, Goto, poolVars, threadVars
<1>2. /\ pc \in [Clients -> {"idle", "first", "retire", "get", "store", "exited"}]
      /\ running \in BOOLEAN /\ pc'[c] = "exited" /\ \A d \in Clients \ {c} : pc'[d] = pc[d]
      /\ buff \in [Clients -> Buffs \cup {NoBuff}]
  BY <1>1 DEF TypeOK
<1>3. CASE /\ item[c] /\ stage = "running" /\ buff[c] # NoBuff
           /\ pb1' = Append(pb1, [buff |-> buff[c], at |-> 0])
           /\ buff' = [buff EXCEPT ![c] = NoBuff]
  <2>1. buff'[c] = NoBuff /\ \A d \in Clients \ {c} : buff'[d] = buff[d]
    BY <1>2, <1>3
  <2>2. c \in Holders
    BY <1>1, <1>3 DEF Holders
  <2>3. Holders' = Holders \ {c}
    BY <1>2, <2>1 DEF Holders
  <2>4. /\ PlaceInv' /\ CountInv' /\ QueueInv' /\ FileBuffInv' /\ InOrder' /\ CrashKeepsMessages'
        /\ pb1' \in Seq(Entry)
    BY <1>1, <1>3, <2>1, <2>2, <2>3, RetireStep
  <2>5. TypeOK'
    BY <1>1, <1>3, <2>4 DEF TypeOK, fileVars
  <2>6. running
    BY <1>3 DEF StopInv
  <2>7. StopInv'
    BY <1>1, <2>6 DEF StopInv, fileVars
  <2>8. HoldInv'
    BY <1>1, <1>2, <2>1 DEF HoldInv
  <2> QED  BY <2>4, <2>5, <2>7, <2>8
<1>4. CASE UNCHANGED <<pb1, buff>>
  <2>1. Holders' = Holders
    BY <1>1, <1>2, <1>4 DEF Holders
  <2>2. QueuedIn(Pending') = QueuedIn(Pending)
    BY <1>1, <1>4, PendingSame
  <2>3. PlaceInv' /\ CountInv'
    BY <1>1, <1>4, <2>1, <2>2, FramePlaces
  <2>4. QueueInv' /\ FileBuffInv' /\ InOrder' /\ CrashKeepsMessages'
    BY <1>1, <1>4, FrameQueue
  <2>5. TypeOK'
    BY <1>1, <1>4 DEF TypeOK, fileVars
  <2>6. StopInv'
    BY <1>1, <1>2, <1>4 DEF StopInv, fileVars
  <2>7. HoldInv'
    BY <1>1, <1>2, <1>4 DEF HoldInv
  <2> QED  BY <2>3, <2>4, <2>5, <2>6, <2>7
<1> QED  BY <1>3, <1>4 DEF ThreadExit

\* A message in the memory behind the used part of a buffer, and its entry.
LEMMA StoreStep ==
  ASSUME TypeOK, PlaceInv, QueueInv, FileBuffInv, InOrder, NEW c \in Holders, stage # "crashed",
         NEW b \in Buffs, b = buff[c], NEW i \in 1..BuffCap, i = used[b] + 1, NEW m \in Nat,
         mem' = [mem EXCEPT ![b][i] = m], used' = [used EXCEPT ![b] = i],
         pb1' = Append(pb1, [buff |-> b, at |-> i]), logged' = Append(logged, m),
         UNCHANGED <<batch, pos, fileVars>>
  PROVE  /\ QueuedIn(Pending') = QueuedIn(Pending) /\ QueueInv' /\ FileBuffInv' /\ InOrder'
         /\ pb1' \in Seq(Entry) /\ mem' \in Memory /\ used' \in [Buffs -> 0..BuffCap]
<1>1. PICK e : e = [buff |-> b, at |-> i]
  OBVIOUS
<1>2. e \in Entry /\ e.at = i /\ e.buff = b /\ e.at # 0
  BY <1>1, AppenderAssumption DEF Entry
<1>3. pb1' = Append(pb1, e)
  BY <1>1
<1>4. /\ Pending' = Append(Pending, e) /\ Pending \in Seq(Entry) /\ mem \in Memory
      /\ pb1 \in Seq(Entry)
  BY <1>2, <1>3, PendingAppend, PendingType
<1>5. PICK q \in Seq(Entry) : q = Pending
  BY <1>4
<1>6. used \in [Buffs -> 0..BuffCap]
  BY DEF TypeOK
<1>7. mem' \in Memory /\ used' \in [Buffs -> 0..BuffCap]
  <2>1. used' \in [Buffs -> 0..BuffCap]
    <3>1. i \in 0..BuffCap
      BY AppenderAssumption
    <3> QED  BY <1>6, <3>1
  <2>2. mem' \in Memory
    BY <1>4 DEF Memory
  <2> QED  BY <2>1, <2>2
<1>8. /\ used'[b] = i /\ \A a \in Buffs \ {b} : used'[a] = used[a]
      /\ mem'[b][i] = m
  BY <1>4, <1>6 DEF Memory
<1>9. \A a \in Buffs : \A k \in 1..BuffCap : k <= used[a] => mem'[a][k] = mem[a][k]
  <2> SUFFICES ASSUME NEW a \in Buffs, NEW k \in 1..BuffCap, k <= used[a]
               PROVE  mem'[a][k] = mem[a][k]
    OBVIOUS
  <2>1. CASE a = b
    <3>1. used[b] \in Nat
      BY <1>6, AppenderAssumption
    <3>2. k # i
      BY <2>1, <3>1
    <3> QED  BY <1>4, <2>1, <3>2 DEF Memory
  <2>2. CASE a # b
    BY <1>4, <2>2 DEF Memory
  <2> QED  BY <2>1, <2>2
<1>10. \A a \in Buffs : used[a] \in Nat /\ used'[a] \in Nat /\ used[a] <= used'[a]
  <2> SUFFICES ASSUME NEW a \in Buffs
               PROVE  used[a] \in Nat /\ used'[a] \in Nat /\ used[a] <= used'[a]
    OBVIOUS
  <2>1. used[a] \in Nat /\ used'[a] \in Nat
    BY <1>6, <1>7, AppenderAssumption
  <2>2. a = b => used[a] <= used'[a]
    BY <1>8, <2>1
  <2>3. a # b => used[a] <= used'[a]
    BY <1>8, <2>1
  <2> QED  BY <2>1, <2>2, <2>3
<1>11. \A k \in DOMAIN q : q[k] \in Entry
  BY LenProperties
<1>12. InUse(q, used) /\ Ordered(q)
  BY <1>5, QueueForm
<1>13. b \notin QueuedIn(q)
  <2>1. Placed(pool, Holders, buff, QueuedIn(q), (1..made) \ deleted)
    BY <1>5, PlaceForm
  <2> QED  BY <2>1 DEF Placed, HeldBy
<1>14. InUse(q, used')
  <2> SUFFICES ASSUME NEW k \in DOMAIN q PROVE q[k].at <= used'[q[k].buff]
    BY DEF InUse
  <2>1. PICK a \in Buffs, l \in Nat : a = q[k].buff /\ l = q[k].at
    BY <1>11, EntryFacts
  <2>2. l <= used[a]
    BY <1>12, <2>1 DEF InUse
  <2>3. l <= used'[a]
    BY <1>10, <2>2
  <2> QED  BY <2>1, <2>3
<1>15. /\ QueuedIn(Append(q, e)) = QueuedIn(q) \cup Freed(e)
       /\ Ordered(q) /\ e.buff \notin QueuedIn(q) => Ordered(Append(q, e))
       /\ \A u : InUse(q, u) /\ e.at <= u[e.buff] => InUse(Append(q, e), u)
  BY <1>2, QueueAppend
<1>16. QueuedIn(Pending') = QueuedIn(Pending)
  BY <1>2, <1>4, <1>5, <1>15 DEF Freed
<1>17. QueueInv'
  <2>1. e.at <= used'[e.buff]
    BY <1>2, <1>8
  <2>2. InUse(Append(q, e), used')
    BY <1>14, <1>15, <2>1
  <2> QED  BY <1>2, <1>4, <1>5, <1>12, <1>13, <1>15, <2>2, QueueForm
<1>18. FileBuffInv'
  <2> SUFFICES ASSUME \A k \in 1..(pos - 1) : batch[k].at # 0, NEW n \in DOMAIN fileBuff
               PROVE  \E k \in 1..(pos - 1) :
                        /\ batch[k].at <= used'[batch[k].buff]
                        /\ fileBuff[n] = mem'[batch[k].buff][batch[k].at]
    BY DEF FileBuffInv, fileVars
  <2>1. PICK k \in 1..(pos - 1) : /\ batch[k].at <= used[batch[k].buff]
                                  /\ fileBuff[n] = mem[batch[k].buff][batch[k].at]
    BY DEF FileBuffInv
  <2>2. batch[k] \in Entry /\ batch[k].at # 0
    <3>1. k \in 1..Len(batch)
      BY PendingType DEF TypeOK
    <3> QED  BY <3>1, PendingType
  <2>3. PICK a \in Buffs, l \in 1..BuffCap : a = batch[k].buff /\ l = batch[k].at
    BY <2>2, EntryFacts, AppenderAssumption
  <2>4. l <= used[a] /\ l <= used'[a]
    BY <1>10, <2>1, <2>3
  <2>5. mem'[a][l] = mem[a][l]
    BY <1>9, <2>4
  <2> QED  BY <2>1, <2>3, <2>4, <2>5
<1>19. InOrder'
  <2>1. ASSUME NEW k \in DOMAIN q, q[k].at # 0
        PROVE  mem'[q[k].buff][q[k].at] = mem[q[k].buff][q[k].at]
    <3>1. PICK a \in Buffs, l \in 1..BuffCap : a = q[k].buff /\ l = q[k].at
      BY <1>11, <2>1, EntryFacts, AppenderAssumption
    <3>2. l <= used[a]
      BY <1>12, <3>1 DEF InUse
    <3> QED  BY <1>9, <3>1, <3>2
  <2>2. MsgsIn(mem', q) = MsgsIn(mem, q)
    <3>1. PICK x, y : x = mem /\ y = mem'
      OBVIOUS
    <3>2. \A k \in DOMAIN q : q[k].at # 0 => y[q[k].buff][q[k].at] = x[q[k].buff][q[k].at]
      BY <2>1, <3>1
    <3>3. MsgsIn(y, q) = MsgsIn(x, q)
      BY <3>2, MsgsSame
    <3> QED  BY <3>1, <3>3
  <2>3. MsgsIn(mem', Append(q, e)) = Append(MsgsIn(mem, q), m)
    <3>1. PICK y : y = mem'
      OBVIOUS
    <3>2. MsgsIn(y, Append(q, e)) = Append(MsgsIn(y, q), y[e.buff][e.at])
      BY <1>2, MsgsAppend
    <3>3. y[e.buff][e.at] = m
      BY <1>2, <1>8, <3>1
    <3> QED  BY <2>2, <3>1, <3>2, <3>3
  <2>4. PICK p \in Seq(Nat) : p = MsgsIn(mem, q)
    BY <1>4, MsgsType
  <2>5. PICK s, t \in Seq(Nat) : s = file /\ t = fileBuff
    BY DEF TypeOK
  <2>6. logged = s \o t \o p
    BY <1>5, <2>4, <2>5 DEF InOrder, Msgs
  <2>8. s \o t \o Append(p, m) = Append(s \o t \o p, m)
    BY ThreeAppend
  <2>9. Msgs(Pending)' = Append(p, m)
    BY <1>4, <1>5, <2>3, <2>4 DEF Msgs
  <2> QED  BY <2>5, <2>6, <2>8, <2>9 DEF InOrder, fileVars
<1>20. pb1' \in Seq(Entry)
  BY <1>2, <1>3, <1>4
<1> QED  BY <1>7, <1>16, <1>17, <1>18, <1>19, <1>20

\* The invariant after StoreMsg.
LEMMA StoreMsgInv ==
  ASSUME LogInv, NEW c \in Clients, stage # "crashed", StoreMsg(c)
  PROVE  LogInv'
<1> USE DEF LogInv
<1>1. PICK b, i, m : b = buff[c] /\ i = used[b] + 1 /\ m = Len(logged) + dropped + 1
  OBVIOUS
<1>2. /\ pc[c] = "store" /\ i <= BuffCap /\ pc' = [pc EXCEPT ![c] = "idle"]
      /\ mem' = [mem EXCEPT ![b][i] = m] /\ used' = [used EXCEPT ![b] = i]
      /\ pb1' = Append(pb1, [buff |-> b, at |-> i]) /\ logged' = Append(logged, m)
  BY <1>1 DEF StoreMsg, Goto
<1>3. /\ UNCHANGED <<batch, pos, swapped, pool, unrecycled, made, deleted, fileVars>>
      /\ UNCHANGED <<running, stage, wpc, idle, buff, item, dropped>>
  BY DEF StoreMsg, threadVars
<1>4. /\ pc \in [Clients -> {"idle", "first", "retire", "get", "store", "exited"}]
      /\ running \in BOOLEAN /\ pc'[c] = "idle" /\ \A d \in Clients \ {c} : pc'[d] = pc[d]
  BY <1>2 DEF TypeOK
<1>5. c \in Holders /\ b \in Buffs
  <2>1. buff[c] # NoBuff
    BY <1>2 DEF HoldInv
  <2> QED  BY <1>1, <1>2, <2>1 DEF Holders, TypeOK
<1>6. i \in 1..BuffCap
  <2>1. used[b] \in Nat
    BY <1>5, AppenderAssumption DEF TypeOK
  <2> QED  BY <1>1, <1>2, <2>1, AppenderAssumption
<1>7. m \in Nat
  <2>1. Len(logged) \in Nat /\ dropped \in Nat
    BY LenProperties DEF TypeOK
  <2> QED  BY <1>1, <2>1
<1>8. /\ QueuedIn(Pending') = QueuedIn(Pending) /\ QueueInv' /\ FileBuffInv' /\ InOrder'
      /\ pb1' \in Seq(Entry) /\ mem' \in Memory /\ used' \in [Buffs -> 0..BuffCap]
  BY <1>1, <1>2, <1>3, <1>5, <1>6, <1>7, StoreStep
<1>9. logged' \in Seq(Nat)
  BY <1>2, <1>7 DEF TypeOK
<1>10. TypeOK'
  BY <1>2, <1>3, <1>8, <1>9 DEF TypeOK, Memory, fileVars
<1>11. running
  BY <1>2 DEF StopInv
<1>12. StopInv'
  BY <1>3, <1>11 DEF StopInv, fileVars
<1>13. HoldInv'
  BY <1>2, <1>3, <1>4 DEF HoldInv
<1>14. Holders' = Holders
  BY <1>2, <1>3, <1>4 DEF Holders
<1>15. PlaceInv' /\ CountInv'
  BY <1>3, <1>8, <1>14, FramePlaces
<1>16. CrashKeepsMessages'
  BY <1>3 DEF CrashKeepsMessages
<1> QED  BY <1>8, <1>10, <1>12, <1>13, <1>15, <1>16

\* The pool is shrunk to the size it started with.
LEMMA ShrinkStep ==
  ASSUME TypeOK, PlaceInv, CountInv, Shrink, UNCHANGED <<pb1, batch, pos, pc, buff>>
  PROVE  PlaceInv' /\ CountInv' /\ pool' \in Seq(Buffs) /\ deleted' \subseteq Buffs
<1>1. /\ pool' = SubSeq(pool, 1, IF Len(pool) > FixSz THEN FixSz ELSE Len(pool))
      /\ deleted' = deleted \cup ToSet(SubSeq(pool, FixSz + 1, Len(pool)))
      /\ UNCHANGED <<mem, used, unrecycled, made>>
  BY DEF Shrink
<1>2. /\ pool \in Seq(Buffs) /\ Len(pool) \in Nat /\ made \in Nat /\ FixSz \in Nat /\ unrecycled \in Nat
      /\ deleted \subseteq Buffs
  BY LenProperties, AppenderAssumption DEF TypeOK
<1>3. /\ deleted \in SUBSET (1..made)
      /\ Placed(pool, Holders, buff, QueuedIn(Pending), (1..made) \ deleted)
  BY PlaceForm
<1>4. Pending' = Pending /\ Holders' = Holders
  BY PendingSame DEF Holders
<1>5. CASE Len(pool) > FixSz
  <2>1. PICK k \in Nat : k = FixSz /\ k <= Len(pool)
    BY <1>2, <1>5
  <2>2. PICK gone : gone = ToSet(SubSeq(pool, k + 1, Len(pool)))
    OBVIOUS
  <2>3. pool' = SubSeq(pool, 1, k) /\ deleted' = deleted \cup gone
    BY <1>1, <1>5, <2>1, <2>2
  <2>4. PICK alive, rest, r : /\ alive = (1..made) \ deleted /\ rest = alive \ gone
                              /\ r = SubSeq(pool, 1, k)
    OBVIOUS
  <2>5. CutAt(pool, k, alive, r, gone, rest)
    BY <2>1, <2>2, <2>4 DEF CutAt
  <2>6. /\ Placed(r, Holders, buff, QueuedIn(Pending), rest)
        /\ r \in Seq(Buffs) /\ Len(r) = k
        /\ gone \subseteq alive /\ gone \subseteq Buffs
        /\ IsFiniteSet(gone) /\ Cardinality(gone) = Len(pool) - k
    <3>1. PICK H, f, Q : H = Holders /\ f = buff /\ Q = QueuedIn(Pending)
      OBVIOUS
    <3>2. Placed(pool, H, f, Q, alive)
      BY <1>3, <2>4, <3>1
    <3>3. PICK p \in Seq(Buffs) : p = pool
      BY <1>2
    <3>4. Placed(p, H, f, Q, alive) /\ CutAt(p, k, alive, r, gone, rest)
      BY <2>5, <3>2, <3>3
    <3>5. /\ Placed(r, H, f, Q, rest)
          /\ r \in Seq(Buffs) /\ Len(r) = k
          /\ gone \subseteq alive /\ gone \subseteq Buffs
          /\ IsFiniteSet(gone) /\ Cardinality(gone) = Len(p) - k
      BY <3>4, PlacedShrink
    <3> QED  BY <3>1, <3>3, <3>5
  <2>7. pool' \in Seq(Buffs) /\ Len(pool') = k /\ deleted' \subseteq Buffs /\ deleted' \subseteq 1..made
    BY <1>2, <1>3, <2>3, <2>4, <2>6
  <2>8. PlaceInv'
    <3>1. rest = (1..made') \ deleted'
      BY <1>1, <2>3, <2>4
    <3> QED  BY <1>1, <1>4, <2>3, <2>4, <2>6, <2>7, <3>1, PlaceForm
  <2>9. IsFiniteSet(deleted) /\ Cardinality(deleted) \in Nat
    BY <1>2, <1>3, PlacedCount
  <2>10. Cardinality(deleted') = Cardinality(deleted) + Len(pool) - k
    <3>1. Cardinality(deleted \cup gone) =
            Cardinality(deleted) + Cardinality(gone) - Cardinality(deleted \cap gone)
      BY <2>6, <2>9, FS_Union
    <3>2. deleted \cap gone = {}
      BY <2>4, <2>6
    <3>3. Cardinality(deleted \cap gone) = 0
      BY <3>2, FS_EmptySet
    <3>4. Cardinality(gone) = Len(pool) - k
      BY <2>6
    <3> QED  BY <1>2, <2>3, <2>9, <3>1, <3>3, <3>4
  <2>11. CountInv'
    BY <1>1, <1>2, <2>7, <2>9, <2>10 DEF CountInv
  <2> QED  BY <2>7, <2>8, <2>11
<1>6. CASE ~(Len(pool) > FixSz)
  <2>1. pool' = pool
    BY <1>1, <1>2, <1>6
  <2>2. SubSeq(pool, FixSz + 1, Len(pool)) = <<>>
    BY <1>2, <1>6
  <2>3. deleted' = deleted
    <3>1. ToSet(<<>>) = {}
      BY DEF ToSet
    <3> QED  BY <1>1, <2>2, <3>1
  <2>4. PlaceInv' /\ CountInv'
    BY <1>1, <1>4, <2>1, <2>3, FramePlaces
  <2> QED  BY <1>2, <2>1, <2>3, <2>4
<1> QED  BY <1>5, <1>6

\* The logging thread finds nothing to do.
LEMMA WaitIdleInv ==
  ASSUME LogInv, WaitIdle
  PROVE  LogInv'
<1> USE DEF LogInv
<1>1. /\ UNCHANGED <<pb1, batch, pos, swapped, fileVars, running, stage, wpc>>
      /\ UNCHANGED <<pc, buff, item, logged, dropped>>
      /\ stage # "crashed"
  BY DEF WaitIdle, queueVars, clientVars
<1>2. idle' \in 0..IdleLimit
  BY AppenderAssumption DEF WaitIdle, TypeOK
<1>3. /\ PlaceInv' /\ CountInv' /\ pool' \in Seq(Buffs) /\ deleted' \subseteq Buffs
      /\ UNCHANGED <<mem, used, unrecycled, made>>
  <2>1. CASE Shrink
    BY <1>1, <2>1, ShrinkStep DEF Shrink
  <2>2. CASE UNCHANGED poolVars
    <3>1. UNCHANGED <<mem, used, pool, unrecycled, made, deleted>>
      BY <2>2 DEF poolVars
    <3>2. Pending' = Pending /\ Holders' = Holders
      BY <1>1, PendingSame DEF Holders
    <3>3. PlaceInv' /\ CountInv'
      BY <1>1, <3>1, <3>2, FramePlaces
    <3> QED  BY <3>1, <3>3 DEF TypeOK
  <2> QED  BY <2>1, <2>2 DEF WaitIdle
<1>4. TypeOK'
  BY <1>1, <1>2, <1>3 DEF TypeOK, fileVars
<1>5. StopInv' /\ HoldInv'
  BY <1>1 DEF StopInv, HoldInv, fileVars
<1>6. QueueInv' /\ FileBuffInv' /\ InOrder' /\ CrashKeepsMessages'
  BY <1>1, <1>3, FrameQueue
<1> QED  BY <1>3, <1>4, <1>5, <1>6

\* It takes the queue.
LEMMA TakeBatchInv ==
  ASSUME LogInv, TakeBatch
  PROVE  LogInv'
<1> USE DEF LogInv
<1>1. /\ UNCHANGED <<fileVars, running, stage, idle, mem, used, pool, unrecycled, made, deleted>>
      /\ UNCHANGED <<pc, buff, item, logged, dropped>>
      /\ stage # "crashed" /\ wpc = "wait" /\ wpc' = "write"
      /\ batch' = pb1 /\ pb1' = <<>> /\ pos' = 1 /\ swapped' = ~swapped
  BY DEF TakeBatch, poolVars, clientVars
<1>2. batch = <<>> /\ pos = 1 /\ fileBuff = <<>>
  BY <1>1 DEF StopInv
<1>3. Pending' = Pending /\ Holders' = Holders
  BY <1>1, <1>2, PendingTake DEF Holders
<1>4. TypeOK'
  <2>1. pb1' \in Seq(Entry) /\ batch' \in Seq(Entry) /\ pos' \in 1..(Len(batch') + 1)
    BY <1>1, LenProperties DEF TypeOK
  <2>2. swapped' \in BOOLEAN
    BY <1>1 DEF TypeOK
  <2> QED  BY <1>1, <2>1, <2>2 DEF TypeOK, fileVars
<1>5. StopInv'
  BY <1>1 DEF StopInv
<1>6. HoldInv'
  BY <1>1 DEF HoldInv
<1>7. PlaceInv' /\ CountInv'
  BY <1>1, <1>3, FramePlaces
<1>8. QueueInv'
  BY <1>1, <1>3, QueueForm
<1>9. FileBuffInv'
  BY <1>1, <1>2 DEF FileBuffInv, fileVars
<1>10. InOrder' /\ CrashKeepsMessages'
  BY <1>1, <1>3 DEF InOrder, Msgs, fileVars, CrashKeepsMessages
<1> QED  BY <1>4, <1>5, <1>6, <1>7, <1>8, <1>9, <1>10

\* It has written a batch.
LEMMA FlushBatchInv ==
  ASSUME LogInv, FlushBatch
  PROVE  LogInv'
<1> USE DEF LogInv
<1>1. /\ UNCHANGED <<pb1, swapped, running, stage, mem, used, pool, unrecycled, made, deleted>>
      /\ UNCHANGED <<pc, buff, item, logged, dropped>>
      /\ stage # "crashed" /\ wpc = "write" /\ wpc' = "wait" /\ idle' = 0
      /\ batch' = <<>> /\ pos' = 1 /\ pos > Len(batch)
      /\ file' = file \o fileBuff /\ fileBuff' = <<>>
  BY DEF FlushBatch, poolVars, clientVars
<1>2. Pending' = Pending /\ Holders' = Holders
  BY <1>1, PendingFlush DEF Holders
<1>3. file \in Seq(Nat) /\ fileBuff \in Seq(Nat) /\ file \o fileBuff \in Seq(Nat)
  BY ConcatProperties DEF TypeOK
<1>4. TypeOK'
  <2>1. pb1' \in Seq(Entry) /\ batch' \in Seq(Entry) /\ pos' \in 1..(Len(batch') + 1)
    BY <1>1 DEF TypeOK
  <2>2. idle' \in 0..IdleLimit /\ fileBuff' \in Seq(Nat) /\ Len(fileBuff') <= FileCap
    BY <1>1, AppenderAssumption
  <2> QED  BY <1>1, <1>3, <2>1, <2>2 DEF TypeOK
<1>5. StopInv'
  BY <1>1 DEF StopInv
<1>6. HoldInv'
  BY <1>1 DEF HoldInv
<1>7. PlaceInv' /\ CountInv'
  BY <1>1, <1>2, FramePlaces
<1>8. QueueInv'
  BY <1>1, <1>2, QueueForm
<1>9. FileBuffInv'
  BY <1>1 DEF FileBuffInv
<1>10. InOrder'
  <2>1. Msgs(Pending)' = Msgs(Pending)
    BY <1>1, <1>2 DEF Msgs
  <2>2. file' \o fileBuff' = file \o fileBuff
    BY <1>1, <1>3, ConcatEmptySeq
  <2> QED  BY <1>1, <2>1, <2>2 DEF InOrder
<1>11. CrashKeepsMessages'
  BY <1>1 DEF CrashKeepsMessages
<1> QED  BY <1>4, <1>5, <1>6, <1>7, <1>8, <1>9, <1>10, <1>11

\* The first message of a queue.
LEMMA MsgsHead ==
  ASSUME NEW memory \in Memory, NEW e \in Entry, NEW r \in Seq(Entry)
  PROVE  /\ MsgsIn(memory, r) \in Seq(Nat)
         /\ e.at = 0 => MsgsIn(memory, <<e>> \o r) = MsgsIn(memory, r)
         /\ e.at # 0 => MsgsIn(memory, <<e>> \o r) = <<memory[e.buff][e.at]>> \o MsgsIn(memory, r)
<1>1. <<e>> \in Seq(Entry) /\ <<>> \in Seq(Entry) /\ <<e>> = Append(<<>>, e)
  OBVIOUS
<1>2. MsgsIn(memory, <<e>> \o r) = MsgsIn(memory, <<e>>) \o MsgsIn(memory, r)
  BY <1>1, MsgsConcat
<1>3. MsgsIn(memory, r) \in Seq(Nat)
  BY MsgsType
<1>4. ASSUME e.at = 0 PROVE MsgsIn(memory, <<e>>) = <<>>
  BY <1>1, <1>4, MsgsAppend, MsgsEmpty
<1>5. ASSUME e.at # 0 PROVE MsgsIn(memory, <<e>>) = <<memory[e.buff][e.at]>>
  <2>1. MsgsIn(memory, Append(<<>>, e)) = Append(MsgsIn(memory, <<>>), memory[e.buff][e.at])
    BY <1>1, <1>5, MsgsAppend
  <2>2. PICK v : v = memory[e.buff][e.at]
    OBVIOUS
  <2>3. Append(<<>>, v) = <<v>>
    OBVIOUS
  <2>4. MsgsIn(memory, Append(<<>>, e)) = Append(<<>>, v)
    BY <2>1, <2>2, MsgsEmpty
  <2> QED  BY <1>1, <2>2, <2>3, <2>4
<1> QED  BY <1>2, <1>3, <1>4, <1>5, ConcatEmptySeq

\* Concatenation, under a name that the provers do not expand.
Cat(s, t) == s \o t

\* Moving the second of three parts from one side to the other.
LEMMA CatTwice ==
  ASSUME NEW T, NEW f \in Seq(T), NEW b \in Seq(T), NEW o \in Seq(T), NEW r \in Seq(T)
  PROVE  /\ Cat(Cat(Cat(f, b), o), r) = Cat(Cat(f, b), Cat(o, r))
         /\ Cat(Cat(f, Cat(b, o)), r) = Cat(Cat(f, b), Cat(o, r))
<1>1. f \o b \in Seq(T)
  BY ConcatProperties
<1>2. (f \o b) \o o \o r = f \o b \o (o \o r)
  BY <1>1, ConcatAssociative
<1>3. (f \o b) \o o = f \o (b \o o)
  BY ConcatAssociative
<1> QED  BY <1>2, <1>3 DEF Cat

\* A message moves from the queue to the file's buffer.
LEMMA WrittenOrder ==
  ASSUME NEW f \in Seq(Nat), NEW b \in Seq(Nat), NEW v \in Nat, NEW r \in Seq(Nat)
  PROVE  /\ (f \o b) \o <<v>> \o r = f \o b \o (<<v>> \o r)
         /\ f \o Append(b, v) \o r = f \o b \o (<<v>> \o r)
<1>1. PICK o : o = <<v>>
  OBVIOUS
<1>2. o \in Seq(Nat)
  BY <1>1
<1>3. Append(b, v) = b \o o
  BY <1>1
<1>4. /\ Cat(Cat(Cat(f, b), o), r) = Cat(Cat(f, b), Cat(o, r))
      /\ Cat(Cat(f, Cat(b, o)), r) = Cat(Cat(f, b), Cat(o, r))
  BY <1>2, CatTwice
<1> QED  BY <1>1, <1>3, <1>4 DEF Cat

\* The entry is a request to recycle its buffer, the last one of that buffer.
LEMMA RecycleStep ==
  ASSUME TypeOK, PlaceInv, CountInv, QueueInv, InOrder, stage # "crashed",
         pos <= Len(batch), pos' = pos + 1, batch[pos].at = 0, Recycle(batch[pos].buff),
         UNCHANGED <<pb1, batch, fileVars, logged, pc, buff>>
  PROVE  /\ PlaceInv' /\ CountInv' /\ QueueInv' /\ FileBuffInv' /\ InOrder'
         /\ pool' \in Seq(Buffs) /\ unrecycled' \in Nat /\ used' \in [Buffs -> 0..BuffCap]
         /\ UNCHANGED <<mem, made, deleted>>
<1>1. PICK r \in Seq(Entry) : r = Pending'
  BY PendingWrite
<1>2. PICK e \in Entry : e = batch[pos]
  BY PendingWrite
<1>3. PICK q : q = Pending /\ q = <<e>> \o r
  BY <1>1, <1>2, PendingWrite
<1>4. PICK b \in Buffs : b = e.buff
  BY EntryFacts
<1>5. /\ e.at = 0 /\ used' = [used EXCEPT ![b] = 0] /\ pool' = Append(pool, b)
      /\ unrecycled' = unrecycled - 1 /\ UNCHANGED <<mem, made, deleted>>
  BY <1>2, <1>4 DEF Recycle
<1>6. /\ pool \in Seq(Buffs) /\ used \in [Buffs -> 0..BuffCap] /\ mem \in Memory /\ made \in Nat
      /\ unrecycled \in Nat
  <2>1. mem \in Memory
    BY DEF TypeOK, Memory
  <2>2. made \in Nat
    BY AppenderAssumption DEF TypeOK
  <2> QED  BY <2>1, <2>2 DEF TypeOK
<1>7. Ordered(q) /\ InUse(q, used)
  BY <1>3, QueueForm
<1>8. /\ QueuedIn(q) = QueuedIn(r) \cup Freed(e) /\ Ordered(r)
      /\ \A i \in DOMAIN r : r[i].buff # b
      /\ InUse(r, used)
  BY <1>3, <1>4, <1>5, <1>7, QueueHead
<1>9. QueuedIn(q) = QueuedIn(r) \cup {b}
  BY <1>4, <1>5, <1>8 DEF Freed
<1>10. b \notin QueuedIn(r)
  BY <1>8, QueuedAt
<1>11. Holders' = Holders
  BY DEF Holders
<1>12. PlaceInv'
  <2>1. PICK H, f, Q, alive, full : /\ H = Holders /\ f = buff /\ Q = QueuedIn(r)
                                    /\ alive = (1..made) \ deleted /\ full = Q \cup {b}
    OBVIOUS
  <2>2. /\ deleted \subseteq 1..made /\ Placed(pool, H, f, full, alive)
    BY <1>3, <1>9, <2>1, PlaceForm
  <2>3. Placed(pool, H, f, Q \cup {b}, alive) /\ b \notin Q
    BY <1>10, <2>1, <2>2
  <2>4. Placed(Append(pool, b), H, f, Q, alive)
    BY <1>6, <2>3, PlacedRecycle
  <2> QED  BY <1>1, <1>5, <1>11, <2>1, <2>2, <2>4, PlaceForm
<1>13. pool' \in Seq(Buffs) /\ Len(pool') = Len(pool) + 1 /\ Len(pool) \in Nat
  BY <1>5, <1>6, AppendFacts
<1>14. CountInv' /\ unrecycled' \in Nat
  <2>1. /\ deleted' \in SUBSET (1..made') /\ made' \in Nat
        /\ Placed(pool', Holders', buff', QueuedIn(Pending'), (1..made') \ deleted')
    BY <1>5, <1>6, <1>12, PlaceForm
  <2>2. /\ Cardinality(deleted') \in Nat /\ Len(pool') \in Nat
        /\ made' - Cardinality(deleted') - Len(pool') \in Nat
    BY <1>13, <2>1, PlacedCount
  <2>3. unrecycled = made' - Cardinality(deleted') - Len(pool)
    BY <1>5 DEF CountInv
  <2>4. unrecycled' = made' - Cardinality(deleted') - Len(pool')
    BY <1>5, <1>6, <1>13, <2>1, <2>2, <2>3
  <2> QED  BY <2>2, <2>4 DEF CountInv
<1>15. used' \in [Buffs -> 0..BuffCap]
  BY <1>5, <1>6, AppenderAssumption
<1>16. QueueInv'
  <2>1. ASSUME NEW i \in DOMAIN r PROVE r[i].at <= used'[r[i].buff]
    <3>1. r[i].buff \in Buffs
      BY EntryFacts, LenProperties
    <3>2. used'[r[i].buff] = used[r[i].buff]
      BY <1>5, <1>6, <1>8, <3>1
    <3> QED  BY <1>8, <3>2 DEF InUse
  <2> QED  BY <1>1, <1>8, <2>1, QueueForm DEF InUse
<1>17. FileBuffInv'
  <2>1. pos \in 1..(pos' - 1)
    BY PendingType
  <2> QED  BY <2>1 DEF FileBuffInv
<1>18. InOrder'
  <2>1. MsgsIn(mem, q) = MsgsIn(mem, r)
    BY <1>3, <1>5, <1>6, MsgsHead
  <2> QED  BY <1>1, <1>3, <1>5, <2>1 DEF InOrder, Msgs, fileVars
<1> QED  BY <1>5, <1>12, <1>13, <1>14, <1>15, <1>16, <1>17, <1>18

\* The entry is a message, which is copied to the file's buffer.
LEMMA CopyStep ==
  ASSUME TypeOK, QueueInv, FileBuffInv, InOrder, stage # "crashed",
         pos <= Len(batch), pos' = pos + 1, batch[pos].at # 0,
         AppendToFile(mem[batch[pos].buff][batch[pos].at]),
         UNCHANGED <<pb1, batch, mem, used, logged>>
  PROVE  /\ QueuedIn(Pending') = QueuedIn(Pending) /\ QueueInv' /\ FileBuffInv' /\ InOrder'
         /\ file' \in Seq(Nat) /\ fileBuff' \in Seq(Nat) /\ Len(fileBuff') <= FileCap
<1>1. PICK r \in Seq(Entry) : r = Pending'
  BY PendingWrite
<1>2. PICK e \in Entry : e = batch[pos]
  BY PendingWrite
<1>3. PICK q : q = Pending /\ q = <<e>> \o r
  BY <1>1, <1>2, PendingWrite
<1>4. e.at # 0 /\ mem \in Memory /\ file \in Seq(Nat) /\ fileBuff \in Seq(Nat)
  BY <1>2 DEF TypeOK, Memory
<1>5. PICK v \in Nat : v = mem[e.buff][e.at]
  BY <1>4, EntryMsg
<1>6. \/ Len(fileBuff) = FileCap /\ file' = file \o fileBuff /\ fileBuff' = <<v>>
      \/ Len(fileBuff) # FileCap /\ file' = file /\ fileBuff' = Append(fileBuff, v)
  BY <1>2, <1>5 DEF AppendToFile
<1>7. file' \in Seq(Nat) /\ fileBuff' \in Seq(Nat)
  <2>1. file \o fileBuff \in Seq(Nat) /\ <<v>> \in Seq(Nat) /\ Append(fileBuff, v) \in Seq(Nat)
    BY <1>4
  <2> QED  BY <1>4, <1>6, <2>1
<1>8. Len(fileBuff') <= FileCap
  <2>1. FileCap \in Nat \ {0} /\ Len(fileBuff) \in Nat /\ Len(fileBuff) <= FileCap
    BY <1>4, AppenderAssumption DEF TypeOK
  <2>2. Len(<<v>>) = 1 /\ Len(Append(fileBuff, v)) = Len(fileBuff) + 1
    BY <1>4
  <2>3. CASE fileBuff' = <<v>>
    BY <2>1, <2>2, <2>3
  <2>4. CASE Len(fileBuff) # FileCap /\ fileBuff' = Append(fileBuff, v)
    <3>1. Len(fileBuff') = Len(fileBuff) + 1
      BY <2>2, <2>4
    <3> QED  BY <2>1, <2>4, <3>1
  <2> QED  BY <1>6, <2>3, <2>4
<1>9. Ordered(q) /\ InUse(q, used)
  BY <1>3, QueueForm
<1>10. /\ QueuedIn(q) = QueuedIn(r) \cup Freed(e) /\ Ordered(r) /\ InUse(r, used)
       /\ e.at <= used[e.buff]
  BY <1>3, <1>9, QueueHead
<1>11. QueuedIn(Pending') = QueuedIn(Pending)
  BY <1>1, <1>3, <1>4, <1>10 DEF Freed
<1>12. QueueInv'
  BY <1>1, <1>10, QueueForm
<1>13. FileBuffInv'
  <2> SUFFICES ASSUME \A i \in 1..(pos' - 1) : batch[i].at # 0, NEW k \in DOMAIN fileBuff'
               PROVE  \E i \in 1..(pos' - 1) :
                        /\ batch[i].at <= used[batch[i].buff]
                        /\ fileBuff'[k] = mem[batch[i].buff][batch[i].at]
    BY DEF FileBuffInv
  <2>1. pos \in Nat \ {0} /\ pos' - 1 = pos
    BY PendingType
  <2>2. pos \in 1..(pos' - 1) /\ 1..(pos - 1) \subseteq 1..(pos' - 1)
    BY <2>1
  <2>3. CASE fileBuff'[k] = v
    BY <1>2, <1>5, <1>10, <2>2, <2>3
  <2>4. CASE k \in DOMAIN fileBuff /\ fileBuff'[k] = fileBuff[k]
    <3>1. PICK i \in 1..(pos - 1) : /\ batch[i].at <= used[batch[i].buff]
                                    /\ fileBuff[k] = mem[batch[i].buff][batch[i].at]
      BY <2>2, <2>4 DEF FileBuffInv
    <3> QED  BY <2>2, <2>4, <3>1
  <2>5. fileBuff'[k] = v \/ (k \in DOMAIN fileBuff /\ fileBuff'[k] = fileBuff[k])
    <3>1. CASE fileBuff' = <<v>>
      BY <3>1
    <3>2. CASE fileBuff' = Append(fileBuff, v)
      <4>1. PICK b \in Seq(Nat) : b = fileBuff
        BY <1>4
      <4>2. /\ DOMAIN Append(b, v) = 1..(Len(b) + 1) /\ DOMAIN b = 1..Len(b) /\ Len(b) \in Nat
            /\ Append(b, v)[Len(b) + 1] = v /\ \A i \in 1..Len(b) : Append(b, v)[i] = b[i]
        OBVIOUS
      <4> QED  BY <3>2, <4>1, <4>2
    <3> QED  BY <1>6, <3>1, <3>2
  <2> QED  BY <2>3, <2>4, <2>5
<1>14. InOrder'
  <2>1. PICK f, b, m \in Seq(Nat) : f = file /\ b = fileBuff /\ m = MsgsIn(mem, r)
    BY <1>4, MsgsType
  <2>2. MsgsIn(mem, q) = <<v>> \o m
    BY <1>3, <1>4, <1>5, <2>1, MsgsHead
  <2>3. logged = f \o b \o (<<v>> \o m)
    BY <1>3, <2>1, <2>2 DEF InOrder, Msgs
  <2>4. file' \o fileBuff' \o m = f \o b \o (<<v>> \o m)
    <3>1. /\ (f \o b) \o <<v>> \o m = f \o b \o (<<v>> \o m)
          /\ f \o Append(b, v) \o m = f \o b \o (<<v>> \o m)
      BY WrittenOrder
    <3> QED  BY <1>6, <2>1, <3>1
  <2>5. Msgs(Pending)' = m
    BY <1>1, <2>1 DEF Msgs
  <2> QED  BY <2>3, <2>4, <2>5 DEF InOrder
<1> QED  BY <1>7, <1>8, <1>11, <1>12, <1>13, <1>14

\* The logging thread handles an entry of the batch.
LEMMA WriteEntryInv ==
  ASSUME LogInv, WriteEntry
  PROVE  LogInv'
<1> USE DEF LogInv
<1>1. /\ UNCHANGED <<pb1, batch, swapped, running, stage, wpc, idle>>
      /\ UNCHANGED <<pc, buff, item, logged, dropped>>
      /\ stage # "crashed" /\ wpc = "write" /\ pos <= Len(batch) /\ pos' = pos + 1
  BY DEF WriteEntry, clientVars, threadVars
<1>2. batch[pos].at \in Nat
  <2>1. batch[pos] \in Entry
    BY <1>1, PendingWrite
  <2> QED  BY <2>1, EntryFacts
<1>3. /\ PlaceInv' /\ CountInv' /\ QueueInv' /\ FileBuffInv' /\ InOrder'
      /\ pool' \in Seq(Buffs) /\ unrecycled' \in Nat /\ used' \in [Buffs -> 0..BuffCap]
      /\ UNCHANGED <<mem, made, deleted>>
      /\ file' \in Seq(Nat) /\ fileBuff' \in Seq(Nat) /\ Len(fileBuff') <= FileCap
  <2>1. CASE batch[pos].at = 0 /\ Recycle(batch[pos].buff) /\ UNCHANGED fileVars
    <3>1. /\ PlaceInv' /\ CountInv' /\ QueueInv' /\ FileBuffInv' /\ InOrder'
          /\ pool' \in Seq(Buffs) /\ unrecycled' \in Nat /\ used' \in [Buffs -> 0..BuffCap]
          /\ UNCHANGED <<mem, made, deleted>>
      BY <1>1, <2>1, RecycleStep
    <3>2. file' \in Seq(Nat) /\ fileBuff' \in Seq(Nat) /\ Len(fileBuff') <= FileCap
      BY <2>1 DEF TypeOK, fileVars
    <3> QED  BY <3>1, <3>2
  <2>2. CASE batch[pos].at > 0 /\ AppendToFile(mem[batch[pos].buff][batch[pos].at])
             /\ UNCHANGED poolVars
    <3>1. batch[pos].at # 0
      BY <1>2, <2>2
    <3>2. UNCHANGED <<mem, used, pool, unrecycled, made, deleted>>
      BY <2>2 DEF poolVars
    <3>3. /\ QueuedIn(Pending') = QueuedIn(Pending) /\ QueueInv' /\ FileBuffInv' /\ InOrder'
          /\ file' \in Seq(Nat) /\ fileBuff' \in Seq(Nat) /\ Len(fileBuff') <= FileCap
      BY <1>1, <2>2, <3>1, <3>2, CopyStep
    <3>4. Holders' = Holders
      BY <1>1 DEF Holders
    <3>5. PlaceInv' /\ CountInv'
      BY <1>1, <3>2, <3>3, <3>4, FramePlaces
    <3>6. pool' \in Seq(Buffs) /\ unrecycled' \in Nat /\ used' \in [Buffs -> 0..BuffCap]
      BY <3>2 DEF TypeOK
    <3> QED  BY <3>2, <3>3, <3>5, <3>6
  <2> QED  BY <2>1, <2>2 DEF WriteEntry
<1>4. pos' \in 1..(Len(batch') + 1)
  BY <1>1, PendingType
<1>5. TypeOK'
  BY <1>1, <1>3, <1>4 DEF TypeOK
<1>6. StopInv'
  BY <1>1 DEF StopInv
<1>7. HoldInv'
  BY <1>1 DEF HoldInv
<1>8. CrashKeepsMessages'
  BY <1>1 DEF CrashKeepsMessages
<1> QED  BY <1>3, <1>5, <1>6, <1>7, <1>8

\* The steps that end the logging thread and the appender.
LEMMA EndInv ==
  ASSUME LogInv, EndLogging \/ Stop \/ Joined
  PROVE  LogInv'
<1> USE DEF LogInv
<1>1. /\ UNCHANGED <<pb1, batch, pos, swapped, fileVars, mem, used, pool, unrecycled, made, deleted>>
      /\ UNCHANGED <<pc, buff, item, logged, dropped, idle>>
      /\ stage # "crashed" /\ stage' # "crashed"
  BY DEF EndLogging, Stop, Joined, queueVars, poolVars, clientVars
<1>2. /\ running' \in BOOLEAN /\ stage' \in {"running", "stopping", "stopped", "crashed"}
      /\ wpc' \in {"wait", "write", "off"}
  BY DEF EndLogging, Stop, Joined, TypeOK
<1>3. TypeOK'
  BY <1>1, <1>2 DEF TypeOK, fileVars
<1>4. StopInv'
  <2>1. CASE EndLogging
    BY <1>1, <2>1 DEF EndLogging, StopInv, fileVars
  <2>2. CASE Stop
    BY <1>1, <2>2 DEF Stop, StopInv, fileVars
  <2>3. CASE Joined
    BY <1>1, <2>3 DEF Joined, StopInv, fileVars
  <2> QED  BY <2>1, <2>2, <2>3
<1>5. HoldInv'
  BY <1>1 DEF HoldInv
<1>6. QueuedIn(Pending') = QueuedIn(Pending) /\ Holders' = Holders
  BY <1>1, PendingSame DEF Holders
<1>7. PlaceInv' /\ CountInv'
  BY <1>1, <1>6, FramePlaces
<1>8. QueueInv' /\ FileBuffInv' /\ InOrder' /\ CrashKeepsMessages'
  BY <1>1, FrameQueue
<1> QED  BY <1>3, <1>4, <1>5, <1>7, <1>8

\* A step that changes nothing.
LEMMA StutterInv ==
  ASSUME LogInv, UNCHANGED appenderVars
  PROVE  LogInv'
<1>1. /\ UNCHANGED <<pb1, batch, pos, swapped, fileBuff, file, mem, used, pool, unrecycled, made, deleted>>
      /\ UNCHANGED <<running, stage, wpc, idle, pc, buff, item, logged, dropped>>
  BY DEF appenderVars, queueVars, poolVars, fileVars, clientVars, threadVars
<1>2. Pending' = Pending /\ Holders' = Holders
  BY <1>1, PendingSame DEF Holders
<1>3. TypeOK'
  BY <1>1 DEF LogInv, TypeOK
<1>4. StopInv' /\ HoldInv'
  BY <1>1 DEF LogInv, StopInv, HoldInv
<1>5. PlaceInv' /\ CountInv'
  BY <1>1, <1>2, FramePlaces DEF LogInv
<1>6. QueueInv'
  BY <1>1, <1>2, QueueForm DEF LogInv
<1>7. FileBuffInv' /\ CrashKeepsMessages'
  BY <1>1 DEF LogInv, FileBuffInv, CrashKeepsMessages
<1>8. InOrder'
  BY <1>1, <1>2 DEF LogInv, InOrder, Msgs
<1> QED  BY <1>3, <1>4, <1>5, <1>6, <1>7, <1>8 DEF LogInv

\* The members of two sequences one behind the other.
LEMMA ToSetConcat ==
  ASSUME NEW T, NEW s \in Seq(T), NEW t \in Seq(T)
  PROVE  ToSet(s \o t) = ToSet(s) \cup ToSet(t)
<1>1. PICK u : u = s \o t
  OBVIOUS
<1>2. /\ u \in Seq(T) /\ Len(u) = Len(s) + Len(t) /\ Len(s) \in Nat /\ Len(t) \in Nat
      /\ \A i \in 1..(Len(s) + Len(t)) : u[i] = IF i <= Len(s) THEN s[i] ELSE t[i - Len(s)]
  BY <1>1, ConcatProperties, LenProperties
<1>3. DOMAIN u = 1..(Len(s) + Len(t)) /\ DOMAIN s = 1..Len(s) /\ DOMAIN t = 1..Len(t)
  BY <1>2, LenProperties
<1>4. ASSUME NEW i \in DOMAIN u PROVE u[i] \in ToSet(s) \cup ToSet(t)
  <2>1. CASE i <= Len(s)
    <3>1. i \in DOMAIN s /\ u[i] = s[i]
      BY <1>2, <1>3, <2>1
    <3> QED  BY <3>1 DEF ToSet
  <2>2. CASE ~(i <= Len(s))
    <3>1. i - Len(s) \in DOMAIN t /\ u[i] = t[i - Len(s)]
      BY <1>2, <1>3, <2>2
    <3> QED  BY <3>1 DEF ToSet
  <2> QED  BY <2>1, <2>2
<1>5. ASSUME NEW i \in DOMAIN s PROVE s[i] \in ToSet(u)
  <2>1. i \in DOMAIN u /\ u[i] = s[i]
    BY <1>2, <1>3
  <2> QED  BY <2>1 DEF ToSet
<1>6. ASSUME NEW i \in DOMAIN t PROVE t[i] \in ToSet(u)
  <2>1. i + Len(s) \in DOMAIN u /\ u[i + Len(s)] = t[i + Len(s) - Len(s)] /\ i + Len(s) - Len(s) = i
    BY <1>2, <1>3
  <2> QED  BY <2>1 DEF ToSet
<1>7. ToSet(u) \subseteq ToSet(s) \cup ToSet(t)
  BY <1>4 DEF ToSet
<1>8. ToSet(s) \subseteq ToSet(u)
  BY <1>5 DEF ToSet
<1>9. ToSet(t) \subseteq ToSet(u)
  BY <1>6 DEF ToSet
<1> QED  BY <1>1, <1>7, <1>8, <1>9

\* What CrashFlush appends to the file.
Flushed(first, second, turned) == IF turned THEN second \o first ELSE first \o second

\* Its messages, in whichever order the vectors are written.
LEMMA FlushedSet ==
  ASSUME NEW T, NEW f \in Seq(T), NEW s \in Seq(T), NEW t \in Seq(T), NEW turned \in BOOLEAN
  PROVE  /\ Flushed(s, t, turned) \in Seq(T) /\ f \o Flushed(s, t, turned) \in Seq(T)
         /\ ToSet(f \o Flushed(s, t, turned)) = ToSet(f) \cup ToSet(s) \cup ToSet(t)
<1>1. PICK w : w = Flushed(s, t, turned)
  OBVIOUS
<1>2. s \o t \in Seq(T) /\ t \o s \in Seq(T)
  BY ConcatProperties
<1>3. w \in Seq(T)
  BY <1>1, <1>2 DEF Flushed
<1>4. ToSet(w) = ToSet(s) \cup ToSet(t)
  <2>1. ToSet(s \o t) = ToSet(s) \cup ToSet(t)
    BY ToSetConcat
  <2>2. ToSet(t \o s) = ToSet(t) \cup ToSet(s)
    BY ToSetConcat
  <2> QED  BY <1>1, <2>1, <2>2 DEF Flushed
<1>5. f \o w \in Seq(T) /\ ToSet(f \o w) = ToSet(f) \cup ToSet(w)
  BY <1>3, ConcatProperties, ToSetConcat
<1> QED  BY <1>1, <1>3, <1>4, <1>5

\* The messages of the entries from pos on are among those of the batch.
LEMMA RestOfBatch ==
  ASSUME TypeOK
  PROVE  ToSet(MsgsIn(mem, SubSeq(batch, pos, Len(batch)))) \subseteq ToSet(MsgsIn(mem, batch))
<1>1. PICK r \in Seq(Entry) : r = SubSeq(batch, pos, Len(batch))
  BY PendingType
<1>2. /\ batch \in Seq(Entry) /\ mem \in Memory /\ pos \in 1..(Len(batch) + 1) /\ Len(batch) \in Nat
  BY PendingType DEF TypeOK
<1>3. PICK h \in Seq(Entry) : h = SubSeq(batch, 1, pos - 1)
  <2>1. \A i \in 1..(pos - 1) : batch[i] \in Entry
    BY <1>2
  <2>2. SubSeq(batch, 1, pos - 1) \in Seq(Entry)
    BY <1>2, <2>1
  <2> QED  BY <2>2
<1>4. batch = h \o r
  <2>1. PICK u : u = h \o r
    OBVIOUS
  <2>2. Len(h) = pos - 1 /\ \A i \in 1..(pos - 1) : h[i] = batch[i]
    BY <1>2, <1>3
  <2>3. Len(r) = Len(batch) - pos + 1 /\ \A i \in 1..(Len(batch) - pos + 1) : r[i] = batch[pos + i - 1]
    BY <1>1, <1>2
  <2>4. /\ u \in Seq(Entry) /\ Len(u) = Len(h) + Len(r)
        /\ \A i \in 1..(Len(h) + Len(r)) : u[i] = IF i <= Len(h) THEN h[i] ELSE r[i - Len(h)]
    BY <2>1, ConcatProperties
  <2>5. Len(h) + Len(r) = Len(batch)
    BY <1>2, <2>2, <2>3
  <2>6. ASSUME NEW i \in 1..Len(batch) PROVE u[i] = batch[i]
    <3>1. CASE i <= pos - 1
      <4>1. i \in 1..(pos - 1)
        BY <1>2, <3>1
      <4>2. u[i] = h[i]
        BY <2>2, <2>4, <2>5, <3>1
      <4> QED  BY <2>2, <4>1, <4>2
    <3>2. CASE ~(i <= pos - 1)
      <4>1. i - (pos - 1) \in 1..(Len(batch) - pos + 1) /\ pos + (i - (pos - 1)) - 1 = i
        BY <1>2, <3>2
      <4>2. u[i] = r[i - (pos - 1)]
        BY <2>2, <2>4, <2>5, <3>2
      <4> QED  BY <2>3, <4>1, <4>2
    <3> QED  BY <3>1, <3>2
  <2>7. u = batch
    BY <1>2, <2>4, <2>5, <2>6, SeqEqual
  <2> QED  BY <2>1, <2>7
<1>5. MsgsIn(mem, batch) = MsgsIn(mem, h) \o MsgsIn(mem, r)
  BY <1>2, <1>4, MsgsConcat
<1>6. PICK s \in Seq(Nat), t \in Seq(Nat) : s = MsgsIn(mem, h) /\ t = MsgsIn(mem, r)
  BY <1>2, MsgsType
<1>7. ToSet(s \o t) = ToSet(s) \cup ToSet(t)
  BY ToSetConcat
<1> QED  BY <1>1, <1>5, <1>6, <1>7

\* Everything is either in the file or in the two vectors the signal handler
\* writes, unless a buffer was recycled before the file's buffer was written.
LEMMA CrashFlushInv ==
  ASSUME LogInv, CrashFlush
  PROVE  LogInv'
<1> USE DEF LogInv
<1>1. /\ UNCHANGED <<pb1, batch, pos, swapped, fileBuff, mem, used, pool, unrecycled, made, deleted>>
      /\ UNCHANGED <<running, wpc, idle, pc, buff, item, logged, dropped>>
      /\ stage \in {"running", "stopping"} /\ stage' = "crashed"
  BY DEF CrashFlush, queueVars, poolVars, clientVars
<1>2. /\ mem \in Memory /\ batch \in Seq(Entry) /\ pb1 \in Seq(Entry) /\ swapped \in BOOLEAN
      /\ file \in Seq(Nat) /\ fileBuff \in Seq(Nat)
  BY PendingType DEF TypeOK
<1>3. PICK s \in Seq(Nat), t \in Seq(Nat) : s = MsgsIn(mem, batch) /\ t = MsgsIn(mem, pb1)
  BY <1>2, MsgsType
<1>4. file' = file \o Flushed(s, t, swapped)
  BY <1>3 DEF CrashFlush, Msgs, Flushed
<1>5. file' \in Seq(Nat) /\ ToSet(file') = ToSet(file) \cup ToSet(s) \cup ToSet(t)
  BY <1>2, <1>4, FlushedSet
<1>6. TypeOK'
  BY <1>1, <1>5 DEF TypeOK
<1>7. StopInv' /\ HoldInv'
  BY <1>1 DEF StopInv, HoldInv
<1>8. Pending' = Pending /\ Holders' = Holders
  BY <1>1, PendingSame DEF Holders
<1>9. PlaceInv' /\ CountInv'
  BY <1>1, <1>8, FramePlaces
<1>10. QueueInv'
  BY <1>1, <1>8, QueueForm
<1>11. FileBuffInv'
  BY <1>1 DEF FileBuffInv
<1>12. InOrder'
  BY <1>1 DEF InOrder
<1>13. CrashKeepsMessages'
  <2> SUFFICES ASSUME \A i \in 1..(pos - 1) : batch[i].at # 0
               PROVE  ToSet(logged) \subseteq ToSet(file')
    BY <1>1 DEF CrashKeepsMessages
  <2>1. PICK r \in Seq(Entry) : r = SubSeq(batch, pos, Len(batch))
    BY PendingType
  <2>2. PICK w \in Seq(Nat) : w = MsgsIn(mem, r)
    BY <1>2, MsgsType
  <2>3. MsgsIn(mem, Pending) = w \o t
    BY <1>2, <1>3, <2>1, <2>2, MsgsConcat DEF Pending
  <2>4. logged = file \o fileBuff \o (w \o t)
    BY <1>1, <2>3 DEF InOrder, Msgs
  <2>5. ToSet(w \o t) = ToSet(w) \cup ToSet(t) /\ w \o t \in Seq(Nat)
    BY ToSetConcat, ConcatProperties
  <2>6. PICK a \in Seq(Nat) : a = file \o fileBuff
    BY <1>2, ConcatProperties
  <2>7. ToSet(a) = ToSet(file) \cup ToSet(fileBuff)
    BY <1>2, <2>6, ToSetConcat
  <2>8. ToSet(logged) = ToSet(a) \cup ToSet(w) \cup ToSet(t)
    <3>1. PICK z \in Seq(Nat) : z = w \o t
      BY <2>5
    <3>2. ToSet(a \o z) = ToSet(a) \cup ToSet(z)
      BY ToSetConcat
    <3> QED  BY <2>4, <2>5, <2>6, <3>1, <3>2
  <2>9. ToSet(w) \subseteq ToSet(s)
    BY <1>3, <2>1, <2>2, RestOfBatch
  <2>10. ASSUME NEW k \in DOMAIN fileBuff PROVE fileBuff[k] \in ToSet(s)
    <3>1. PICK i \in 1..(pos - 1) : fileBuff[k] = mem[batch[i].buff][batch[i].at]
      BY DEF FileBuffInv
    <3>2. i \in DOMAIN batch /\ batch[i].at # 0
      <4>1. /\ pos \in 1..(Len(batch) + 1) /\ Len(batch) \in Nat /\ DOMAIN batch = 1..Len(batch)
        BY PendingType DEF TypeOK
      <4>2. i \in 1..Len(batch)
        BY <3>1, <4>1
      <4> QED  BY <4>1, <4>2
    <3> QED  BY <1>2, <1>3, <3>1, <3>2, MsgsHas
  <2>11. ToSet(fileBuff) \subseteq ToSet(s)
    BY <2>10 DEF ToSet
  <2> QED  BY <1>5, <2>7, <2>8, <2>9, <2>11
<1> QED  BY <1>6, <1>7, <1>9, <1>10, <1>11, <1>12, <1>13

-----------------------------------------------------------------------------
(* The theorems *)

\* The appender has just been constructed.
LEMMA InitInv ==
  ASSUME AppenderInit
  PROVE  LogInv
<1>1. /\ FixSz \in Nat \ {0} /\ MaxBuff \in Nat /\ FixSz <= MaxBuff /\ BuffCap \in Nat \ {0}
      /\ FileCap \in Nat /\ IdleLimit \in Nat
  BY AppenderAssumption
<1>2. /\ pool \in Seq(Buffs) /\ Len(pool) = FixSz /\ DOMAIN pool = 1..FixSz
      /\ \A i \in 1..FixSz : pool[i] = i
  <2>1. \A i \in 1..FixSz : i \in Buffs
    BY <1>1 DEF Buffs
  <2>2. pool = [i \in 1..FixSz |-> i]
    BY DEF AppenderInit
  <2> QED  BY <1>1, <2>1, <2>2
<1>3. TypeOK
  <2>1. mem \in [Buffs -> [1..BuffCap -> Nat]] /\ used \in [Buffs -> 0..BuffCap]
    BY <1>1 DEF AppenderInit
  <2>2. /\ pb1 \in Seq(Entry) /\ batch \in Seq(Entry) /\ pos \in 1..(Len(batch) + 1)
        /\ fileBuff \in Seq(Nat) /\ file \in Seq(Nat) /\ Len(fileBuff) <= FileCap
        /\ logged \in Seq(Nat) /\ dropped \in Nat
    BY <1>1 DEF AppenderInit
  <2>3. unrecycled \in Nat /\ made \in 0..MaxBuff /\ deleted \subseteq Buffs /\ idle \in 0..IdleLimit
    BY <1>1 DEF AppenderInit
  <2>4. /\ swapped \in BOOLEAN /\ running \in BOOLEAN
        /\ stage \in {"running", "stopping", "stopped", "crashed"}
        /\ wpc \in {"wait", "write", "off"}
        /\ pc \in [Clients -> {"idle", "first", "retire", "get", "store", "exited"}]
        /\ buff \in [Clients -> Buffs \cup {NoBuff}]
        /\ item \in [Clients -> BOOLEAN]
    BY DEF AppenderInit
  <2> QED  BY <1>2, <2>1, <2>2, <2>3, <2>4 DEF TypeOK
<1>4. StopInv
  BY DEF AppenderInit, StopInv
<1>5. HoldInv
  BY DEF AppenderInit, HoldInv
<1>6. Pending = <<>>
  <2>1. SubSeq(<<>>, 1, Len(<<>>)) \o <<>> = <<>>
    OBVIOUS
  <2> QED  BY <2>1 DEF AppenderInit, Pending
<1>7. Holders = {} /\ Held = {} /\ Queued = {}
  BY <1>6 DEF AppenderInit, Holders, Held, Queued
<1>8. ToSet(pool) = 1..FixSz
  BY <1>2 DEF ToSet
<1>9. PlaceInv
  <2>1. made = FixSz /\ deleted = {}
    BY DEF AppenderInit
  <2>2. \A i, j \in DOMAIN pool : pool[i] = pool[j] => i = j
    BY <1>2
  <2> QED  BY <1>7, <1>8, <2>1, <2>2 DEF PlaceInv
<1>10. CountInv
  <2>1. Cardinality({}) = 0
    BY FS_EmptySet
  <2> QED  BY <1>1, <1>2, <2>1 DEF CountInv, AppenderInit
<1>11. QueueInv
  BY <1>6 DEF QueueInv
<1>12. FileBuffInv
  BY DEF AppenderInit, FileBuffInv
<1>13. InOrder /\ CrashKeepsMessages
  <2>1. Msgs(<<>>) = <<>>
    BY MsgsEmpty DEF Msgs
  <2>2. <<>> \o <<>> \o <<>> = <<>>
    OBVIOUS
  <2>3. InOrder
    BY <1>6, <2>1, <2>2 DEF InOrder, AppenderInit
  <2>4. CrashKeepsMessages
    BY DEF AppenderInit, CrashKeepsMessages
  <2> QED  BY <2>3, <2>4
<1> QED  BY <1>3, <1>4, <1>5, <1>9, <1>10, <1>11, <1>12, <1>13 DEF LogInv

\* Every step keeps the invariant.
LEMMA NextInv ==
  ASSUME LogInv, [AppenderNext]_appenderVars
  PROVE  LogInv'
<1>1. ASSUME NEW c \in Clients, ClientStep(c) PROVE LogInv'
  BY <1>1, GetBuffInv, RetireBuffInv, StoreMsgInv DEF ClientStep
<1>2. ASSUME NEW c \in Clients, AppendMsg(c) PROVE LogInv'
  BY <1>2, AppendMsgInv
<1>3. ASSUME NEW c \in Clients, ThreadExit(c) PROVE LogInv'
  BY <1>3, ThreadExitInv
<1>4. CASE WriterStep
  BY <1>4, WaitIdleInv, TakeBatchInv, WriteEntryInv, FlushBatchInv, EndInv DEF WriterStep
<1>5. CASE Stop \/ Joined
  BY <1>5, EndInv
<1>6. CASE CrashFlush
  BY <1>6, CrashFlushInv
<1>7. CASE UNCHANGED appenderVars
  BY <1>7, StutterInv
<1> QED  BY <1>1, <1>2, <1>3, <1>4, <1>5, <1>6, <1>7 DEF AppenderNext

\* The inductive invariant of the appender.
THEOREM AppenderInvariant == AppenderSafety => []LogInv
<1>1. AppenderInit => LogInv
  BY InitInv
<1>2. LogInv /\ [AppenderNext]_appenderVars => LogInv'
  BY NextInv
<1> QED  BY <1>1, <1>2, PTL DEF AppenderSafety

\* What the file, its buffer and the queued pointers hold is at all times what
\* the clients queued, in order: the zero-length entry that recycles a buffer is
\* behind all its messages, so none is overwritten before it is copied.
THEOREM MessagesStayInOrder == AppenderSafety => []InOrder
BY AppenderInvariant, PTL DEF LogInv

\* When ~AsynLogAppender has joined the logging thread, the file holds every
\* message that was ever queued.
THEOREM DestroyedWhenDrained == AppenderSafety => []DrainedAtStop
<1>1. LogInv => DrainedAtStop
  <2> SUFFICES ASSUME LogInv, stage = "stopped" PROVE file = logged
    BY DEF DrainedAtStop
  <2>1. pb1 = <<>> /\ batch = <<>> /\ pos = 1 /\ fileBuff = <<>>
    BY DEF LogInv, StopInv
  <2>2. Pending = <<>>
    <3>1. SubSeq(<<>>, 1, Len(<<>>)) \o <<>> = <<>>
      OBVIOUS
    <3> QED  BY <2>1, <3>1 DEF Pending
  <2>3. Msgs(Pending) = <<>>
    BY <2>2, MsgsEmpty DEF Msgs
  <2>4. file \o <<>> \o <<>> = file
    BY ConcatEmptySeq DEF LogInv, TypeOK
  <2>5. logged = file \o fileBuff \o Msgs(Pending)
    BY DEF LogInv, InOrder
  <2> QED  BY <2>1, <2>3, <2>4, <2>5
<1> QED  BY <1>1, AppenderInvariant, PTL

\* Flush(false) in the signal handler loses a queued message only when the batch
\* in hand has recycled a buffer.
THEOREM CrashLosesNothingElse == AppenderSafety => []CrashKeepsMessages
BY AppenderInvariant, PTL DEF LogInv

\* The places of a buffer, one of the three kinds at a time.
LEMMA OnePlace ==
  ASSUME LogInv, NEW b \in 1..made
  PROVE  Cardinality(Places(b)) = (IF b \in deleted THEN 0 ELSE 1)
<1> DEFINE inPool == {i \in DOMAIN pool : pool[i] = b}
           withClient == {c \in Clients : buff[c] = b /\ pc[c] # "get"}
           inQueue == {i \in DOMAIN Pending : Pending[i] = [buff |-> b, at |-> 0]}
<1>1. Places(b) = {<<"pool", i>> : i \in inPool} \cup {<<"client", c>> : c \in withClient}
                    \cup {<<"queue", i>> : i \in inQueue}
  BY DEF Places
<1>2. b \in Buffs /\ b # NoBuff
  BY AppenderAssumption DEF LogInv, TypeOK, Buffs, NoBuff
<1>3. (inPool # {}) <=> b \in ToSet(pool)
  BY DEF ToSet
<1>4. (withClient # {}) <=> b \in Held
  BY <1>2 DEF Held, Holders
<1>5. (inQueue # {}) <=> b \in Queued
  BY <1>2 DEF Queued
<1>6. /\ ToSet(pool) \cap Held = {} /\ ToSet(pool) \cap Queued = {} /\ Held \cap Queued = {}
      /\ ToSet(pool) \cup Held \cup Queued = (1..made) \ deleted
  BY DEF LogInv, PlaceInv
<1>7. \A i, j \in inPool : i = j
  BY DEF LogInv, PlaceInv
<1>8. \A c, d \in withClient : c = d
  BY <1>2 DEF LogInv, PlaceInv, Holders
<1>9. \A i, j \in inQueue : i = j
  <2> SUFFICES ASSUME NEW i \in inQueue, NEW j \in inQueue, i < j PROVE FALSE
    <3>1. inQueue \subseteq Nat
      BY PendingType, LenProperties DEF LogInv
    <3> QED  BY <3>1
  <2>1. /\ i \in DOMAIN Pending /\ j \in DOMAIN Pending
        /\ Pending[i] = [buff |-> b, at |-> 0] /\ Pending[j] = [buff |-> b, at |-> 0]
    OBVIOUS
  <2>2. Pending[i].at = 0 /\ Pending[i].buff = b /\ Pending[j].buff = b
    BY <2>1
  <2> QED  BY <2>1, <2>2 DEF LogInv, QueueInv
<1> HIDE DEF inPool, withClient, inQueue
<1>10. CASE b \in deleted
  <2>1. inPool = {} /\ withClient = {} /\ inQueue = {}
    BY <1>3, <1>4, <1>5, <1>6, <1>10
  <2>2. Places(b) = {}
    BY <1>1, <2>1
  <2> QED  BY <1>10, <2>2, FS_EmptySet
<1>11. CASE b \notin deleted
  <2>1. \E x : Places(b) = {x}
    <3>1. CASE b \in ToSet(pool)
      <4>1. withClient = {} /\ inQueue = {}
        BY <1>4, <1>5, <1>6, <3>1
      <4>2. PICK i : inPool = {i}
        <5>1. PICK x : x \in inPool
          BY <1>3, <3>1
        <5>2. inPool = {x}
          BY <1>7, <5>1
        <5> QED  BY <5>2
      <4>3. Places(b) = {<<"pool", i>>}
        BY <1>1, <4>1, <4>2
      <4> QED  BY <4>3
    <3>2. CASE b \in Held
      <4>1. inPool = {} /\ inQueue = {}
        BY <1>3, <1>5, <1>6, <3>2
      <4>2. PICK c : withClient = {c}
        <5>1. PICK x : x \in withClient
          BY <1>4, <3>2
        <5>2. withClient = {x}
          BY <1>8, <5>1
        <5> QED  BY <5>2
      <4>3. Places(b) = {<<"client", c>>}
        BY <1>1, <4>1, <4>2
      <4> QED  BY <4>3
    <3>3. CASE b \in Queued
      <4>1. inPool = {} /\ withClient = {}
        BY <1>3, <1>4, <1>6, <3>3
      <4>2. PICK i : inQueue = {i}
        <5>1. PICK x : x \in inQueue
          BY <1>5, <3>3
        <5>2. inQueue = {x}
          BY <1>9, <5>1
        <5> QED  BY <5>2
      <4>3. Places(b) = {<<"queue", i>>}
        BY <1>1, <4>1, <4>2
      <4> QED  BY <4>3
    <3> QED  BY <1>6, <1>11, <3>1, <3>2, <3>3
  <2>2. PICK x : Places(b) = {x}
    BY <2>1
  <2> QED  BY <1>11, <2>2, FS_Singleton
<1> QED  BY <1>10, <1>11

\* Every buffer FixedBufferPool has allocated and not deleted is in the pool,
\* with one client or queued once to be recycled, and m_unrecyled is their number.
THEOREM BuffersStayConserved == AppenderSafety => []BuffersConserved
<1>1. LogInv => BuffersConserved
  <2>1. LogInv => \A b \in 1..made : Cardinality(Places(b)) = (IF b \in deleted THEN 0 ELSE 1)
    BY OnePlace
  <2> QED  BY <2>1 DEF LogInv, CountInv, BuffersConserved
<1> QED  BY <1>1, AppenderInvariant, PTL

-----------------------------------------------------------------------------
(* The records of the logger.  Convert, Value and Power10 are recursive        *)
(* functions: that they exist, and what they compute, is proved by induction,  *)
(* as for MsgsIn.                                                              *)

Magnitude(i) == IF i < 0 THEN -i ELSE i

\* The words are integers around zero.
LEMMA WordFacts ==
  ASSUME NEW i \in Word
  PROVE  /\ i \in Int /\ Magnitude(i) \in Nat /\ Magnitude(i) < 2^(Width - 1) + 2^Width + 1
         /\ \A j \in Int : Magnitude(j) <= Magnitude(i) /\ (j < 0 => i < 0) /\ (j > 0 => i > 0) => j \in Word
<1>1. PICK m \in Nat \ {0}, n \in Nat \ {0} : m = 2^(Width - 1) /\ n = 2^Width
  BY SlogAssumption
<1>2. Word = (-m)..(n - 1)
  BY <1>1 DEF Word
<1>3. i \in Int /\ -m <= i /\ i <= n - 1
  BY <1>1, <1>2
<1>4. Magnitude(i) \in Nat /\ Magnitude(i) < m + n + 1
  BY <1>1, <1>3 DEF Magnitude
<1>5. ASSUME NEW j \in Int, Magnitude(j) <= Magnitude(i), j < 0 => i < 0, j > 0 => i > 0
      PROVE  j \in (-m)..(n - 1)
  <2>1. CASE j < 0
    <3>1. i < 0
      BY <1>5, <2>1
    <3>2. Magnitude(j) = -j /\ Magnitude(i) = -i
      BY <2>1, <3>1 DEF Magnitude
    <3>3. -j <= -i
      BY <1>5, <3>2
    <3> QED  BY <1>1, <1>3, <2>1, <3>3
  <2>2. CASE j > 0
    <3>1. i > 0
      BY <1>5, <2>2
    <3>2. Magnitude(j) = j /\ Magnitude(i) = i
      BY <1>3, <2>2, <3>1 DEF Magnitude
    <3>3. j <= i
      BY <1>5, <3>2
    <3> QED  BY <1>1, <1>3, <2>2, <3>3
  <2>3. CASE j = 0
    BY <1>1, <1>3, <2>3
  <2> QED  BY <2>1, <2>2, <2>3
<1> QED  BY <1>1, <1>2, <1>3, <1>4, <1>5

\* A step of the loop: the last digit and what is left.
LEMMA QuotFacts ==
  ASSUME NEW b \in {10, 16}, NEW i \in Word, NEW q, q = Quot(i, b), NEW d, d = Zero(Rem(i, b))
  PROVE  /\ q \in Word /\ d \in 0..(b - 1)
         /\ Magnitude(i) = b * Magnitude(q) + d
         /\ i # 0 => Magnitude(q) < Magnitude(i)
         /\ i = 0 => q = 0
         /\ q = 0 => d = Magnitude(i)
<1>1. i \in Int /\ b \in Nat
  BY WordFacts
<1>2. /\ q \in Int /\ d \in 0..(b - 1)
      /\ Magnitude(i) = b * Magnitude(q) + d
      /\ i # 0 => Magnitude(q) < Magnitude(i)
      /\ i = 0 => q = 0
      /\ q = 0 => d = Magnitude(i)
      /\ Magnitude(q) <= Magnitude(i) /\ (q < 0 => i < 0) /\ (q > 0 => i > 0)
  <2>1. CASE b = 10 /\ i < 0
    BY <1>1, <2>1 DEF Quot, Rem, Zero, Magnitude
  <2>2. CASE b = 10 /\ ~(i < 0)
    BY <1>1, <2>2 DEF Quot, Rem, Zero, Magnitude
  <2>3. CASE b = 16 /\ i < 0
    BY <1>1, <2>3 DEF Quot, Rem, Zero, Magnitude
  <2>4. CASE b = 16 /\ ~(i < 0)
    BY <1>1, <2>4 DEF Quot, Rem, Zero, Magnitude
  <2> QED  BY <2>1, <2>2, <2>3, <2>4
<1>3. q \in Word
  BY <1>2, WordFacts
<1> QED  BY <1>2, <1>3

\* The loop on part of the words.
IsLoop(f, b, S) ==
  f = [i \in S |-> <<Zero(Rem(i, b))>> \o (IF Quot(i, b) = 0 THEN <<>> ELSE f[Quot(i, b)])]
Below(n) == {i \in Word : Magnitude(i) < n}

\* It exists.
LEMMA LoopExists ==
  ASSUME NEW b \in {10, 16}
  PROVE  \E f : IsLoop(f, b, Word)
<1> DEFINE N == {n \in Nat : \E f : IsLoop(f, b, Below(n))}
<1>1. 0 \in N
  <2>1. Below(0) = {}
    BY WordFacts DEF Below
  <2>2. PICK f : f = [i \in {} |-> <<Zero(Rem(i, b))>>]
    OBVIOUS
  <2>3. IsLoop(f, b, {})
    BY <2>2 DEF IsLoop
  <2> QED  BY <2>1, <2>3
<1>2. ASSUME NEW n \in N PROVE n + 1 \in N
  <2>1. PICK f : IsLoop(f, b, Below(n))
    OBVIOUS
  <2>2. PICK g : g = [i \in Below(n + 1) |->
                       <<Zero(Rem(i, b))>> \o (IF Quot(i, b) = 0 THEN <<>> ELSE f[Quot(i, b)])]
    OBVIOUS
  <2>3. ASSUME NEW i \in Below(n + 1), Quot(i, b) # 0 PROVE g[Quot(i, b)] = f[Quot(i, b)]
    <3>1. PICK q : q = Quot(i, b)
      OBVIOUS
    <3>2. i \in Word /\ Magnitude(i) < n + 1 /\ n \in Nat
      BY DEF Below
    <3>3. q \in Word /\ Magnitude(q) < Magnitude(i)
      BY <2>3, <3>1, <3>2, QuotFacts
    <3>4. Magnitude(q) \in Nat /\ Magnitude(i) \in Nat
      BY <3>2, <3>3, WordFacts
    <3>5. Magnitude(q) < n
      BY <3>2, <3>3, <3>4
    <3>6. q \in Below(n) /\ q \in Below(n + 1)
      BY <3>2, <3>3, <3>4, <3>5 DEF Below
    <3>7. g[q] = <<Zero(Rem(q, b))>> \o (IF Quot(q, b) = 0 THEN <<>> ELSE f[Quot(q, b)])
      BY <2>2, <3>6
    <3>8. f[q] = <<Zero(Rem(q, b))>> \o (IF Quot(q, b) = 0 THEN <<>> ELSE f[Quot(q, b)])
      BY <2>1, <3>6 DEF IsLoop
    <3> QED  BY <3>1, <3>7, <3>8
  <2>4. ASSUME NEW i \in Below(n + 1)
        PROVE  (IF Quot(i, b) = 0 THEN <<>> ELSE f[Quot(i, b)])
               = (IF Quot(i, b) = 0 THEN <<>> ELSE g[Quot(i, b)])
    BY <2>3
  <2>5. IsLoop(g, b, Below(n + 1))
    BY <2>2, <2>4, Zenon DEF IsLoop
  <2> QED  BY <2>5
<1>3. N \in SUBSET Nat
  OBVIOUS
<1> HIDE DEF N
<1>4. \A n \in Nat : n \in N
  BY <1>1, <1>2, <1>3, Induct
<1>5. PICK n \in Nat : n = 2^(Width - 1) + 2^Width + 1
  BY SlogAssumption
<1>6. Below(n) = Word
  BY <1>5, WordFacts DEF Below
<1> QED  BY <1>4, <1>6 DEF N

\* What convert writes: the last digit, then the others.
LEMMA ConvertStep ==
  ASSUME NEW b \in {10, 16}, NEW i \in Word
  PROVE  Convert(b, i) = <<Zero(Rem(i, b))>> \o
                           (IF Quot(i, b) = 0 THEN <<>> ELSE Convert(b, Quot(i, b)))
<1> DEFINE g == CHOOSE f : IsLoop(f, b, Word)
<1>1. IsLoop(g, b, Word)
  BY LoopExists
<1>2. \A v : Convert(b, v) = g[v]
  BY DEF Convert, IsLoop
<1> HIDE DEF g
<1>3. g[i] = <<Zero(Rem(i, b))>> \o (IF Quot(i, b) = 0 THEN <<>> ELSE g[Quot(i, b)])
  BY <1>1 DEF IsLoop
<1> QED  BY <1>2, <1>3

\* The value of the first n digits, for every n.
IsValue(f, b, s) ==
  f = [n \in 0..Len(s) |-> IF n = 0 THEN 0 ELSE b * f[n - 1] + s[n]]

\* One digit more.
LEMMA ValueFunAppend ==
  ASSUME NEW b \in Nat, NEW s \in Seq(Nat), NEW d \in Nat, NEW f, IsValue(f, b, s)
  PROVE  \E g : IsValue(g, b, Append(s, d)) /\ g[Len(s) + 1] = b * f[Len(s)] + d
<1>1. PICK n \in Nat : n = Len(s)
  BY LenProperties
<1>2. PICK t : t = Append(s, d)
  OBVIOUS
<1>3. Len(t) = n + 1 /\ t[n + 1] = d /\ \A k \in 1..n : t[k] = s[k]
  BY <1>1, <1>2, AppendProperties
<1>4. PICK last : last = b * f[n] + d
  OBVIOUS
<1>5. PICK g : g = [k \in 0..(n + 1) |-> IF k = n + 1 THEN last ELSE f[k]]
  OBVIOUS
<1>6. g[n + 1] = last /\ \A k \in 0..n : g[k] = f[k]
  BY <1>5
<1>7. \A k \in 0..n : f[k] = IF k = 0 THEN 0 ELSE b * f[k - 1] + s[k]
  BY <1>1 DEF IsValue
<1>8. ASSUME NEW k \in 0..(n + 1)
      PROVE  g[k] = IF k = 0 THEN 0 ELSE b * g[k - 1] + t[k]
  <2>1. CASE k = 0
    BY <1>6, <1>7, <2>1
  <2>2. CASE k = n + 1
    <3>1. g[k - 1] = f[n] /\ t[k] = d /\ k # 0
      BY <1>3, <1>6, <2>2
    <3> QED  BY <1>4, <1>6, <2>2, <3>1
  <2>3. CASE k \in 1..n
    <3>1. g[k] = f[k] /\ g[k - 1] = f[k - 1] /\ t[k] = s[k] /\ k # 0 /\ k \in 0..n
      BY <1>3, <1>6, <2>3
    <3> QED  BY <1>7, <3>1
  <2> QED  BY <2>1, <2>2, <2>3
<1>9. IsValue(g, b, t)
  BY <1>3, <1>5, <1>8 DEF IsValue
<1> QED  BY <1>1, <1>2, <1>4, <1>6, <1>9

\* It exists.
LEMMA ValueFunExists ==
  ASSUME NEW b \in Nat
  PROVE  \A s \in Seq(Nat) : \E f : IsValue(f, b, s)
<1> DEFINE S == {s \in Seq(Nat) : \E f : IsValue(f, b, s)}
<1>1. <<>> \in S
  <2>1. IsValue([n \in 0..0 |-> 0], b, <<>>)
    BY EmptySeq DEF IsValue
  <2> QED  BY <2>1, EmptySeq
<1>2. ASSUME NEW s \in Seq(Nat), NEW e \in Nat, s \in S PROVE Append(s, e) \in S
  BY <1>2, ValueFunAppend, AppendProperties
<1> HIDE DEF S
<1>3. Seq(Nat) \subseteq S
  BY <1>1, <1>2, InductSeq
<1> QED  BY <1>3 DEF S

\* There is only one.
LEMMA ValueFunUnique ==
  ASSUME NEW b \in Nat, NEW s \in Seq(Nat), NEW f, NEW g, IsValue(f, b, s), IsValue(g, b, s)
  PROVE  f = g
<1>1. PICK n \in Nat : n = Len(s)
  BY LenProperties
<1> DEFINE S == {k \in Nat : k <= n => f[k] = g[k]}
<1>2. \A k \in 0..n : /\ f[k] = IF k = 0 THEN 0 ELSE b * f[k - 1] + s[k]
                      /\ g[k] = IF k = 0 THEN 0 ELSE b * g[k - 1] + s[k]
  BY <1>1 DEF IsValue
<1>3. 0 \in S
  <2>1. 0 \in 0..n
    BY <1>1
  <2>2. f[0] = 0 /\ g[0] = 0
    BY <1>2, <2>1
  <2> QED  BY <2>2
<1>4. ASSUME NEW k \in S PROVE k + 1 \in S
  <2> SUFFICES ASSUME k + 1 <= n PROVE f[k + 1] = g[k + 1]
    OBVIOUS
  <2>1. PICK j : j = k + 1
    OBVIOUS
  <2>2. j \in 0..n /\ j # 0 /\ j - 1 = k
    BY <2>1
  <2>3. f[k] = g[k]
    BY <2>2
  <2>4. f[j] = g[j]
    BY <1>2, <2>2, <2>3
  <2> QED  BY <2>1, <2>4
<1>5. S \in SUBSET Nat
  OBVIOUS
<1> HIDE DEF S
<1>6. \A k \in Nat : k \in S
  BY <1>3, <1>4, <1>5, Induct
<1>7. \A k \in 0..n : f[k] = g[k]
  BY <1>6 DEF S
<1>8. f = [k \in 0..n |-> f[k]] /\ g = [k \in 0..n |-> g[k]]
  BY <1>1, Zenon DEF IsValue
<1> QED  BY <1>7, <1>8

\* The recursive function of Value.
LEMMA ValueIs ==
  ASSUME NEW b \in Nat, NEW s \in Seq(Nat)
  PROVE  \E f : IsValue(f, b, s) /\ Value(s, b) = f[Len(s)]
<1> DEFINE g == CHOOSE f : IsValue(f, b, s)
<1>1. IsValue(g, b, s)
  BY ValueFunExists
<1>2. Value(s, b) = g[Len(s)]
  BY DEF Value, IsValue
<1> QED  BY <1>1, <1>2

\* Value digit by digit.
LEMMA ValueAppend ==
  ASSUME NEW b \in Nat, NEW s \in Seq(Nat), NEW d \in Nat
  PROVE  Value(Append(s, d), b) = b * Value(s, b) + d
<1>1. Append(s, d) \in Seq(Nat) /\ Len(Append(s, d)) = Len(s) + 1
  BY AppendProperties
<1>2. PICK f : IsValue(f, b, s) /\ Value(s, b) = f[Len(s)]
  BY ValueIs
<1>3. PICK g : IsValue(g, b, Append(s, d)) /\ g[Len(s) + 1] = b * f[Len(s)] + d
  BY <1>2, ValueFunAppend
<1>4. PICK h : IsValue(h, b, Append(s, d)) /\ Value(Append(s, d), b) = h[Len(Append(s, d))]
  BY <1>1, ValueIs
<1>5. g = h
  BY <1>1, <1>3, <1>4, ValueFunUnique
<1> QED  BY <1>1, <1>2, <1>3, <1>4, <1>5

\* Of no digits.
LEMMA ValueEmpty ==
  ASSUME NEW b \in Nat
  PROVE  Value(<<>>, b) = 0
<1>1. <<>> \in Seq(Nat) /\ Len(<<>>) = 0
  BY EmptySeq
<1>2. PICK f : IsValue(f, b, <<>>) /\ Value(<<>>, b) = f[Len(<<>>)]
  BY <1>1, ValueIs
<1> QED  BY <1>1, <1>2 DEF IsValue

\* The powers of ten up to the n-th.
IsPower(f, S) == f = [n \in S |-> IF n = 0 THEN 1 ELSE 10 * f[n - 1]]

\* Up to any.
LEMMA PowersUpTo ==
  \A n \in Nat : \E f : IsPower(f, 0..n) /\ \A k \in 0..n : f[k] \in Nat \ {0}
<1> DEFINE S == {n \in Nat : \E f : IsPower(f, 0..n) /\ \A k \in 0..n : f[k] \in Nat \ {0}}
<1>1. 0 \in S
  <2>1. PICK f : f = [n \in 0..0 |-> 1]
    OBVIOUS
  <2>2. IsPower(f, 0..0) /\ \A k \in 0..0 : f[k] \in Nat \ {0}
    BY <2>1 DEF IsPower
  <2> QED  BY <2>2
<1>2. ASSUME NEW n \in S PROVE n + 1 \in S
  <2>1. PICK f : IsPower(f, 0..n) /\ \A k \in 0..n : f[k] \in Nat \ {0}
    OBVIOUS
  <2>2. PICK last : last = 10 * f[n]
    OBVIOUS
  <2>3. PICK g : g = [k \in 0..(n + 1) |-> IF k = n + 1 THEN last ELSE f[k]]
    OBVIOUS
  <2>4. g[n + 1] = last /\ \A k \in 0..n : g[k] = f[k]
    BY <2>3
  <2>5. \A k \in 0..n : f[k] = IF k = 0 THEN 1 ELSE 10 * f[k - 1]
    BY <2>1 DEF IsPower
  <2>6. ASSUME NEW k \in 0..(n + 1) PROVE g[k] = IF k = 0 THEN 1 ELSE 10 * g[k - 1]
    <3>1. CASE k = 0
      BY <2>4, <2>5, <3>1
    <3>2. CASE k = n + 1
      BY <2>2, <2>4, <3>2
    <3>3. CASE k \in 1..n
      <4>1. g[k] = f[k] /\ g[k - 1] = f[k - 1] /\ k # 0 /\ k \in 0..n
        BY <2>4, <3>3
      <4> QED  BY <2>5, <4>1
    <3> QED  BY <3>1, <3>2, <3>3
  <2>7. IsPower(g, 0..(n + 1))
    BY <2>3, <2>6 DEF IsPower
  <2>8. f[n] \in Nat \ {0}
    BY <2>1
  <2>9. last \in Nat \ {0}
    BY <2>2, <2>8
  <2>10. \A k \in 0..(n + 1) : g[k] \in Nat \ {0}
    BY <2>1, <2>3, <2>9
  <2> QED  BY <2>7, <2>10
<1>3. S \in SUBSET Nat
  OBVIOUS
<1> HIDE DEF S
<1>4. \A n \in Nat : n \in S
  BY <1>1, <1>2, <1>3, Induct
<1> QED  BY <1>4 DEF S

\* They agree wherever two of them are defined.
LEMMA PowersAgree ==
  ASSUME NEW m \in Nat, NEW n \in Nat, NEW f, NEW g, IsPower(f, 0..m), IsPower(g, 0..n)
  PROVE  \A k \in Nat : k <= m /\ k <= n => f[k] = g[k]
<1> DEFINE S == {k \in Nat : k <= m /\ k <= n => f[k] = g[k]}
<1>1. /\ \A k \in 0..m : f[k] = IF k = 0 THEN 1 ELSE 10 * f[k - 1]
      /\ \A k \in 0..n : g[k] = IF k = 0 THEN 1 ELSE 10 * g[k - 1]
  BY DEF IsPower
<1>2. 0 \in S
  <2>1. 0 \in 0..m /\ 0 \in 0..n
    OBVIOUS
  <2>2. f[0] = 1 /\ g[0] = 1
    BY <1>1, <2>1
  <2> QED  BY <2>2
<1>3. ASSUME NEW k \in S PROVE k + 1 \in S
  <2> SUFFICES ASSUME k + 1 <= m, k + 1 <= n PROVE f[k + 1] = g[k + 1]
    OBVIOUS
  <2>1. PICK j : j = k + 1
    OBVIOUS
  <2>2. j \in 0..m /\ j \in 0..n /\ j # 0 /\ j - 1 = k
    BY <2>1
  <2>3. f[k] = g[k]
    BY <2>2
  <2>4. f[j] = g[j]
    BY <1>1, <2>2, <2>3
  <2> QED  BY <2>1, <2>4
<1>4. S \in SUBSET Nat
  OBVIOUS
<1> HIDE DEF S
<1>5. \A k \in Nat : k \in S
  BY <1>2, <1>3, <1>4, Induct
<1> QED  BY <1>5 DEF S

\* Power10 is ten times as much for every digit more.
LEMMA PowerStep ==
  /\ Power10[0] = 1
  /\ \A n \in Nat : Power10[n + 1] = 10 * Power10[n]
  /\ \A n \in Nat : Power10[n] \in Nat \ {0}
<1>1. PICK p : p = [n \in Nat |-> CHOOSE f : IsPower(f, 0..n)]
  OBVIOUS
<1>2. ASSUME NEW n \in Nat PROVE IsPower(p[n], 0..n)
  BY <1>1, PowersUpTo
<1>3. PICK h : h = [n \in Nat |-> p[n][n]]
  OBVIOUS
<1>4. ASSUME NEW n \in Nat PROVE h[n] = IF n = 0 THEN 1 ELSE 10 * h[n - 1]
  <2>1. IsPower(p[n], 0..n) /\ n \in 0..n
    BY <1>2
  <2>2. p[n][n] = IF n = 0 THEN 1 ELSE 10 * p[n][n - 1]
    BY <2>1 DEF IsPower
  <2>3. CASE n = 0
    BY <1>3, <2>2, <2>3
  <2>4. CASE n # 0
    <3>1. PICK k \in Nat : k = n - 1 /\ k <= n /\ k <= k
      BY <2>4
    <3>2. p[n][k] = p[k][k]
      BY <1>2, <3>1, PowersAgree
    <3>3. h[k] = p[k][k] /\ h[n] = p[n][n]
      BY <1>3, <3>1
    <3> QED  BY <2>2, <2>4, <3>1, <3>2, <3>3
  <2> QED  BY <2>3, <2>4
<1>5. IsPower(h, Nat)
  <2>1. [n \in Nat |-> p[n][n]] = [n \in Nat |-> IF n = 0 THEN 1 ELSE 10 * h[n - 1]]
    BY <1>3, <1>4
  <2> QED  BY <1>3, <2>1 DEF IsPower
<1>6. Power10 = CHOOSE f : IsPower(f, Nat)
  BY DEF Power10, IsPower
<1>7. IsPower(Power10, Nat)
  BY <1>5, <1>6
<1>8. \A n \in Nat : Power10[n] = IF n = 0 THEN 1 ELSE 10 * Power10[n - 1]
  BY <1>7 DEF IsPower
<1>9. Power10[0] = 1
  BY <1>8
<1>10. ASSUME NEW n \in Nat PROVE Power10[n + 1] = 10 * Power10[n]
  <2>1. PICK j \in Nat : j = n + 1 /\ j # 0 /\ j - 1 = n
    OBVIOUS
  <2> QED  BY <1>8, <2>1
<1> DEFINE S == {n \in Nat : Power10[n] \in Nat \ {0}}
<1>11. 0 \in S
  BY <1>9
<1>12. ASSUME NEW n \in S PROVE n + 1 \in S
  BY <1>10
<1>13. S \in SUBSET Nat
  OBVIOUS
<1> HIDE DEF S
<1>14. \A n \in Nat : n \in S
  BY <1>11, <1>12, <1>13, Induct
<1> QED  BY <1>9, <1>10, <1>14 DEF S

\* A smaller power has a smaller exponent.
LEMMA PowerOrder ==
  ASSUME NEW m \in Nat, NEW n \in Nat, Power10[m] < Power10[n]
  PROVE  m < n
<1> DEFINE S == {k \in Nat : Power10[n] <= Power10[n + k]}
<1>1. 0 \in S
  BY PowerStep
<1>2. ASSUME NEW k \in S PROVE k + 1 \in S
  <2>1. PICK j \in Nat : j = n + k
    OBVIOUS
  <2>2. n + (k + 1) = j + 1
    BY <2>1
  <2>3. Power10[j + 1] = 10 * Power10[j] /\ Power10[j] \in Nat /\ Power10[n] \in Nat
    BY PowerStep
  <2>4. Power10[n] <= Power10[j]
    BY <2>1
  <2>5. Power10[n] <= Power10[j + 1]
    BY <2>3, <2>4
  <2> QED  BY <2>2, <2>5
<1>3. S \in SUBSET Nat
  OBVIOUS
<1> HIDE DEF S
<1>4. \A k \in Nat : k \in S
  BY <1>1, <1>2, <1>3, Induct
<1>5. ASSUME ~(m < n) PROVE FALSE
  <2>1. PICK k \in Nat : k = m - n /\ n + k = m
    BY <1>5
  <2>2. Power10[n] <= Power10[m]
    BY <1>4, <2>1 DEF S
  <2>3. Power10[m] \in Nat /\ Power10[n] \in Nat
    BY PowerStep
  <2> QED  BY <2>2, <2>3
<1> QED  BY <1>5

\* What convert writes, read from its other end.
Shown(b, i) == Reverse(Convert(b, i))

\* A digit written first is read last.
LEMMA ReverseDigit ==
  ASSUME NEW T, NEW s \in Seq(T), NEW d \in T
  PROVE  Reverse(<<d>> \o s) = Append(Reverse(s), d) /\ Reverse(s) \in Seq(T)
<1>1. PICK n \in Nat : n = Len(s) /\ DOMAIN s = 1..n
  BY LenProperties
<1>2. Len(<<d>> \o s) = n + 1 /\ (<<d>> \o s)[1] = d
      /\ \A k \in 1..n : (<<d>> \o s)[k + 1] = s[k]
  BY <1>1
<1>3. PICK r : r = Reverse(s)
  OBVIOUS
<1>4. r = [k \in 1..n |-> s[(n - k) + 1]]
  BY <1>1, <1>3 DEF Reverse
<1>5. r \in Seq(T) /\ Len(r) = n
  <2>1. \A k \in 1..n : s[(n - k) + 1] \in T
    BY <1>1
  <2> QED  BY <1>4, <2>1
<1>6. PICK u : u = <<d>> \o s
  OBVIOUS
<1>7. Reverse(u) = [k \in 1..(n + 1) |-> u[((n + 1) - k) + 1]]
  BY <1>2, <1>6 DEF Reverse
<1>8. Append(r, d) = [k \in 1..(n + 1) |-> IF k = n + 1 THEN d ELSE r[k]]
  <2>1. PICK w : w = Append(r, d)
    OBVIOUS
  <2>2. w \in Seq(T) /\ Len(w) = n + 1 /\ w[n + 1] = d /\ \A k \in 1..n : w[k] = r[k]
    BY <1>5, <2>1, AppendProperties
  <2>3. w = [k \in 1..(n + 1) |-> w[k]]
    BY <2>2
  <2>4. \A k \in 1..(n + 1) : w[k] = IF k = n + 1 THEN d ELSE r[k]
    BY <2>2
  <2> QED  BY <2>1, <2>3, <2>4
<1>9. ASSUME NEW k \in 1..(n + 1)
      PROVE  u[((n + 1) - k) + 1] = IF k = n + 1 THEN d ELSE r[k]
  <2>1. CASE k = n + 1
    BY <1>2, <1>6, <2>1
  <2>2. CASE k # n + 1
    <3>1. PICK j \in 1..n : j = (n - k) + 1 /\ j + 1 = ((n + 1) - k) + 1
      BY <2>2
    <3>2. u[j + 1] = s[j]
      BY <1>2, <1>6
    <3>3. r[k] = s[j]
      BY <1>4, <2>2, <3>1
    <3> QED  BY <2>2, <3>1, <3>2, <3>3
  <2> QED  BY <2>1, <2>2
<1>10. Reverse(u) = Append(r, d)
  BY <1>7, <1>8, <1>9
<1> QED  BY <1>3, <1>5, <1>6, <1>10

\* What a word looks like in base b.
LooksLike(b, i, r) ==
  /\ r \in Seq(0..(b - 1)) /\ Len(r) \in Nat \ {0}
  /\ Value(r, b) = Magnitude(i)
  /\ i = 0 => Len(r) = 1
  /\ i # 0 => r[1] # 0 /\ Power10[Len(r) - 1] <= Magnitude(i)

\* A word of one digit.
LEMMA OneDigit ==
  ASSUME NEW b \in {10, 16}, NEW i \in Word, NEW d \in 0..(b - 1), d = Magnitude(i)
  PROVE  LooksLike(b, i, <<d>>)
<1>1. b \in Nat /\ d \in Nat /\ i \in Int
  BY WordFacts
<1>2. <<d>> \in Seq(0..(b - 1)) /\ Len(<<d>>) = 1 /\ <<d>>[1] = d
  OBVIOUS
<1>3. Value(<<d>>, b) = d
  <2>1. <<>> \in Seq(Nat) /\ <<d>> = Append(<<>>, d)
    BY <1>1
  <2>2. Value(<<d>>, b) = b * 0 + d
    BY <1>1, <2>1, ValueAppend, ValueEmpty
  <2> QED  BY <1>1, <2>2
<1>4. i # 0 => d # 0 /\ 1 <= d
  BY <1>1 DEF Magnitude
<1>5. Power10[Len(<<d>>) - 1] = 1
  BY <1>2, PowerStep
<1> QED  BY <1>2, <1>3, <1>4, <1>5 DEF LooksLike

\* One digit more.
LEMMA MoreDigits ==
  ASSUME NEW b \in {10, 16}, NEW i \in Word, NEW q \in Word, NEW d \in 0..(b - 1), NEW r,
         q # 0, i # 0, Magnitude(i) = b * Magnitude(q) + d, LooksLike(b, q, r)
  PROVE  LooksLike(b, i, Append(r, d))
<1>1. b \in Nat /\ d \in Nat /\ Magnitude(q) \in Nat /\ Magnitude(i) \in Nat
  BY WordFacts
<1>2. r \in Seq(0..(b - 1)) /\ Len(r) \in Nat \ {0} /\ Value(r, b) = Magnitude(q)
  BY DEF LooksLike
<1>3. r[1] # 0 /\ Power10[Len(r) - 1] <= Magnitude(q)
  BY DEF LooksLike
<1>4. PICK w : w = Append(r, d)
  OBVIOUS
<1>5. w \in Seq(0..(b - 1)) /\ Len(w) = Len(r) + 1 /\ w[1] = r[1]
  BY <1>2, <1>4, AppendProperties
<1>6. r \in Seq(Nat)
  <2>1. 0..(b - 1) \subseteq Nat
    BY <1>1
  <2> QED  BY <1>2, <2>1
<1>7. Value(w, b) = b * Magnitude(q) + d
  BY <1>1, <1>2, <1>4, <1>6, ValueAppend
<1>8. Power10[Len(w) - 1] <= Magnitude(i)
  <2>0. PICK k \in Nat \ {0} : k = Len(r)
    BY <1>2
  <2>1. PICK n \in Nat : n = Len(r) - 1 /\ Len(w) - 1 = n + 1
    <3>1. PICK m \in Nat : m = k - 1 /\ (k + 1) - 1 = m + 1
      OBVIOUS
    <3> QED  BY <1>5, <2>0, <3>1
  <2>2. PICK p \in Nat : p = Power10[n]
    BY PowerStep
  <2>3. Power10[n + 1] = 10 * p
    BY <2>2, PowerStep
  <2>4. PICK m \in Nat : m = Magnitude(q)
    BY <1>1
  <2>5. p <= m
    BY <1>3, <2>1, <2>2, <2>4
  <2>6. 10 * p <= b * m + d
    <3>1. CASE b = 10
      BY <1>1, <2>5, <3>1
    <3>2. CASE b = 16
      BY <1>1, <2>5, <3>2
    <3> QED  BY <3>1, <3>2
  <2> QED  BY <2>1, <2>3, <2>4, <2>6
<1> QED  BY <1>2, <1>3, <1>4, <1>5, <1>7, <1>8 DEF LooksLike

\* What convert writes is the word, whatever the base and the sign.
LEMMA ConvertRight ==
  ASSUME NEW b \in {10, 16}
  PROVE  \A i \in Word : Convert(b, i) \in Seq(0..(b - 1)) /\ LooksLike(b, i, Shown(b, i))
<1> DEFINE S == {n \in Nat : \A i \in Word : Magnitude(i) < n =>
                    Convert(b, i) \in Seq(0..(b - 1)) /\ LooksLike(b, i, Shown(b, i))}
<1>1. 0 \in S
  <2>1. \A i \in Word : ~(Magnitude(i) < 0)
    BY WordFacts
  <2> QED  BY <2>1
<1>2. ASSUME NEW n \in S PROVE n + 1 \in S
  <2> SUFFICES ASSUME NEW i \in Word, Magnitude(i) < n + 1
               PROVE  Convert(b, i) \in Seq(0..(b - 1)) /\ LooksLike(b, i, Shown(b, i))
    OBVIOUS
  <2>1. PICK q, d : q = Quot(i, b) /\ d = Zero(Rem(i, b))
    OBVIOUS
  <2>2. q \in Word /\ d \in 0..(b - 1) /\ Magnitude(i) = b * Magnitude(q) + d
    BY <2>1, QuotFacts
  <2>3. i # 0 => Magnitude(q) < Magnitude(i)
    BY <2>1, QuotFacts
  <2>4. (i = 0 => q = 0) /\ (q = 0 => d = Magnitude(i))
    BY <2>1, QuotFacts
  <2>5. Convert(b, i) = <<d>> \o (IF q = 0 THEN <<>> ELSE Convert(b, q))
    BY <2>1, ConvertStep
  <2>6. CASE q = 0
    <3>1. <<>> \in Seq(0..(b - 1)) /\ <<d>> \o <<>> = <<d>> /\ <<d>> \in Seq(0..(b - 1))
      BY <2>2
    <3>2. Reverse(<<>>) = <<>> /\ Append(<<>>, d) = <<d>>
      BY DEF Reverse
    <3>3. Reverse(<<d>>) = <<d>>
      BY <2>2, <3>1, <3>2, ReverseDigit
    <3>4. Convert(b, i) = <<d>>
      BY <2>5, <2>6, <3>1
    <3>5. LooksLike(b, i, <<d>>)
      BY <2>2, <2>4, <2>6, OneDigit
    <3> QED  BY <3>1, <3>3, <3>4, <3>5 DEF Shown
  <2>7. CASE q # 0
    <3>1. i # 0
      BY <2>4, <2>7
    <3>2. Magnitude(q) \in Nat /\ Magnitude(i) \in Nat
      BY <2>2, WordFacts
    <3>3. Magnitude(q) < n
      BY <2>3, <3>1, <3>2
    <3>4. Convert(b, q) \in Seq(0..(b - 1)) /\ LooksLike(b, q, Shown(b, q))
      BY <2>2, <3>3
    <3>5. Convert(b, i) = <<d>> \o Convert(b, q)
      BY <2>5, <2>7
    <3>6. Shown(b, i) = Append(Shown(b, q), d)
      BY <2>2, <3>4, <3>5, ReverseDigit DEF Shown
    <3>7. LooksLike(b, i, Shown(b, i))
      BY <2>2, <2>7, <3>1, <3>4, <3>6, MoreDigits
    <3>8. <<d>> \o Convert(b, q) \in Seq(0..(b - 1))
      BY <2>2, <3>4
    <3> QED  BY <3>5, <3>7, <3>8
  <2> QED  BY <2>6, <2>7
<1>3. S \in SUBSET Nat
  OBVIOUS
<1> HIDE DEF S
<1>4. \A n \in Nat : n \in S
  BY <1>1, <1>2, <1>3, Induct
<1>5. ASSUME NEW i \in Word
      PROVE  Convert(b, i) \in Seq(0..(b - 1)) /\ LooksLike(b, i, Shown(b, i))
  <2>1. PICK n \in Nat : n = Magnitude(i)
    BY WordFacts
  <2>2. n + 1 \in S /\ Magnitude(i) < n + 1
    BY <1>4, <2>1
  <2> QED  BY <2>2 DEF S
<1> QED  BY <1>5

\* A word needs at most Reserve - 2 digits.
LEMMA DigitsFit ==
  ASSUME NEW b \in {10, 16}, NEW i \in Word, NEW r, LooksLike(b, i, r)
  PROVE  Len(r) <= Reserve - 2
<1>1. PICK n \in Nat \ {0} : n = Len(r)
  BY DEF LooksLike
<1>2. PICK m \in Nat \ {0} : m = Reserve - 2
  BY SlogAssumption
<1>3. CASE i = 0
  <2>1. n = 1
    BY <1>1, <1>3 DEF LooksLike
  <2>2. n <= m
    BY <2>1
  <2> QED  BY <1>1, <1>2, <2>2
<1>4. CASE i # 0
  <2>1. PICK p \in Nat : p = Power10[m]
    BY PowerStep
  <2>2. -p < i /\ i < p
    BY <1>2, <2>1, SlogAssumption
  <2>3. i \in Int
    BY WordFacts
  <2>4. Magnitude(i) < p /\ Magnitude(i) \in Nat
    BY <2>2, <2>3 DEF Magnitude
  <2>5. PICK k \in Nat : k = n - 1
    OBVIOUS
  <2>6. Power10[k] <= Magnitude(i) /\ Power10[k] \in Nat
    <3>1. Power10[n - 1] <= Magnitude(i)
      BY <1>1, <1>4 DEF LooksLike
    <3> QED  BY <2>5, <3>1, PowerStep
  <2>7. Power10[k] < Power10[m]
    BY <2>1, <2>4, <2>6
  <2>8. k < m
    BY <2>7, PowerOrder
  <2>9. n <= m
    BY <2>5, <2>8
  <2> QED  BY <1>1, <1>2, <2>9
<1> QED  BY <1>3, <1>4

\* A character written last is read first.
LEMMA ReverseLast ==
  ASSUME NEW T, NEW s \in Seq(T), NEW c \in T
  PROVE  /\ Reverse(s \o <<c>>) = <<c>> \o Reverse(s) /\ s \o <<c>> \in Seq(T)
         /\ Reverse(s) \in Seq(T) /\ Len(Reverse(s)) = Len(s)
<1>1. PICK n \in Nat : n = Len(s) /\ DOMAIN s = 1..n
  BY LenProperties
<1>2. PICK u : u = s \o <<c>>
  OBVIOUS
<1>3. u \in Seq(T) /\ Len(u) = n + 1 /\ u[n + 1] = c /\ \A k \in 1..n : u[k] = s[k]
  BY <1>1, <1>2
<1>4. PICK r : r = Reverse(s)
  OBVIOUS
<1>5. r = [k \in 1..n |-> s[(n - k) + 1]]
  BY <1>1, <1>4 DEF Reverse
<1>6. r \in Seq(T) /\ Len(r) = n
  <2>1. \A k \in 1..n : s[(n - k) + 1] \in T
    BY <1>1
  <2> QED  BY <1>5, <2>1
<1>7. PICK w : w = <<c>> \o r
  OBVIOUS
<1>8. w \in Seq(T) /\ Len(w) = n + 1 /\ w[1] = c /\ \A k \in 1..n : w[k + 1] = r[k]
  BY <1>6, <1>7
<1>9. w = [k \in 1..(n + 1) |-> w[k]]
  BY <1>8
<1>10. Reverse(u) = [k \in 1..(n + 1) |-> u[((n + 1) - k) + 1]]
  BY <1>3 DEF Reverse
<1>11. ASSUME NEW k \in 1..(n + 1) PROVE u[((n + 1) - k) + 1] = w[k]
  <2>1. CASE k = 1
    BY <1>3, <1>8, <2>1
  <2>2. CASE k # 1
    <3>1. PICK j \in 1..n : j = k - 1 /\ j + 1 = k
      BY <2>2
    <3>2. PICK h \in 1..n : h = (n - j) + 1 /\ h = ((n + 1) - k) + 1
      BY <3>1
    <3>3. w[j + 1] = r[j] /\ r[j] = s[h] /\ u[h] = s[h]
      BY <1>3, <1>5, <1>8, <3>2
    <3> QED  BY <3>1, <3>2, <3>3
  <2> QED  BY <2>1, <2>2
<1>12. Reverse(u) = w
  BY <1>9, <1>10, <1>11
<1> QED  BY <1>1, <1>2, <1>3, <1>4, <1>6, <1>7, <1>12

\* The digits of a word, with no zero in front.
Digits(r, b, n) == /\ \A k \in DOMAIN r : r[k] \in 0..(b - 1)
                   /\ Value(r, b) = n
                   /\ Len(r) > 1 => r[1] # 0

\* What convert writes is of this form.
LEMMA ConvertDigits ==
  ASSUME NEW b \in {10, 16}, NEW v \in Word
  PROVE  /\ Convert(b, v) \in Seq(Int) /\ Shown(b, v) \in Seq(Int)
         /\ Len(Shown(b, v)) \in Nat /\ Len(Shown(b, v)) <= Reserve - 2
         /\ Digits(Shown(b, v), b, Magnitude(v))
<1>1. PICK r : r = Shown(b, v)
  OBVIOUS
<1>2. Convert(b, v) \in Seq(0..(b - 1)) /\ LooksLike(b, v, r)
  BY <1>1, ConvertRight
<1>3. 0..(b - 1) \subseteq Int
  OBVIOUS
<1>4. Convert(b, v) \in Seq(Int)
  BY <1>2, <1>3
<1>5. r \in Seq(0..(b - 1)) /\ Len(r) \in Nat \ {0} /\ Value(r, b) = Magnitude(v)
  BY <1>2 DEF LooksLike
<1>6. r \in Seq(Int)
  BY <1>3, <1>5
<1>7. Len(r) > 1 => r[1] # 0
  <2>1. CASE v = 0
    <3>1. Len(r) = 1
      BY <1>2, <2>1 DEF LooksLike
    <3> QED  BY <3>1
  <2>2. CASE v # 0
    <3>1. r[1] # 0
      BY <1>2, <2>2 DEF LooksLike
    <3> QED  BY <3>1
  <2> QED  BY <2>1, <2>2
<1>8. \A k \in DOMAIN r : r[k] \in 0..(b - 1)
  BY <1>5
<1>9. Len(r) <= Reserve - 2
  BY <1>2, DigitsFit
<1> QED  BY <1>1, <1>4, <1>5, <1>6, <1>7, <1>8, <1>9 DEF Digits

\* A number reads back, and finds room in what is reserved for it.
LEMMA DecimalReads ==
  ASSUME NEW v \in Word
  PROVE  /\ Reads(Decimal(v), v) /\ Decimal(v) \in Seq(Int)
         /\ Len(Decimal(v)) \in Nat /\ Len(Decimal(v)) <= Reserve
<1>1. PICK r, c : r = Shown(10, v) /\ c = Convert(10, v) /\ r = Reverse(c)
  BY DEF Shown
<1>2. c \in Seq(Int) /\ r \in Seq(Int) /\ Len(r) \in Nat /\ Len(r) <= Reserve - 2
  BY <1>1, ConvertDigits
<1>3. Digits(r, 10, Magnitude(v))
  BY <1>1, ConvertDigits
<1>4. v \in Int /\ Reserve \in Nat
  BY WordFacts, SlogAssumption
<1>5. CASE v < 0
  <2>1. Decimal(v) = Reverse(c \o <<Minus>>) /\ Minus \in Int
    BY <1>1, <1>5 DEF Decimal, Sign, Minus
  <2>2. Decimal(v) = <<Minus>> \o r
    BY <1>1, <1>2, <2>1, ReverseLast
  <2>3. PICK w : w = Decimal(v)
    OBVIOUS
  <2>4. w \in Seq(Int) /\ Len(w) = Len(r) + 1 /\ Head(w) = Minus /\ Tail(w) = r
    BY <1>2, <2>1, <2>2, <2>3
  <2>5. Magnitude(v) = -v
    BY <1>5 DEF Magnitude
  <2>6. v < 0 /\ Head(w) = Minus /\ Digits(Tail(w), 10, -v)
    BY <1>3, <1>5, <2>4, <2>5
  <2>7. Reads(w, v)
    BY <2>6 DEF Reads, Digits
  <2>8. Len(w) \in Nat /\ Len(w) <= Reserve
    BY <1>2, <1>4, <2>4
  <2> QED  BY <2>3, <2>4, <2>7, <2>8
<1>6. CASE ~(v < 0)
  <2>1. c \o <<>> = c
    BY <1>2
  <2>2. Decimal(v) = r
    BY <1>1, <1>6, <2>1 DEF Decimal, Sign
  <2>3. v >= 0 /\ Magnitude(v) = v
    BY <1>4, <1>6 DEF Magnitude
  <2>4. v >= 0 /\ Digits(r, 10, v)
    BY <1>3, <2>3
  <2>5. Reads(r, v)
    BY <2>4 DEF Reads, Digits
  <2>6. Len(r) <= Reserve
    BY <1>2, <1>4
  <2> QED  BY <1>2, <2>2, <2>5, <2>6
<1> QED  BY <1>5, <1>6

\* So does a pointer.
LEMMA HexReads ==
  ASSUME NEW v \in Pointers
  PROVE  /\ Reads(Hex(v), v) /\ Hex(v) \in Seq(Int) /\ v \in Int
         /\ Len(Hex(v)) \in Nat /\ Len(Hex(v)) <= Reserve
<1>1. PICK m \in Nat \ {0}, n \in Nat \ {0} : m = 2^(Width - 1) /\ n = 2^Width
  BY SlogAssumption
<1>2. v \in 0..(n - 1)
  BY <1>1, SlogAssumption
<1>3. v \in Word /\ v \in Nat /\ Magnitude(v) = v
  BY <1>1, <1>2 DEF Word, Magnitude
<1>4. PICK r, c : r = Shown(16, v) /\ c = Convert(16, v) /\ r = Reverse(c)
  BY DEF Shown
<1>5. c \in Seq(Int) /\ r \in Seq(Int) /\ Len(r) \in Nat /\ Len(r) <= Reserve - 2
  BY <1>3, <1>4, ConvertDigits
<1>6. Digits(r, 16, v)
  BY <1>3, <1>4, ConvertDigits
<1>7. Ex \in Int /\ 0 \in Int
  BY DEF Ex
<1>8. PICK s : s = c \o <<Ex>>
  OBVIOUS
<1>9. s \in Seq(Int) /\ Reverse(s) = <<Ex>> \o r
  BY <1>4, <1>5, <1>7, <1>8, ReverseLast
<1>10. Reverse(s \o <<0>>) = <<0>> \o Reverse(s)
  BY <1>7, <1>9, ReverseLast
<1>11. c \o <<Ex, 0>> = s \o <<0>>
  BY <1>5, <1>7, <1>8
<1>12. PICK w : w = Hex(v)
  OBVIOUS
<1>13. w = <<0>> \o (<<Ex>> \o r)
  BY <1>4, <1>9, <1>10, <1>11, <1>12 DEF Hex
<1>14. w \in Seq(Int) /\ Len(w) = Len(r) + 2 /\ w[1] = 0 /\ w[2] = Ex
       /\ \A k \in 1..Len(r) : w[k + 2] = r[k]
  BY <1>5, <1>7, <1>13
<1>15. SubSeq(w, 1, 2) = <<0, Ex>>
  <2>1. PICK u : u = SubSeq(w, 1, 2)
    OBVIOUS
  <2>2. \A k \in 1..2 : w[k] \in Int
    BY <1>7, <1>14
  <2>3. u \in Seq(Int) /\ Len(u) = 2 /\ \A k \in 1..2 : u[k] = w[k]
    BY <2>1, <2>2, SubSeqProperties
  <2>4. u[1] = 0 /\ u[2] = Ex
    BY <1>14, <2>3
  <2>5. u = [k \in 1..2 |-> u[k]] /\ <<0, Ex>> = [k \in 1..2 |-> u[k]]
    BY <2>3, <2>4
  <2> QED  BY <2>1, <2>5
<1>16. SubSeq(w, 3, Len(w)) = r
  <2>1. PICK size \in Nat : size = Len(r)
    BY <1>5
  <2>2. PICK u : u = SubSeq(w, 3, Len(w))
    OBVIOUS
  <2>3. u = [k \in 1..size |-> w[k + 2]]
    <3>1. (1 + Len(w)) - 3 = size /\ Len(w) = size + 2
      BY <1>14, <2>1
    <3> QED  BY <1>14, <2>1, <2>2, <3>1, SubSeqProperties
  <2>4. r = [k \in 1..size |-> r[k]]
    BY <1>5, <2>1
  <2> QED  BY <1>14, <2>1, <2>2, <2>3, <2>4
<1>17. Reads(w, v)
  <2>1. v \in Pointers /\ SubSeq(w, 1, 2) = <<0, Ex>> /\ Digits(SubSeq(w, 3, Len(w)), 16, v)
    BY <1>6, <1>15, <1>16
  <2> QED  BY <2>1 DEF Reads, Digits
<1>18. Reserve \in Nat
  BY SlogAssumption
<1>19. Len(w) \in Nat /\ Len(w) <= Reserve
  BY <1>5, <1>14, <1>18
<1> QED  BY <1>3, <1>12, <1>14, <1>17, <1>19

\* Writing a number that reads back.
LEMMA WriteFacts ==
  ASSUME NEW s \in Streams, NEW v \in Int, NEW digits \in Seq(Int), Reads(digits, v),
         Len(s.text) = Len(s.put), \A k \in DOMAIN s.put : Reads(s.text[k], s.put[k]),
         NEW w, w = Write(s, v, digits)
  PROVE  /\ w \in Streams /\ w.cur = s.cur + Len(digits) /\ w.tv = s.tv /\ w.stamp = s.stamp
         /\ w.put # <<>> /\ Len(w.text) = Len(w.put)
         /\ w.put[1] = IF s.put = <<>> THEN v ELSE s.put[1]
         /\ \A k \in DOMAIN w.put : Reads(w.text[k], w.put[k])
<1>1. /\ s.tv \in Nat /\ s.lvl \in Nat /\ s.stamp \in Nat /\ s.cur \in Nat
      /\ s.text \in Seq(Seq(Int)) /\ s.put \in Seq(Int) /\ Len(digits) \in Nat
  BY DEF Streams
<1>2. PICK x, p : x = Append(s.text, digits) /\ p = Append(s.put, v)
  OBVIOUS
<1>3. PICK c \in Nat : c = s.cur + Len(digits)
  BY <1>1
<1>4. w = [tv |-> s.tv, lvl |-> s.lvl, stamp |-> s.stamp, cur |-> c, text |-> x, put |-> p]
  BY <1>2, <1>3 DEF Write, Streams
<1>5. PICK n \in Nat : n = Len(s.put) /\ n = Len(s.text)
  BY <1>1
<1>6. p \in Seq(Int) /\ Len(p) = n + 1 /\ p[n + 1] = v /\ \A k \in 1..n : p[k] = s.put[k]
  BY <1>1, <1>2, <1>5, AppendProperties
<1>7. x \in Seq(Seq(Int)) /\ Len(x) = n + 1 /\ x[n + 1] = digits /\ \A k \in 1..n : x[k] = s.text[k]
  BY <1>1, <1>2, <1>5, AppendProperties
<1>8. w \in Streams
  BY <1>1, <1>4, <1>6, <1>7 DEF Streams
<1>9. ASSUME NEW k \in DOMAIN p PROVE Reads(x[k], p[k])
  <2>1. k \in 1..(n + 1) /\ DOMAIN s.put = 1..n
    BY <1>1, <1>5, <1>6
  <2>2. CASE k = n + 1
    BY <1>6, <1>7, <2>2
  <2>3. CASE k \in 1..n
    <3>1. x[k] = s.text[k] /\ p[k] = s.put[k] /\ k \in DOMAIN s.put
      BY <1>6, <1>7, <2>1, <2>3
    <3> QED  BY <3>1
  <2> QED  BY <2>1, <2>2, <2>3
<1>10. p[1] = IF s.put = <<>> THEN v ELSE s.put[1]
  BY <1>1, <1>5, <1>6
<1>11. p # <<>>
  BY <1>6
<1> QED  BY <1>3, <1>4, <1>6, <1>7, <1>8, <1>9, <1>10, <1>11

\* Text of len characters.
LEMMA SkipFacts ==
  ASSUME NEW s \in Streams, NEW len \in Nat, NEW w, w = Skip(s, len)
  PROVE  /\ w \in Streams /\ w.cur = s.cur + len /\ w.tv = s.tv /\ w.stamp = s.stamp
         /\ w.put = s.put /\ w.text = s.text
<1>1. s.cur \in Nat
  BY DEF Streams
<1>2. PICK c \in Nat : c = s.cur + len
  BY <1>1
<1>3. w = [s EXCEPT !.cur = c]
  BY <1>2 DEF Skip
<1> QED  BY <1>2, <1>3 DEF Streams

Replaced(q, s) == Append(Front(q), s)
SameBelow(q, w) == \A i \in 1..(Len(q) - 1) : w[i] = q[i]

\* Replacing the stream in use.
LEMMA TopReplaced ==
  ASSUME NEW q \in Seq(Streams), q # <<>>, NEW s \in Streams, NEW w, w = Replaced(q, s)
  PROVE  /\ w \in Seq(Streams) /\ Len(w) = Len(q) /\ w # <<>> /\ DOMAIN w = 1..Len(q)
         /\ Last(w) = s /\ SameBelow(q, w)
<1>1. PICK n \in Nat \ {0} : n = Len(q) /\ DOMAIN q = 1..n
  BY EmptySeq, LenProperties
<1>2. PICK f : f = Front(q)
  OBVIOUS
<1>3. f \in Seq(Streams) /\ Len(f) = n - 1 /\ \A i \in 1..(n - 1) : f[i] = q[i]
  BY <1>1, <1>2 DEF Front
<1>4. w \in Seq(Streams) /\ Len(w) = (n - 1) + 1 /\ w[(n - 1) + 1] = s /\ \A i \in 1..(n - 1) : w[i] = f[i]
  BY <1>2, <1>3, AppendProperties DEF Replaced
<1>5. (n - 1) + 1 = n
  OBVIOUS
<1>6. Len(w) = n /\ w[n] = s /\ DOMAIN w = 1..n
  BY <1>4, <1>5
<1>7. w # <<>> /\ Last(w) = s
  BY <1>6 DEF Last
<1>8. SameBelow(q, w)
  BY <1>1, <1>3, <1>4 DEF SameBelow
<1> QED  BY <1>1, <1>4, <1>6, <1>7, <1>8

\* A stream replaced by one that reads back, its constructor at an end.
LEMMA ReplaceStep ==
  ASSUME RecordInv, NEW t \in Threads, open[t] # <<>>, NEW s \in Streams, ReadsBack(s),
         SetTop(t, s), stamping' = [stamping EXCEPT ![t] = FALSE], UNCHANGED timeVars
  PROVE  RecordInv'
<1>1. /\ now \in Nat /\ lastSec \in [Threads -> Nat] /\ timeStr = lastSec
      /\ open \in [Threads -> Seq(Streams)] /\ stamping \in [Threads -> BOOLEAN]
  BY DEF RecordInv, StreamTypeOK
<1>2. PICK q \in Seq(Streams) : q = open[t] /\ q # <<>>
  BY <1>1
<1>3. PICK w : w = Replaced(q, s)
  OBVIOUS
<1>4. open' = [open EXCEPT ![t] = w]
  BY <1>2, <1>3 DEF SetTop, Replaced
<1>5. w \in Seq(Streams) /\ Len(w) = Len(q) /\ w # <<>> /\ DOMAIN w = 1..Len(q)
  BY <1>2, <1>3, TopReplaced
<1>6. w[Len(q)] = s /\ \A i \in 1..(Len(q) - 1) : w[i] = q[i]
  <2>1. q # <<>>
    BY <1>2
  <2>2. Last(w) = s
    BY <1>3, <2>1, TopReplaced
  <2>3. SameBelow(q, w)
    BY <1>3, <2>1, TopReplaced
  <2> QED  BY <1>5, <2>2, <2>3 DEF Last, SameBelow
<1>7. open'[t] = w /\ \A u \in Threads \ {t} : open'[u] = open[u]
  BY <1>1, <1>4
<1>8. stamping'[t] = FALSE /\ \A u \in Threads \ {t} : stamping'[u] = stamping[u]
  BY <1>1
<1>9. now' = now /\ lastSec' = lastSec /\ timeStr' = timeStr
  BY DEF timeVars
<1>10. StreamTypeOK'
  BY <1>1, <1>4, <1>5, <1>9 DEF StreamTypeOK
<1>11. FreshInv'
  <2> SUFFICES ASSUME NEW u \in Threads, stamping'[u]
               PROVE  open'[u] # <<>> /\ Fresh(u, Top(u))'
    BY DEF FreshInv
  <2>1. u # t
    BY <1>8
  <2>2. open[u] # <<>> /\ Fresh(u, Top(u))
    BY <1>8, <2>1 DEF RecordInv, FreshInv
  <2> QED  BY <1>7, <1>9, <2>1, <2>2 DEF Fresh, Top
<1>12. StampedInv'
  <2> SUFFICES ASSUME NEW u \in Threads, NEW i \in DOMAIN open'[u]
               PROVE  (stamping'[u] /\ i = Len(open'[u])) \/ ReadsBack(open'[u][i])
    BY DEF StampedInv, ReadsBack
  <2>1. CASE u # t
    BY <1>7, <1>8, <2>1 DEF RecordInv, StampedInv
  <2>2. CASE u = t
    <3>1. i \in 1..Len(q) /\ Len(q) \in Nat /\ DOMAIN q = 1..Len(q)
      BY <1>2, <1>5, <1>7, <2>2
    <3>2. CASE i = Len(q)
      BY <1>6, <1>7, <2>2, <3>2
    <3>3. CASE i # Len(q)
      <4>1. i \in 1..(Len(q) - 1) /\ i \in DOMAIN q
        BY <3>1, <3>3
      <4>2. ReadsBack(q[i])
        BY <1>2, <3>3, <4>1 DEF RecordInv, StampedInv
      <4> QED  BY <1>6, <1>7, <2>2, <4>1, <4>2
    <3> QED  BY <3>2, <3>3
  <2> QED  BY <2>1, <2>2
<1> QED  BY <1>10, <1>11, <1>12 DEF RecordInv

\* A stream that has not passed its end does not wrap.
LEMMA LeftIs ==
  ASSUME NEW s \in Streams, s.cur <= Size
  PROVE  Left(s) = Size - s.cur
<1>1. PICK m \in Nat \ {0} : m = 2^Width /\ Size \in Nat /\ Size < m
  BY SlogAssumption
<1>2. PICK k \in Nat : k = Size - s.cur /\ k < m
  BY <1>1 DEF Streams
<1>3. k % m = k
  BY <1>2
<1> QED  BY <1>1, <1>2, <1>3 DEF Left

\* A number that is put, when it finds room, reads back.
LEMMA PutReadsBack ==
  ASSUME NEW s \in Streams, ReadsBack(s), NEW v \in Int, NEW digits \in Seq(Int),
         Reads(digits, v), s.cur + Len(digits) <= Size
  PROVE  Write(s, v, digits) \in Streams /\ ReadsBack(Write(s, v, digits))
<1>1. PICK w : w = Write(s, v, digits)
  OBVIOUS
<1>2. Len(s.text) = Len(s.put) /\ \A k \in DOMAIN s.put : Reads(s.text[k], s.put[k])
  BY DEF ReadsBack
<1>3. w \in Streams /\ w.cur = s.cur + Len(digits) /\ w.tv = s.tv /\ w.stamp = s.stamp
  BY <1>1, <1>2, WriteFacts
<1>4. w.put # <<>> /\ Len(w.text) = Len(w.put)
  BY <1>1, <1>2, WriteFacts
<1>5. w.put[1] = IF s.put = <<>> THEN v ELSE s.put[1]
  BY <1>1, <1>2, WriteFacts
<1>6. \A k \in DOMAIN w.put : Reads(w.text[k], w.put[k])
  BY <1>1, <1>2, WriteFacts
<1>7. w.cur <= Size
  BY <1>3
<1>8. w.stamp = Second(w.tv) /\ w.put[1] = w.tv % S_MS_PER_SEC
  BY <1>3, <1>5 DEF ReadsBack
<1> QED  BY <1>1, <1>3, <1>4, <1>6, <1>7, <1>8 DEF ReadsBack

\* The stream in use is one that reads back.
LEMMA TopFacts ==
  ASSUME RecordInv, NEW t \in Threads, open[t] # <<>>
  PROVE  Top(t) \in Streams /\ (~stamping[t] => ReadsBack(Top(t)))
<1>1. PICK q \in Seq(Streams) : q = open[t] /\ q # <<>>
  BY DEF RecordInv, StreamTypeOK
<1>2. Len(q) \in DOMAIN q /\ q[Len(q)] \in Streams
  BY <1>1, EmptySeq, LenProperties
<1>3. Top(t) = q[Len(q)]
  BY <1>1 DEF Top, Last
<1> QED  BY <1>1, <1>2, <1>3 DEF RecordInv, StampedInv

\* Numbers of the program are words.
LEMMA NumbersAreWords ==
  /\ Signed \cup Unsigned \subseteq Word
  /\ \A tv \in Nat : tv % S_MS_PER_SEC \in Word
<1>1. PICK m \in Nat \ {0} : m = 2^(Width - 1) /\ 2^Width = 2 * m
  BY SlogAssumption
<1>2. Word = (-m)..(2 * m - 1)
  BY <1>1 DEF Word
<1>3. Signed \subseteq (-m)..(m - 1) /\ Unsigned \subseteq 0..(2 * m - 1)
  BY <1>1, SlogAssumption
<1>4. PICK n \in Nat \ {0} : n = S_MS_PER_SEC /\ n < m
  BY <1>1, SlogAssumption
<1>5. \A tv \in Nat : tv % n \in 0..(n - 1)
  OBVIOUS
<1>6. 0..(n - 1) \subseteq (-m)..(2 * m - 1)
  BY <1>4
<1>7. (-m)..(m - 1) \subseteq (-m)..(2 * m - 1) /\ 0..(2 * m - 1) \subseteq (-m)..(2 * m - 1)
  BY <1>1
<1> QED  BY <1>2, <1>3, <1>4, <1>5, <1>6, <1>7

\* The microseconds and the level, after the seconds.
LEMMA StampWrites ==
  ASSUME NEW s \in Streams, s.cur = SecLen + 1, s.put = <<>>, s.text = <<>>,
         s.stamp = Second(s.tv), NEW v, v = s.tv % S_MS_PER_SEC
  PROVE  /\ Skip(PutNumber(s, v), LevelLen) \in Streams
         /\ ReadsBack(Skip(PutNumber(s, v), LevelLen))
<1>1. PICK w : w = Skip(PutNumber(s, v), LevelLen)
  OBVIOUS
<1>2. v \in Word /\ v \in Int
  BY NumbersAreWords, WordFacts DEF Streams
<1>4. Size \in Nat /\ Reserve \in Nat /\ Size >= 20 + Reserve + 7
  BY SlogAssumption DEF SecLen, LevelLen
<1>5. ~(Left(s) < Reserve)
  <2>1. s.cur = 20 /\ s.cur <= Size
    BY <1>4 DEF SecLen
  <2>2. Left(s) = Size - s.cur
    BY <2>1, LeftIs
  <2> QED  BY <1>4, <2>1, <2>2
<1>6. PICK digits : digits = Decimal(v)
  OBVIOUS
<1>7. digits \in Seq(Int) /\ Reads(digits, v) /\ Len(digits) \in Nat /\ Len(digits) <= Reserve
  BY <1>2, <1>6, DecimalReads
<1>8. PICK x : x = Write(s, v, digits)
  OBVIOUS
<1>9. w = Skip(x, LevelLen)
  BY <1>1, <1>5, <1>6, <1>8 DEF PutNumber
<1>a. v \in Int /\ digits \in Seq(Int) /\ Reads(digits, v)
  BY <1>2, <1>7
<1>10. Len(s.text) = Len(s.put) /\ \A k \in DOMAIN s.put : Reads(s.text[k], s.put[k])
  OBVIOUS
<1>11. x \in Streams /\ x.cur = s.cur + Len(digits) /\ x.tv = s.tv /\ x.stamp = s.stamp
  BY <1>a, <1>8, <1>10, WriteFacts
<1>12. x.put # <<>> /\ Len(x.text) = Len(x.put)
  BY <1>a, <1>8, <1>10, WriteFacts
<1>13. x.put[1] = IF s.put = <<>> THEN v ELSE s.put[1]
  BY <1>a, <1>8, <1>10, WriteFacts
<1>14. \A k \in DOMAIN x.put : Reads(x.text[k], x.put[k])
  BY <1>a, <1>8, <1>10, WriteFacts
<1>15. LevelLen \in Nat
  BY DEF LevelLen
<1>16. w \in Streams /\ w.cur = x.cur + LevelLen /\ w.tv = x.tv /\ w.stamp = x.stamp
       /\ w.put = x.put /\ w.text = x.text
  BY <1>9, <1>11, <1>15, SkipFacts
<1>17. w.cur <= Size
  <2>1. w.cur = (20 + Len(digits)) + 7
    BY <1>11, <1>16 DEF SecLen, LevelLen
  <2> QED  BY <1>4, <1>7, <2>1
<1>18. w.stamp = Second(w.tv)
  BY <1>11, <1>16
<1>19. w.put[1] = w.tv % S_MS_PER_SEC
  BY <1>11, <1>13, <1>16
<1> QED  BY <1>1, <1>12, <1>14, <1>16, <1>17, <1>18, <1>19 DEF ReadsBack

\* Logger's constructor leaves a stream that reads back.
LEMMA StampReadsBack ==
  ASSUME NEW t \in Threads, NEW c \in Streams, Fresh(t, c), timeStr[t] \in Nat, NEW s, NEW w,
         s = [Skip(c, SecLen + 1) EXCEPT !.stamp = timeStr[t]],
         w = Skip(PutNumber(s, c.tv % S_MS_PER_SEC), LevelLen)
  PROVE  w \in Streams /\ ReadsBack(w)
<1>1. /\ s \in Streams /\ s.cur = SecLen + 1 /\ s.tv = c.tv /\ s.stamp = timeStr[t]
      /\ s.put = <<>> /\ s.text = <<>>
  <2>1. PICK a : a = Skip(c, SecLen + 1)
    OBVIOUS
  <2>2. c.cur = 0 /\ c.text = <<>> /\ c.put = <<>> /\ SecLen + 1 \in Nat
    BY DEF Fresh, SecLen
  <2>3. a \in Streams /\ a.cur = SecLen + 1 /\ a.tv = c.tv /\ a.put = <<>> /\ a.text = <<>>
    BY <2>1, <2>2, SkipFacts
  <2>4. s = [a EXCEPT !.stamp = timeStr[t]]
    BY <2>1
  <2> QED  BY <2>3, <2>4 DEF Streams
<1>2. s.stamp = Second(s.tv) /\ c.tv % S_MS_PER_SEC = s.tv % S_MS_PER_SEC
  BY <1>1 DEF Fresh
<1>3. PICK v : v = s.tv % S_MS_PER_SEC
  OBVIOUS
<1> QED  BY <1>1, <1>2, <1>3, StampWrites

\* The steps of a log statement on the stream in use.
LEMMA StreamSteps ==
  ASSUME RecordInv, NEW t \in Threads
  PROVE  /\ Stamp(t) => RecordInv'
         /\ \A v \in Signed \cup Unsigned : PutValue(t, v) => RecordInv'
         /\ \A v \in Pointers : PutAddress(t, v) /\ ~unchecked' => RecordInv'
         /\ \A len \in Reals : FmtAppend(t, len) /\ ~unchecked' => RecordInv'
         /\ \A len \in Texts : PutText(t, len) /\ ~(len > Left(Top(t))) => RecordInv'
<1>1. stamping \in [Threads -> BOOLEAN] /\ timeStr \in [Threads -> Nat]
  BY DEF RecordInv, StreamTypeOK
<1>2. ~stamping[t] => stamping = [stamping EXCEPT ![t] = FALSE]
  BY <1>1, Zenon
<1>3. ASSUME Stamp(t) PROVE RecordInv'
  <2>1. PICK c : c = Top(t)
    OBVIOUS
  <2>2. open[t] # <<>> /\ Fresh(t, c) /\ timeStr[t] \in Nat
    BY <1>1, <1>3, <2>1 DEF Stamp, RecordInv, FreshInv
  <2>3. c \in Streams
    BY <2>1, <2>2, TopFacts
  <2>4. PICK s, w : /\ s = [Skip(c, SecLen + 1) EXCEPT !.stamp = timeStr[t]]
                    /\ w = Skip(PutNumber(s, c.tv % S_MS_PER_SEC), LevelLen)
    OBVIOUS
  <2>5. SetTop(t, w) /\ stamping' = [stamping EXCEPT ![t] = FALSE] /\ UNCHANGED timeVars
    BY <1>3, <2>1, <2>4 DEF Stamp
  <2>6. w \in Streams /\ ReadsBack(w)
    BY <2>2, <2>3, <2>4, StampReadsBack
  <2> QED  BY <2>2, <2>5, <2>6, ReplaceStep
<1>4. ASSUME NEW v \in Signed \cup Unsigned, PutValue(t, v) PROVE RecordInv'
  <2>1. PICK c, w : c = Top(t) /\ w = PutNumber(c, v)
    OBVIOUS
  <2>2. open[t] # <<>> /\ ~stamping[t]
    BY <1>4 DEF PutValue, CanPut, Busy
  <2>3. c \in Streams /\ ReadsBack(c)
    BY <2>1, <2>2, TopFacts
  <2>4. SetTop(t, w) /\ stamping' = stamping /\ UNCHANGED timeVars
    BY <1>4, <2>1 DEF PutValue
  <2>5. v \in Word /\ v \in Int
    BY NumbersAreWords, WordFacts
  <2>6. w \in Streams /\ ReadsBack(w)
    <3>1. CASE Left(c) < Reserve
      BY <2>1, <2>3, <3>1 DEF PutNumber
    <3>2. CASE ~(Left(c) < Reserve)
      <4>1. w = Write(c, v, Decimal(v))
        BY <2>1, <3>2 DEF PutNumber
      <4>2. Decimal(v) \in Seq(Int) /\ Reads(Decimal(v), v) /\ Len(Decimal(v)) <= Reserve
        BY <2>5, DecimalReads
      <4>3. PICK n \in Nat : n = Len(Decimal(v)) /\ n <= Reserve
        BY <4>2
      <4>4. Size \in Nat /\ Reserve \in Nat /\ c.cur \in Nat /\ c.cur <= Size
        BY <2>3, SlogAssumption DEF Streams, ReadsBack
      <4>5. Left(c) = Size - c.cur
        BY <2>3, <4>4, LeftIs
      <4>6. c.cur + n <= Size
        BY <3>2, <4>3, <4>4, <4>5
      <4> QED  BY <2>3, <2>5, <4>1, <4>2, <4>3, <4>6, PutReadsBack
    <3> QED  BY <3>1, <3>2
  <2> QED  BY <1>2, <2>2, <2>4, <2>6, ReplaceStep
<1>5. ASSUME NEW v \in Pointers, PutAddress(t, v), ~unchecked' PROVE RecordInv'
  <2>1. PICK c, w : c = Top(t) /\ w = PutPointer(c, v)
    OBVIOUS
  <2>2. open[t] # <<>> /\ ~stamping[t] /\ ~Unfit(c, Len(Hex(v)))
    BY <1>5, <2>1 DEF PutAddress, CanPut, Busy
  <2>3. c \in Streams /\ ReadsBack(c)
    BY <2>1, <2>2, TopFacts
  <2>4. SetTop(t, w) /\ stamping' = stamping /\ UNCHANGED timeVars
    BY <1>5, <2>1 DEF PutAddress
  <2>5. w = Write(c, v, Hex(v))
    BY <2>1 DEF PutPointer
  <2>6. Hex(v) \in Seq(Int) /\ Reads(Hex(v), v) /\ v \in Int
    BY HexReads
  <2>7. PICK n \in Nat : n = Len(Hex(v)) /\ ~(c.cur + n >= Size)
    BY <2>2, <2>6 DEF Unfit
  <2>8. c.cur + n <= Size
    <3>1. PICK cur \in Nat, size \in Nat : cur = c.cur /\ size = Size
      BY <2>3, SlogAssumption DEF Streams
    <3> QED  BY <2>7, <3>1
  <2>9. w \in Streams /\ ReadsBack(w)
    BY <2>3, <2>5, <2>6, <2>7, <2>8, PutReadsBack
  <2> QED  BY <1>2, <2>2, <2>4, <2>9, ReplaceStep
<1>7. ASSUME NEW len \in Reals, FmtAppend(t, len), ~unchecked' PROVE RecordInv'
  <2>1. PICK c, w : c = Top(t) /\ w = Skip(c, len)
    OBVIOUS
  <2>2. open[t] # <<>> /\ ~stamping[t] /\ ~(c.cur + len >= Size)
    BY <1>7, <2>1 DEF FmtAppend, CanPut, Busy, Unfit
  <2>3. c \in Streams /\ ReadsBack(c)
    BY <2>1, <2>2, TopFacts
  <2>4. SetTop(t, w) /\ stamping' = stamping /\ UNCHANGED timeVars
    BY <1>7, <2>1 DEF FmtAppend
  <2>5. len \in Nat /\ Size \in Nat /\ c.cur \in Nat
    BY <2>3, SlogAssumption DEF Streams
  <2>a. c \in Streams /\ len \in Nat /\ w = Skip(c, len)
    BY <2>1, <2>3, <2>5
  <2>6. /\ w \in Streams /\ w.cur = c.cur + len /\ w.tv = c.tv /\ w.stamp = c.stamp
        /\ w.put = c.put /\ w.text = c.text
    BY <2>a, SkipFacts
  <2>7. w.cur <= Size
    BY <2>2, <2>5, <2>6
  <2>8. ReadsBack(w)
    BY <2>3, <2>6, <2>7 DEF ReadsBack
  <2> QED  BY <1>2, <2>2, <2>4, <2>6, <2>8, ReplaceStep
<1>6. ASSUME NEW len \in Texts, PutText(t, len), ~(len > Left(Top(t))) PROVE RecordInv'
  <2>1. PICK c, w : c = Top(t) /\ w = Skip(c, len)
    OBVIOUS
  <2>2. open[t] # <<>> /\ ~stamping[t]
    BY <1>6 DEF PutText, CanPut, Busy
  <2>3. c \in Streams /\ ReadsBack(c)
    BY <2>1, <2>2, TopFacts
  <2>4. SetTop(t, w) /\ stamping' = stamping /\ UNCHANGED timeVars
    BY <1>6, <2>1 DEF PutText
  <2>5. len \in Nat /\ Size \in Nat /\ c.cur \in Nat
    BY <2>3, SlogAssumption DEF Streams
  <2>a. c \in Streams /\ len \in Nat /\ w = Skip(c, len)
    BY <2>1, <2>3, <2>5
  <2>6. /\ w \in Streams /\ w.cur = c.cur + len /\ w.tv = c.tv /\ w.stamp = c.stamp
        /\ w.put = c.put /\ w.text = c.text
    BY <2>a, SkipFacts
  <2>7. ~(len > Size - c.cur)
    <3>1. c.cur <= Size
      BY <2>3 DEF ReadsBack
    <3>2. Left(c) = Size - c.cur
      BY <2>3, <3>1, LeftIs
    <3> QED  BY <1>6, <2>1, <3>2
  <2>8. w.cur <= Size
    BY <2>5, <2>6, <2>7
  <2>9. ReadsBack(w)
    BY <2>3, <2>6, <2>8 DEF ReadsBack
  <2> QED  BY <1>2, <2>2, <2>4, <2>6, <2>9, ReplaceStep
<1> QED  BY <1>3, <1>4, <1>5, <1>6, <1>7

\* Dividing naturals.
LEMMA DivNat ==
  ASSUME NEW k \in Nat, NEW m \in Nat \ {0}
  PROVE  k \div m \in Nat
<1>1. k \div m \in Int /\ m * (k \div m) <= k /\ k < m * (k \div m) + m
  OBVIOUS
<1> QED  BY <1>1

\* A new stream.
LEMMA TryLogStep ==
  ASSUME RecordInv, NEW t \in Threads, NEW lvl \in Levels, TryLog(t, lvl)
  PROVE  RecordInv'
<1>1. /\ now \in Nat /\ lastSec \in [Threads -> Nat] /\ timeStr = lastSec
      /\ open \in [Threads -> Seq(Streams)] /\ stamping \in [Threads -> BOOLEAN]
  BY DEF RecordInv, StreamTypeOK
<1>2. PICK q \in Seq(Streams) : q = open[t]
  BY <1>1
<1>3. PICK s : s = [tv |-> now, lvl |-> lvl, stamp |-> 0, cur |-> 0, text |-> <<>>, put |-> <<>>]
  OBVIOUS
<1>4. s \in Streams
  <2>1. lvl \in Nat
    BY SlogAssumption DEF LL_ABORT
  <2>2. <<>> \in Seq(Seq(Int)) /\ <<>> \in Seq(Int) /\ 0 \in Nat
    OBVIOUS
  <2> QED  BY <1>1, <1>3, <2>1, <2>2 DEF Streams
<1>5. s.tv = now /\ s.cur = 0 /\ s.text = <<>> /\ s.put = <<>>
  BY <1>3
<1>6. PICK w : w = Append(q, s)
  OBVIOUS
<1>7. /\ open' = [open EXCEPT ![t] = w] /\ stamping' = [stamping EXCEPT ![t] = TRUE]
      /\ now' = now /\ ~stamping[t] /\ CacheTimeStamp(t)
  BY <1>2, <1>3, <1>6 DEF TryLog
<1>8. PICK n \in Nat : n = Len(q) /\ DOMAIN q = 1..n
  BY <1>2
<1>9. w \in Seq(Streams) /\ Len(w) = n + 1 /\ w[n + 1] = s /\ \A i \in 1..n : w[i] = q[i]
  BY <1>4, <1>6, <1>8, AppendProperties
<1>10. w # <<>> /\ Last(w) = s /\ DOMAIN w = 1..(n + 1)
  BY <1>9 DEF Last
<1>11. open'[t] = w /\ \A u \in Threads \ {t} : open'[u] = open[u]
  BY <1>1, <1>7
<1>12. \A u \in Threads \ {t} : stamping'[u] = stamping[u]
  BY <1>1, <1>7
<1>13. /\ lastSec' \in [Threads -> Nat] /\ timeStr' = lastSec' /\ timeStr'[t] = Second(now)
       /\ \A u \in Threads \ {t} : timeStr'[u] = timeStr[u]
  <2>1. PICK sec \in Nat : sec = Second(now)
    <3>1. PICK m \in Nat \ {0} : m = S_MS_PER_SEC
      BY SlogAssumption
    <3>2. now \div m \in Nat
      BY <1>1, DivNat
    <3> QED  BY <3>1, <3>2 DEF Second
  <2>2. CASE lastSec[t] # sec
    <3>1. lastSec' = [lastSec EXCEPT ![t] = sec] /\ timeStr' = [timeStr EXCEPT ![t] = sec]
      BY <1>7, <2>1, <2>2 DEF CacheTimeStamp
    <3> QED  BY <1>1, <2>1, <3>1
  <2>3. CASE lastSec[t] = sec
    <3>1. lastSec' = lastSec /\ timeStr' = timeStr
      BY <1>7, <2>1, <2>3 DEF CacheTimeStamp
    <3> QED  BY <1>1, <2>1, <2>3, <3>1
  <2> QED  BY <2>2, <2>3
<1>14. StreamTypeOK'
  <2>1. open' \in [Threads -> Seq(Streams)]
    BY <1>1, <1>7, <1>9
  <2>2. stamping' \in [Threads -> BOOLEAN]
    BY <1>1, <1>7
  <2> QED  BY <1>1, <1>7, <1>13, <2>1, <2>2 DEF StreamTypeOK
<1>15. FreshInv'
  <2> SUFFICES ASSUME NEW u \in Threads, stamping'[u]
               PROVE  open'[u] # <<>> /\ Fresh(u, Top(u))'
    BY DEF FreshInv
  <2>1. CASE u = t
    <3>1. Top(u)' = s
      BY <1>10, <1>11, <2>1 DEF Top
    <3>2. timeStr'[u] = Second(s.tv)
      BY <1>5, <1>13, <2>1
    <3> QED  BY <1>5, <1>10, <1>11, <2>1, <3>1, <3>2 DEF Fresh
  <2>2. CASE u # t
    <3>1. open[u] # <<>> /\ Fresh(u, Top(u))
      BY <1>12, <2>2 DEF RecordInv, FreshInv
    <3> QED  BY <1>11, <1>13, <2>2, <3>1 DEF Fresh, Top
  <2> QED  BY <2>1, <2>2
<1>16. StampedInv'
  <2> SUFFICES ASSUME NEW u \in Threads, NEW i \in DOMAIN open'[u]
               PROVE  (stamping'[u] /\ i = Len(open'[u])) \/ ReadsBack(open'[u][i])
    BY DEF StampedInv, ReadsBack
  <2>1. CASE u # t
    BY <1>11, <1>12, <2>1 DEF RecordInv, StampedInv
  <2>2. CASE u = t
    <3>1. i \in 1..(n + 1) /\ Len(open'[u]) = n + 1
      BY <1>9, <1>10, <1>11, <2>2
    <3>2. stamping'[u]
      BY <1>1, <1>7, <2>2
    <3>3. CASE i = n + 1
      BY <3>1, <3>2, <3>3
    <3>4. CASE i # n + 1
      <4>1. i \in 1..n /\ i \in DOMAIN open[t]
        BY <1>2, <1>8, <3>1, <3>4
      <4>2. ReadsBack(q[i])
        BY <1>2, <1>7, <4>1 DEF RecordInv, StampedInv
      <4> QED  BY <1>9, <1>11, <2>2, <4>1, <4>2
    <3> QED  BY <3>3, <3>4
  <2> QED  BY <2>1, <2>2
<1> QED  BY <1>14, <1>15, <1>16 DEF RecordInv

\* The end of the process, and of a record.
LEMMA EndSteps ==
  ASSUME RecordInv
  PROVE  /\ Abandon => RecordInv'
         /\ \A t \in Threads : Finish(t) => RecordInv'
<1>1. /\ now \in Nat /\ lastSec \in [Threads -> Nat] /\ timeStr = lastSec
      /\ open \in [Threads -> Seq(Streams)] /\ stamping \in [Threads -> BOOLEAN]
  BY DEF RecordInv, StreamTypeOK
<1>2. ASSUME Abandon PROVE RecordInv'
  <2>1. open' = [t \in Threads |-> <<>>] /\ stamping' = [t \in Threads |-> FALSE]
        /\ now' = now /\ lastSec' = lastSec /\ timeStr' = timeStr
    BY <1>2 DEF Abandon, timeVars
  <2>2. <<>> \in Seq(Streams) /\ DOMAIN <<>> = {}
    OBVIOUS
  <2>3. \A t \in Threads : open'[t] = <<>> /\ stamping'[t] = FALSE
    BY <2>1
  <2>4. StreamTypeOK'
    BY <1>1, <2>1, <2>2 DEF StreamTypeOK
  <2>5. FreshInv'
    BY <2>3 DEF FreshInv
  <2>6. StampedInv'
    BY <2>2, <2>3 DEF StampedInv
  <2> QED  BY <2>4, <2>5, <2>6 DEF RecordInv
<1>3. ASSUME NEW t \in Threads, Finish(t) PROVE RecordInv'
  <2>1. CASE Abandon
    BY <1>2, <2>1
  <2>2. CASE ~Abandon
    <3>1. /\ open' = [open EXCEPT ![t] = Front(open[t])] /\ stamping' = stamping
          /\ now' = now /\ lastSec' = lastSec /\ timeStr' = timeStr
          /\ open[t] # <<>> /\ ~stamping[t]
      BY <1>3, <2>2 DEF Finish, Busy, timeVars
    <3>2. PICK q \in Seq(Streams) : q = open[t] /\ q # <<>>
      BY <1>1, <3>1
    <3>3. PICK n \in Nat \ {0} : n = Len(q) /\ DOMAIN q = 1..n
      BY <3>2, EmptySeq, LenProperties
    <3>4. PICK w : w = Front(q)
      OBVIOUS
    <3>5. w \in Seq(Streams) /\ Len(w) = n - 1 /\ \A i \in 1..(n - 1) : w[i] = q[i]
      BY <3>2, <3>3, <3>4 DEF Front
    <3>6. DOMAIN w = 1..(n - 1)
      BY <3>3, <3>5
    <3>7. open'[t] = w /\ \A u \in Threads \ {t} : open'[u] = open[u]
      BY <1>1, <3>1, <3>2, <3>4
    <3>8. StreamTypeOK'
      <4>1. open' \in [Threads -> Seq(Streams)]
        BY <1>1, <3>1, <3>2, <3>4, <3>5
      <4> QED  BY <1>1, <3>1, <4>1 DEF StreamTypeOK
    <3>9. FreshInv'
      <4> SUFFICES ASSUME NEW u \in Threads, stamping'[u]
                   PROVE  open'[u] # <<>> /\ Fresh(u, Top(u))'
        BY DEF FreshInv
      <4>1. u # t
        BY <3>1
      <4>2. open[u] # <<>> /\ Fresh(u, Top(u))
        BY <3>1 DEF RecordInv, FreshInv
      <4> QED  BY <3>1, <3>7, <4>1, <4>2 DEF Fresh, Top
    <3>10. StampedInv'
      <4> SUFFICES ASSUME NEW u \in Threads, NEW i \in DOMAIN open'[u]
                   PROVE  (stamping'[u] /\ i = Len(open'[u])) \/ ReadsBack(open'[u][i])
        BY DEF StampedInv, ReadsBack
      <4>1. CASE u # t
        BY <3>1, <3>7, <4>1 DEF RecordInv, StampedInv
      <4>2. CASE u = t
        <5>1. i \in 1..(n - 1) /\ i \in DOMAIN q
          BY <3>3, <3>6, <3>7, <4>2
        <5>2. ReadsBack(q[i])
          BY <3>1, <3>2, <5>1 DEF RecordInv, StampedInv
        <5> QED  BY <3>5, <3>7, <4>2, <5>1, <5>2
      <4> QED  BY <4>1, <4>2
    <3> QED  BY <3>8, <3>9, <3>10 DEF RecordInv
  <2> QED  BY <2>1, <2>2
<1> QED  BY <1>2, <1>3

\* The steps that leave the streams and the caches alone.
LEMMA AloneStep ==
  ASSUME RecordInv, now' \in Nat, UNCHANGED <<lastSec, timeStr, open, stamping>>
  PROVE  RecordInv'
<1>1. lastSec' = lastSec /\ timeStr' = timeStr /\ open' = open /\ stamping' = stamping
  OBVIOUS
<1>2. StreamTypeOK'
  BY <1>1 DEF RecordInv, StreamTypeOK
<1>3. FreshInv'
  BY <1>1 DEF RecordInv, FreshInv, Fresh, Top
<1>4. StampedInv'
  BY <1>1 DEF RecordInv, StampedInv, ReadsBack
<1> QED  BY <1>2, <1>3, <1>4 DEF RecordInv

\* Every step.
LEMMA RecordStep ==
  ASSUME RecordInv, [Next]_vars, ~unchecked'
  PROVE  RecordInv'
<1>1. CASE UNCHANGED vars
  <2>1. now' = now /\ UNCHANGED <<lastSec, timeStr, open, stamping>>
    BY <1>1 DEF vars, timeVars
  <2>2. now' \in Nat
    BY <2>1 DEF RecordInv, StreamTypeOK
  <2> QED  BY <2>1, <2>2, AloneStep
<1>2. CASE Tick
  <2>1. UNCHANGED <<lastSec, timeStr, open, stamping>>
    BY <1>2 DEF Tick
  <2>2. PICK sec \in Seconds, m \in 0..(S_MS_PER_SEC - 1) : now' = sec * S_MS_PER_SEC + m
    BY <1>2 DEF Tick
  <2>3. sec \in Nat /\ S_MS_PER_SEC \in Nat /\ m \in Nat
    BY SlogAssumption
  <2>4. now' \in Nat
    BY <2>2, <2>3
  <2> QED  BY <2>1, <2>4, AloneStep
<1>3. CASE LifeStep
  <2>1. now' = now /\ UNCHANGED <<lastSec, timeStr, open, stamping>>
    BY <1>3 DEF LifeStep, ConstructInitializer, ConstructGlobal, InitLogging, SetLogLevel, ExitMain,
                DestroyObject, timeVars
  <2>2. now' \in Nat
    BY <2>1 DEF RecordInv, StreamTypeOK
  <2> QED  BY <2>1, <2>2, AloneStep
<1>4. CASE \E t \in Threads : LogStep(t)
  <2>1. PICK t \in Threads : LogStep(t)
    BY <1>4
  <2>2. CASE \E lvl \in Levels : TryLog(t, lvl)
    BY <2>2, TryLogStep
  <2>3. CASE Stamp(t)
    BY <2>3, StreamSteps
  <2>4. CASE \E v \in Signed \cup Unsigned : PutValue(t, v)
    BY <2>4, StreamSteps
  <2>5. CASE \E v \in Pointers : PutAddress(t, v)
    BY <2>5, StreamSteps
  <2>6. CASE \E len \in Texts : PutText(t, len)
    <3>1. PICK len \in Texts : PutText(t, len)
      BY <2>6
    <3>2. CASE len > Left(Top(t))
      <4>1. Abandon
        BY <3>1, <3>2 DEF PutText
      <4> QED  BY <4>1, EndSteps
    <3>3. CASE ~(len > Left(Top(t)))
      BY <3>1, <3>3, StreamSteps
    <3> QED  BY <3>2, <3>3
  <2>7. CASE Finish(t)
    BY <2>7, EndSteps
  <2>8. CASE \E len \in Reals : FmtAppend(t, len)
    BY <2>8, StreamSteps
  <2> QED  BY <2>1, <2>2, <2>3, <2>4, <2>5, <2>6, <2>7, <2>8 DEF LogStep
<1> QED  BY <1>1, <1>2, <1>3, <1>4 DEF Next

\* What was put where it does not fit stays so.
LEMMA UncheckedStays ==
  ASSUME unchecked, [Next]_vars
  PROVE  unchecked'
<1>1. CASE UNCHANGED vars
  BY <1>1, Zenon DEF vars
<1>2. CASE Tick \/ LifeStep
  <2>1. CASE Tick
    BY <2>1, Zenon DEF Tick
  <2>2. CASE \E u \in Units : ConstructInitializer(u) \/ ConstructGlobal(u)
    BY <2>2, Zenon DEF ConstructInitializer, ConstructGlobal
  <2>3. CASE \E l \in Levels : InitLogging(l)
    BY <2>3, Zenon DEF InitLogging
  <2>4. CASE \E l \in Levels : SetLogLevel(l)
    BY <2>4, Zenon DEF SetLogLevel
  <2>5. CASE ExitMain \/ DestroyObject
    BY <2>5, Zenon DEF ExitMain, DestroyObject
  <2> QED  BY <1>2, <2>1, <2>2, <2>3, <2>4, <2>5 DEF LifeStep
<1>3. ASSUME NEW t \in Threads, LogStep(t) PROVE unchecked'
  <2>1. CASE \E lvl \in Levels : TryLog(t, lvl)
    BY <2>1, Zenon DEF TryLog
  <2>2. CASE Stamp(t)
    BY <2>2, Zenon DEF Stamp
  <2>3. CASE \E v \in Signed \cup Unsigned : PutValue(t, v)
    BY <2>3, Zenon DEF PutValue
  <2>4. CASE \E v \in Pointers : PutAddress(t, v)
    BY <2>4, Zenon DEF PutAddress
  <2>5. CASE \E len \in Reals : FmtAppend(t, len)
    BY <2>5, Zenon DEF FmtAppend
  <2>6. CASE \E len \in Texts : PutText(t, len)
    BY <2>6, Zenon DEF PutText, Abandon
  <2>7. CASE Finish(t)
    BY <2>7, Zenon DEF Finish, Abandon
  <2> QED  BY <1>3, <2>1, <2>2, <2>3, <2>4, <2>5, <2>6, <2>7 DEF LogStep
<1> QED  BY <1>1, <1>2, <1>3 DEF Next

\* Nothing is logged yet.
LEMMA RecordInit == Init => RecordInv
<1> SUFFICES ASSUME Init PROVE RecordInv
  OBVIOUS
<1>1. now \in Nat
  <2>1. PICK sec \in Seconds : now = sec * S_MS_PER_SEC
    BY DEF Init
  <2>2. sec \in Nat /\ S_MS_PER_SEC \in Nat
    BY SlogAssumption
  <2> QED  BY <2>1, <2>2
<1>2. /\ lastSec = [t \in Threads |-> 0] /\ timeStr = [t \in Threads |-> 0]
      /\ open = [t \in Threads |-> <<>>] /\ stamping = [t \in Threads |-> FALSE]
  BY DEF Init
<1>3. <<>> \in Seq(Streams) /\ DOMAIN <<>> = {}
  OBVIOUS
<1>4. \A t \in Threads : open[t] = <<>> /\ stamping[t] = FALSE
  BY <1>2
<1>5. StreamTypeOK
  BY <1>1, <1>2, <1>3 DEF StreamTypeOK
<1>6. FreshInv
  BY <1>4 DEF FreshInv
<1>7. StampedInv
  BY <1>3, <1>4 DEF StampedInv
<1> QED  BY <1>5, <1>6, <1>7 DEF RecordInv

\* A record's seconds and microseconds are of one instant, its numbers read back, the
\* least and the greatest too, and it stays within its stream, for any width of the words,
\* threads, clock and nesting of log statements, until ConvertHex or FmtAppend, which look
\* at no limit, put a pointer or a double where it does not fit.
THEOREM RecordsReadBack == Spec => []RecordReadsBack
<1>1. UncheckedOrRecordInv => RecordReadsBack
  BY DEF UncheckedOrRecordInv, RecordInv, StampedInv, ReadsBack, RecordReadsBack
<1>2. Init => UncheckedOrRecordInv
  BY RecordInit DEF UncheckedOrRecordInv
<1>3. UncheckedOrRecordInv /\ [Next]_vars => UncheckedOrRecordInv'
  BY RecordStep, UncheckedStays, Zenon DEF UncheckedOrRecordInv
<1> QED  BY <1>1, <1>2, <1>3, PTL DEF Spec
=============================================================================
