------------------------------ MODULE SlogLogger ------------------------------
(***************************************************************************)
(* The front end of slog (Logger, LogStream, CacheTimeStamp): a record is  *)
(* put together in a stream of its own, from a time stamp whose formatted  *)
(* seconds each thread keeps in a cache, the items of the log statement    *)
(* and the place in the source, and is handed to the global appender when  *)
(* the Logger is destroyed.  Evaluating an item may log too, so that a     *)
(* thread has a stack of streams.  The appender is created and destroyed   *)
(* by counted objects (slogLoggerInitializer), one in every unit of the    *)
(* program that includes Logger.h, before and after that unit's globals.   *)
(*                                                                         *)
(* A formatted second is the second itself, a string its length; numbers   *)
(* are converted digit by digit.  What the appender does with a record is  *)
(* AsynLogAppender's business.                                             *)
(***************************************************************************)
EXTENDS Integers, Sequences, FiniteSets, SequencesExt, Functions

CONSTANTS
  Threads, Main,   \* Main constructs and destroys the globals
  Units,           \* the units of the program
  Levels,          \* the levels the program uses, of LL_TRACE..LL_ABORT as numbers
  S_MS_PER_SEC, Seconds,  \* microseconds in a second; the seconds of the clock
  Width,           \* int64_t and uint64_t have Width bits
  Size, Reserve,   \* m_size; the 32 characters a number must find free
  Trailer,         \* the length of m_loc and m_func
  Texts, Reals,    \* items: lengths of text, and of doubles as "%.12g" formats them
  Signed, Unsigned, Pointers,  \* items: values of numbers
  MaxOpen, MaxItems, MaxPast   \* bounds: streams in use at once, numbers in a record,
                   \* how far behind its end a stream is followed

SecLen == 19      \* FmtSecLength
LevelLen == 7
LL_INFO == 2
LL_ABORT == 6
Word == -(2^(Width - 1))..(2^Width - 1)

\* The numbers of at most n decimal digits are below it.
Power10[n \in Nat] == IF n = 0 THEN 1 ELSE 10 * Power10[n - 1]

ASSUME SlogAssumption ==
  /\ Main \in Threads /\ IsFiniteSet(Threads) /\ IsFiniteSet(Units) /\ Units # {}
  /\ Levels \subseteq 0..LL_ABORT
  /\ Seconds \subseteq Nat \ {0} /\ S_MS_PER_SEC \in Nat \ {0}
  /\ S_MS_PER_SEC < 2^(Width - 1)
  /\ Signed \subseteq -(2^(Width - 1))..(2^(Width - 1) - 1)
  /\ Unsigned \cup Pointers \subseteq 0..(2^Width - 1)
  /\ Texts \cup Reals \subseteq Nat
  /\ {Size, Reserve, Trailer, MaxOpen, MaxItems, MaxPast} \subseteq Nat
  /\ {2^(Width - 1), Reserve - 2} \subseteq Nat \ {0} /\ 2^Width = 2 * 2^(Width - 1)
  /\ \A v \in Word : -Power10[Reserve - 2] < v /\ v < Power10[Reserve - 2]
  /\ Size >= SecLen + 1 + Reserve + LevelLen /\ Size < 2^Width

VARIABLES
  now,       \* gettimeofday, in microseconds
  lastSec,   \* [Threads -> Seconds \cup {0}]  tl_last_sec
  timeStr,   \* [Threads -> Seconds \cup {0}]  tl_time_str
  open,      \* [Threads -> Seq of streams]  the Loggers a thread has not destroyed yet
  stamping,  \* [Threads -> BOOLEAN]  in Logger's constructor, after Now()
  level,     \* s_global_level
  objects,   \* the static objects constructed so far, the last one last
  counter,   \* s_counter
  appender,  \* g_global_appender: "none", "default", "set" or "destroyed"
  phase,     \* "static", "main", "exit", or "ended" (_exit, abort or return)
  unchecked  \* history: a pointer or a double was put where it does not fit

timeVars == <<now, lastSec, timeStr>>
lifeVars == <<objects, counter, appender, phase>>
vars == <<timeVars, open, stamping, level, lifeVars, unchecked>>

Init ==
  /\ now \in {s * S_MS_PER_SEC : s \in Seconds}
  /\ lastSec = [t \in Threads |-> 0] /\ timeStr = [t \in Threads |-> 0]
  /\ open = [t \in Threads |-> <<>>] /\ stamping = [t \in Threads |-> FALSE]
  /\ level = LL_INFO /\ objects = <<>> /\ counter = 0
  /\ appender = "none" /\ phase = "static" /\ unchecked = FALSE

-----------------------------------------------------------------------------
(* Numbers.  A character is its digit, Minus or Ex. *)
Minus == -1
Ex == -2

\* C's division, which rounds towards zero.
Quot(i, b) == IF i < 0 THEN -((-i) \div b) ELSE i \div b
Rem(i, b) == i - b * Quot(i, b)

\* g_zero[lsd]: the table reads the same in both directions.
Zero(lsd) == IF lsd < 0 THEN -lsd ELSE lsd

\* The do loop of convert and of ConvertHex: the last digit first.
Convert(b, value) ==
  LET loop[i \in Word] ==
        <<Zero(Rem(i, b))>> \o (IF Quot(i, b) = 0 THEN <<>> ELSE loop[Quot(i, b)])
  IN  loop[value]

Sign(v) == IF v < 0 THEN <<Minus>> ELSE <<>>
Decimal(v) == Reverse(Convert(10, v) \o Sign(v))
Hex(v) == Reverse(Convert(16, v) \o <<Ex, 0>>)

-----------------------------------------------------------------------------
(* LogStream.  text is what was written, part by part, and put the numbers *)
(* it was written from; both leave out the items that are text.            *)
Left(s) == (Size - s.cur) % 2^Width   \* a size_t: behind the end it wraps
Skip(s, n) == [s EXCEPT !.cur = @ + n]
Write(s, v, digits) == [s EXCEPT !.cur = @ + Len(digits),
                                 !.text = Append(@, digits), !.put = Append(@, v)]

\* Convert64 and Convert64U leave a number out when there may be no room for it.
PutNumber(s, v) == IF Left(s) < Reserve THEN s ELSE Write(s, v, Decimal(v))
PutPointer(s, v) == Write(s, v, Hex(v))

Top(t) == Last(open[t])
SetTop(t, s) == open' = [open EXCEPT ![t] = Append(Front(@), s)]

\* A failed assertion or abort: the process ends.  What the handler of SIGABRT flushes
\* before it calls _exit is AsynLogAppender's CrashFlush.
Abandon == /\ phase' = "ended"
           /\ open' = [t \in Threads |-> <<>>] /\ stamping' = [t \in Threads |-> FALSE]
           /\ UNCHANGED <<timeVars, level, objects, counter, appender, unchecked>>

-----------------------------------------------------------------------------
(* The log statement. *)

\* A thread runs code that logs: Main also in the constructor and destructor of a global.
Running(t) ==
  \/ phase = "main"
  \/ t = Main /\ phase \in {"static", "exit"}
     /\ objects # <<>> /\ Last(objects)[2] = "global"

Second(micro) == micro \div S_MS_PER_SEC

\* Mutation: as if the cache were one for all threads.
CacheShared(t) ==
  LET sec == Second(now)
  IN IF lastSec[t] # sec
     THEN /\ lastSec' = [u \in Threads |-> sec] /\ timeStr' = [u \in Threads |-> sec]
     ELSE UNCHANGED <<lastSec, timeStr>>

\* CacheTimeStamp's constructor.
CacheTimeStamp(t) ==
  LET sec == Second(now)
  IN IF lastSec[t] # sec
     THEN /\ lastSec' = [lastSec EXCEPT ![t] = sec]
          /\ timeStr' = [timeStr EXCEPT ![t] = sec]
     ELSE UNCHANGED <<lastSec, timeStr>>

\* TRY_LOG and Now(): tv is what gettimeofday returned.
TryLog(t, lvl) ==
  /\ Running(t) /\ ~stamping[t]
  /\ Cardinality(UNION {{<<u, i>> : i \in DOMAIN open[u]} : u \in Threads}) < MaxOpen
  /\ lvl >= level
  /\ open' = [open EXCEPT ![t] =
                Append(@, [tv |-> now, lvl |-> lvl, stamp |-> 0, cur |-> 0,
                           text |-> <<>>, put |-> <<>>])]
  /\ stamping' = [stamping EXCEPT ![t] = TRUE]
  /\ CacheTimeStamp(t)
  /\ UNCHANGED <<now, level, lifeVars, unchecked>>

\* The rest of Logger's constructor: GetFmtSec, ":", TrailingMicroSec and the level.
Stamp(t) ==
  LET s == [Skip(Top(t), SecLen + 1) EXCEPT !.stamp = timeStr[t]]
  IN /\ stamping[t]
     /\ SetTop(t, Skip(PutNumber(s, Top(t).tv % S_MS_PER_SEC), LevelLen))
     /\ stamping' = [stamping EXCEPT ![t] = FALSE]
     /\ UNCHANGED <<timeVars, level, lifeVars, unchecked>>

Busy(t) == open[t] # <<>> /\ ~stamping[t]
CanPut(t) == Busy(t) /\ Len(Top(t).put) <= MaxItems /\ Top(t).cur <= Size + MaxPast

\* len characters and the NUL behind them are not all within the stream.
Unfit(s, len) == s.cur + len >= Size

\* operator<< of a number.
PutValue(t, v) ==
  /\ CanPut(t)
  /\ SetTop(t, PutNumber(Top(t), v))
  /\ UNCHANGED <<timeVars, stamping, level, lifeVars, unchecked>>

\* operator<< of a pointer: ConvertHex looks at no limit.
PutAddress(t, v) ==
  /\ CanPut(t)
  /\ SetTop(t, PutPointer(Top(t), v))
  /\ unchecked' = (unchecked \/ Unfit(Top(t), Len(Hex(v))))
  /\ UNCHANGED <<timeVars, stamping, level, lifeVars>>

\* operator<< of a double: FmtAppend advances by the length that snprintf would have
\* needed, also when it wrote less.
FmtAppend(t, len) ==
  /\ CanPut(t)
  /\ SetTop(t, Skip(Top(t), len))
  /\ unchecked' = (unchecked \/ Unfit(Top(t), len))
  /\ UNCHANGED <<timeVars, stamping, level, lifeVars>>

\* operator<< of text: Append asserts that it fits, of a stream that has not wrapped.
PutText(t, len) ==
  /\ CanPut(t)
  /\ IF len > Left(Top(t)) THEN Abandon
     ELSE /\ SetTop(t, Skip(Top(t), len))
          /\ UNCHANGED <<timeVars, stamping, level, lifeVars, unchecked>>

\* ~Logger: the place in the source and the end of the line, Append of the appender,
\* and abort for a record of level LL_ABORT.
Finish(t) ==
  /\ Busy(t)
  /\ IF Trailer + 1 > Left(Top(t)) \/ Top(t).lvl = LL_ABORT THEN Abandon
     ELSE /\ open' = [open EXCEPT ![t] = Front(@)]
          /\ UNCHANGED <<timeVars, stamping, level, lifeVars, unchecked>>

\* The clock advances, or is set.
Tick ==
  /\ phase # "ended"
  /\ now' \in {s * S_MS_PER_SEC + m : s \in Seconds, m \in 0..(S_MS_PER_SEC - 1)}
  /\ UNCHANGED <<lastSec, timeStr, open, stamping, level, lifeVars, unchecked>>

-----------------------------------------------------------------------------
(* The life of the appender. *)
Constructed(u) == {i \in DOMAIN objects : objects[i][1] = u}
Idle(t) == open[t] = <<>> /\ ~stamping[t]

\* Mutation: as if every initializer destroyed the appender.
DestroyInitializerUncounted ==
  /\ counter' = counter - 1
  /\ appender' = "destroyed"

\* slogLoggerInitializer's constructor, the first static object of a unit.
ConstructInitializer(u) ==
  /\ phase = "static" /\ Idle(Main) /\ Constructed(u) = {}
  /\ objects # <<>> => Last(objects)[2] = "global"
  /\ objects' = Append(objects, <<u, "initializer">>)
  /\ counter' = counter + 1
  /\ appender' = IF counter = 0 THEN "default" ELSE appender
  /\ UNCHANGED <<timeVars, open, stamping, level, phase, unchecked>>

\* The globals of a unit follow; their constructors and destructors may log.
ConstructGlobal(u) ==
  /\ phase = "static" /\ objects # <<>> /\ Last(objects) = <<u, "initializer">>
  /\ objects' = Append(objects, <<u, "global">>)
  /\ UNCHANGED <<timeVars, open, stamping, level, counter, appender, phase, unchecked>>

\* main begins; InitLogging is its first statement.
InitLogging(l) ==
  /\ phase = "static" /\ Idle(Main) /\ \A u \in Units : Cardinality(Constructed(u)) = 2
  /\ phase' = "main"
  /\ level' = l /\ appender' = "set"
  /\ UNCHANGED <<timeVars, open, stamping, objects, counter, unchecked>>

\* main returns, when the other threads have ended.
ExitMain ==
  /\ phase = "main" /\ \A t \in Threads : Idle(t)
  /\ phase' = "exit"
  /\ UNCHANGED <<timeVars, open, stamping, level, objects, counter, appender, unchecked>>

\* ~slogLoggerInitializer.
DestroyInitializer ==
  /\ counter' = counter - 1
  /\ appender' = IF counter = 1 THEN "destroyed" ELSE appender

\* Static objects are destroyed in the opposite order of their construction.
DestroyObject ==
  /\ phase = "exit" /\ Idle(Main) /\ objects # <<>>
  /\ objects' = Front(objects)
  /\ IF Last(objects)[2] = "initializer" THEN DestroyInitializer
     ELSE UNCHANGED <<counter, appender>>
  /\ UNCHANGED <<timeVars, open, stamping, level, phase, unchecked>>

SetLogLevel(l) ==
  /\ phase = "main" /\ level' = l
  /\ UNCHANGED <<timeVars, open, stamping, lifeVars, unchecked>>

LogStep(t) ==
  \/ \E lvl \in Levels : TryLog(t, lvl)
  \/ Stamp(t)
  \/ \E v \in Signed \cup Unsigned : PutValue(t, v)
  \/ \E v \in Pointers : PutAddress(t, v)
  \/ \E len \in Reals : FmtAppend(t, len)
  \/ \E len \in Texts : PutText(t, len)
  \/ Finish(t)

LifeStep ==
  \/ \E u \in Units : ConstructInitializer(u) \/ ConstructGlobal(u)
  \/ \E l \in Levels : InitLogging(l)
  \/ \E l \in Levels : SetLogLevel(l)
  \/ ExitMain \/ DestroyObject

Next == Tick \/ LifeStep \/ \E t \in Threads : LogStep(t)
Spec == Init /\ [][Next]_vars

-----------------------------------------------------------------------------
(* Properties *)

\* The number that digits in base b denote, the first digit first.
Value(digits, b) ==
  LET prefix[n \in 0..Len(digits)] == IF n = 0 THEN 0 ELSE b * prefix[n - 1] + digits[n]
  IN  prefix[Len(digits)]
Reads(text, v) ==
  LET Plain(digits, b, n) == /\ \A i \in DOMAIN digits : digits[i] \in 0..(b - 1)
                             /\ Value(digits, b) = n
                             /\ Len(digits) > 1 => digits[1] # 0
  IN \/ v >= 0 /\ Plain(text, 10, v)
     \/ v < 0 /\ Head(text) = Minus /\ Plain(Tail(text), 10, -v)
     \/ v \in Pointers /\ SubSeq(text, 1, 2) = <<0, Ex>>
        /\ Plain(SubSeq(text, 3, Len(text)), 16, v)

(* A record tells what was logged and when: its seconds are those of the   *)
(* instant its microseconds were taken from (CacheTimeStamp), whatever the *)
(* clock did since this thread last formatted a second and whatever other  *)
(* threads and nested log statements format meanwhile; its numbers, the    *)
(* least and the greatest too, read back as the values logged (Convert64,  *)
(* Convert64U, ConvertHex); and it stays within its stream, whatever text  *)
(* and numbers are logged.  Only a pointer or a double may break that:     *)
(* ConvertHex and FmtAppend look at no limit, and once one of them was put *)
(* where it does not fit nothing is said of the records any more.          *)
RecordReadsBack ==
  \/ unchecked
  \/ \A t \in Threads : \A i \in DOMAIN open[t] :
       LET s == open[t][i]
       IN \/ stamping[t] /\ i = Len(open[t])
          \/ /\ s.stamp = Second(s.tv) /\ s.put[1] = s.tv % S_MS_PER_SEC
             /\ s.cur <= Size
             /\ \A k \in DOMAIN s.put : Reads(s.text[k], s.put[k])

(* While a log statement is under way there is an appender to hand the     *)
(* record to, also from constructors and destructors of globals, whatever  *)
(* the order in which the units are initialised (slogLoggerInitializer).   *)
AppenderAlive ==
  (\E t \in Threads : open[t] # <<>>) => appender \in {"default", "set"}

-----------------------------------------------------------------------------
(* The inductive invariant that the proof of AppenderAlive uses. *)

Kinds == {"initializer", "global"}
Initializers(s) == {i \in DOMAIN s : s[i][2] = "initializer"}

LifeTypeOK ==
  /\ objects \in Seq(Units \X Kinds) /\ counter \in Nat
  /\ appender \in {"none", "default", "set", "destroyed"}
  /\ phase \in {"static", "main", "exit", "ended"}
  /\ DOMAIN open = Threads /\ stamping \in [Threads -> BOOLEAN]

\* s_counter is the number of initializers, and the first object is one of them.
CounterInv ==
  /\ IsFiniteSet(Initializers(objects)) /\ counter = Cardinality(Initializers(objects))
  /\ objects # <<>> => 1 \in Initializers(objects)
  /\ phase = "main" => objects # <<>>

\* The appender is there as long as an initializer is.
AppenderInv ==
  /\ phase = "static" /\ counter > 0 => appender = "default"
  /\ phase = "main" => appender = "set"
  /\ phase = "exit" /\ counter > 0 => appender = "set"

\* Before and after main only Main logs, in the constructor or destructor of a global.
LoggingInv ==
  \A t \in Threads : open[t] # <<>> \/ stamping[t] =>
    /\ phase # "ended"
    /\ phase \in {"static", "exit"} => t = Main /\ objects # <<>>

LifeInv == LifeTypeOK /\ CounterInv /\ AppenderInv /\ LoggingInv

-----------------------------------------------------------------------------
(* The inductive invariant that the proof of RecordReadsBack uses. *)

Streams == [tv : Nat, lvl : Nat, stamp : Nat, cur : Nat, text : Seq(Seq(Int)), put : Seq(Int)]

\* The streams, and a cache whose string is that of the second it was made for.
StreamTypeOK ==
  /\ now \in Nat /\ lastSec \in [Threads -> Nat] /\ timeStr = lastSec
  /\ open \in [Threads -> Seq(Streams)] /\ stamping \in [Threads -> BOOLEAN]

\* In the constructor nothing is written, and the cached second is the record's.
Fresh(t, s) == s.cur = 0 /\ s.text = <<>> /\ s.put = <<>> /\ timeStr[t] = Second(s.tv)
FreshInv == \A t \in Threads : stamping[t] => open[t] # <<>> /\ Fresh(t, Top(t))

\* A stream that its constructor has left.
ReadsBack(s) ==
  /\ s.stamp = Second(s.tv) /\ s.put # <<>> /\ s.put[1] = s.tv % S_MS_PER_SEC
  /\ s.cur <= Size /\ Len(s.text) = Len(s.put)
  /\ \A k \in DOMAIN s.put : Reads(s.text[k], s.put[k])
StampedInv ==
  \A t \in Threads : \A i \in DOMAIN open[t] :
    (stamping[t] /\ i = Len(open[t])) \/ ReadsBack(open[t][i])

RecordInv == StreamTypeOK /\ FreshInv /\ StampedInv

\* It holds until a pointer or a double is put where it does not fit.
UncheckedOrRecordInv == unchecked \/ RecordInv
=============================================================================
