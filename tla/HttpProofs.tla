----------------------------- MODULE HttpProofs -----------------------------
(***************************************************************************)
(* Theorems about the http server, for any number of processes and peers,  *)
(* any streams cut anywhere and any sizes: a queued event always finds its *)
(* connection and client, and no open connection is left unwatched; and if *)
(* the streams are sequences of requests, no reply comes before the end of *)
(* its request.                                                            *)
(***************************************************************************)
EXTENDS HttpServer, FiniteSetTheorems, SequenceTheorems, WellFoundedInduction, TLAPS

-----------------------------------------------------------------------------
(* What the parsers consume and return *)

\* A non-empty set of naturals has a least member.
LEMMA MinIn ==
  ASSUME NEW S \in SUBSET Nat, S # {}
  PROVE  Min(S) \in S /\ \A y \in S : Min(S) <= y
<1> DEFINE Less == OpToRel(<, Nat)
<1>1. \A x, y \in Nat : <<y, x>> \in Less <=> y < x
  BY Zenon DEF OpToRel
<1>2. IsWellFoundedOn(Less, Nat)
  BY NatLessThanWellFounded, Zenon
<1> HIDE DEF Less
<1>3. PICK x \in S : \A y \in S : ~ (<<y, x>> \in Less)
  BY <1>2, WFMin, Zenon
<1>4. \A y \in S : ~ (y < x)
  BY <1>1, <1>3, Zenon
<1>5. \A y \in S : x <= y
  BY <1>4
<1> QED  BY <1>5 DEF Min

\* Find yields a position of the sequence, or 0.
LEMMA FindIn ==
  ASSUME NEW s \in Seq(Tokens), NEW set
  PROVE  Find(s, set) \in 0..Len(s)
<1>1. PICK at : at = {i \in DOMAIN s : s[i] \in set}
  OBVIOUS
<1>2. at \in SUBSET Nat /\ at \subseteq 1..Len(s) /\ Len(s) \in Nat
  BY <1>1, LenProperties
<1>3. Find(s, set) = IF at = {} THEN 0 ELSE Min(at)
  BY <1>1 DEF Find
<1>4. CASE at = {}
  BY <1>2, <1>3, <1>4
<1>5. CASE at # {}
  <2>1. Min(at) \in at
    BY <1>2, <1>5, MinIn
  <2>2. PICK m \in 1..Len(s) : m = Min(at)
    BY <1>2, <2>1
  <2>3. Find(s, set) = m
    BY <1>3, <1>5, <2>2
  <2> QED  BY <1>2, <2>3
<1> QED  BY <1>4, <1>5

\* The next handler, for the stages that parse and for the one that generates.
LEMMA FinishFacts ==
  ASSUME NEW cl \in HttpClient, cl.stage # "spin"
  PROVE  /\ Finish(cl) \in HttpClient
         /\ Finish(cl).conn = cl.conn /\ Finish(cl).left = cl.left
         /\ cl.stage \in {"line", "header", "body"} => Finish(cl).stage # "send"
         /\ cl.stage = "generate" => Finish(cl).stage = "send"
  BY DEF Finish, HttpClient, Stages

\* What holds of the result of a parser.
ParseOK(s, cl, r) ==
  /\ r.n \in 0..Len(s) /\ r.ret \in Int
  /\ r.ret = 0 => r.n = 0
  /\ r.client \in HttpClient /\ r.client.conn = cl.conn /\ r.client.stage # "send"

LEMMA ParseFacts ==
  ASSUME NEW s \in Seq(Tokens), NEW cl \in HttpClient, cl.stage \in {"line", "header", "body"},
         NEW declared \in Nat, NEW mem, NEW r \in Parse(s, mem, declared, cl)
  PROVE  ParseOK(s, cl, r)
<1>0. Len(s) \in Nat /\ cl.stage # "send"
  OBVIOUS
<1>1. CASE cl.stage = "line"
  <2>1. r = ParseRequestLine(s, cl)
    BY <1>1 DEF Parse
  <2>2. FindSpace(s) \in 0..Len(s)
    BY FindIn DEF FindSpace
  <2>3. CASE r \in {Result(0, 0, cl), Result(0, -1, cl)}
    BY <1>0, <2>3 DEF ParseOK, Result
  <2>4. CASE ~(r \in {Result(0, 0, cl), Result(0, -1, cl)})
    <3>1. FindSpace(s) = 2 /\ s[1] \in Methods
      BY <2>1, <2>4 DEF ParseRequestLine
    <3>2. Len(s) >= 2
      BY <1>0, <2>2, <3>1
    <3>3. PICK hm : hm = [cl EXCEPT !.method = s[1]]
      OBVIOUS
    <3>4. hm \in HttpClient /\ hm.conn = cl.conn /\ hm.stage = cl.stage
      BY <3>1, <3>3 DEF HttpClient
    <3>5. \/ Len(s) < 4 /\ r = Result(2, 2, hm)
          \/ Len(s) >= 4 /\ r = Result(4, 4, hm)
          \/ Len(s) >= 6 /\ r = Result(6, 6, Finish(hm))
      BY <1>0, <2>1, <2>4, <3>1, <3>3 DEF ParseRequestLine
    <3>6. Finish(hm) \in HttpClient /\ Finish(hm).conn = cl.conn /\ Finish(hm).stage # "send"
      BY <1>1, <3>4, FinishFacts
    <3> QED  BY <1>0, <3>2, <3>4, <3>5, <3>6 DEF ParseOK, Result
  <2> QED  BY <2>3, <2>4
<1>2. CASE cl.stage = "header"
  <2>1. r = ParseHeader(s, mem, cl)
    BY <1>2 DEF Parse
  <2>2. PICK end : end = FindEnd(s)
    OBVIOUS
  <2>3. end \in 0..Len(s)
    BY <2>2, FindIn DEF FindEnd
  <2>4. PICK added : added = [cl EXCEPT !.clen = @ \/ HoldsLength(s)]
    OBVIOUS
  <2>5. added \in HttpClient /\ added.conn = cl.conn /\ added.stage = "header"
    <3>1. (cl.clen \/ HoldsLength(s)) \in BOOLEAN
      BY Zenon
    <3> QED  BY <1>2, <2>4, <3>1 DEF HttpClient
  <2>6. PICK spin : spin = [added EXCEPT !.stage = "spin"]
    OBVIOUS
  <2>7. spin \in HttpClient /\ spin.conn = cl.conn /\ spin.stage = "spin"
    BY <2>5, <2>6 DEF HttpClient, Stages
  <2>8. \/ r = Result(0, 1, cl)
        \/ end # 0 /\ \E cx \in {Finish(cl), added, spin, Finish(added)} : r = Result(end, end, cx)
    BY <2>1, <2>2, <2>4, <2>6, Zenon DEF ParseHeader
  <2>9. \A cx \in {Finish(cl), added, spin, Finish(added)} :
          cx \in HttpClient /\ cx.conn = cl.conn /\ cx.stage # "send"
    <3>1. Finish(cl) \in HttpClient /\ Finish(cl).conn = cl.conn /\ Finish(cl).stage # "send"
      BY <1>2, FinishFacts
    <3>2. Finish(added) \in HttpClient /\ Finish(added).conn = cl.conn /\ Finish(added).stage # "send"
      BY <2>5, FinishFacts
    <3> QED  BY <2>5, <2>7, <3>1, <3>2
  <2>10. PICK cx : /\ cx \in HttpClient /\ cx.conn = cl.conn /\ cx.stage # "send"
                   /\ r = Result(0, 1, cx) \/ (end # 0 /\ r = Result(end, end, cx))
    BY <1>0, <2>8, <2>9, Zenon
  <2> QED  BY <1>0, <2>3, <2>10 DEF ParseOK, Result
<1>3. CASE cl.stage = "body"
  <2>1. r \in ParseBody(s, declared, cl)
    BY <1>3 DEF Parse
  <2>2. PICK contentLen \in Nat :
          contentLen = IF cl.bodyLen > 0 THEN cl.bodyLen ELSE IF cl.clen THEN declared ELSE 0
    BY DEF HttpClient
  <2>3. PICK sized : sized = [cl EXCEPT !.bodyLen = contentLen]
    OBVIOUS
  <2>4. sized \in HttpClient /\ sized.conn = cl.conn /\ sized.stage = cl.stage
    BY <2>2, <2>3 DEF HttpClient
  <2>5. PICK dn : dn = IF Len(s) = contentLen - cl.body THEN Finish(sized) ELSE sized
    OBVIOUS
  <2>6. dn \in HttpClient /\ dn.conn = cl.conn /\ dn.stage # "send"
    BY <1>3, <2>4, <2>5, FinishFacts
  <2>7. \/ r = Result(Len(s), 1, Finish(cl)) \/ r = Result(0, 0, sized)
        \/ r = Result(0, -1, cl) \/ r = Result(0, -1, sized)
        \/ \E k \in {0, Len(s)} : r = Result(Len(s), Len(s), [dn EXCEPT !.body = @ + k])
    BY <2>1, <2>2, <2>3, <2>5 DEF ParseBody
  <2>8. \A k \in {0, Len(s)} : LET x == [dn EXCEPT !.body = @ + k] IN
          x \in HttpClient /\ x.conn = cl.conn /\ x.stage # "send"
    <3>1. \A k \in {0, Len(s)} : dn.body + k \in Nat
      BY <1>0, <2>6 DEF HttpClient
    <3> QED  BY <2>6, <3>1 DEF HttpClient
  <2>9. Finish(cl) \in HttpClient /\ Finish(cl).conn = cl.conn /\ Finish(cl).stage # "send"
    BY <1>3, FinishFacts
  <2>10. CASE r \in {Result(Len(s), 1, Finish(cl)), Result(0, 0, sized), Result(0, -1, cl), Result(0, -1, sized)}
    <3>1. PICK cx : /\ cx \in HttpClient /\ cx.conn = cl.conn /\ cx.stage # "send"
                    /\ r \in {Result(Len(s), 1, cx), Result(0, 0, cx), Result(0, -1, cx)}
      BY <1>3, <2>4, <2>9, <2>10
    <3>2. CASE r = Result(Len(s), 1, cx)
      BY <1>0, <3>1, <3>2 DEF ParseOK, Result
    <3>3. CASE r \in {Result(0, 0, cx), Result(0, -1, cx)}
      BY <1>0, <3>1, <3>3 DEF ParseOK, Result
    <3> QED  BY <3>1, <3>2, <3>3
  <2>11. ASSUME NEW k \in {0, Len(s)}, r = Result(Len(s), Len(s), [dn EXCEPT !.body = @ + k])
         PROVE  ParseOK(s, cl, r)
    <3>1. PICK cx : cx = [dn EXCEPT !.body = @ + k]
      OBVIOUS
    <3>2. cx \in HttpClient /\ cx.conn = cl.conn /\ cx.stage # "send" /\ r = Result(Len(s), Len(s), cx)
      BY <2>8, <2>11, <3>1
    <3> QED  BY <1>0, <3>2 DEF ParseOK, Result
  <2> QED  BY <2>7, <2>10, <2>11
<1> QED  BY <1>1, <1>2, <1>3

-----------------------------------------------------------------------------
(* What a handler does to its connection *)

\* A handler leaves the connection open: g and u are what it has read and
\* consumed, cl is its client, a what epoll watches; more says whether the
\* handler is called again.
Update(p, c, g, u, cl, a, more) ==
  /\ got' = [got EXCEPT ![c] = g] /\ used' = [used EXCEPT ![c] = u]
  /\ client' = [client EXCEPT ![c] = cl] /\ armed' = [armed EXCEPT ![c] = a]
  /\ pc' = [pc EXCEPT ![p] = IF more THEN "handle" ELSE "loop"]
  /\ cur' = [cur EXCEPT ![p] = IF more THEN @ ELSE NoEvent]
  /\ room' \in [Peers -> Nat] /\ base' \in [Peers -> Nat]
  /\ UNCHANGED <<backlog, sent, gone, owner, status, connNum, listen, batch, acceptQ, rwQ>>

\* It watches the socket unless bytes are left to parse, or it is called again
\* and will do so.
UpdateOK(p, c, g, u, cl, a, more) ==
  /\ g \in Nat /\ g <= sent[c] /\ u \in Nat /\ u <= g
  /\ cl \in HttpClient /\ cl.conn = client[c].conn
  /\ a \in {"off", "in", "inout"} /\ (a = "inout" => cl.stage = "send")
  /\ a = "off" /\ ~more => u < g
  /\ a = "off" /\ more => cur[p].code = "READ" \/ cl.stage = "send"

\* Or it closes the connection.
Closed(p, c) ==
  /\ CloseConnection(p, c) /\ Resume(p, -1) /\ used' = used
  /\ \E g \in Nat : g <= sent[c] /\ got[c] <= g /\ got' = [got EXCEPT ![c] = g]
  /\ base' \in [Peers -> Nat]
  /\ UNCHANGED <<netVars, owner, listen, batch, acceptQ, rwQ>>

\* Min of two numbers.
LEMMA MinTwo ==
  ASSUME NEW a \in Nat, NEW b \in Nat
  PROVE  Min({a, b}) = IF a <= b THEN a ELSE b
<1>1. PICK m : m = Min({a, b})
  OBVIOUS
<1>2. m \in {a, b} /\ m <= a /\ m <= b
  BY <1>1, MinIn
<1> QED  BY <1>1, <1>2

\* The read buffer is empty when all that was read is consumed.
LEMMA EmptyBuffer ==
  ASSUME HttpInv, NEW c \in Peers
  PROVE  Buffered(c) = <<>> <=> used[c] = got[c]
<1>0. /\ used[c] \in Nat /\ got[c] \in Nat /\ sent[c] \in Nat
      /\ used[c] <= got[c] /\ got[c] <= sent[c] /\ sent[c] <= Len(Stream[c])
      /\ Stream[c] \in Seq(Tokens)
  BY HttpAssumption DEF HttpInv, TypeOK, NetTypeOK, ConnTypeOK, BufferInv
<1>1. used[c] + 1 \in Nat /\ used[c] + 1 >= 1 /\ got[c] <= Len(Stream[c])
  BY <1>0
<1>2. \A j \in (used[c] + 1)..got[c] : Stream[c][j] \in Tokens
  BY <1>0, <1>1, ElementOfSeq
<1>3. /\ Buffered(c) \in Seq(Tokens)
      /\ Len(Buffered(c)) = IF used[c] + 1 <= got[c] THEN got[c] - (used[c] + 1) + 1 ELSE 0
  BY <1>0, <1>1, <1>2, SubSeqProperties DEF Buffered
<1> QED  BY <1>0, <1>3, EmptySeq

\* ReadHttpData reads into an empty buffer, and then watches the socket; or it
\* does nothing.
LEMMA ReadFacts ==
  ASSUME HttpInv, NEW p \in Procs, NEW c \in Peers, NEW r \in ReadHttpData(p, c)
  PROVE  /\ r.n \in Nat /\ got[c] + r.n <= sent[c] /\ r.ret \in Int
         /\ \/ cur[p].code = "READ" /\ used[c] = got[c] /\ r.armed = "in"
            \/ /\ r.n = 0 /\ r.armed = armed[c] /\ r.ret = 0
               /\ cur[p].code # "READ" \/ used[c] < got[c]
<1>0. /\ used[c] \in Nat /\ got[c] \in Nat /\ sent[c] \in Nat
      /\ used[c] <= got[c] /\ got[c] <= sent[c] /\ sent[c] <= Len(Stream[c])
      /\ Stream[c] \in Seq(Tokens)
  BY HttpAssumption DEF HttpInv, TypeOK, NetTypeOK, ConnTypeOK, BufferInv
<1>1. Buffered(c) = <<>> <=> used[c] = got[c]
  BY EmptyBuffer
<1>2. CASE cur[p].code = "READ" /\ Buffered(c) = <<>>
  <2>1. sent[c] - got[c] \in Nat /\ ReadCap \in Nat
    BY <1>0, HttpAssumption
  <2>2. PICK n \in Nat : n = Min({sent[c] - got[c], ReadCap}) /\ n <= sent[c] - got[c]
    BY <2>1, MinTwo
  <2>3. r \in ReadBuffer(c)
    BY <1>2 DEF ReadHttpData
  <2>4. r.armed = "in" /\ r.n \in {0, n} /\ r.ret \in {-1, n}
    BY <2>2, <2>3 DEF ReadBuffer
  <2> QED  BY <1>0, <1>1, <1>2, <2>2, <2>4
<1>3. CASE ~(cur[p].code = "READ" /\ Buffered(c) = <<>>)
  BY <1>0, <1>1, <1>3 DEF ReadHttpData
<1> QED  BY <1>2, <1>3

\* ProcessRequestLine, ProcessHeader and ProcessBody.
LEMMA ParsersEffect ==
  ASSUME HttpInv, NEW p \in Procs, NEW c \in Peers,
         ProcessRequestLine(p, c) \/ ProcessHeader(p, c) \/ ProcessBody(p, c)
  PROVE  \/ Closed(p, c)
         \/ \E g, u, cl, a, more : Update(p, c, g, u, cl, a, more) /\ UpdateOK(p, c, g, u, cl, a, more)
<1>0. /\ used[c] \in Nat /\ got[c] \in Nat /\ sent[c] \in Nat
      /\ used[c] <= got[c] /\ got[c] <= sent[c] /\ sent[c] <= Len(Stream[c])
      /\ Stream[c] \in Seq(Tokens) /\ client[c] \in HttpClient
      /\ room \in [Peers -> Nat] /\ base \in [Peers -> Nat] /\ armed[c] \in {"off", "in", "inout"}
  BY HttpAssumption DEF HttpInv, TypeOK, NetTypeOK, ConnTypeOK, BufferInv
<1>1. /\ ReadAndParse(p, c) /\ client[c].stage \in {"line", "header", "body"}
      /\ pc[p] = "handle" /\ cur[p].conn = c
  BY DEF ProcessRequestLine, ProcessHeader, ProcessBody, Handling
<1>2. /\ cur[p].code \in {"READ", "WRITE"} /\ (cur[p].code = "WRITE" => armed[c] # "off")
      /\ armed[c] # "inout"
  BY <1>1 DEF HttpInv, ProcInv, HandleInv, Current, ConnInv, ConnEvent
<1>3. PICK r \in ReadHttpData(p, c) :
         /\ got' = [got EXCEPT ![c] = got[c] + r.n]
         /\ base' = [base EXCEPT ![c] = IF r.n > 0 THEN got[c] ELSE @]
         /\ \E s \in {SubSeq(Stream[c], used[c] + 1, got'[c])},
               mem \in {SubSeq(Stream[c], base'[c] + 1, got'[c])} :
            \E result \in Parse(s, mem, BodyLen[c], client[c]) :
              IF r.ret < 0 \/ result.ret < 0
                THEN CloseConnection(p, c) /\ Resume(p, -1) /\ UNCHANGED <<used, early>>
                ELSE /\ used' = [used EXCEPT ![c] = used[c] + result.n]
                     /\ early' = [early EXCEPT ![c] =
                                    @ + IF EndsEarly(s, mem, client[c]) THEN 1 ELSE 0]
                     /\ client' = [client EXCEPT ![c] = result.client]
                     /\ armed' = [armed EXCEPT ![c] = r.armed]
                     /\ Resume(p, result.ret)
                     /\ UNCHANGED <<connNum, status>>
  BY <1>1 DEF ReadAndParse
<1>4. UNCHANGED <<netVars, owner, replies, unsent, watching, listen, batch, acceptQ, rwQ>>
  BY <1>1 DEF ReadAndParse
<1>5. PICK g \in Nat : g = got[c] + r.n /\ g <= sent[c] /\ got[c] <= g
  BY <1>0, ReadFacts
<1>6. got'[c] = g /\ got' = [got EXCEPT ![c] = g]
  BY <1>3, <1>5 DEF HttpInv, TypeOK, ConnTypeOK
<1>7. PICK s : s = SubSeq(Stream[c], used[c] + 1, g)
  OBVIOUS
<1>8. s \in Seq(Tokens) /\ Len(s) = g - used[c]
  <2>1. used[c] + 1 \in Nat /\ used[c] + 1 >= 1 /\ g <= Len(Stream[c]) /\ used[c] <= g
    BY <1>0, <1>5
  <2>2. \A j \in (used[c] + 1)..g : Stream[c][j] \in Tokens
    BY <1>0, <2>1, ElementOfSeq
  <2>3. s \in Seq(Tokens) /\ Len(s) = IF used[c] + 1 <= g THEN g - (used[c] + 1) + 1 ELSE 0
    BY <1>0, <1>5, <1>7, <2>1, <2>2, SubSeqProperties
  <2> QED  BY <1>0, <1>5, <2>1, <2>3
<1>9. PICK mem : \E result \in Parse(s, mem, BodyLen[c], client[c]) :
        IF r.ret < 0 \/ result.ret < 0
          THEN CloseConnection(p, c) /\ Resume(p, -1) /\ used' = used
          ELSE /\ used' = [used EXCEPT ![c] = used[c] + result.n]
               /\ client' = [client EXCEPT ![c] = result.client]
               /\ armed' = [armed EXCEPT ![c] = r.armed]
               /\ Resume(p, result.ret)
               /\ UNCHANGED <<connNum, status>>
  BY <1>3, <1>6, <1>7
<1>13. PICK result \in Parse(s, mem, BodyLen[c], client[c]) :
        IF r.ret < 0 \/ result.ret < 0
          THEN CloseConnection(p, c) /\ Resume(p, -1) /\ used' = used
          ELSE /\ used' = [used EXCEPT ![c] = used[c] + result.n]
               /\ client' = [client EXCEPT ![c] = result.client]
               /\ armed' = [armed EXCEPT ![c] = r.armed]
               /\ Resume(p, result.ret)
               /\ UNCHANGED <<connNum, status>>
  BY <1>9
<1>14. base' \in [Peers -> Nat]
  BY <1>0, <1>3
<1>10. ParseOK(s, client[c], result)
  <2>1. BodyLen[c] \in Nat
    BY HttpAssumption
  <2> QED  BY <1>0, <1>1, <1>8, <2>1, ParseFacts
<1>11. CASE r.ret < 0 \/ result.ret < 0
  <2>1. Closed(p, c)
    BY <1>4, <1>5, <1>6, <1>13, <1>14, <1>11 DEF Closed
  <2> QED  BY <2>1
<1>12. CASE ~(r.ret < 0 \/ result.ret < 0)
  <2>1. PICK u, cl, a : u = used[c] + result.n /\ cl = result.client /\ a = r.armed
    OBVIOUS
  <2> DEFINE more == result.ret > 0
  <2>2. Update(p, c, g, u, cl, a, more)
    <3>1. /\ used' = [used EXCEPT ![c] = u] /\ client' = [client EXCEPT ![c] = cl]
          /\ armed' = [armed EXCEPT ![c] = a] /\ UNCHANGED <<connNum, status>>
      BY <1>13, <1>12, <2>1
    <3>2. /\ pc' = [pc EXCEPT ![p] = IF more THEN "handle" ELSE "loop"]
          /\ cur' = [cur EXCEPT ![p] = IF more THEN @ ELSE NoEvent]
      BY <1>13, <1>12, <2>1 DEF Resume
    <3> QED  BY <1>0, <1>4, <1>6, <1>14, <3>1, <3>2 DEF Update, netVars
  <2>3. UpdateOK(p, c, g, u, cl, a, more)
    <3>1. u \in Nat /\ u <= g /\ result.n \in Nat
      BY <1>0, <1>5, <1>8, <1>10, <2>1 DEF ParseOK
    <3>2. /\ \/ cur[p].code = "READ" /\ a = "in"
             \/ g = got[c] /\ a = armed[c] /\ (cur[p].code # "READ" \/ used[c] < got[c])
      BY <1>0, <1>5, <2>1, ReadFacts
    <3>3. a = "off" => /\ cur[p].code = "READ" /\ g = got[c] /\ used[c] < got[c]
      BY <1>2, <3>2
    <3>4. a = "off" /\ ~more => u < g
      <4>0. result.ret \in Int /\ ~(result.ret < 0)
        BY <1>10, <1>12 DEF ParseOK
      <4>3. PICK ret \in Int : ret = result.ret /\ ret >= 0
        BY <4>0
      <4>1. ~more => result.ret = 0
        BY <4>3
      <4>2. ~more => u = used[c]
        BY <1>0, <1>10, <2>1, <4>1 DEF ParseOK
      <4> QED  BY <3>3, <4>2
    <3>5. cl \in HttpClient /\ cl.conn = client[c].conn /\ a \in {"off", "in", "inout"} /\ a # "inout"
      BY <1>0, <1>2, <1>10, <2>1, <3>2 DEF ParseOK
    <3> QED  BY <1>5, <3>1, <3>3, <3>4, <3>5 DEF UpdateOK
  <2> QED  BY <2>2, <2>3
<1> QED  BY <1>11, <1>12

LEMMA GenerateEffect ==
  ASSUME HttpInv, NEW p \in Procs, NEW c \in Peers, GenerateResponse(p, c)
  PROVE  \E g, u, cl, a, more : Update(p, c, g, u, cl, a, more) /\ UpdateOK(p, c, g, u, cl, a, more)
<1>0. /\ got \in [Peers -> Nat] /\ used \in [Peers -> Nat] /\ armed \in [Peers -> {"off", "in", "inout"}]
      /\ client[c] \in HttpClient /\ sent[c] \in Nat /\ used[c] <= got[c] /\ got[c] <= sent[c]
      /\ room \in [Peers -> Nat] /\ base \in [Peers -> Nat]
      /\ pc \in [Procs -> {"loop", "poll", "handle", "dead"}] /\ cur \in [Procs -> ConnEvent \cup {NoEvent}]
  BY HttpAssumption DEF HttpInv, TypeOK, NetTypeOK, ConnTypeOK, ProcTypeOK, BufferInv
<1>1. /\ client[c].stage = "generate" /\ pc[p] = "handle"
      /\ UNCHANGED <<netVars, owner, status, armed, got, base, used, replies, early, procVars>>
  BY DEF GenerateResponse, Handling
<1>2. PICK fin : fin = Finish(client[c])
  OBVIOUS
<1>3. fin \in HttpClient /\ fin.conn = client[c].conn /\ fin.stage = "send"
  BY <1>0, <1>1, <1>2, FinishFacts
<1>4. PICK len \in Nat : client' = [client EXCEPT ![c] = [fin EXCEPT !.left = @ + len]]
  <2>1. PICK len \in RespLens :
          client' = [client EXCEPT ![c] = [fin EXCEPT !.left = @ + IF Fits(len) THEN len ELSE 0]]
    BY <1>2, Zenon DEF GenerateResponse
  <2>2. (IF Fits(len) THEN len ELSE 0) \in Nat
    BY HttpAssumption
  <2> QED  BY <2>1, <2>2, Zenon
<1>5. PICK cl : cl = [fin EXCEPT !.left = fin.left + len]
  OBVIOUS
<1>6. cl \in HttpClient /\ cl.conn = client[c].conn /\ cl.stage = "send"
  <2>1. fin.left + len \in Nat
    BY <1>0, <1>3 DEF HttpClient
  <2> QED  BY <1>3, <1>5, <2>1 DEF HttpClient
<1>7. client' = [client EXCEPT ![c] = cl]
  BY <1>5, <1>4
<1>8. Update(p, c, got[c], used[c], cl, armed[c], TRUE)
  <2>1. got' = [got EXCEPT ![c] = got[c]] /\ used' = [used EXCEPT ![c] = used[c]]
    BY <1>0, <1>1
  <2>2. armed' = [armed EXCEPT ![c] = armed[c]]
    BY <1>0, <1>1
  <2>3. pc' = [pc EXCEPT ![p] = "handle"] /\ cur' = [cur EXCEPT ![p] = @]
    BY <1>0, <1>1 DEF procVars
  <2> QED  BY <1>0, <1>1, <1>7, <2>1, <2>2, <2>3 DEF Update, netVars, procVars
<1>9. UpdateOK(p, c, got[c], used[c], cl, armed[c], TRUE)
  BY <1>0, <1>6 DEF UpdateOK
<1> QED  BY <1>8, <1>9

LEMMA SendEffect ==
  ASSUME HttpInv, NEW p \in Procs, NEW c \in Peers, SendResponse(p, c)
  PROVE  \/ Closed(p, c)
         \/ \E g, u, cl, a, more : Update(p, c, g, u, cl, a, more) /\ UpdateOK(p, c, g, u, cl, a, more)
<1>0. /\ got \in [Peers -> Nat] /\ used \in [Peers -> Nat]
      /\ client[c] \in HttpClient /\ sent[c] \in Nat /\ used[c] <= got[c] /\ got[c] <= sent[c]
      /\ room \in [Peers -> Nat] /\ base \in [Peers -> Nat]
  BY HttpAssumption DEF HttpInv, TypeOK, NetTypeOK, ConnTypeOK, ProcTypeOK, BufferInv
<1>1. client[c].stage = "send"
  BY DEF SendResponse, Handling
<1>2. UNCHANGED <<backlog, sent, gone, owner, got, base, used, watching, listen, batch, acceptQ, rwQ>>
  BY DEF SendResponse
<1>3. got' = [got EXCEPT ![c] = got[c]] /\ used' = [used EXCEPT ![c] = used[c]]
  BY <1>0, <1>2
<1>4. PICK sz \in Nat : sz = client[c].left
  BY <1>0 DEF HttpClient
<1>5. PICK r \in SendBuffer(c, sz) :
       IF r.ret < 0
         THEN CloseConnection(p, c) /\ Resume(p, -1) /\ UNCHANGED <<room, replies>>
         ELSE LET left == sz - r.ret
                  rest == [client[c] EXCEPT !.left = left] IN
              /\ room' = [room EXCEPT ![c] = room[c] - r.ret]
              /\ armed' = [armed EXCEPT ![c] = r.armed]
              /\ client' = [client EXCEPT ![c] =
                              IF left = 0 THEN Finish(rest) ELSE rest]
              /\ replies' = [replies EXCEPT ![c] = IF left = 0 /\ r.ret > 0 THEN @ + 1 ELSE @]
              /\ Resume(p, r.ret)
              /\ UNCHANGED <<connNum, status>>
  BY <1>4 DEF SendResponse
<1>6. PICK n \in Nat : n = Min({sz, room[c]}) /\ n <= sz /\ n <= room[c]
  <2>1. PICK k \in Nat : k = room[c]
    BY <1>0
  <2> QED  BY <2>1, MinTwo
<1>7. \/ r = [ret |-> n, armed |-> IF n < sz THEN "inout" ELSE "in"]
      \/ r = [ret |-> -1, armed |-> armed[c]]
  BY <1>6 DEF SendBuffer
<1>8. CASE r = [ret |-> -1, armed |-> armed[c]]
  <2>1. r.ret < 0
    BY <1>8
  <2>2. CloseConnection(p, c) /\ Resume(p, -1) /\ UNCHANGED <<room, replies>>
    BY <1>5, <2>1
  <2>3. Closed(p, c)
    BY <1>0, <1>2, <1>3, <2>2 DEF Closed, netVars
  <2> QED  BY <2>3
<1>9. CASE r = [ret |-> n, armed |-> IF n < sz THEN "inout" ELSE "in"]
  <2>1. ~(r.ret < 0) /\ r.ret = n /\ r.armed = IF n < sz THEN "inout" ELSE "in"
    BY <1>6, <1>9
  <2>2. PICK left \in Nat : left = sz - n /\ (left = 0 <=> n = sz)
    BY <1>4, <1>6
  <2>3. PICK rest : rest = [client[c] EXCEPT !.left = left]
    OBVIOUS
  <2>4. rest \in HttpClient /\ rest.conn = client[c].conn /\ rest.stage = "send"
    BY <1>0, <1>1, <2>2, <2>3 DEF HttpClient
  <2>5. PICK cl : cl = IF left = 0 THEN Finish(rest) ELSE rest
    OBVIOUS
  <2>6. cl \in HttpClient /\ cl.conn = client[c].conn /\ (n < sz => cl.stage = "send")
    BY <1>4, <1>6, <2>2, <2>4, <2>5, FinishFacts
  <2> DEFINE more == r.ret > 0
  <2>7. /\ room' = [room EXCEPT ![c] = room[c] - n]
        /\ armed' = [armed EXCEPT ![c] = r.armed] /\ client' = [client EXCEPT ![c] = cl]
        /\ Resume(p, r.ret) /\ UNCHANGED <<connNum, status>>
    BY <1>5, <2>1, <2>2, <2>3, <2>5
  <2>8. room' \in [Peers -> Nat]
    <3>1. room[c] - n \in Nat
      BY <1>0, <1>6
    <3> QED  BY <1>0, <2>7, <3>1
  <2>9. Update(p, c, got[c], used[c], cl, r.armed, more)
    BY <1>0, <1>2, <1>3, <2>7, <2>8 DEF Update, Resume
  <2>10. UpdateOK(p, c, got[c], used[c], cl, r.armed, more)
    BY <1>0, <2>1, <2>6 DEF UpdateOK
  <2> QED  BY <2>9, <2>10
<1> QED  BY <1>7, <1>8, <1>9

-----------------------------------------------------------------------------
(* What a step leaves alone *)

\* A step leaves connection d alone, process q alone.
SameConn(d) ==
  /\ status'[d] = status[d] /\ owner'[d] = owner[d] /\ armed'[d] = armed[d]
  /\ client'[d] = client[d] /\ used'[d] = used[d] /\ got'[d] = got[d]
SameProc(q) ==
  /\ batch'[q] = batch[q] /\ acceptQ'[q] = acceptQ[q] /\ rwQ'[q] = rwQ[q]
  /\ pc'[q] = pc[q] /\ cur'[q] = cur[q]

LEMMA SameProcFacts ==
  ASSUME NEW q, SameProc(q), NEW d
  PROVE  /\ InBatch(q, d)' <=> InBatch(q, d)
         /\ Queued(q, d)' <=> Queued(q, d)
         /\ Current(q, d)' <=> Current(q, d)
         /\ Accepted(q, d)' <=> Accepted(q, d)
<1>1. InBatch(q, d)' <=> InBatch(q, d)
  BY DEF SameProc, InBatch
<1>2. Queued(q, d)' <=> Queued(q, d)
  BY DEF SameProc, Queued
<1>3. Current(q, d)' <=> Current(q, d)
  BY DEF SameProc, Current
<1>4. Accepted(q, d)' <=> Accepted(q, d)
  BY DEF SameProc, Accepted
<1> QED  BY <1>1, <1>2, <1>3, <1>4

LEMMA FrameConn ==
  ASSUME NEW d \in Peers, ConnInv(d), SameConn(d),
         \A q \in Procs : status[d] = "CONNECTED" /\ owner[d] = q =>
           /\ Accepted(q, d) => Accepted(q, d)'
           /\ Pending(q, d) => Pending(q, d)'
  PROVE  ConnInv(d)'
<1>1. armed'[d] # "off" => status'[d] = "CONNECTED"
  BY DEF ConnInv, SameConn
<1>2. armed'[d] = "inout" => client'[d].stage = "send"
  BY DEF ConnInv, SameConn
<1>3. ASSUME status'[d] = "CONNECTED"
      PROVE  \E q \in Procs :
               /\ owner'[d] = q
               /\ client'[d].conn \/ Accepted(q, d)'
               /\ armed'[d] # "off" \/ used'[d] < got'[d] \/ Pending(q, d)'
  <2>1. PICK q \in Procs :
          /\ owner[d] = q /\ status[d] = "CONNECTED" /\ (client[d].conn \/ Accepted(q, d))
          /\ armed[d] # "off" \/ used[d] < got[d] \/ Pending(q, d)
    BY <1>3 DEF ConnInv, SameConn
  <2>2. /\ client[d].conn \/ Accepted(q, d)'
        /\ armed[d] # "off" \/ used[d] < got[d] \/ Pending(q, d)'
    BY <2>1
  <2> QED  BY <2>1, <2>2 DEF SameConn
<1>4. status'[d] = None => owner'[d] = None
  BY DEF ConnInv, SameConn
<1> QED  BY <1>1, <1>2, <1>3, <1>4 DEF ConnInv

\* The connections of process q, with what ProcInv says of them, are as before.
SameConnsOf(q) ==
  \A d \in Peers : status[d] = "CONNECTED" /\ owner[d] = q =>
    status'[d] = status[d] /\ owner'[d] = owner[d] /\ armed'[d] = armed[d] /\ client'[d] = client[d]

LEMMA FrameProc ==
  ASSUME TypeOK, NEW q \in Procs, ProcInv(q), SameProc(q), SameConnsOf(q)
  PROVE  ProcInv(q)'
<1>0. /\ batch[q] \subseteq ConnEvent \cup {AcceptEvent} /\ acceptQ[q] \in Seq(Peers)
      /\ rwQ[q] \in Seq(ConnEvent)
  BY DEF TypeOK, ProcTypeOK
<1>1. PhaseInv(q)'
  BY DEF SameProc, ProcInv, PhaseInv
<1>2. AcceptInv(q)'
  BY SameProcFacts DEF ProcInv, AcceptInv, SameConnsOf
<1>3. ASSUME NEW e \in ConnEvent, Expects(q, e)
      PROVE  Expects(q, e)'
  BY <1>3 DEF Expects, SameConnsOf, ConnEvent
<1>4. BatchInv(q)'
  <2> SUFFICES ASSUME pc'[q] # "dead", NEW e \in batch'[q], NEW f \in batch'[q], e # AcceptEvent
               PROVE  Expects(q, e)' /\ ~Queued(q, e.conn)' /\ (e.conn = f.conn => e = f)
    BY DEF BatchInv
  <2>1. pc[q] # "dead" /\ e \in batch[q] /\ f \in batch[q] /\ e \in ConnEvent
    BY <1>0 DEF SameProc
  <2>2. Expects(q, e) /\ ~Queued(q, e.conn) /\ (e.conn = f.conn => e = f)
    BY <2>1 DEF ProcInv, BatchInv
  <2>3. ~Queued(q, e.conn)'
    BY <2>2, SameProcFacts
  <2> QED  BY <1>3, <2>1, <2>2, <2>3
<1>5. QueueInv(q)'
  <2>1. rwQ'[q] = rwQ[q] /\ QueueInv(q)
    BY DEF SameProc, ProcInv
  <2>2. ASSUME NEW i \in DOMAIN rwQ'[q]
        PROVE  Expects(q, rwQ[q][i])'
    <3>1. PICK e \in ConnEvent : e = rwQ[q][i]
      BY <1>0, <2>1, ElementOfSeq
    <3>2. Expects(q, e)'
      BY <1>3, <2>1, <3>1 DEF QueueInv
    <3> QED  BY <2>1, <3>1, <3>2 DEF Expects
  <2>3. \A i, j \in DOMAIN rwQ'[q] : rwQ'[q][i].conn = rwQ'[q][j].conn => i = j
    BY <2>1 DEF QueueInv
  <2> QED  BY <2>2, <2>3 DEF QueueInv
<1>6. HandleInv(q)'
  <2>1. pc'[q] = "handle" => cur'[q] \in ConnEvent
    BY DEF ProcInv, HandleInv, SameProc
  <2>2. ASSUME NEW c \in Peers, Current(q, c)'
        PROVE  /\ status'[c] = "CONNECTED" /\ owner'[c] = q /\ client'[c].conn /\ ~Queued(q, c)'
               /\ cur'[q].code = "WRITE" => client'[c].stage = "send" \/ armed'[c] # "off"
    <3>1. Current(q, c) /\ (Queued(q, c)' <=> Queued(q, c))
      BY <2>2, SameProcFacts
    <3>2. /\ status[c] = "CONNECTED" /\ owner[c] = q /\ client[c].conn /\ ~Queued(q, c)
          /\ cur[q].code = "WRITE" => client[c].stage = "send" \/ armed[c] # "off"
      BY <3>1 DEF ProcInv, HandleInv
    <3>3. status'[c] = status[c] /\ owner'[c] = q /\ armed'[c] = armed[c] /\ client'[c] = client[c]
      BY <3>2 DEF SameConnsOf
    <3> QED  BY <3>1, <3>2, <3>3 DEF SameProc
  <2> QED  BY <2>1, <2>2 DEF HandleInv
<1> QED  BY <1>1, <1>2, <1>4, <1>5, <1>6 DEF ProcInv

\* The numbers of open connections are as before.
LEMMA FrameCount ==
  ASSUME CountInv, UNCHANGED <<owner, status, connNum>>
  PROVE  CountInv'
<1>1. \A q \in Procs : OpenConns(q)' = OpenConns(q)
  BY DEF OpenConns
<1> QED  BY <1>1 DEF CountInv

-----------------------------------------------------------------------------
(* The handlers preserve the invariant *)

\* What holds of the process and the connection that a handler works for.
LEMMA HandlingFacts ==
  ASSUME HttpInv, NEW p \in Procs, NEW c \in Peers, pc[p] = "handle", cur[p].conn = c
  PROVE  /\ status[c] = "CONNECTED" /\ owner[c] = p /\ client[c].conn /\ ~Queued(p, c)
         /\ cur[p] \in ConnEvent
         /\ batch[p] = {} /\ acceptQ[p] = <<>>
         /\ \A q \in Procs \ {p} : ~Queued(q, c) /\ ~Accepted(q, c)
<1>1. ProcInv(p) /\ Current(p, c)
  BY DEF HttpInv, Current
<1>2. status[c] = "CONNECTED" /\ owner[c] = p /\ client[c].conn /\ ~Queued(p, c)
  BY <1>1 DEF ProcInv, HandleInv
<1>3. cur[p] \in ConnEvent /\ batch[p] = {} /\ acceptQ[p] = <<>>
  BY <1>1 DEF ProcInv, HandleInv, PhaseInv
<1>4. ASSUME NEW q \in Procs \ {p}
      PROVE  ~Queued(q, c) /\ ~Accepted(q, c)
  BY <1>2 DEF HttpInv, ProcInv, AcceptInv, QueueInv, Queued, Expects
<1> QED  BY <1>2, <1>3, <1>4

\* A handler of connection c that ends, is called again or closes c leaves the
\* other connections and the other processes alone.
OnlyConn(p, c) ==
  /\ \A d \in Peers \ {c} : SameConn(d)
  /\ \A q \in Procs \ {p} : SameProc(q)
  /\ batch'[p] = batch[p] /\ acceptQ'[p] = acceptQ[p] /\ rwQ'[p] = rwQ[p]

LEMMA OthersKept ==
  ASSUME HttpInv, NEW p \in Procs, NEW c \in Peers, pc[p] = "handle", cur[p].conn = c, OnlyConn(p, c)
  PROVE  /\ \A d \in Peers \ {c} : ConnInv(d)'
         /\ \A q \in Procs \ {p} : ProcInv(q)'
         /\ QueueInv(p)' /\ ~Queued(p, c)'
         /\ pc'[p] \in {"loop", "handle"} => PhaseInv(p)' /\ AcceptInv(p)' /\ BatchInv(p)'
<1>0. /\ status[c] = "CONNECTED" /\ owner[c] = p /\ ~Queued(p, c)
      /\ batch[p] = {} /\ acceptQ[p] = <<>>
  BY HandlingFacts
<1>1. ASSUME NEW d \in Peers \ {c} PROVE ConnInv(d)'
  <2>1. ConnInv(d) /\ SameConn(d)
    BY DEF HttpInv, OnlyConn
  <2>2. ASSUME NEW q \in Procs
        PROVE  /\ Accepted(q, d) => Accepted(q, d)'
               /\ Pending(q, d) => Pending(q, d)'
    <3>1. CASE q # p
      <4>1. SameProc(q)
        BY <3>1 DEF OnlyConn
      <4> QED  BY <4>1, SameProcFacts DEF Pending
    <3>2. CASE q = p
      <4>1. Accepted(p, d) => Accepted(p, d)'
        BY DEF Accepted, OnlyConn
      <4>2. Queued(p, d) => Queued(p, d)'
        BY DEF Queued, OnlyConn
      <4>3. ~Current(p, d) /\ ~InBatch(p, d)
        BY <1>0 DEF Current, InBatch
      <4> QED  BY <3>2, <4>1, <4>2, <4>3 DEF Pending
    <3> QED  BY <3>1, <3>2
  <2> QED  BY <2>1, <2>2, FrameConn
<1>2. ASSUME NEW q \in Procs \ {p} PROVE ProcInv(q)'
  <2>1. ProcInv(q) /\ SameProc(q) /\ TypeOK
    BY DEF HttpInv, OnlyConn
  <2>2. SameConnsOf(q)
    BY <1>0 DEF SameConnsOf, OnlyConn, SameConn
  <2> QED  BY <2>1, <2>2, FrameProc
<1>3. ~Queued(p, c)'
  BY <1>0 DEF OnlyConn, Queued
<1>4. QueueInv(p)'
  <2>1. rwQ'[p] = rwQ[p] /\ QueueInv(p) /\ rwQ[p] \in Seq(ConnEvent)
    BY DEF OnlyConn, HttpInv, ProcInv, TypeOK, ProcTypeOK
  <2>2. ASSUME NEW i \in DOMAIN rwQ'[p]
        PROVE  Expects(p, rwQ[p][i])'
    <3>1. PICK e \in ConnEvent : e = rwQ[p][i]
      BY <2>1, ElementOfSeq
    <3>2. e.conn \in Peers \ {c}
      BY <1>0, <2>1, <2>2, <3>1 DEF Queued, ConnEvent
    <3>3. SameConn(e.conn) /\ Expects(p, e)
      BY <2>1, <2>2, <3>1, <3>2 DEF OnlyConn, QueueInv
    <3>4. Expects(p, e)'
      BY <3>3 DEF Expects, SameConn
    <3> QED  BY <2>1, <3>1, <3>4 DEF Expects
  <2>3. \A i, j \in DOMAIN rwQ'[p] : rwQ'[p][i].conn = rwQ'[p][j].conn => i = j
    BY <2>1 DEF QueueInv
  <2> QED  BY <2>2, <2>3 DEF QueueInv
<1>5. pc'[p] \in {"loop", "handle"} => PhaseInv(p)' /\ AcceptInv(p)' /\ BatchInv(p)'
  BY <1>0 DEF OnlyConn, PhaseInv, AcceptInv, BatchInv, Accepted
<1> QED  BY <1>1, <1>2, <1>3, <1>4, <1>5

LEMMA UpdateStep ==
  ASSUME HttpInv, NEW p \in Procs, NEW c \in Peers, pc[p] = "handle", cur[p].conn = c,
         NEW g, NEW u, NEW cl, NEW a, NEW more,
         Update(p, c, g, u, cl, a, more), UpdateOK(p, c, g, u, cl, a, more)
  PROVE  HttpInv'
<1>0. TypeOK /\ CountInv /\ BacklogInv /\ ProcInv(p) /\ BufferInv(c) /\ ConnInv(c)
  BY DEF HttpInv
<1>1. /\ status[c] = "CONNECTED" /\ owner[c] = p /\ client[c].conn /\ ~Queued(p, c)
      /\ cur[p] \in ConnEvent /\ batch[p] = {} /\ acceptQ[p] = <<>>
  BY HandlingFacts
<1>2. /\ got' = [got EXCEPT ![c] = g] /\ used' = [used EXCEPT ![c] = u]
      /\ client' = [client EXCEPT ![c] = cl] /\ armed' = [armed EXCEPT ![c] = a]
      /\ UNCHANGED <<backlog, sent, gone, owner, status, connNum, listen, batch, acceptQ, rwQ>>
      /\ room' \in [Peers -> Nat] /\ base' \in [Peers -> Nat]
  BY DEF Update
<1>3. /\ pc' = [pc EXCEPT ![p] = IF more THEN "handle" ELSE "loop"]
      /\ cur' = [cur EXCEPT ![p] = IF more THEN cur[p] ELSE NoEvent]
  BY DEF Update
<1>4. /\ got'[c] = g /\ used'[c] = u /\ client'[c] = cl /\ armed'[c] = a
      /\ pc'[p] = IF more THEN "handle" ELSE "loop"
      /\ cur'[p] = IF more THEN cur[p] ELSE NoEvent
  BY <1>0, <1>2, <1>3 DEF TypeOK, ConnTypeOK, ProcTypeOK
<1>5. OnlyConn(p, c)
  <2>1. \A d \in Peers \ {c} : SameConn(d)
    BY <1>0, <1>2 DEF SameConn, TypeOK, ConnTypeOK
  <2>2. \A q \in Procs \ {p} : SameProc(q)
    BY <1>0, <1>2, <1>3 DEF SameProc, TypeOK, ProcTypeOK
  <2> QED  BY <1>2, <2>1, <2>2 DEF OnlyConn
<1>6. TypeOK'
  <2>1. NetTypeOK'
    BY <1>0, <1>2 DEF TypeOK, NetTypeOK
  <2>2. ConnTypeOK'
    <3>1. g \in Nat /\ u \in Nat /\ cl \in HttpClient /\ a \in {"off", "in", "inout"}
      BY DEF UpdateOK
    <3> QED  BY <1>0, <1>2, <3>1 DEF TypeOK, ConnTypeOK
  <2>3. pc' \in [Procs -> {"loop", "poll", "handle", "dead"}] /\ cur' \in [Procs -> ConnEvent \cup {NoEvent}]
    BY <1>0, <1>1, <1>3 DEF TypeOK, ProcTypeOK
  <2>4. ProcTypeOK'
    BY <1>0, <1>2, <2>3 DEF TypeOK, ProcTypeOK
  <2> QED  BY <2>1, <2>2, <2>4 DEF TypeOK
<1>7. BacklogInv' /\ CountInv'
  BY <1>0, <1>2, FrameCount DEF BacklogInv
<1>8. \A d \in Peers : BufferInv(d)'
  <2>1. BufferInv(c)'
    BY <1>0, <1>2, <1>4 DEF BufferInv, UpdateOK, TypeOK, NetTypeOK
  <2>2. \A d \in Peers \ {c} : BufferInv(d)'
    BY <1>2, <1>5 DEF HttpInv, BufferInv, OnlyConn, SameConn
  <2> QED  BY <2>1, <2>2
<1>9. ConnInv(c)'
  <2>1. armed'[c] = "inout" => client'[c].stage = "send"
    BY <1>4 DEF UpdateOK
  <2>2. armed'[c] # "off" \/ used'[c] < got'[c] \/ Pending(p, c)'
    BY <1>1, <1>4 DEF UpdateOK, Pending, Current
  <2>3. owner'[c] = p /\ client'[c].conn /\ status'[c] = "CONNECTED"
    BY <1>1, <1>2, <1>4 DEF UpdateOK
  <2> QED  BY <2>1, <2>2, <2>3 DEF ConnInv, None
<1>10. ProcInv(p)'
  <2>1. pc'[p] \in {"loop", "handle"}
    BY <1>4
  <2>2. PhaseInv(p)' /\ AcceptInv(p)' /\ BatchInv(p)' /\ QueueInv(p)' /\ ~Queued(p, c)'
    BY <1>5, <2>1, OthersKept
  <2>3. HandleInv(p)'
    <3>1. pc'[p] = "handle" => more /\ cur'[p] = cur[p] /\ cur'[p].conn = c
      BY <1>4
    <3>2. pc'[p] = "handle" => cur'[p] \in ConnEvent
      BY <1>1, <3>1
    <3>3. status'[c] = "CONNECTED" /\ owner'[c] = p /\ client'[c].conn
      BY <1>1, <1>2, <1>4 DEF UpdateOK
    <3>4. pc'[p] = "handle" /\ cur'[p].code = "WRITE" => client'[c].stage = "send" \/ armed'[c] # "off"
      BY <1>4, <3>1 DEF UpdateOK
    <3> QED  BY <2>2, <3>1, <3>2, <3>3, <3>4 DEF HandleInv, Current
  <2> QED  BY <2>2, <2>3 DEF ProcInv
<1>11. (\A d \in Peers : ConnInv(d)') /\ (\A q \in Procs : ProcInv(q)')
  BY <1>5, <1>9, <1>10, OthersKept
<1> QED  BY <1>6, <1>7, <1>8, <1>11 DEF HttpInv

LEMMA CloseStep ==
  ASSUME HttpInv, NEW p \in Procs, NEW c \in Peers, pc[p] = "handle", cur[p].conn = c, Closed(p, c)
  PROVE  HttpInv'
<1>0. TypeOK /\ CountInv /\ BacklogInv /\ ProcInv(p) /\ BufferInv(c)
  BY DEF HttpInv
<1>1. /\ status[c] = "CONNECTED" /\ owner[c] = p /\ batch[p] = {} /\ acceptQ[p] = <<>>
  BY HandlingFacts
<1>2. PICK g \in Nat : g <= sent[c] /\ got[c] <= g /\ got' = [got EXCEPT ![c] = g]
             /\ base' \in [Peers -> Nat]
  BY DEF Closed
<1>3. /\ used' = used /\ client' = [client EXCEPT ![c] = FreshClient(FALSE)]
      /\ armed' = [armed EXCEPT ![c] = "off"] /\ status' = [status EXCEPT ![c] = "INVALID"]
      /\ connNum' = [connNum EXCEPT ![p] = connNum[p] - 1]
      /\ UNCHANGED <<netVars, owner, listen, batch, acceptQ, rwQ>>
  BY DEF Closed, CloseConnection, ForceSocketClose
<1>4. pc' = [pc EXCEPT ![p] = "loop"] /\ cur' = [cur EXCEPT ![p] = NoEvent]
  BY DEF Closed, Resume
<1>5. OnlyConn(p, c)
  <2>1. \A d \in Peers \ {c} : SameConn(d)
    BY <1>0, <1>2, <1>3 DEF SameConn, TypeOK, ConnTypeOK
  <2>2. \A q \in Procs \ {p} : SameProc(q)
    BY <1>0, <1>3, <1>4 DEF SameProc, TypeOK, ProcTypeOK
  <2> QED  BY <1>3, <2>1, <2>2 DEF OnlyConn
<1>6. /\ status'[c] = "INVALID" /\ armed'[c] = "off" /\ got'[c] = g /\ used'[c] = used[c]
      /\ pc'[p] = "loop"
  BY <1>0, <1>2, <1>3, <1>4 DEF TypeOK, ConnTypeOK, ProcTypeOK
<1>7. TypeOK'
  <2>1. NetTypeOK'
    BY <1>0, <1>3 DEF TypeOK, NetTypeOK, netVars
  <2>2. ConnTypeOK'
    <3>1. FreshClient(FALSE) \in HttpClient
      BY DEF FreshClient, HttpClient, Stages
    <3> QED  BY <1>0, <1>2, <1>3, <3>1 DEF TypeOK, ConnTypeOK
  <2>3. ProcTypeOK'
    BY <1>0, <1>3, <1>4 DEF TypeOK, ProcTypeOK
  <2> QED  BY <2>1, <2>2, <2>3 DEF TypeOK
<1>8. BacklogInv'
  BY <1>0, <1>1, <1>3 DEF BacklogInv, netVars, TypeOK, NetTypeOK, ConnTypeOK, None
<1>9. CountInv'
  <2>1. ASSUME NEW q \in Procs \ {p}
        PROVE  IsFiniteSet(OpenConns(q)') /\ connNum'[q] = Cardinality(OpenConns(q)')
    <3>1. OpenConns(q)' = OpenConns(q)
      BY <1>0, <1>1, <1>3 DEF OpenConns, TypeOK, ConnTypeOK
    <3> QED  BY <1>0, <1>3, <3>1 DEF CountInv, TypeOK, ProcTypeOK
  <2>2. OpenConns(p)' = OpenConns(p) \ {c} /\ c \in OpenConns(p)
    BY <1>0, <1>1, <1>3 DEF OpenConns, TypeOK, ConnTypeOK
  <2>3. IsFiniteSet(OpenConns(p)) /\ connNum[p] = Cardinality(OpenConns(p))
    BY <1>0 DEF CountInv
  <2>4. IsFiniteSet(OpenConns(p) \ {c}) /\ Cardinality(OpenConns(p) \ {c}) = Cardinality(OpenConns(p)) - 1
    BY <2>2, <2>3, FS_RemoveElement
  <2>5. connNum'[p] = connNum[p] - 1
    BY <1>0, <1>3 DEF TypeOK, ProcTypeOK
  <2> QED  BY <2>1, <2>2, <2>3, <2>4, <2>5 DEF CountInv
<1>10. \A d \in Peers : BufferInv(d)'
  <2>1. BufferInv(c)'
    BY <1>0, <1>2, <1>3, <1>6 DEF BufferInv, netVars, TypeOK, ConnTypeOK, NetTypeOK
  <2>2. \A d \in Peers \ {c} : BufferInv(d)'
    BY <1>3, <1>5 DEF HttpInv, BufferInv, OnlyConn, SameConn, netVars
  <2> QED  BY <2>1, <2>2
<1>11. ConnInv(c)'
  BY <1>6 DEF ConnInv, None
<1>12. ProcInv(p)'
  <2>1. PhaseInv(p)' /\ AcceptInv(p)' /\ BatchInv(p)' /\ QueueInv(p)'
    BY <1>5, <1>6, OthersKept
  <2>2. HandleInv(p)'
    BY <1>6 DEF HandleInv, Current
  <2> QED  BY <2>1, <2>2 DEF ProcInv
<1>13. (\A d \in Peers : ConnInv(d)') /\ (\A q \in Procs : ProcInv(q)')
  BY <1>5, <1>11, <1>12, OthersKept
<1> QED  BY <1>7, <1>8, <1>9, <1>10, <1>13 DEF HttpInv

LEMMA KilledStep ==
  ASSUME HttpInv, NEW p \in Procs, NEW c \in Peers, KilledBySigpipe(p, c)
  PROVE  HttpInv'
<1>0. TypeOK /\ CountInv /\ BacklogInv /\ ProcInv(p)
  BY DEF HttpInv
<1>1. /\ pc' = [pc EXCEPT ![p] = "dead"] /\ cur' = [cur EXCEPT ![p] = NoEvent]
      /\ status' = [d \in Peers |-> IF owner[d] = p THEN "INVALID" ELSE status[d]]
      /\ armed' = [d \in Peers |-> IF owner[d] = p THEN "off" ELSE armed[d]]
      /\ listen' = [listen EXCEPT ![p] = FALSE] /\ connNum' = [connNum EXCEPT ![p] = 0]
      /\ rwQ' = [rwQ EXCEPT ![p] = <<>>]
      /\ UNCHANGED <<netVars, owner, got, base, used, client, replies, watching, batch, acceptQ>>
      /\ pc[p] = "handle" /\ cur[p].conn = c
  BY DEF KilledBySigpipe, Handling
<1>2. acceptQ[p] = <<>> /\ None # p
  BY <1>1, HandlingFacts, HttpAssumption
<1>3. /\ pc'[p] = "dead" /\ rwQ'[p] = <<>> /\ connNum'[p] = 0
      /\ \A q \in Procs \ {p} : SameProc(q) /\ connNum'[q] = connNum[q]
  BY <1>0, <1>1 DEF SameProc, TypeOK, ProcTypeOK
<1>4. \A d \in Peers : /\ owner[d] # p => SameConn(d)
                       /\ owner[d] = p => status'[d] = "INVALID" /\ armed'[d] = "off"
  BY <1>1 DEF SameConn
<1>5. TypeOK'
  <2>1. NetTypeOK'
    BY <1>0, <1>1 DEF TypeOK, NetTypeOK, netVars
  <2>2. ConnTypeOK'
    BY <1>0, <1>1 DEF TypeOK, ConnTypeOK
  <2>3. ProcTypeOK'
    <3>1. <<>> \in Seq(ConnEvent)
      BY EmptySeq
    <3> QED  BY <1>0, <1>1, <3>1 DEF TypeOK, ProcTypeOK
  <2> QED  BY <2>1, <2>2, <2>3 DEF TypeOK
<1>6. CountInv'
  <2>1. ASSUME NEW q \in Procs \ {p}
        PROVE  IsFiniteSet(OpenConns(q)') /\ connNum'[q] = Cardinality(OpenConns(q)')
    <3>1. OpenConns(q)' = OpenConns(q)
      BY <1>1 DEF OpenConns
    <3> QED  BY <1>0, <1>3, <3>1 DEF CountInv
  <2>2. OpenConns(p)' = {}
    BY <1>1 DEF OpenConns
  <2> QED  BY <1>3, <2>1, <2>2, FS_EmptySet DEF CountInv
<1>7. \A d \in Peers : BufferInv(d)'
  BY <1>1 DEF HttpInv, BufferInv, netVars
<1>8. ASSUME NEW d \in Peers PROVE ConnInv(d)'
  <2>1. CASE owner[d] = p
    BY <1>4, <2>1 DEF ConnInv, None
  <2>2. CASE owner[d] # p
    <3>1. ConnInv(d) /\ SameConn(d)
      BY <1>4, <2>2 DEF HttpInv
    <3>2. ASSUME NEW q \in Procs, owner[d] = q
          PROVE  /\ Accepted(q, d) => Accepted(q, d)'
                 /\ Pending(q, d) => Pending(q, d)'
      <4>1. SameProc(q)
        BY <1>3, <2>2, <3>2
      <4> QED  BY <4>1, SameProcFacts DEF Pending
    <3> QED  BY <3>1, <3>2, FrameConn
  <2> QED  BY <2>1, <2>2
<1>9. ASSUME NEW q \in Procs PROVE ProcInv(q)'
  <2>1. CASE q = p
    <3>1. PhaseInv(p)' /\ AcceptInv(p)' /\ BatchInv(p)' /\ QueueInv(p)' /\ HandleInv(p)'
      BY <1>1, <1>2, <1>3 DEF PhaseInv, AcceptInv, BatchInv, QueueInv, HandleInv, Accepted, Current
    <3> QED  BY <2>1, <3>1 DEF ProcInv
  <2>2. CASE q # p
    <3>1. ProcInv(q) /\ SameProc(q)
      BY <1>3, <2>2 DEF HttpInv
    <3>2. SameConnsOf(q)
      BY <1>4, <2>2 DEF SameConnsOf, SameConn
    <3> QED  BY <1>0, <3>1, <3>2, FrameProc
  <2> QED  BY <2>1, <2>2
<1>10. BacklogInv'
  <2>1. ASSUME NEW i \in DOMAIN backlog PROVE status'[backlog[i]] = None
    <3>1. PICK d \in Peers : d = backlog[i] /\ status[d] = None
      BY <1>0, <2>1, ElementOfSeq DEF BacklogInv, TypeOK, NetTypeOK
    <3>2. owner[d] = None
      BY <3>1 DEF HttpInv, ConnInv
    <3> QED  BY <1>1, <1>2, <3>1, <3>2
  <2> QED  BY <1>0, <1>1, <2>1 DEF BacklogInv, netVars
<1> QED  BY <1>5, <1>6, <1>7, <1>8, <1>9, <1>10 DEF HttpInv

-----------------------------------------------------------------------------
(* The peers and the loop preserve the invariant *)

LEMMA TailFacts ==
  ASSUME NEW S, NEW s \in Seq(S), s # <<>>
  PROVE  /\ Head(s) \in S /\ Head(s) = s[1] /\ 1 \in DOMAIN s /\ Tail(s) \in Seq(S)
         /\ \A i \in DOMAIN Tail(s) : i + 1 \in DOMAIN s /\ Tail(s)[i] = s[i + 1] /\ i + 1 # 1
         /\ \A i \in DOMAIN s : i # 1 => i - 1 \in DOMAIN Tail(s) /\ Tail(s)[i - 1] = s[i]
         /\ \A i, j \in DOMAIN Tail(s) : i + 1 = j + 1 => i = j
<1>1. Len(s) \in Nat /\ Len(s) >= 1 /\ DOMAIN s = 1..Len(s)
  BY EmptySeq, LenProperties
<1>2. Tail(s) \in Seq(S) /\ Len(Tail(s)) = Len(s) - 1 /\ DOMAIN Tail(s) = 1..(Len(s) - 1)
  BY <1>1, HeadTailProperties, LenProperties
<1>3. \A i \in 1..(Len(s) - 1) : Tail(s)[i] = s[i + 1]
  BY <1>1, HeadTailProperties
<1>4. Head(s) \in S /\ Head(s) = s[1]
  BY HeadTailProperties
<1> QED  BY <1>1, <1>2, <1>3, <1>4

LEMMA AppendFacts ==
  ASSUME NEW S, NEW s \in Seq(S), NEW x \in S
  PROVE  /\ Append(s, x) \in Seq(S)
         /\ \A i \in DOMAIN s : i \in DOMAIN Append(s, x) /\ Append(s, x)[i] = s[i] /\ i # Len(s) + 1
         /\ Len(s) + 1 \in DOMAIN Append(s, x) /\ Append(s, x)[Len(s) + 1] = x
         /\ \A i \in DOMAIN Append(s, x) : i \in DOMAIN s \/ i = Len(s) + 1
<1>1. Len(s) \in Nat /\ DOMAIN s = 1..Len(s)
  BY LenProperties
<1>2. /\ Append(s, x) \in Seq(S) /\ Len(Append(s, x)) = Len(s) + 1
      /\ \A i \in 1..Len(s) : Append(s, x)[i] = s[i]
      /\ Append(s, x)[Len(s) + 1] = x
  BY AppendProperties
<1>3. DOMAIN Append(s, x) = 1..(Len(s) + 1)
  BY <1>2, LenProperties
<1> QED  BY <1>1, <1>2, <1>3

\* A step that changes no connection and no process.
LEMMA AllKept ==
  ASSUME HttpInv, UNCHANGED <<connVars, procVars>>
  PROVE  CountInv' /\ (\A d \in Peers : ConnInv(d)') /\ (\A q \in Procs : ProcInv(q)')
<1>0. TypeOK /\ CountInv
  BY DEF HttpInv
<1>1. \A q \in Procs : SameProc(q) /\ SameConnsOf(q)
  BY DEF connVars, procVars, SameProc, SameConnsOf
<1>2. \A d \in Peers : SameConn(d)
  BY DEF connVars, SameConn
<1>3. CountInv'
  BY <1>0, FrameCount DEF connVars, procVars
<1>4. ASSUME NEW d \in Peers PROVE ConnInv(d)'
  <2>1. \A q \in Procs : (Accepted(q, d) => Accepted(q, d)') /\ (Pending(q, d) => Pending(q, d)')
    BY <1>1, SameProcFacts DEF Pending
  <2>2. ConnInv(d)
    BY DEF HttpInv
  <2> QED  BY <1>2, <2>1, <2>2, FrameConn
<1>5. ASSUME NEW q \in Procs PROVE ProcInv(q)'
  <2>1. ProcInv(q)
    BY DEF HttpInv
  <2> QED  BY <1>0, <1>1, <2>1, FrameProc
<1> QED  BY <1>3, <1>4, <1>5

LEMMA PeerStep ==
  ASSUME HttpInv, NEW c \in Peers, Connect(c) \/ Deliver(c) \/ Drain(c) \/ Leave(c)
  PROVE  HttpInv'
<1>0. TypeOK /\ BacklogInv
  BY DEF HttpInv
<1>1. UNCHANGED <<connVars, procVars>>
  BY DEF Connect, Deliver, Drain, Leave
<1>2. ConnTypeOK' /\ ProcTypeOK'
  BY <1>0, <1>1 DEF TypeOK, ConnTypeOK, ProcTypeOK, connVars, procVars
<1>3. CASE Connect(c)
  <2>1. backlog' = Append(backlog, c) /\ UNCHANGED <<sent, gone, room>>
        /\ status[c] = None /\ ~Connecting(c) /\ backlog \in Seq(Peers)
    BY <1>0, <1>3 DEF Connect, TypeOK, NetTypeOK
  <2>2. NetTypeOK'
    BY <1>0, <2>1, AppendFacts DEF TypeOK, NetTypeOK
  <2>3. BacklogInv'
    <3>1. PICK b : b = backlog'
      OBVIOUS
    <3>2. PICK n : n = Len(backlog) + 1
      OBVIOUS
    <3>3. /\ \A i \in DOMAIN backlog : i \in DOMAIN b /\ b[i] = backlog[i]
          /\ b[n] = c /\ \A i \in DOMAIN b : i \in DOMAIN backlog \/ i = n
      BY <2>1, <3>1, <3>2, AppendFacts
    <3>4. \A i \in DOMAIN backlog : backlog[i] # c
      BY <2>1 DEF Connecting
    <3>5. \A i \in DOMAIN b : status[b[i]] = None
      BY <1>0, <2>1, <3>3 DEF BacklogInv
    <3>6. \A i, j \in DOMAIN b : b[i] = b[j] => i = j
      BY <1>0, <3>3, <3>4 DEF BacklogInv
    <3> QED  BY <1>1, <3>1, <3>5, <3>6 DEF BacklogInv, connVars
  <2>4. \A d \in Peers : BufferInv(d)'
    BY <1>1, <2>1 DEF HttpInv, BufferInv, connVars
  <2> QED  BY <1>1, <1>2, <2>2, <2>3, <2>4, AllKept DEF HttpInv, TypeOK
<1>4. CASE Deliver(c)
  <2>1. PICK n \in Cuts[c] : n > sent[c] /\ sent' = [sent EXCEPT ![c] = n]
    BY <1>4 DEF Deliver
  <2>2. n \in Nat /\ n <= Len(Stream[c])
    <3>1. n \in DOMAIN Stream[c] /\ Stream[c] \in Seq(Tokens)
      BY HttpAssumption
    <3> QED  BY <3>1
  <2>3. UNCHANGED <<backlog, gone, room>>
    BY <1>4 DEF Deliver
  <2>4. NetTypeOK'
    BY <1>0, <2>1, <2>2, <2>3 DEF TypeOK, NetTypeOK
  <2>5. BacklogInv'
    BY <1>0, <1>1, <2>3 DEF BacklogInv, connVars
  <2>6. ASSUME NEW d \in Peers PROVE BufferInv(d)'
    <3>1. /\ used[d] \in Nat /\ got[d] \in Nat /\ sent[d] \in Nat
          /\ used[d] <= got[d] /\ got[d] <= sent[d] /\ sent[d] <= Len(Stream[d])
      BY <1>0 DEF HttpInv, BufferInv, TypeOK, ConnTypeOK, NetTypeOK
    <3>2. sent'[d] = IF d = c THEN n ELSE sent[d]
      BY <1>0, <2>1 DEF TypeOK, NetTypeOK
    <3>3. used'[d] = used[d] /\ got'[d] = got[d]
      BY <1>1 DEF connVars
    <3> QED  BY <2>1, <2>2, <3>1, <3>2, <3>3 DEF BufferInv
  <2> QED  BY <1>1, <1>2, <2>4, <2>5, <2>6, AllKept DEF HttpInv, TypeOK
<1>5. CASE Drain(c) \/ Leave(c)
  <2>1. UNCHANGED <<backlog, sent>>
    BY <1>5 DEF Drain, Leave
  <2>2. NetTypeOK'
    <3>1. SndBuf \in Nat
      BY HttpAssumption
    <3> QED  BY <1>0, <1>5, <3>1 DEF Drain, Leave, TypeOK, NetTypeOK
  <2>3. BacklogInv'
    BY <1>0, <1>1, <2>1 DEF BacklogInv, connVars
  <2>4. \A d \in Peers : BufferInv(d)'
    BY <1>1, <2>1 DEF HttpInv, BufferInv, connVars
  <2> QED  BY <1>1, <1>2, <2>2, <2>3, <2>4, AllKept DEF HttpInv, TypeOK
<1> QED  BY <1>3, <1>4, <1>5

\* A step of process p that leaves the others and their connections alone.
LEMMA OtherProcs ==
  ASSUME HttpInv, NEW p \in Procs,
         \A q \in Procs \ {p} : SameProc(q) /\ SameConnsOf(q)
  PROVE  \A q \in Procs \ {p} : ProcInv(q)'
<1> SUFFICES ASSUME NEW q \in Procs \ {p} PROVE ProcInv(q)'
  OBVIOUS
<1>1. TypeOK /\ ProcInv(q)
  BY DEF HttpInv
<1> QED  BY <1>1, FrameProc

\* A step of process p that changes no connection: p may move events of a
\* connection about, but loses none.
LEMMA MoveStep ==
  ASSUME HttpInv, NEW p \in Procs, UNCHANGED <<netVars, connVars, connNum>>, ProcTypeOK',
         \A q \in Procs \ {p} : SameProc(q),
         \A d \in Peers : (Accepted(p, d) => Accepted(p, d)') /\ (Pending(p, d) => Pending(p, d)'),
         ProcInv(p)'
  PROVE  HttpInv'
<1>0. TypeOK /\ CountInv
  BY DEF HttpInv
<1>1. TypeOK'
  BY <1>0 DEF TypeOK, NetTypeOK, ConnTypeOK, netVars, connVars
<1>2. BacklogInv' /\ CountInv'
  BY <1>0, FrameCount DEF HttpInv, BacklogInv, netVars, connVars
<1>3. \A d \in Peers : BufferInv(d)'
  BY DEF HttpInv, BufferInv, netVars, connVars
<1>4. ASSUME NEW d \in Peers PROVE ConnInv(d)'
  <2>1. ASSUME NEW q \in Procs
        PROVE  (Accepted(q, d) => Accepted(q, d)') /\ (Pending(q, d) => Pending(q, d)')
    <3>1. CASE q = p
      BY <3>1
    <3>2. CASE q # p
      <4>1. SameProc(q)
        BY <3>2
      <4> QED  BY <4>1, SameProcFacts DEF Pending
    <3> QED  BY <3>1, <3>2
  <2>2. ConnInv(d) /\ SameConn(d)
    BY DEF HttpInv, SameConn, connVars
  <2> QED  BY <2>1, <2>2, FrameConn
<1>5. \A q \in Procs \ {p} : SameConnsOf(q)
  BY DEF SameConnsOf, connVars
<1>6. \A q \in Procs : ProcInv(q)'
  BY <1>5, OtherProcs
<1> QED  BY <1>1, <1>2, <1>3, <1>4, <1>6 DEF HttpInv

LEMMA WatchListenerStep ==
  ASSUME HttpInv, NEW p \in Procs, WatchListener(p)
  PROVE  HttpInv'
<1>0. TypeOK /\ ProcInv(p) /\ batch[p] = {}
  BY DEF HttpInv, WatchListener, ProcInv, PhaseInv
<1>1. /\ pc[p] = "loop" /\ pc' = [pc EXCEPT ![p] = "poll"]
      /\ UNCHANGED <<netVars, connVars, connNum, batch, acceptQ, rwQ, cur>>
  BY DEF WatchListener
<1>2. listen' \in [Procs -> BOOLEAN]
  BY <1>0 DEF WatchListener, UnwatchSocket, WatchRawSocket, TypeOK, ProcTypeOK
<1>3. ProcTypeOK'
  BY <1>0, <1>1, <1>2 DEF TypeOK, ProcTypeOK
<1>4. pc'[p] = "poll" /\ \A q \in Procs \ {p} : SameProc(q)
  BY <1>0, <1>1 DEF SameProc, TypeOK, ProcTypeOK
<1>5. ASSUME NEW d \in Peers
      PROVE  /\ Accepted(p, d) <=> Accepted(p, d)'
             /\ Queued(p, d) <=> Queued(p, d)'
             /\ InBatch(p, d) <=> InBatch(p, d)'
             /\ ~Current(p, d)
  BY <1>1, <1>4 DEF Accepted, Queued, InBatch, Current
<1>6. ProcInv(p)'
  <2>1. PhaseInv(p)'
    BY <1>4 DEF PhaseInv
  <2>2. AcceptInv(p)'
    BY <1>0, <1>1, <1>5 DEF ProcInv, AcceptInv, connVars
  <2>3. BatchInv(p)'
    BY <1>0, <1>1 DEF BatchInv
  <2>4. QueueInv(p)'
    BY <1>0, <1>1 DEF ProcInv, QueueInv, Expects, connVars
  <2>5. HandleInv(p)'
    BY <1>4 DEF HandleInv, Current
  <2> QED  BY <2>1, <2>2, <2>3, <2>4, <2>5 DEF ProcInv
<1> QED  BY <1>1, <1>3, <1>4, <1>5, <1>6, MoveStep DEF Pending

LEMMA HandleReadWriteStep ==
  ASSUME HttpInv, NEW p \in Procs, HandleReadWrite(p)
  PROVE  HttpInv'
<1>0. TypeOK /\ ProcInv(p) /\ rwQ[p] \in Seq(ConnEvent)
  BY DEF HttpInv, TypeOK, ProcTypeOK
<1>1. /\ pc[p] = "poll" /\ batch[p] = {} /\ acceptQ[p] = <<>> /\ rwQ[p] # <<>>
      /\ cur' = [cur EXCEPT ![p] = Head(rwQ[p])]
      /\ rwQ' = [rwQ EXCEPT ![p] = Tail(rwQ[p])]
      /\ pc' = [pc EXCEPT ![p] = "handle"]
      /\ UNCHANGED <<netVars, connVars, watching, listen, connNum, batch, acceptQ>>
  BY DEF HandleReadWrite
<1>2. PICK s, t, e : s = rwQ[p] /\ t = Tail(s) /\ e = Head(s)
  OBVIOUS
<1>3. /\ e \in ConnEvent /\ e = s[1] /\ 1 \in DOMAIN s /\ t \in Seq(ConnEvent)
      /\ \A i \in DOMAIN t : i + 1 \in DOMAIN s /\ t[i] = s[i + 1] /\ i + 1 # 1
      /\ \A i \in DOMAIN s : i # 1 => i - 1 \in DOMAIN t /\ t[i - 1] = s[i]
      /\ \A i, j \in DOMAIN t : i + 1 = j + 1 => i = j
  BY <1>0, <1>1, <1>2, TailFacts
<1>4. /\ pc'[p] = "handle" /\ cur'[p] = e /\ rwQ'[p] = t
      /\ \A q \in Procs \ {p} : SameProc(q)
  BY <1>0, <1>1, <1>2 DEF SameProc, TypeOK, ProcTypeOK
<1>5. ProcTypeOK'
  BY <1>0, <1>1, <1>2, <1>3 DEF TypeOK, ProcTypeOK
<1>6. /\ Expects(p, e) /\ e.conn \in Peers
      /\ \A i \in DOMAIN s : s[i].conn = e.conn => i = 1
  BY <1>0, <1>2, <1>3 DEF ProcInv, QueueInv, ConnEvent
<1>7. ~Queued(p, e.conn)'
  BY <1>3, <1>4, <1>6 DEF Queued
<1>8. ASSUME NEW d \in Peers
      PROVE  (Accepted(p, d) => Accepted(p, d)') /\ (Pending(p, d) => Pending(p, d)')
  <2>1. Accepted(p, d) => Accepted(p, d)'
    BY <1>1 DEF Accepted
  <2>2. ~InBatch(p, d) /\ ~Current(p, d)
    BY <1>1 DEF InBatch, Current
  <2>3. ASSUME Queued(p, d) PROVE Queued(p, d)' \/ Current(p, d)'
    <3>1. PICK i \in DOMAIN s : s[i].conn = d
      BY <1>2, <2>3 DEF Queued
    <3>2. CASE i = 1
      BY <1>3, <1>4, <3>1, <3>2 DEF Current
    <3>3. CASE i # 1
      <4>1. i - 1 \in DOMAIN t /\ t[i - 1] = s[i]
        BY <1>3, <3>3
      <4> QED  BY <1>4, <3>1, <4>1 DEF Queued
    <3> QED  BY <3>2, <3>3
  <2> QED  BY <2>1, <2>2, <2>3 DEF Pending
<1>9. ProcInv(p)'
  <2>1. PhaseInv(p)' /\ AcceptInv(p)' /\ BatchInv(p)'
    BY <1>1, <1>4 DEF PhaseInv, AcceptInv, BatchInv, Accepted
  <2>2. QueueInv(p)'
    <3>1. ASSUME NEW i \in DOMAIN t PROVE Expects(p, t[i])'
      <4>1. PICK f : f = t[i] /\ f = s[i + 1] /\ i + 1 \in DOMAIN s
        BY <1>3
      <4>2. Expects(p, f)
        BY <1>0, <1>2, <4>1 DEF ProcInv, QueueInv
      <4> QED  BY <1>1, <4>1, <4>2 DEF Expects, connVars
    <3>2. \A i, j \in DOMAIN t : t[i].conn = t[j].conn => i = j
      <4>1. \A i, j \in DOMAIN s : s[i].conn = s[j].conn => i = j
        BY <1>0, <1>2 DEF ProcInv, QueueInv
      <4> QED  BY <1>3, <4>1
    <3> QED  BY <1>4, <3>1, <3>2 DEF QueueInv, Expects
  <2>3. HandleInv(p)'
    <3>1. status[e.conn] = "CONNECTED" /\ owner[e.conn] = p /\ (e.code = "WRITE" => client[e.conn].stage = "send")
      BY <1>6 DEF Expects
    <3>2. client[e.conn].conn
      <4>1. ConnInv(e.conn)
        BY <1>6 DEF HttpInv
      <4>2. client[e.conn].conn \/ Accepted(p, e.conn)
        BY <3>1, <4>1 DEF ConnInv
      <4> QED  BY <1>1, <4>2 DEF Accepted
    <3>3. pc'[p] = "handle" => cur'[p] \in ConnEvent
      BY <1>3, <1>4
    <3>4. ASSUME NEW c \in Peers, Current(p, c)'
          PROVE  /\ status'[c] = "CONNECTED" /\ owner'[c] = p /\ client'[c].conn /\ ~Queued(p, c)'
                 /\ cur'[p].code = "WRITE" => client'[c].stage = "send" \/ armed'[c] # "off"
      <4>1. c = e.conn
        BY <1>4, <3>4 DEF Current
      <4> QED  BY <1>1, <1>4, <1>7, <3>1, <3>2, <4>1 DEF connVars
    <3> QED  BY <3>3, <3>4 DEF HandleInv
  <2> QED  BY <2>1, <2>2, <2>3 DEF ProcInv
<1> QED  BY <1>1, <1>4, <1>5, <1>8, <1>9, MoveStep

LEMMA QueueEventStep ==
  ASSUME HttpInv, NEW p \in Procs, QueueEvent(p)
  PROVE  HttpInv'
<1>0. /\ TypeOK /\ ProcInv(p) /\ rwQ[p] \in Seq(ConnEvent)
      /\ batch[p] \subseteq ConnEvent \cup {AcceptEvent}
  BY DEF HttpInv, TypeOK, ProcTypeOK
<1>1. PICK e \in batch[p] :
        /\ e.conn # Listener /\ pc[p] = "poll" /\ batch' = [batch EXCEPT ![p] = batch[p] \ {e}]
        /\ rwQ' = IF status[e.conn] = "CONNECTED"
                    THEN [rwQ EXCEPT ![p] = Append(rwQ[p], e)] ELSE rwQ
  BY DEF QueueEvent, TakeEvent
<1>2. UNCHANGED <<netVars, connVars, watching, listen, connNum, acceptQ, pc, cur>>
  BY DEF QueueEvent
<1>3. e # AcceptEvent /\ e \in ConnEvent /\ e.conn \in Peers
  BY <1>0, <1>1 DEF AcceptEvent, ConnEvent
<1>4. /\ Expects(p, e) /\ ~Queued(p, e.conn)
      /\ \A f \in batch[p] : e.conn = f.conn => e = f
  BY <1>0, <1>1, <1>3 DEF ProcInv, BatchInv
<1>5. PICK s, t, n : s = rwQ[p] /\ t = Append(s, e) /\ n = Len(s) + 1
  OBVIOUS
<1>6. /\ t \in Seq(ConnEvent)
      /\ \A i \in DOMAIN s : i \in DOMAIN t /\ t[i] = s[i] /\ i # n
      /\ n \in DOMAIN t /\ t[n] = e
      /\ \A i \in DOMAIN t : i \in DOMAIN s \/ i = n
  BY <1>0, <1>3, <1>5, AppendFacts
<1>7. rwQ' = [rwQ EXCEPT ![p] = t]
  BY <1>1, <1>4, <1>5 DEF Expects
<1>8. /\ pc'[p] = "poll" /\ rwQ'[p] = t /\ batch'[p] = batch[p] \ {e} /\ acceptQ'[p] = acceptQ[p]
      /\ \A q \in Procs \ {p} : SameProc(q)
  BY <1>0, <1>1, <1>2, <1>7 DEF SameProc, TypeOK, ProcTypeOK
<1>9. ProcTypeOK'
  BY <1>0, <1>1, <1>2, <1>6, <1>7 DEF TypeOK, ProcTypeOK
<1>10. \A d : Queued(p, d)' <=> Queued(p, d) \/ d = e.conn
  BY <1>5, <1>6, <1>8 DEF Queued
<1>11. ASSUME NEW d \in Peers
       PROVE  (Accepted(p, d) => Accepted(p, d)') /\ (Pending(p, d) => Pending(p, d)')
  <2>1. Accepted(p, d) => Accepted(p, d)'
    BY <1>2 DEF Accepted
  <2>2. ~Current(p, d)
    BY <1>1 DEF Current
  <2>3. InBatch(p, d) => InBatch(p, d)' \/ d = e.conn
    BY <1>8 DEF InBatch
  <2> QED  BY <1>10, <2>1, <2>2, <2>3 DEF Pending
<1>12. ProcInv(p)'
  <2>1. PhaseInv(p)' /\ HandleInv(p)'
    BY <1>8 DEF PhaseInv, HandleInv, Current
  <2>2. AcceptInv(p)'
    <3> SUFFICES ASSUME NEW c \in Peers, Accepted(p, c)'
                 PROVE  /\ status'[c] = "CONNECTED" /\ owner'[c] = p /\ armed'[c] = "in"
                        /\ ~InBatch(p, c)' /\ ~Queued(p, c)'
      BY DEF AcceptInv
    <3>1. Accepted(p, c)
      BY <1>8 DEF Accepted
    <3>2. status[c] = "CONNECTED" /\ owner[c] = p /\ armed[c] = "in" /\ ~InBatch(p, c) /\ ~Queued(p, c)
      BY <1>0, <3>1 DEF ProcInv, AcceptInv
    <3>3. c # e.conn /\ ~InBatch(p, c)'
      BY <1>1, <1>8, <3>2 DEF InBatch
    <3> QED  BY <1>2, <1>10, <3>2, <3>3 DEF connVars
  <2>3. BatchInv(p)'
    <3> SUFFICES ASSUME NEW f \in batch'[p], NEW g \in batch'[p], f # AcceptEvent
                 PROVE  Expects(p, f)' /\ ~Queued(p, f.conn)' /\ (f.conn = g.conn => f = g)
      BY DEF BatchInv
    <3>1. f \in batch[p] /\ g \in batch[p] /\ f # e
      BY <1>8
    <3>2. Expects(p, f) /\ ~Queued(p, f.conn) /\ (f.conn = g.conn => f = g)
      BY <1>0, <1>1, <3>1 DEF ProcInv, BatchInv
    <3>3. Expects(p, f)'
      BY <1>2, <3>2 DEF Expects, connVars
    <3>4. f.conn # e.conn
      BY <1>4, <3>1
    <3> QED  BY <1>10, <3>2, <3>3, <3>4
  <2>4. QueueInv(p)'
    <3>1. ASSUME NEW i \in DOMAIN t PROVE Expects(p, t[i])'
      <4>1. PICK f : f = t[i]
        OBVIOUS
      <4>2. Expects(p, f)
        BY <1>0, <1>4, <1>5, <1>6, <4>1 DEF ProcInv, QueueInv
      <4> QED  BY <1>2, <4>1, <4>2 DEF Expects, connVars
    <3>2. \A i, j \in DOMAIN t : t[i].conn = t[j].conn => i = j
      <4>1. \A i, j \in DOMAIN s : s[i].conn = s[j].conn => i = j
        BY <1>0, <1>5 DEF ProcInv, QueueInv
      <4>2. \A i \in DOMAIN s : s[i].conn # e.conn
        BY <1>4, <1>5 DEF Queued
      <4> QED  BY <1>6, <4>1, <4>2
    <3> QED  BY <1>8, <3>1, <3>2 DEF QueueInv, Expects
  <2> QED  BY <2>1, <2>2, <2>3, <2>4 DEF ProcInv
<1> QED  BY <1>2, <1>8, <1>9, <1>11, <1>12, MoveStep

LEMMA HandleAcceptedStep ==
  ASSUME HttpInv, NEW p \in Procs, HandleAccepted(p)
  PROVE  HttpInv'
<1>0. TypeOK /\ CountInv /\ BacklogInv /\ ProcInv(p) /\ acceptQ[p] \in Seq(Peers)
  BY DEF HttpInv, TypeOK, ProcTypeOK
<1>1. /\ pc[p] = "poll" /\ batch[p] = {} /\ acceptQ[p] # <<>>
      /\ acceptQ' = [acceptQ EXCEPT ![p] = Tail(acceptQ[p])]
      /\ client' = [client EXCEPT ![Head(acceptQ[p])] = FreshClient(TRUE)]
      /\ pc' = [pc EXCEPT ![p] = "loop"]
      /\ UNCHANGED <<netVars, owner, status, armed, got, base, used, replies, watching,
                     listen, connNum, batch, rwQ, cur>>
  BY DEF HandleAccepted
<1>2. PICK s, t, c : s = acceptQ[p] /\ t = Tail(s) /\ c = Head(s)
  OBVIOUS
<1>3. /\ c \in Peers /\ c = s[1] /\ 1 \in DOMAIN s /\ t \in Seq(Peers)
      /\ \A i \in DOMAIN t : i + 1 \in DOMAIN s /\ t[i] = s[i + 1]
      /\ \A i \in DOMAIN s : i # 1 => i - 1 \in DOMAIN t /\ t[i - 1] = s[i]
  BY <1>0, <1>1, <1>2, TailFacts
<1>4. FreshClient(TRUE) \in HttpClient /\ FreshClient(TRUE).conn
  BY DEF FreshClient, HttpClient, Stages
<1>5. Accepted(p, c) /\ status[c] = "CONNECTED" /\ owner[c] = p /\ armed[c] = "in" /\ ~Queued(p, c)
  <2>1. Accepted(p, c)
    BY <1>2, <1>3 DEF Accepted
  <2> QED  BY <1>0, <1>3, <2>1 DEF ProcInv, AcceptInv
<1>6. /\ pc'[p] = "loop" /\ acceptQ'[p] = t /\ client'[c].conn
      /\ \A q \in Procs \ {p} : SameProc(q)
      /\ \A d \in Peers \ {c} : SameConn(d)
  BY <1>0, <1>1, <1>2, <1>3, <1>4 DEF SameProc, SameConn, TypeOK, ProcTypeOK, ConnTypeOK
<1>7. \A d \in Peers \ {c} : Accepted(p, d) => Accepted(p, d)'
  BY <1>2, <1>3, <1>6 DEF Accepted
<1>8. \A d \in Peers : Accepted(p, d)' => Accepted(p, d)
  BY <1>2, <1>3, <1>6 DEF Accepted
<1>9. TypeOK'
  <2>1. NetTypeOK'
    BY <1>0, <1>1 DEF TypeOK, NetTypeOK, netVars
  <2>2. ConnTypeOK'
    BY <1>0, <1>1, <1>2, <1>3, <1>4 DEF TypeOK, ConnTypeOK
  <2>3. ProcTypeOK'
    BY <1>0, <1>1, <1>2, <1>3 DEF TypeOK, ProcTypeOK
  <2> QED  BY <2>1, <2>2, <2>3 DEF TypeOK
<1>10. BacklogInv' /\ CountInv'
  BY <1>0, <1>1, FrameCount DEF BacklogInv, netVars
<1>11. \A d \in Peers : BufferInv(d)'
  BY <1>1 DEF HttpInv, BufferInv, netVars
<1>12. ASSUME NEW d \in Peers PROVE ConnInv(d)'
  <2>1. CASE d = c
    BY <1>1, <1>5, <1>6, <2>1 DEF ConnInv, None
  <2>2. CASE d # c
    <3>1. ASSUME NEW q \in Procs
          PROVE  (Accepted(q, d) => Accepted(q, d)') /\ (Pending(q, d) => Pending(q, d)')
      <4>1. CASE q = p
        <5>1. ~Current(p, d) /\ ~InBatch(p, d) /\ (Queued(p, d) => Queued(p, d)')
          BY <1>1 DEF Current, InBatch, Queued
        <5> QED  BY <1>7, <2>2, <4>1, <5>1 DEF Pending
      <4>2. CASE q # p
        <5>1. SameProc(q)
          BY <1>6, <4>2
        <5> QED  BY <5>1, SameProcFacts DEF Pending
      <4> QED  BY <4>1, <4>2
    <3>2. ConnInv(d) /\ SameConn(d)
      BY <1>6, <2>2 DEF HttpInv
    <3> QED  BY <3>1, <3>2, FrameConn
  <2> QED  BY <2>1, <2>2
<1>13. \A q \in Procs \ {p} : ProcInv(q)'
  <2>1. \A q \in Procs \ {p} : SameConnsOf(q)
    BY <1>5, <1>6 DEF SameConnsOf, SameConn
  <2> QED  BY <1>6, <2>1, OtherProcs
<1>14. ProcInv(p)'
  <2>1. PhaseInv(p)' /\ BatchInv(p)' /\ HandleInv(p)'
    BY <1>1, <1>6 DEF PhaseInv, BatchInv, HandleInv, Current
  <2>2. AcceptInv(p)'
    <3> SUFFICES ASSUME NEW d \in Peers, Accepted(p, d)'
                 PROVE  /\ status'[d] = "CONNECTED" /\ owner'[d] = p /\ armed'[d] = "in"
                        /\ ~InBatch(p, d)' /\ ~Queued(p, d)'
      BY DEF AcceptInv
    <3>1. status[d] = "CONNECTED" /\ owner[d] = p /\ armed[d] = "in" /\ ~InBatch(p, d) /\ ~Queued(p, d)
      BY <1>0, <1>8 DEF ProcInv, AcceptInv
    <3> QED  BY <1>1, <3>1 DEF InBatch, Queued
  <2>3. QueueInv(p)'
    <3>1. rwQ[p] \in Seq(ConnEvent) /\ rwQ' = rwQ /\ QueueInv(p)
      BY <1>0, <1>1 DEF TypeOK, ProcTypeOK, ProcInv
    <3>2. ASSUME NEW i \in DOMAIN rwQ[p] PROVE Expects(p, rwQ[p][i])'
      <4>0. PICK e \in ConnEvent : e = rwQ[p][i]
        BY <3>1, <3>2, ElementOfSeq
      <4>1. e = rwQ[p][i] /\ e.conn \in Peers /\ e.conn # c
        BY <1>5, <3>2, <4>0 DEF Queued, ConnEvent
      <4>2. Expects(p, e) /\ SameConn(e.conn)
        BY <1>6, <3>1, <4>1 DEF QueueInv
      <4>3. Expects(p, e)'
        BY <4>2 DEF Expects, SameConn
      <4> QED  BY <3>1, <4>1, <4>3 DEF Expects
    <3> QED  BY <3>1, <3>2 DEF QueueInv
  <2> QED  BY <2>1, <2>2, <2>3 DEF ProcInv
<1> QED  BY <1>9, <1>10, <1>11, <1>12, <1>13, <1>14 DEF HttpInv

\* Of a connection, epoll_wait returns one event, and only if it is watched.
LEMMA PollFacts ==
  ASSUME HttpInv, NEW p \in Procs, NEW e \in PollEvents(p)
  PROVE  \/ e = AcceptEvent
         \/ /\ e \in ConnEvent /\ owner[e.conn] = p /\ armed[e.conn] # "off"
            /\ e.code = "READ" <=> Readable(e.conn)
            /\ e.code = "WRITE" => armed[e.conn] = "inout"
<1>1. CASE \E c \in Peers : /\ owner[c] = p /\ armed[c] # "off" /\ Readable(c)
                            /\ e = [conn |-> c, code |-> "READ"]
  BY <1>1 DEF ConnEvent
<1>2. CASE \E c \in Peers : /\ owner[c] = p /\ armed[c] = "inout" /\ ~Readable(c)
                            /\ e = [conn |-> c, code |-> "WRITE"]
  BY <1>2 DEF ConnEvent
<1>3. CASE e = AcceptEvent
  BY <1>3
<1> QED  BY <1>1, <1>2, <1>3 DEF PollEvents, AcceptEvent

LEMMA WaitAllStep ==
  ASSUME HttpInv, NEW p \in Procs, WaitAll(p)
  PROVE  HttpInv'
<1>0. TypeOK /\ CountInv /\ BacklogInv /\ ProcInv(p)
  BY DEF HttpInv
<1>1. PICK evs : evs = PollEvents(p)
  OBVIOUS
<1>2. PICK seen : seen = {e.conn : e \in evs}
  OBVIOUS
<1>3. /\ pc[p] = "poll" /\ acceptQ[p] = <<>> /\ rwQ[p] = <<>> /\ batch[p] = {}
      /\ batch' = [batch EXCEPT ![p] = evs]
      /\ armed' = [c \in Peers |-> IF c \in seen THEN "off" ELSE armed[c]]
      /\ listen' = [listen EXCEPT ![p] = listen[p] /\ Listener \notin seen]
      /\ UNCHANGED <<netVars, owner, status, got, base, used, client, replies, watching,
                     connNum, acceptQ, rwQ, pc, cur>>
  BY <1>1, <1>2 DEF WaitAll, QueuesEmpty
<1>4. ASSUME NEW e \in evs
      PROVE  \/ e = AcceptEvent
             \/ /\ e \in ConnEvent /\ owner[e.conn] = p /\ armed[e.conn] # "off"
                /\ e.code = "READ" <=> Readable(e.conn)
                /\ e.code = "WRITE" => armed[e.conn] = "inout"
  BY <1>1, PollFacts
<1>5. Listener \notin Peers
  BY HttpAssumption
<1>6. ASSUME NEW d \in Peers, d \in seen
      PROVE  owner[d] = p /\ armed'[d] = "off" /\ InBatch(p, d)'
  <2>1. PICK e \in evs : e.conn = d
    BY <1>2, <1>6
  <2>2. owner[d] = p
    BY <1>4, <1>5, <2>1 DEF AcceptEvent
  <2>3. batch'[p] = evs
    BY <1>0, <1>3 DEF TypeOK, ProcTypeOK
  <2> QED  BY <1>3, <1>6, <2>1, <2>2, <2>3 DEF InBatch
<1>7. /\ \A q \in Procs \ {p} : SameProc(q)
      /\ \A d \in Peers : d \notin seen => SameConn(d)
  BY <1>0, <1>3 DEF SameProc, SameConn, TypeOK, ProcTypeOK
<1>8. TypeOK'
  <2>1. NetTypeOK'
    BY <1>0, <1>3 DEF TypeOK, NetTypeOK, netVars
  <2>2. ConnTypeOK'
    BY <1>0, <1>3 DEF TypeOK, ConnTypeOK
  <2>3. evs \subseteq ConnEvent \cup {AcceptEvent}
    BY <1>4
  <2>4. batch' \in [Procs -> SUBSET (ConnEvent \cup {AcceptEvent})]
    BY <1>0, <1>3, <2>3 DEF TypeOK, ProcTypeOK
  <2>5. listen' \in [Procs -> BOOLEAN]
    BY <1>0, <1>3 DEF TypeOK, ProcTypeOK
  <2>6. ProcTypeOK'
    BY <1>0, <1>3, <2>4, <2>5 DEF TypeOK, ProcTypeOK
  <2> QED  BY <2>1, <2>2, <2>6 DEF TypeOK
<1>9. BacklogInv' /\ CountInv'
  BY <1>0, <1>3, FrameCount DEF BacklogInv, netVars
<1>10. \A d \in Peers : BufferInv(d)'
  BY <1>3 DEF HttpInv, BufferInv, netVars
<1>11. ASSUME NEW d \in Peers PROVE ConnInv(d)'
  <2>1. ConnInv(d)
    BY DEF HttpInv
  <2>2. CASE d \in seen
    <3>1. owner'[d] = p /\ armed'[d] = "off" /\ Pending(p, d)'
      BY <1>3, <1>6, <2>2 DEF Pending
    <3>2. status'[d] = status[d] /\ owner'[d] = owner[d] /\ client'[d] = client[d]
      BY <1>3
    <3>3. status[d] = "CONNECTED" => client[d].conn \/ Accepted(p, d)
      BY <2>1, <3>1, <3>2 DEF ConnInv
    <3>4. Accepted(p, d) <=> Accepted(p, d)'
      BY <1>3 DEF Accepted
    <3>5. status'[d] = None => owner'[d] = None
      BY <2>1, <3>2 DEF ConnInv
    <3> QED  BY <3>1, <3>2, <3>3, <3>4, <3>5 DEF ConnInv
  <2>3. CASE d \notin seen
    <3>1. ASSUME NEW q \in Procs
          PROVE  (Accepted(q, d) => Accepted(q, d)') /\ (Pending(q, d) => Pending(q, d)')
      <4>1. CASE q = p
        <5>1. ~Current(p, d) /\ ~InBatch(p, d) /\ ~Queued(p, d) /\ ~Accepted(p, d)
          BY <1>3 DEF Current, InBatch, Queued, Accepted
        <5> QED  BY <4>1, <5>1 DEF Pending
      <4>2. CASE q # p
        <5>1. SameProc(q)
          BY <1>7, <4>2
        <5> QED  BY <5>1, SameProcFacts DEF Pending
      <4> QED  BY <4>1, <4>2
    <3>2. SameConn(d)
      BY <1>7, <2>3
    <3> QED  BY <2>1, <3>1, <3>2, FrameConn
  <2> QED  BY <2>2, <2>3
<1>12. \A q \in Procs \ {p} : ProcInv(q)'
  <2>1. \A q \in Procs \ {p} : SameConnsOf(q)
    BY <1>6, <1>7 DEF SameConnsOf, SameConn
  <2> QED  BY <1>7, <2>1, OtherProcs
<1>13. ProcInv(p)'
  <2>1. PhaseInv(p)' /\ AcceptInv(p)' /\ QueueInv(p)' /\ HandleInv(p)'
    BY <1>3 DEF PhaseInv, AcceptInv, QueueInv, HandleInv, Current, Accepted
  <2>2. BatchInv(p)'
    <3>0. batch'[p] = evs
      BY <1>0, <1>3 DEF TypeOK, ProcTypeOK
    <3> SUFFICES ASSUME NEW e \in evs, NEW f \in evs, e # AcceptEvent
                 PROVE  Expects(p, e)' /\ ~Queued(p, e.conn)' /\ (e.conn = f.conn => e = f)
      BY <3>0 DEF BatchInv
    <3>1. /\ e \in ConnEvent /\ e.conn \in Peers /\ owner[e.conn] = p /\ armed[e.conn] # "off"
          /\ e.code = "READ" <=> Readable(e.conn)
          /\ e.code = "WRITE" => armed[e.conn] = "inout"
      BY <1>4 DEF ConnEvent
    <3>2. status[e.conn] = "CONNECTED" /\ (armed[e.conn] = "inout" => client[e.conn].stage = "send")
      BY <3>1 DEF HttpInv, ConnInv
    <3>3. Expects(p, e)'
      BY <1>3, <3>1, <3>2 DEF Expects
    <3>4. ~Queued(p, e.conn)'
      BY <1>3 DEF Queued
    <3>5. ASSUME e.conn = f.conn PROVE e = f
      <4>1. f # AcceptEvent
        BY <1>5, <3>1, <3>5 DEF AcceptEvent
      <4>2. f \in ConnEvent /\ (f.code = "READ" <=> Readable(f.conn))
        BY <1>4, <4>1
      <4>3. e.code = f.code
        <5>1. PICK d : d = e.conn /\ d = f.conn
          BY <3>5
        <5>2. (e.code = "READ" <=> Readable(d)) /\ (f.code = "READ" <=> Readable(d))
          BY <3>1, <4>2, <5>1
        <5>3. e.code \in {"READ", "WRITE"} /\ f.code \in {"READ", "WRITE"}
          BY <3>1, <4>2 DEF ConnEvent
        <5> QED  BY <5>2, <5>3
      <4> QED  BY <3>1, <3>5, <4>2, <4>3 DEF ConnEvent
    <3> QED  BY <3>3, <3>4, <3>5
  <2> QED  BY <2>1, <2>2 DEF ProcInv
<1> QED  BY <1>8, <1>9, <1>10, <1>11, <1>12, <1>13 DEF HttpInv

LEMMA HandleAcceptReadyStep ==
  ASSUME HttpInv, NEW p \in Procs, HandleAcceptReady(p)
  PROVE  HttpInv'
<1>0. /\ TypeOK /\ CountInv /\ BacklogInv /\ ProcInv(p) /\ backlog \in Seq(Peers)
      /\ acceptQ[p] \in Seq(Peers) /\ rwQ[p] \in Seq(ConnEvent)
      /\ batch[p] \subseteq ConnEvent \cup {AcceptEvent}
  BY DEF HttpInv, TypeOK, NetTypeOK, ProcTypeOK
<1>1. /\ pc[p] = "poll" /\ batch' = [batch EXCEPT ![p] = batch[p] \ {AcceptEvent}]
      /\ UNCHANGED <<sent, gone, room, got, base, used, client, replies, early, unsent, watching,
                     listen, rwQ, pc, cur>>
  BY DEF HandleAcceptReady, TakeEvent, AcceptEvent
<1>2. /\ pc'[p] = "poll" /\ rwQ'[p] = rwQ[p] /\ batch'[p] = batch[p] \ {AcceptEvent}
      /\ \A q \in Procs \ {p} : batch'[q] = batch[q]
  BY <1>0, <1>1 DEF TypeOK, ProcTypeOK
<1>3. \A d \in Peers : InBatch(p, d)' <=> InBatch(p, d)
  <2>1. Listener \notin Peers
    BY HttpAssumption
  <2> QED  BY <1>2, <2>1 DEF InBatch, AcceptEvent
<1>4. \A d \in Peers : (Queued(p, d)' <=> Queued(p, d)) /\ ~Current(p, d) /\ ~Current(p, d)'
  BY <1>1, <1>2 DEF Queued, Current
<1>5. batch' \in [Procs -> SUBSET (ConnEvent \cup {AcceptEvent})]
  BY <1>0, <1>1 DEF TypeOK, ProcTypeOK
<1>6. CASE backlog = <<>>
  <2>1. UNCHANGED <<backlog, owner, status, armed, connNum, acceptQ>>
    BY <1>6 DEF HandleAcceptReady
  <2>2. UNCHANGED <<netVars, connVars, connNum>>
    BY <1>1, <2>1 DEF netVars, connVars
  <2>3. ProcTypeOK'
    BY <1>0, <1>1, <1>5, <2>1 DEF TypeOK, ProcTypeOK
  <2>4. \A q \in Procs \ {p} : SameProc(q)
    BY <1>1, <1>2, <2>1 DEF SameProc
  <2>5. \A d \in Peers : Accepted(p, d) <=> Accepted(p, d)'
    BY <2>1 DEF Accepted
  <2>6. ProcInv(p)'
    <3>1. PhaseInv(p)' /\ HandleInv(p)'
      BY <1>2 DEF PhaseInv, HandleInv, Current
    <3>2. AcceptInv(p)'
      BY <1>0, <1>3, <1>4, <2>1, <2>5 DEF ProcInv, AcceptInv
    <3>3. BatchInv(p)'
      <4> SUFFICES ASSUME NEW e \in batch'[p], NEW f \in batch'[p], e # AcceptEvent
                   PROVE  Expects(p, e)' /\ ~Queued(p, e.conn)' /\ (e.conn = f.conn => e = f)
        BY DEF BatchInv
      <4>1. e \in batch[p] /\ f \in batch[p]
        BY <1>2
      <4>2. Expects(p, e) /\ ~Queued(p, e.conn) /\ (e.conn = f.conn => e = f)
        BY <1>0, <1>1, <4>1 DEF ProcInv, BatchInv
      <4> QED  BY <1>1, <2>1, <4>2 DEF Expects, Queued
    <3>4. QueueInv(p)'
      BY <1>0, <1>1, <2>1 DEF ProcInv, QueueInv, Expects
    <3> QED  BY <3>1, <3>2, <3>3, <3>4 DEF ProcInv
  <2>7. \A d \in Peers : (Accepted(p, d) => Accepted(p, d)') /\ (Pending(p, d) => Pending(p, d)')
    BY <1>3, <1>4, <2>5 DEF Pending
  <2> QED  BY <2>2, <2>3, <2>4, <2>6, <2>7, MoveStep
<1>7. CASE backlog # <<>>
  <2>1. PICK c, t : c = Head(backlog) /\ t = Tail(backlog)
    OBVIOUS
  <2>2. /\ c \in Peers /\ c = backlog[1] /\ 1 \in DOMAIN backlog /\ t \in Seq(Peers)
        /\ \A i \in DOMAIN t : i + 1 \in DOMAIN backlog /\ t[i] = backlog[i + 1] /\ i + 1 # 1
        /\ \A i, j \in DOMAIN t : i + 1 = j + 1 => i = j
    BY <1>0, <1>7, <2>1, TailFacts
  <2>3. /\ backlog' = t
        /\ connNum' = [connNum EXCEPT ![p] = connNum[p] + 1]
        /\ owner' = [owner EXCEPT ![c] = p]
        /\ status' = [status EXCEPT ![c] = "CONNECTED"]
        /\ armed' = [armed EXCEPT ![c] = "in"]
        /\ acceptQ' = [acceptQ EXCEPT ![p] = Append(acceptQ[p], c)]
    BY <1>7, <2>1 DEF HandleAcceptReady
  <2>4. status[c] = None
    BY <1>0, <2>2 DEF BacklogInv
  <2>5. /\ status'[c] = "CONNECTED" /\ owner'[c] = p /\ armed'[c] = "in"
        /\ \A d \in Peers \ {c} : SameConn(d)
        /\ \A q \in Procs \ {p} : SameProc(q) /\ connNum'[q] = connNum[q]
        /\ connNum'[p] = connNum[p] + 1 /\ acceptQ'[p] = Append(acceptQ[p], c)
    BY <1>0, <1>1, <1>2, <2>2, <2>3 DEF SameConn, SameProc, TypeOK, ConnTypeOK, ProcTypeOK
  <2>6. \A d : Accepted(p, d)' <=> Accepted(p, d) \/ d = c
    <3>1. PICK s, a, n : s = acceptQ[p] /\ a = Append(s, c) /\ n = Len(s) + 1
      OBVIOUS
    <3>2. /\ \A i \in DOMAIN s : i \in DOMAIN a /\ a[i] = s[i]
          /\ n \in DOMAIN a /\ a[n] = c
          /\ \A i \in DOMAIN a : i \in DOMAIN s \/ i = n
      BY <1>0, <2>2, <3>1, AppendFacts
    <3> QED  BY <2>5, <3>1, <3>2 DEF Accepted
  <2>7. ~InBatch(p, c) /\ ~Queued(p, c)
    <3>1. ~Queued(p, c)
      BY <1>0, <2>4 DEF ProcInv, QueueInv, Queued, Expects, None
    <3>2. ASSUME NEW e \in batch[p], e.conn = c PROVE FALSE
      <4>1. e # AcceptEvent
        BY <2>2, <3>2, HttpAssumption DEF AcceptEvent
      <4>2. Expects(p, e)
        BY <1>0, <1>1, <4>1 DEF ProcInv, BatchInv
      <4> QED  BY <2>4, <3>2, <4>2 DEF Expects, None
    <3> QED  BY <3>1, <3>2 DEF InBatch
  <2>8. TypeOK'
    <3>1. NetTypeOK'
      BY <1>0, <1>1, <2>2, <2>3 DEF TypeOK, NetTypeOK
    <3>2. ConnTypeOK'
      BY <1>0, <1>1, <2>3 DEF TypeOK, ConnTypeOK
    <3>3. Append(acceptQ[p], c) \in Seq(Peers)
      BY <1>0, <2>2, AppendFacts
    <3>4. ProcTypeOK'
      BY <1>0, <1>1, <1>5, <2>3, <3>3 DEF TypeOK, ProcTypeOK
    <3> QED  BY <3>1, <3>2, <3>4 DEF TypeOK
  <2>9. BacklogInv'
    <3>1. ASSUME NEW i \in DOMAIN t PROVE status'[t[i]] = None
      <4>1. i + 1 \in DOMAIN backlog /\ t[i] = backlog[i + 1] /\ i + 1 # 1
        BY <2>2
      <4>2. PICK d \in Peers : d = t[i] /\ d = backlog[i + 1]
        BY <1>0, <4>1, ElementOfSeq
      <4>3. d # c /\ status[d] = None
        BY <1>0, <2>2, <4>1, <4>2 DEF BacklogInv
      <4> QED  BY <2>5, <4>2, <4>3 DEF SameConn
    <3>2. \A i, j \in DOMAIN t : t[i] = t[j] => i = j
      <4>1. \A i, j \in DOMAIN backlog : backlog[i] = backlog[j] => i = j
        BY <1>0 DEF BacklogInv
      <4> QED  BY <2>2, <4>1
    <3> QED  BY <2>3, <3>1, <3>2 DEF BacklogInv
  <2>10. CountInv'
    <3>1. ASSUME NEW q \in Procs \ {p}
          PROVE  IsFiniteSet(OpenConns(q)') /\ connNum'[q] = Cardinality(OpenConns(q)')
      <4>1. OpenConns(q)' = OpenConns(q)
        BY <2>4, <2>5 DEF OpenConns, SameConn, None
      <4> QED  BY <1>0, <2>5, <4>1 DEF CountInv
    <3>2. OpenConns(p)' = OpenConns(p) \cup {c} /\ c \notin OpenConns(p)
      BY <2>2, <2>4, <2>5 DEF OpenConns, SameConn, None
    <3>3. IsFiniteSet(OpenConns(p)) /\ connNum[p] = Cardinality(OpenConns(p))
      BY <1>0 DEF CountInv
    <3>4. IsFiniteSet(OpenConns(p) \cup {c}) /\ Cardinality(OpenConns(p) \cup {c}) = Cardinality(OpenConns(p)) + 1
      BY <3>2, <3>3, FS_AddElement
    <3> QED  BY <2>5, <3>1, <3>2, <3>3, <3>4 DEF CountInv
  <2>11. \A d \in Peers : BufferInv(d)'
    BY <1>1 DEF HttpInv, BufferInv
  <2>12. ASSUME NEW d \in Peers PROVE ConnInv(d)'
    <3>1. CASE d = c
      BY <2>5, <2>6, <3>1 DEF ConnInv, None
    <3>2. CASE d # c
      <4>1. ASSUME NEW q \in Procs
            PROVE  (Accepted(q, d) => Accepted(q, d)') /\ (Pending(q, d) => Pending(q, d)')
        <5>1. CASE q = p
          BY <1>3, <1>4, <2>6, <5>1 DEF Pending
        <5>2. CASE q # p
          <6>1. SameProc(q)
            BY <2>5, <5>2
          <6> QED  BY <6>1, SameProcFacts DEF Pending
        <5> QED  BY <5>1, <5>2
      <4>2. ConnInv(d) /\ SameConn(d)
        BY <2>5, <3>2 DEF HttpInv
      <4> QED  BY <4>1, <4>2, FrameConn
    <3> QED  BY <3>1, <3>2
  <2>13. \A q \in Procs \ {p} : ProcInv(q)'
    <3>1. \A q \in Procs \ {p} : SameConnsOf(q)
      BY <2>4, <2>5 DEF SameConnsOf, SameConn, None
    <3> QED  BY <2>5, <3>1, OtherProcs
  <2>14. ProcInv(p)'
    <3>1. PhaseInv(p)' /\ HandleInv(p)'
      BY <1>2 DEF PhaseInv, HandleInv, Current
    <3>2. AcceptInv(p)'
      <4> SUFFICES ASSUME NEW d \in Peers, Accepted(p, d)'
                   PROVE  /\ status'[d] = "CONNECTED" /\ owner'[d] = p /\ armed'[d] = "in"
                          /\ ~InBatch(p, d)' /\ ~Queued(p, d)'
        BY DEF AcceptInv
      <4>1. CASE d = c
        BY <1>3, <1>4, <2>5, <2>7, <4>1
      <4>2. CASE d # c
        <5>1. Accepted(p, d) /\ SameConn(d)
          BY <2>5, <2>6, <4>2
        <5>2. status[d] = "CONNECTED" /\ owner[d] = p /\ armed[d] = "in" /\ ~InBatch(p, d) /\ ~Queued(p, d)
          BY <1>0, <5>1 DEF ProcInv, AcceptInv
        <5> QED  BY <1>3, <1>4, <5>1, <5>2 DEF SameConn
      <4> QED  BY <4>1, <4>2
    <3>3. ASSUME NEW e \in ConnEvent, Expects(p, e)
          PROVE  Expects(p, e)'
      BY <2>4, <2>5, <3>3 DEF Expects, SameConn, ConnEvent, None
    <3>4. BatchInv(p)'
      <4> SUFFICES ASSUME NEW e \in batch'[p], NEW f \in batch'[p], e # AcceptEvent
                   PROVE  Expects(p, e)' /\ ~Queued(p, e.conn)' /\ (e.conn = f.conn => e = f)
        BY DEF BatchInv
      <4>1. e \in batch[p] /\ f \in batch[p] /\ e \in ConnEvent
        BY <1>0, <1>2
      <4>2. Expects(p, e) /\ ~Queued(p, e.conn) /\ (e.conn = f.conn => e = f)
        BY <1>0, <1>1, <4>1 DEF ProcInv, BatchInv
      <4>3. ~Queued(p, e.conn)'
        BY <1>1, <4>2 DEF Queued
      <4> QED  BY <3>3, <4>1, <4>2, <4>3
    <3>5. QueueInv(p)'
      <4>1. ASSUME NEW i \in DOMAIN rwQ[p] PROVE Expects(p, rwQ[p][i])'
        <5>1. PICK e \in ConnEvent : e = rwQ[p][i]
          BY <1>0, ElementOfSeq
        <5>2. Expects(p, e)
          BY <1>0, <5>1 DEF ProcInv, QueueInv
        <5>3. Expects(p, e)'
          BY <3>3, <5>2
        <5> QED  BY <1>1, <5>1, <5>3 DEF Expects
      <4>2. QueueInv(p)
        BY <1>0 DEF ProcInv
      <4> QED  BY <1>1, <4>1, <4>2 DEF QueueInv
    <3> QED  BY <3>1, <3>2, <3>4, <3>5 DEF ProcInv
  <2> QED  BY <2>8, <2>9, <2>10, <2>11, <2>12, <2>13, <2>14 DEF HttpInv
<1> QED  BY <1>6, <1>7

-----------------------------------------------------------------------------
(* The theorems *)

LEMMA HttpInit ==
  ASSUME Init PROVE HttpInv
<1>1. FreshClient(FALSE) \in HttpClient
  BY DEF FreshClient, HttpClient, Stages
<1>2. TypeOK
  <2>1. NetTypeOK
    BY EmptySeq, HttpAssumption DEF Init, NetTypeOK
  <2>2. ConnTypeOK
    BY <1>1 DEF Init, ConnTypeOK
  <2>3. ProcTypeOK
    BY EmptySeq DEF Init, ProcTypeOK
  <2> QED  BY <2>1, <2>2, <2>3 DEF TypeOK
<1>3. BacklogInv
  BY DEF Init, BacklogInv
<1>4. CountInv
  <2>1. \A p \in Procs : OpenConns(p) = {} /\ connNum[p] = 0
    BY DEF Init, OpenConns, None
  <2> QED  BY <2>1, FS_EmptySet DEF CountInv
<1>5. ASSUME NEW c \in Peers PROVE BufferInv(c) /\ ConnInv(c)
  <2>1. BufferInv(c)
    <3>1. Stream[c] \in Seq(Tokens)
      BY HttpAssumption
    <3>2. Len(Stream[c]) \in Nat
      BY <3>1
    <3> QED  BY <3>2 DEF Init, BufferInv
  <2>2. ConnInv(c)
    BY DEF Init, ConnInv, None
  <2> QED  BY <2>1, <2>2
<1>6. ASSUME NEW p \in Procs PROVE ProcInv(p)
  <2>1. PhaseInv(p) /\ BatchInv(p) /\ QueueInv(p)
    BY DEF Init, PhaseInv, BatchInv, QueueInv
  <2>2. AcceptInv(p) /\ HandleInv(p)
    BY DEF Init, AcceptInv, HandleInv, Accepted, Current
  <2> QED  BY <2>1, <2>2 DEF ProcInv
<1> QED  BY <1>2, <1>3, <1>4, <1>5, <1>6 DEF HttpInv

LEMMA HandlerStep ==
  ASSUME HttpInv, NEW p \in Procs, Handler(p)
  PROVE  HttpInv'
<1>1. PICK c \in Peers :
        \/ ProcessRequestLine(p, c) \/ ProcessHeader(p, c) \/ ProcessBody(p, c)
        \/ GenerateResponse(p, c) \/ SendResponse(p, c) \/ KilledBySigpipe(p, c)
  BY DEF Handler
<1>2. pc[p] = "handle" /\ cur[p].conn = c
  BY <1>1 DEF ProcessRequestLine, ProcessHeader, ProcessBody, GenerateResponse, SendResponse,
              KilledBySigpipe, Handling
<1>3. CASE KilledBySigpipe(p, c)
  BY <1>3, KilledStep
<1>4. CASE ~KilledBySigpipe(p, c)
  <2>1. \/ Closed(p, c)
        \/ \E g, u, cl, a, more : Update(p, c, g, u, cl, a, more) /\ UpdateOK(p, c, g, u, cl, a, more)
    BY <1>1, <1>4, ParsersEffect, GenerateEffect, SendEffect
  <2>2. CASE Closed(p, c)
    BY <1>2, <2>2, CloseStep
  <2>3. ASSUME NEW g, NEW u, NEW cl, NEW a, NEW more,
               Update(p, c, g, u, cl, a, more), UpdateOK(p, c, g, u, cl, a, more)
        PROVE  HttpInv'
    BY <1>2, <2>3, UpdateStep
  <2> QED  BY <2>1, <2>2, <2>3
<1> QED  BY <1>3, <1>4

LEMMA HttpStep ==
  ASSUME HttpInv, [Next]_vars PROVE HttpInv'
<1>1. ASSUME NEW p \in Procs, Process(p) PROVE HttpInv'
  BY <1>1, WatchListenerStep, WaitAllStep, HandleAcceptReadyStep, QueueEventStep,
     HandleAcceptedStep, HandleReadWriteStep, HandlerStep DEF Process
<1>2. ASSUME NEW c \in Peers, Connect(c) \/ Deliver(c) \/ Drain(c) \/ Leave(c) PROVE HttpInv'
  BY <1>2, PeerStep
<1>3. CASE UNCHANGED vars
  <2>1. UNCHANGED <<connVars, procVars>> /\ UNCHANGED netVars
    BY <1>3 DEF vars
  <2>2. CountInv' /\ (\A d \in Peers : ConnInv(d)') /\ (\A q \in Procs : ProcInv(q)')
    BY <2>1, AllKept
  <2>3. TypeOK'
    BY <2>1 DEF HttpInv, TypeOK, NetTypeOK, ConnTypeOK, ProcTypeOK, netVars, connVars, procVars
  <2>4. BacklogInv' /\ \A d \in Peers : BufferInv(d)'
    BY <2>1 DEF HttpInv, BacklogInv, BufferInv, netVars, connVars
  <2> QED  BY <2>2, <2>3, <2>4 DEF HttpInv
<1> QED  BY <1>1, <1>2, <1>3 DEF Next

\* The inductive invariant of the server.  Its conjuncts of their own interest:
\* of a connection at most one event is under way in its process, a WRITE event
\* finds a response to send, and what is parsed has arrived.
THEOREM HttpInvariant == SafetySpec => []HttpInv
<1>1. Init => HttpInv
  BY HttpInit
<1>2. HttpInv /\ [Next]_vars => HttpInv'
  BY HttpStep
<1> QED  BY <1>1, <1>2, PTL DEF SafetySpec

\* An event, however long it was queued behind others, finds its connection
\* open, its own, and with a client: the asserts of ReadBuffer and SendBuffer on
\* status_ hold and conn_ is not NULL in the handlers.
THEOREM EventsAlwaysFindClient == SafetySpec => []EventsFindClient
<1>1. HttpInv => EventsFindClient
  <2> SUFFICES ASSUME HttpInv, NEW p \in Procs
               PROVE  /\ \A i \in DOMAIN rwQ[p] : LET c == rwQ[p][i].conn IN
                           status[c] = "CONNECTED" /\ owner[c] = p
                           /\ (client[c].conn \/ \E j \in DOMAIN acceptQ[p] : acceptQ[p][j] = c)
                      /\ pc[p] = "handle" =>
                           status[cur[p].conn] = "CONNECTED" /\ client[cur[p].conn].conn
    BY DEF EventsFindClient
  <2>0. ProcInv(p) /\ rwQ[p] \in Seq(ConnEvent)
    BY DEF HttpInv, TypeOK, ProcTypeOK
  <2>1. ASSUME NEW i \in DOMAIN rwQ[p]
        PROVE  LET c == rwQ[p][i].conn IN
               status[c] = "CONNECTED" /\ owner[c] = p
               /\ (client[c].conn \/ \E j \in DOMAIN acceptQ[p] : acceptQ[p][j] = c)
    <3>1. rwQ[p][i] \in ConnEvent
      BY <2>0, <2>1, ElementOfSeq
    <3>2. PICK c \in Peers : c = rwQ[p][i].conn
      BY <3>1 DEF ConnEvent
    <3>3. status[c] = "CONNECTED" /\ owner[c] = p
      BY <2>0, <2>1, <3>2 DEF ProcInv, QueueInv, Expects
    <3>4. client[c].conn \/ Accepted(p, c)
      BY <3>3 DEF HttpInv, ConnInv
    <3> QED  BY <3>2, <3>3, <3>4 DEF Accepted
  <2>2. ASSUME pc[p] = "handle"
        PROVE  status[cur[p].conn] = "CONNECTED" /\ client[cur[p].conn].conn
    <3>1. PICK c \in Peers : c = cur[p].conn
      BY <2>0, <2>2 DEF ProcInv, HandleInv, ConnEvent
    <3> QED  BY <2>2, <3>1, HandlingFacts
  <2> QED  BY <2>1, <2>2
<1> QED  BY <1>1, HttpInvariant, PTL

\* A process about to wait in epoll_wait watches each of its connections or has
\* unparsed bytes of it, and connNum_ is the number of connections it has open,
\* for whatever streams, cuts, closes and order of events.
THEOREM ConnectionsStayWatched == SafetySpec => []ConnectionsWatched
<1>1. HttpInv => ConnectionsWatched
  <2> SUFFICES ASSUME HttpInv PROVE ConnectionsWatched
    OBVIOUS
  <2>1. ASSUME NEW c \in Peers, NEW p, p = owner[c], status[c] = "CONNECTED", pc[p] = "poll",
               batch[p] = {}, QueuesEmpty(p)
        PROVE  armed[c] # "off" \/ Buffered(c) # <<>>
    <3>1. ~InBatch(p, c) /\ ~Queued(p, c) /\ ~Current(p, c)
      BY <2>1 DEF QueuesEmpty, InBatch, Queued, Current
    <3>2. armed[c] # "off" \/ used[c] < got[c]
      BY <2>1, <3>1 DEF HttpInv, ConnInv, Pending
    <3>3. /\ used[c] \in Nat /\ got[c] \in Nat
      BY DEF HttpInv, TypeOK, ConnTypeOK
    <3> QED  BY <3>2, <3>3, EmptyBuffer
  <2>2. \A p \in Procs : connNum[p] = Cardinality({c \in Peers : owner[c] = p /\ status[c] = "CONNECTED"})
    BY DEF HttpInv, CountInv, OpenConns
  <2> QED  BY <2>1, <2>2 DEF ConnectionsWatched
<1> QED  BY <1>1, HttpInvariant, PTL

-----------------------------------------------------------------------------
(* Requests and replies *)

\* The number of requests that end up to a position grows with it, and by one at least
\* over the end of a request.
LEMMA EndedFacts ==
  ASSUME NEW c \in Peers, NEW m \in Nat, NEW n \in Nat, m <= n
  PROVE  /\ Ended(c, m) \in Nat /\ Ended(c, n) \in Nat /\ Ended(c, m) <= Ended(c, n)
         /\ \A e \in RequestEnds(c) : m < e /\ e <= n => Ended(c, m) + 1 <= Ended(c, n)
<1> DEFINE E(x) == {i \in RequestEnds(c) : i <= x}
<1>1. Stream[c] \in Seq(Tokens) /\ Len(Stream[c]) \in Nat /\ RequestEnds(c) \subseteq 1..Len(Stream[c])
  BY HttpAssumption DEF RequestEnds
<1>2. IsFiniteSet(1..Len(Stream[c]))
  BY <1>1, FS_Interval
<1>3. IsFiniteSet(E(n)) /\ E(m) \subseteq E(n)
  <2>1. E(n) \subseteq 1..Len(Stream[c]) /\ E(m) \subseteq E(n)
    BY <1>1
  <2> QED  BY <1>2, <2>1, FS_Subset
<1>4. IsFiniteSet(E(m)) /\ Cardinality(E(m)) <= Cardinality(E(n))
  BY <1>3, FS_Subset
<1>5. Cardinality(E(m)) \in Nat /\ Cardinality(E(n)) \in Nat
  BY <1>3, <1>4, FS_CardinalityType
<1>6. ASSUME NEW e \in RequestEnds(c), m < e, e <= n
      PROVE  Cardinality(E(m)) + 1 <= Cardinality(E(n))
  <2>1. e \in E(n) /\ ~(e \in E(m))
    BY <1>1, <1>6
  <2>2. E(m) # E(n)
    BY <2>1
  <2>3. Cardinality(E(m)) # Cardinality(E(n))
    BY <1>3, <2>2, FS_Subset
  <2> QED  BY <1>4, <1>5, <2>3
<1> QED  BY <1>4, <1>5, <1>6 DEF Ended

\* A client that is reset has answered no more requests than have ended.
LEMMA ResetAnswered ==
  ASSUME NEW c \in Peers, NEW u \in Nat, NEW r \in Int, NEW cl \in HttpClient,
         Answered(c, u, cl, r), NEW b
  PROVE  Answered(c, u, FreshClient(b), r)
<1>1. r <= Ended(c, u)
  <2>0. Ended(c, u) \in Nat
    BY EndedFacts
  <2>1. CASE cl.stage \in {"line", "spin"}
    BY <2>1 DEF Answered
  <2>2. CASE Paid(c, u, r)
    BY <2>0, <2>2 DEF Paid
  <2>3. CASE cl.stage \in {"header", "body"} /\ ~Paid(c, u, r)
    <3>1. PICK i \in DOMAIN Stream[c], h \in 0..Len(Stream[c]) : Parsing(c, i, h, u, cl, r)
      BY <2>3 DEF Answered
    <3>2. i \in Nat /\ i >= 1 /\ h \in Nat
      BY HttpAssumption
    <3>3. u >= i
      <4>1. CASE cl.stage = "header"
        <5>1. PICK j \in 0..h : u = i + 5 + 2 * j
          BY <3>1, <4>1 DEF Parsing
        <5> QED  BY <3>2, <5>1
      <4>2. CASE cl.stage = "body"
        <5>1. u >= i + 6 + 2 * h
          BY <3>1, <4>2 DEF Parsing, EmptyLine
        <5> QED  BY <3>2, <5>1
      <4> QED  BY <2>3, <4>1, <4>2
    <3>4. i - 1 \in Nat /\ i - 1 <= u
      BY <3>2, <3>3
    <3>5. Ended(c, i - 1) \in Nat /\ Ended(c, i - 1) <= Ended(c, u)
      BY <3>4, EndedFacts
    <3> QED  BY <2>0, <3>1, <3>5 DEF Parsing
  <2>4. cl.stage \in {"generate", "send"} => Paid(c, u, r)
    BY DEF Answered
  <2> QED  BY <2>1, <2>2, <2>3, <2>4 DEF HttpClient, Stages
<1> QED  BY <1>1 DEF Answered, FreshClient

\* What has ended stays so.
LEMMA PaidLater ==
  ASSUME NEW c \in Peers, NEW u \in Nat, NEW v \in Nat, u <= v, NEW r \in Int
  PROVE  /\ Paid(c, u, r) => Paid(c, v, r)
         /\ r <= Ended(c, u) => r <= Ended(c, v) /\ Paid(c, v, r - 1)
<1>1. PICK m \in Nat, n \in Nat : m = Ended(c, u) /\ n = Ended(c, v) /\ m <= n
  BY EndedFacts
<1> QED  BY <1>1 DEF Paid

\* The read buffer: what was read up to g and not used.
Slice(c, u, g) == SubSeq(Stream[c], u + 1, g)

\* It is part of the stream.
LEMMA BufferSlice ==
  ASSUME NEW c \in Peers, NEW u \in Nat, NEW g \in Nat, u <= g, g <= Len(Stream[c]),
         NEW s, s = Slice(c, u, g)
  PROVE  /\ s \in Seq(Tokens) /\ Len(s) = g - u /\ Len(s) \in Nat
         /\ \A i \in 1..(g - u) : s[i] = Stream[c][u + i]
<1>0. Stream[c] \in Seq(Tokens) /\ Len(Stream[c]) \in Nat
  BY HttpAssumption
<1>1. u + 1 \in Nat /\ u + 1 >= 1
  OBVIOUS
<1>2. \A j \in (u + 1)..g : Stream[c][j] \in Tokens
  BY <1>0, <1>1, ElementOfSeq
<1>3. /\ s \in Seq(Tokens) /\ Len(s) = IF u + 1 <= g THEN g - (u + 1) + 1 ELSE 0
      /\ \A i \in 1..(g - (u + 1) + 1) : s[i] = Stream[c][(u + 1) + i - 1]
  BY <1>0, <1>1, <1>2, SubSeqProperties DEF Slice
<1>4. Len(s) = g - u
  BY <1>3
<1>5. ASSUME NEW i \in 1..(g - u) PROVE s[i] = Stream[c][u + i]
  <2>1. i \in 1..(g - (u + 1) + 1) /\ (u + 1) + i - 1 = u + i
    BY <1>5
  <2> QED  BY <1>3, <2>1
<1> QED  BY <1>3, <1>4, <1>5

\* Find yields the first place of a member of the set.
LEMMA FindFirst ==
  ASSUME NEW s \in Seq(Tokens), NEW set, NEW f, f = Find(s, set)
  PROVE  /\ f \in 0..Len(s)
         /\ f = 0 => \A i \in 1..Len(s) : s[i] \notin set
         /\ f # 0 => s[f] \in set /\ \A i \in 1..Len(s) : s[i] \in set => f <= i
<1>1. PICK at : at = {i \in DOMAIN s : s[i] \in set}
  OBVIOUS
<1>2. at \in SUBSET Nat /\ at \subseteq 1..Len(s) /\ Len(s) \in Nat /\ DOMAIN s = 1..Len(s)
      /\ 0 \notin at
  BY <1>1, LenProperties
<1>3. f = IF at = {} THEN 0 ELSE Min(at)
  BY <1>1 DEF Find
<1>4. f \in 0..Len(s)
  BY FindIn
<1>5. CASE at = {}
  BY <1>1, <1>2, <1>3, <1>4, <1>5
<1>6. CASE at # {}
  <2>0. Min(at) \in at /\ \A y \in at : Min(at) <= y
    BY <1>2, <1>6, MinIn, Zenon
  <2>1. f \in at /\ \A i \in at : f <= i
    BY <1>3, <1>6, <2>0
  <2> QED  BY <1>1, <1>2, <1>4, <2>1
<1> QED  BY <1>5, <1>6

\* A request line: the client turns to the headers of the request that begins where it is.
LEMMA LineAnswered ==
  ASSUME PeersSendRequests,
         NEW c \in Peers, NEW u \in Nat, NEW g \in Nat, u <= g, g <= Len(Stream[c]),
         NEW s, s = Slice(c, u, g),
         NEW cl \in HttpClient, NEW r \in Int, Answered(c, u, cl, r), cl.stage = "line",
         NEW x, x = ParseRequestLine(s, cl), ~(x.ret < 0)
  PROVE  Answered(c, u + x.n, x.client, r)
<1>1. s \in Seq(Tokens) /\ Len(s) = g - u /\ Len(s) \in Nat
      /\ \A i \in 1..(g - u) : s[i] = Stream[c][u + i]
  <2>1. s \in Seq(Tokens)
    BY BufferSlice
  <2>2. Len(s) = g - u /\ Len(s) \in Nat
    BY BufferSlice
  <2>3. ASSUME NEW i \in 1..(g - u) PROVE s[i] = Stream[c][u + i]
    BY BufferSlice
  <2> QED  BY <2>1, <2>2, <2>3
<1>2. FindSpace(s) \in 0..Len(s)
  BY <1>1, FindIn DEF FindSpace
<1>3. /\ cl.bodyLen \in {0, BodyLen[c]} /\ cl.body \in {0, BodyLen[c]} /\ r <= Ended(c, u)
  BY DEF Answered
<1>4. CASE x = Result(0, 0, cl)
  <2>1. x.n = 0 /\ x.client = cl /\ u + 0 = u
    BY <1>4 DEF Result
  <2> QED  BY <2>1
<1>5. x # Result(0, -1, cl)
  BY DEF Result
<1>6. CASE x # Result(0, 0, cl)
  <2>1. FindSpace(s) = 2 /\ s[1] \in Methods
    BY <1>5, <1>6 DEF ParseRequestLine
  <2>2. Len(s) >= 2
    BY <1>1, <1>2, <2>1
  <2>3. PICK hm : hm = [cl EXCEPT !.method = s[1]]
    OBVIOUS
  <2>4. /\ hm \in HttpClient /\ hm.stage = "line" /\ hm.method = s[1]
        /\ hm.bodyLen = cl.bodyLen /\ hm.body = cl.body
    BY <2>1, <2>3 DEF HttpClient
  <2>5. \/ x = Result(2, 2, hm) \/ x = Result(4, 4, hm)
        \/ Len(s) >= 6 /\ x = Result(6, 6, Finish(hm))
    <3>1. x = IF Len(s) < 4 THEN Result(2, 2, hm)
              ELSE IF Len(s) < 6 THEN Result(4, 4, hm)
              ELSE IF s[5] # "VER" \/ s[6] # "CRLF" THEN Result(0, -1, cl)
              ELSE Result(6, 6, Finish(hm))
      <4>1. FindSpace(s) # 0 /\ ~(FindSpace(s) # 2 \/ s[1] \notin Methods)
        BY <2>1
      <4> QED  BY <2>3, <4>1, Zenon DEF ParseRequestLine
    <3>2. Len(s) < 4 \/ (~(Len(s) < 4) /\ Len(s) < 6) \/ (~(Len(s) < 4) /\ ~(Len(s) < 6) /\ Len(s) >= 6)
      BY <1>1
    <3> QED  BY <1>5, <3>1, <3>2, Zenon
  <2>6. CASE x = Result(2, 2, hm) \/ x = Result(4, 4, hm)
    <3>1. PICK k \in Nat : x.n = k /\ x.client = hm
      BY <2>6 DEF Result
    <3>2. r <= Ended(c, u + k)
      <4>1. u + k \in Nat /\ u <= u + k
        OBVIOUS
      <4>2. Ended(c, u) \in Nat /\ Ended(c, u + k) \in Nat /\ Ended(c, u) <= Ended(c, u + k)
        BY <4>1, EndedFacts
      <4> QED  BY <1>3, <4>2
    <3> QED  BY <1>3, <2>4, <3>1, <3>2 DEF Answered
  <2>7. CASE Len(s) >= 6 /\ x = Result(6, 6, Finish(hm))
    <3>1. x.n = 6 /\ x.client = Finish(hm)
      BY <2>7 DEF Result
    <3>2. PICK f : f = Finish(hm)
      OBVIOUS
    <3>3. /\ f.stage = "header" /\ f.method = s[1]
          /\ f.bodyLen = cl.bodyLen /\ f.body = cl.body
      BY <2>4, <3>2 DEF Finish, HttpClient
    <3>4. u + 1 \in DOMAIN Stream[c] /\ Stream[c][u + 1] = s[1] /\ (u + 1) - 1 = u
      <4>0. Len(Stream[c]) \in Nat /\ DOMAIN Stream[c] = 1..Len(Stream[c])
        BY HttpAssumption
      <4>1. 1 \in 1..(g - u) /\ u + 1 \in 1..Len(Stream[c])
        BY <1>1, <2>2, <4>0
      <4>2. \A i \in 1..(g - u) : s[i] = Stream[c][u + i]
        BY <1>1
      <4>3. Stream[c][u + 1] = s[1]
        BY <4>1, <4>2
      <4>4. u + 1 \in DOMAIN Stream[c]
        BY <4>0, <4>1
      <4>5. (u + 1) - 1 = u
        OBVIOUS
      <4> QED  BY <4>3, <4>4, <4>5
    <3>5. PICK i \in DOMAIN Stream[c] : i = u + 1 /\ Stream[c][i] = s[1] /\ i - 1 = u
      BY <3>4
    <3>6. PICK h \in 0..Len(Stream[c]) : WellFormed(c, i, h)
      BY <2>1, <3>5 DEF PeersSendRequests
    <3>7. 0 \in 0..h /\ u + 6 = i + 5 + 2 * 0
      BY <3>5, <3>6
    <3>8. Parsing(c, i, h, u + 6, f, r)
      BY <1>3, <2>1, <3>3, <3>5, <3>6, <3>7 DEF Parsing
    <3>9. Answered(c, u + 6, f, r)
      BY <1>3, <3>3, <3>8 DEF Answered
    <3> QED  BY <3>1, <3>2, <3>9
  <2> QED  BY <2>5, <2>6, <2>7
<1> QED  BY <1>4, <1>6

\* A line without a word before its end is no header.
LEMMA NoHeader ==
  ASSUME NEW s \in Seq(Tokens), FindEnd(s) \in {0, 1}
  PROVE  ~HoldsHeader(s)
<1>1. PICK k \in {-1, 0} : k = FindEnd(s) - 1
  OBVIOUS
<1>2. SubSeq(s, 1, k) = <<>>
  BY SubSeqEmpty
<1>3. <<>> \in Seq(Tokens) /\ Len(<<>>) = 0
  OBVIOUS
<1>4. Find(<<>>, {"HDR", "CLEN"}) = 0
  <2>1. Find(<<>>, {"HDR", "CLEN"}) \in 0..Len(<<>>)
    BY <1>3, FindIn
  <2> QED  BY <1>3, <2>1
<1>5. Find(SubSeq(s, 1, k), {"HDR", "CLEN"}) = 0
  BY <1>2, <1>4
<1> QED  BY <1>1, <1>5 DEF HoldsHeader

\* A header line, or the empty line: the client is again at the beginning of a line, or at
\* that of the body; but a rescan ends the headers early, or goes on for ever.
LEMMA HeaderAnswered ==
  ASSUME NEW c \in Peers, NEW u \in Nat, NEW g \in Nat, u <= g,
         NEW s \in Seq(Tokens), Len(s) = g - u, \A m \in 1..(g - u) : s[m] = Stream[c][u + m],
         NEW cl \in HttpClient, NEW r \in Int, Answered(c, u, cl, r), cl.stage = "header",
         NEW mem, NEW x, x = ParseHeader(s, mem, cl)
  PROVE  \/ ~EndsEarly(s, mem, cl) /\ Answered(c, u + x.n, x.client, r)
         \/ EndsEarly(s, mem, cl) /\ Answered(c, u + x.n, x.client, r - 1)
<1>0. Len(s) \in Nat
  OBVIOUS
<1>1. PICK end : end = FindEnd(s)
  OBVIOUS
<1>2. /\ end \in 0..Len(s)
      /\ end # 0 => s[end] = "CRLF" /\ \A m \in 1..Len(s) : s[m] = "CRLF" => end <= m
  BY <1>1, FindFirst DEF FindEnd
<1>3. /\ cl.bodyLen \in {0, BodyLen[c]} /\ cl.body \in {0, BodyLen[c]}
  BY DEF Answered
<1>4. PICK i \in DOMAIN Stream[c], h \in 0..Len(Stream[c]) : Parsing(c, i, h, u, cl, r)
  BY DEF Answered
<1>5. i \in Nat /\ i >= 1 /\ h \in Nat
  BY HttpAssumption
<1>6. PICK j \in 0..h : u = i + 5 + 2 * j
  BY <1>4 DEF Parsing
<1>7. CASE end = 0
  <2>1. x.n = 0 /\ x.client = cl /\ u + 0 = u
    BY <1>1, <1>7 DEF ParseHeader, Result
  <2>2. ~EndsEarly(s, mem, cl)
    BY <1>1, <1>7, NoHeader DEF EndsEarly, Rescans
  <2> QED  BY <2>1, <2>2
<1>8. CASE end # 0 /\ j < h
  <2>1. j \in 0..(h - 1) /\ i + 6 + 2 * j = u + 1 /\ i + 7 + 2 * j = u + 2
    BY <1>5, <1>6, <1>8
  <2>2. Stream[c][u + 1] \in {"HDR", "CLEN"} /\ Stream[c][u + 2] = "CRLF"
    BY <1>4, <2>1 DEF Parsing, WellFormed
  <2>3. 1 \in 1..(g - u) /\ 1 \in 1..Len(s)
    BY <1>0, <1>2, <1>8
  <2>4. s[1] \in {"HDR", "CLEN"} /\ s[1] # "CRLF"
    BY <2>2, <2>3
  <2>5. 2 \in 1..(g - u) /\ 2 \in 1..Len(s)
    <3>1. end # 1
      BY <1>2, <1>8, <2>4
    <3> QED  BY <1>0, <1>2, <1>8, <3>1
  <2>6. end = 2
    <3>1. s[2] = "CRLF"
      BY <2>2, <2>5
    <3>2. end <= 2 /\ end # 1
      BY <1>2, <1>8, <2>4, <2>5, <3>1
    <3> QED  BY <1>0, <1>2, <1>8, <3>2
  <2>7. HoldsHeader(s)
    <3>0. PICK line : line = SubSeq(s, 1, end - 1)
      OBVIOUS
    <3>1. end - 1 = 1 /\ line = SubSeq(s, 1, 1)
      BY <2>6, <3>0
    <3>2. \A m \in 1..1 : s[m] \in Tokens
      BY <2>3
    <3>3. 1 \in Int
      OBVIOUS
    <3>4. /\ SubSeq(s, 1, 1) \in Seq(Tokens)
          /\ Len(SubSeq(s, 1, 1)) = IF 1 <= 1 THEN 1 - 1 + 1 ELSE 0
          /\ \A m \in 1..(1 - 1 + 1) : SubSeq(s, 1, 1)[m] = s[1 + m - 1]
      BY <3>2, <3>3, SubSeqProperties
    <3>5. line \in Seq(Tokens) /\ Len(line) = 1 /\ line[1] = s[1]
      BY <3>1, <3>4
    <3>6. PICK f : f = Find(line, {"HDR", "CLEN"})
      OBVIOUS
    <3>7. f \in 0..Len(line) /\ (f = 0 => \A m \in 1..Len(line) : line[m] \notin {"HDR", "CLEN"})
      BY <3>5, <3>6, FindFirst
    <3>8. 1 \in 1..Len(line)
      BY <3>5
    <3>9. f > 0
      BY <2>4, <3>5, <3>7, <3>8
    <3> QED  BY <1>1, <3>0, <3>6, <3>9 DEF HoldsHeader
  <2>8. PICK n : n = [cl EXCEPT !.clen = @ \/ HoldsLength(s)]
    OBVIOUS
  <2>9. /\ n.stage = "header" /\ n.method = cl.method /\ n.bodyLen = cl.bodyLen /\ n.body = cl.body
        /\ n \in HttpClient
    <3>1. (cl.clen \/ HoldsLength(s)) \in BOOLEAN
      BY Zenon
    <3> QED  BY <2>8, <3>1 DEF HttpClient
  <2>10. CASE ~Rescans(s)
    <3>1. x = Result(end, end, n) /\ ~EndsEarly(s, mem, cl)
      BY <1>1, <1>8, <2>7, <2>8, <2>10, Zenon DEF ParseHeader, EndsEarly
    <3>2. x.n = 2 /\ x.client = n
      BY <2>6, <3>1 DEF Result
    <3>3. j + 1 \in 0..h /\ u + 2 = i + 5 + 2 * (j + 1)
      BY <1>5, <1>6, <1>8
    <3>4. Parsing(c, i, h, u + 2, n, r)
      BY <1>4, <2>9, <3>3 DEF Parsing
    <3>5. Answered(c, u + 2, n, r)
      BY <1>3, <2>9, <3>4 DEF Answered
    <3> QED  BY <3>1, <3>2, <3>5
  <2>11. r <= Ended(c, u + 2) /\ Paid(c, u + 2, r - 1)
    <3>1. i - 1 \in Nat /\ u + 2 \in Nat /\ i - 1 <= u + 2 /\ r <= Ended(c, i - 1)
      BY <1>4, <1>5, <1>6 DEF Parsing
    <3>2. PICK k \in Nat : k = i - 1
      BY <3>1
    <3>3. k <= u + 2 /\ r <= Ended(c, k)
      BY <3>1, <3>2
    <3> QED  BY <3>1, <3>3, PaidLater
  <2>12. CASE Rescans(s) /\ HoldsHeader(mem)
    <3>1. PICK sp : sp = [n EXCEPT !.stage = "spin"]
      OBVIOUS
    <3>2. sp.stage = "spin" /\ sp.bodyLen = cl.bodyLen /\ sp.body = cl.body
      BY <2>9, <3>1 DEF HttpClient
    <3>3. x = Result(end, end, sp) /\ ~EndsEarly(s, mem, cl)
      BY <1>1, <1>8, <2>7, <2>8, <2>12, <3>1, Zenon DEF ParseHeader, EndsEarly
    <3>4. x.n = 2 /\ x.client = sp
      BY <2>6, <3>3 DEF Result
    <3>5. Answered(c, u + 2, sp, r)
      BY <1>3, <2>11, <3>2 DEF Answered
    <3> QED  BY <3>3, <3>4, <3>5
  <2>13. CASE Rescans(s) /\ ~HoldsHeader(mem)
    <3>1. PICK fn : fn = Finish(n)
      OBVIOUS
    <3>2. fn.stage = "body" /\ fn.bodyLen = cl.bodyLen /\ fn.body = cl.body
      BY <2>9, <3>1 DEF HttpClient, Finish
    <3>3. x = Result(end, end, fn) /\ EndsEarly(s, mem, cl)
      BY <1>1, <1>8, <2>7, <2>8, <2>13, <3>1, Zenon DEF ParseHeader, EndsEarly
    <3>4. x.n = 2 /\ x.client = fn
      BY <2>6, <3>3 DEF Result
    <3>5. Answered(c, u + 2, fn, r - 1)
      BY <1>3, <2>11, <3>2 DEF Answered
    <3> QED  BY <3>3, <3>4, <3>5
  <2> QED  BY <2>10, <2>12, <2>13
<1>9. CASE end # 0 /\ ~(j < h)
  <2>1. j = h /\ EmptyLine(i, h) = u + 1
    BY <1>5, <1>6, <1>9 DEF EmptyLine
  <2>2. Stream[c][u + 1] = "CRLF"
    BY <1>4, <2>1 DEF Parsing, WellFormed
  <2>3. 1 \in 1..(g - u) /\ 1 \in 1..Len(s)
    BY <1>0, <1>2, <1>9
  <2>4. end = 1
    <3>1. s[1] = "CRLF"
      BY <2>2, <2>3
    <3> QED  BY <1>0, <1>2, <1>9, <2>3, <3>1
  <2>5. ~HoldsHeader(s) /\ ~EndsEarly(s, mem, cl)
    <3>1. ~HoldsHeader(s)
      BY <1>1, <2>4, NoHeader
    <3> QED  BY <3>1 DEF EndsEarly, Rescans
  <2>6. x = Result(end, end, Finish(cl))
    BY <1>1, <1>9, <2>5, Zenon DEF ParseHeader
  <2>7. PICK n : n = Finish(cl)
    OBVIOUS
  <2>8. /\ n.stage = "body" /\ n.method = cl.method /\ n.bodyLen = cl.bodyLen /\ n.body = cl.body
    BY <2>7 DEF HttpClient, Finish
  <2>9. x.n = 1 /\ x.client = n
    BY <2>4, <2>6, <2>7 DEF Result
  <2>10. u + 1 >= EmptyLine(i, h) /\ (n.body = BodyLen[c] \/ u + 1 = EmptyLine(i, h) + n.body)
    BY <1>3, <2>1, <2>8
  <2>11. Parsing(c, i, h, u + 1, n, r)
    BY <1>4, <2>8, <2>10 DEF Parsing
  <2>12. Answered(c, u + 1, n, r)
    BY <1>3, <2>8, <2>11 DEF Answered
  <2> QED  BY <2>5, <2>9, <2>12
<1> QED  BY <1>7, <1>8, <1>9

\* When the end of the request a client is in is used, its response is counted for.
LEMMA EndPays ==
  ASSUME NEW c \in Peers, NEW i \in DOMAIN Stream[c], NEW h \in 0..Len(Stream[c]), NEW u, NEW cl,
         NEW r \in Int, Parsing(c, i, h, u, cl, r), NEW v \in Nat, RequestEnd(c, i, h) <= v
  PROVE  Paid(c, v, r)
<1>1. i \in Nat /\ i >= 1 /\ h \in Nat /\ BodyLen[c] \in Nat
  BY HttpAssumption
<1>2. PICK e \in Nat : e = RequestEnd(c, i, h) /\ e > i
  BY <1>1 DEF RequestEnd, EmptyLine
<1>3. e \in RequestEnds(c) /\ r <= Ended(c, i - 1)
  BY <1>2 DEF Parsing, WellFormed
<1>4. PICK k \in Nat : k = i - 1 /\ k < e /\ e <= v /\ k <= v
  BY <1>1, <1>2
<1>5. PICK m \in Nat, n \in Nat : m = Ended(c, k) /\ n = Ended(c, v) /\ m + 1 <= n
  BY <1>3, <1>4, EndedFacts
<1>6. r <= m
  BY <1>3, <1>4, <1>5
<1> QED  BY <1>5, <1>6 DEF Paid

\* What ParseBody does for a POST: nothing, or a part of the body, or its end.
LEMMA BodyForm ==
  ASSUME NEW B \in Nat, B > 0, NEW s \in Seq(Tokens), NEW l \in Nat, l = Len(s),
         NEW cl \in HttpClient, cl.stage = "body", cl.method = "POST", cl.bodyLen \in {0, B},
         NEW x \in ParseBody(s, B, cl), ~(x.ret < 0)
  PROVE  /\ x.client.bodyLen \in {0, B} /\ x.client.method = "POST"
         /\ \/ x.n = 0 /\ x.client.stage = "body" /\ x.client.body = cl.body
            \/ /\ x.n = l /\ x.client.stage = "body" /\ x.client.body = cl.body + l
               /\ cl.body # B
            \/ /\ x.n = l /\ x.client.stage = "generate" /\ x.client.body \in {0, B}
               /\ cl.body # B /\ l = B - cl.body
<1>1. PICK contentLen \in {0, B} :
        contentLen = IF cl.bodyLen > 0 THEN cl.bodyLen ELSE IF cl.clen THEN B ELSE 0
  OBVIOUS
<1>2. PICK d \in Nat, left \in Int : d = cl.body /\ left = contentLen - d
  <2>1. PICK d \in Nat : d = cl.body
    BY DEF HttpClient
  <2>2. contentLen - d \in Int
    BY <1>1
  <2> QED  BY <2>1, <2>2
<1>3. PICK sized : sized = [cl EXCEPT !.bodyLen = contentLen]
  OBVIOUS
<1>4. /\ sized.stage = "body" /\ sized.method = "POST" /\ sized.bodyLen = contentLen
      /\ sized.body = d /\ sized \in HttpClient
  BY <1>1, <1>2, <1>3 DEF HttpClient
<1>5. ~(cl.bodyLen = 0 /\ contentLen >= MaxBody)
  <2>1. ASSUME cl.bodyLen = 0 /\ contentLen >= MaxBody PROVE FALSE
    <3>1. x = Result(0, -1, cl)
      BY <1>1, <2>1 DEF ParseBody
    <3> QED  BY <3>1 DEF Result
  <2> QED  BY <2>1
<1>6. CASE left <= 0
  <2>1. x = Result(0, 0, sized)
    BY <1>1, <1>2, <1>3, <1>5, <1>6 DEF ParseBody
  <2>2. x.n = 0 /\ x.client = sized
    BY <2>1 DEF Result
  <2> QED  BY <1>1, <1>2, <1>4, <2>2
<1>7. CASE left > 0 /\ l > left
  <2>1. x = Result(0, -1, sized)
    BY <1>1, <1>2, <1>3, <1>5, <1>7 DEF ParseBody
  <2> QED  BY <2>1 DEF Result
<1>8. CASE left > 0 /\ ~(l > left)
  <2>1. contentLen = B /\ left = B - d /\ d # B
    BY <1>1, <1>2, <1>8
  <2>2. PICK dn : dn = IF l = left THEN Finish(sized) ELSE sized
    OBVIOUS
  <2>3. PICK a \in Nat : /\ a = l \/ (a = 0 /\ ~(l < B))
                         /\ x = Result(l, l, [dn EXCEPT !.body = @ + a])
    <3>1. ~(cl.method # "POST") /\ ~(left <= 0) /\ ~(Len(s) > left)
      BY <1>8
    <3>2. x \in {Result(Len(s), Len(s), [dn EXCEPT !.body = @ + a]) :
                  a \in IF Len(s) < contentLen THEN {Len(s)} ELSE {0, Len(s)}}
      BY <1>1, <1>2, <1>3, <1>5, <2>2, <3>1, Zenon DEF ParseBody
    <3>3. PICK a \in IF l < B THEN {l} ELSE {0, l} : x = Result(l, l, [dn EXCEPT !.body = @ + a])
      BY <2>1, <3>2
    <3> QED  BY <3>3
  <2>4. CASE l = left
    <3>1. PICK n : n = [Finish(sized) EXCEPT !.body = @ + a]
      OBVIOUS
    <3>2. /\ Finish(sized).body = d /\ Finish(sized) \in HttpClient /\ Finish(sized).method = "POST"
          /\ Finish(sized).stage = "generate" /\ Finish(sized).bodyLen = contentLen
      BY <1>4 DEF Finish, HttpClient, Stages
    <3>3. /\ n.stage = "generate" /\ n.bodyLen = contentLen /\ n.body = d + a /\ n.method = "POST"
      BY <3>1, <3>2 DEF HttpClient
    <3>4. x.n = l /\ x.client = n
      BY <2>2, <2>3, <2>4, <3>1 DEF Result
    <3>5. d + a = 0 \/ d + a = B
      BY <2>1, <2>3, <2>4
    <3> QED  BY <1>1, <1>2, <2>1, <2>4, <3>3, <3>4, <3>5
  <2>5. CASE l # left
    <3>1. a = l
      BY <1>8, <2>1, <2>3, <2>5
    <3>2. PICK n : n = [sized EXCEPT !.body = @ + l]
      OBVIOUS
    <3>3. n.stage = "body" /\ n.bodyLen = contentLen /\ n.body = d + l /\ n.method = "POST"
      BY <1>4, <3>2 DEF HttpClient
    <3>4. x.n = l /\ x.client = n
      BY <2>2, <2>3, <2>5, <3>1, <3>2 DEF Result
    <3> QED  BY <1>1, <1>2, <2>1, <3>3, <3>4
  <2> QED  BY <2>4, <2>5
<1> QED  BY <1>6, <1>7, <1>8

\* The body: a GET has ended before it, a POST ends with it, unless the headers have
\* ended early and the response is counted for.
LEMMA BodyAnswered ==
  ASSUME NEW c \in Peers, NEW u \in Nat, NEW s \in Seq(Tokens),
         NEW cl \in HttpClient, NEW r \in Int, Answered(c, u, cl, r), cl.stage = "body",
         NEW x \in ParseBody(s, BodyLen[c], cl), ~(x.ret < 0)
  PROVE  Answered(c, u + x.n, x.client, r)
<1>0. PICK l \in Nat, B \in Nat : l = Len(s) /\ B = BodyLen[c] /\ B > 0
  BY HttpAssumption
<1>1. cl.bodyLen \in {0, B} /\ (cl.method # "POST" => cl.body \in {0, B})
  BY <1>0 DEF Answered
<1>2. CASE cl.method # "POST"
  <2>1. x = Result(Len(s), 1, Finish(cl))
    BY <1>2 DEF ParseBody
  <2>2. PICK n : n = Finish(cl)
    OBVIOUS
  <2>3. n.stage = "generate" /\ n.bodyLen = cl.bodyLen /\ n.body = cl.body
    BY <2>2 DEF Finish, HttpClient
  <2>4. x.n = l /\ x.client = n
    BY <1>0, <2>1, <2>2 DEF Result
  <2>5. Paid(c, u + l, r)
    <3>1. CASE Paid(c, u, r)
      BY <3>1, PaidLater
    <3>2. ASSUME NEW i \in DOMAIN Stream[c], NEW h \in 0..Len(Stream[c]), Parsing(c, i, h, u, cl, r)
          PROVE  Paid(c, u + l, r)
      <4>1. i \in Nat /\ i >= 1 /\ h \in Nat
        BY HttpAssumption
      <4>2. PICK e \in Nat : e = EmptyLine(i, h)
        BY <4>1 DEF EmptyLine
      <4>3. u >= e /\ RequestEnd(c, i, h) = e + 0
        BY <1>2, <3>2, <4>2 DEF Parsing, RequestEnd
      <4>4. RequestEnd(c, i, h) <= u + l
        BY <4>2, <4>3
      <4> QED  BY <3>2, <4>4, EndPays
    <3> QED  BY <3>1, <3>2 DEF Answered
  <2>6. Answered(c, u + l, n, r)
    BY <1>0, <1>1, <1>2, <2>3, <2>5 DEF Answered
  <2> QED  BY <2>4, <2>6
<1>3. CASE cl.method = "POST"
  <2>1. PICK k, n : k = x.n /\ n = x.client
    OBVIOUS
  <2>2. /\ n.bodyLen \in {0, B} /\ n.method = "POST"
        /\ \/ k = 0 /\ n.stage = "body" /\ n.body = cl.body
           \/ k = l /\ n.stage = "body" /\ n.body = cl.body + l /\ cl.body # B
           \/ /\ k = l /\ n.stage = "generate" /\ n.body \in {0, B}
              /\ cl.body # B /\ l = B - cl.body
    BY <1>0, <1>1, <1>3, <2>1, BodyForm
  <2>3. k \in Nat /\ u + k \in Nat /\ u <= u + k
    BY <2>2
  <2>4. CASE Paid(c, u, r)
    <3>1. Paid(c, u + k, r)
      BY <2>3, <2>4, PaidLater
    <3>2. Answered(c, u + k, n, r)
      BY <1>0, <2>2, <3>1 DEF Answered
    <3> QED  BY <2>1, <3>2
  <2>5. ASSUME NEW i \in DOMAIN Stream[c], NEW h \in 0..Len(Stream[c]), Parsing(c, i, h, u, cl, r)
        PROVE  Answered(c, u + k, n, r)
    <3>1. i \in Nat /\ i >= 1 /\ h \in Nat
      BY HttpAssumption
    <3>2. PICK e \in Nat : e = EmptyLine(i, h)
      BY <3>1 DEF EmptyLine
    <3>3. PICK d \in Nat : d = cl.body
      BY DEF HttpClient
    <3>4. u >= e /\ (d = B \/ u = e + d)
      BY <1>0, <1>3, <2>5, <3>2, <3>3 DEF Parsing
    <3>5. CASE n.stage = "body"
      <4>1. u + k >= e /\ (n.body = B \/ u + k = e + n.body)
        <5>1. (k = 0 /\ n.body = d) \/ (k = l /\ n.body = d + l /\ d # B)
          BY <2>2, <3>3, <3>5
        <5>2. CASE k = 0 /\ n.body = d
          <6>1. u + k = u
            BY <5>2
          <6> QED  BY <3>4, <5>2, <6>1
        <5>3. CASE k = l /\ n.body = d + l /\ d # B
          <6>1. u + k = u + l /\ u = e + d
            BY <3>4, <5>3
          <6>2. u + l >= e /\ u + l = e + (d + l)
            BY <6>1
          <6> QED  BY <5>3, <6>1, <6>2
        <5> QED  BY <5>1, <5>2, <5>3
      <4>2. Parsing(c, i, h, u + k, n, r)
        BY <1>0, <1>3, <2>2, <2>5, <3>2, <3>5, <4>1 DEF Parsing
      <4> QED  BY <1>0, <2>2, <3>5, <4>2 DEF Answered
    <3>6. CASE n.stage = "generate"
      <4>1. RequestEnd(c, i, h) = e + B
        BY <1>0, <1>3, <2>5, <3>2 DEF Parsing, RequestEnd
      <4>2. RequestEnd(c, i, h) <= u + k
        <5>1. k = l /\ l = B - d /\ d # B
          BY <2>2, <3>3, <3>6
        <5>2. u = e + d
          BY <3>4, <5>1
        <5>3. u + l = e + B
          BY <5>1, <5>2
        <5> QED  BY <4>1, <5>1, <5>3
      <4>3. Paid(c, u + k, r)
        BY <2>3, <2>5, <4>2, EndPays
      <4> QED  BY <1>0, <2>2, <3>6, <4>3 DEF Answered
    <3> QED  BY <2>2, <3>5, <3>6
  <2> QED  BY <2>1, <2>4, <2>5 DEF Answered
<1> QED  BY <1>2, <1>3

\* A handler that reads and parses.
LEMMA ParsersAnswered ==
  ASSUME PeersSendRequests, HttpInv, ReplyInv, NEW p \in Procs, NEW c \in Peers,
         ProcessRequestLine(p, c) \/ ProcessHeader(p, c) \/ ProcessBody(p, c)
  PROVE  ReplyInv'
<1>0. /\ used[c] \in Nat /\ got[c] \in Nat /\ sent[c] \in Nat
      /\ used[c] <= got[c] /\ got[c] <= sent[c] /\ sent[c] <= Len(Stream[c])
      /\ client[c] \in HttpClient /\ replies[c] \in Nat /\ early[c] \in Nat
      /\ early \in [Peers -> Nat]
      /\ used \in [Peers -> Nat] /\ client \in [Peers -> HttpClient]
  BY DEF HttpInv, TypeOK, NetTypeOK, ConnTypeOK, BufferInv, ReplyInv
<1>1. /\ ReadAndParse(p, c) /\ client[c].stage \in {"line", "header", "body"}
  BY DEF ProcessRequestLine, ProcessHeader, ProcessBody, Handling
<1>2. PICK r \in ReadHttpData(p, c) :
         /\ got' = [got EXCEPT ![c] = got[c] + r.n]
         /\ base' = [base EXCEPT ![c] = IF r.n > 0 THEN got[c] ELSE @]
         /\ \E s \in {SubSeq(Stream[c], used[c] + 1, got'[c])},
               mem \in {SubSeq(Stream[c], base'[c] + 1, got'[c])} :
            \E result \in Parse(s, mem, BodyLen[c], client[c]) :
              IF r.ret < 0 \/ result.ret < 0
                THEN CloseConnection(p, c) /\ Resume(p, -1) /\ UNCHANGED <<used, early>>
                ELSE /\ used' = [used EXCEPT ![c] = used[c] + result.n]
                     /\ early' = [early EXCEPT ![c] =
                                    @ + IF EndsEarly(s, mem, client[c]) THEN 1 ELSE 0]
                     /\ client' = [client EXCEPT ![c] = result.client]
                     /\ armed' = [armed EXCEPT ![c] = r.armed]
                     /\ Resume(p, result.ret)
                     /\ UNCHANGED <<connNum, status>>
  BY <1>1 DEF ReadAndParse
<1>3. UNCHANGED replies
  BY <1>1 DEF ReadAndParse
<1>4. PICK g \in Nat : g = got[c] + r.n /\ g <= sent[c] /\ got[c] <= g
  BY <1>0, ReadFacts
<1>5. got'[c] = g
  BY <1>2, <1>4 DEF HttpInv, TypeOK, ConnTypeOK
<1>6. PICK u \in Nat : u = used[c] /\ u <= g /\ g <= Len(Stream[c])
  <2>1. Len(Stream[c]) \in Nat
    BY HttpAssumption
  <2> QED  BY <1>0, <1>4, <2>1
<1>7. PICK s : s = SubSeq(Stream[c], u + 1, g)
  OBVIOUS
<1>8. s = Slice(c, u, g)
  BY <1>7 DEF Slice
<1>9. /\ s \in Seq(Tokens) /\ Len(s) = g - u
      /\ \A m \in 1..(g - u) : s[m] = Stream[c][u + m]
  <2>0. u <= g /\ g <= Len(Stream[c])
    BY <1>6
  <2>1. s \in Seq(Tokens) /\ Len(s) = g - u
    BY <1>8, <2>0, BufferSlice
  <2>2. ASSUME NEW m \in 1..(g - u) PROVE s[m] = Stream[c][u + m]
    BY <1>8, <2>0, BufferSlice
  <2> QED  BY <2>1, <2>2
<1>10. PICK cl \in HttpClient, n \in Int :
         cl = client[c] /\ n = replies[c] - early[c] /\ Answered(c, u, cl, n)
  BY <1>0, <1>6 DEF ReplyInv
<1>11. PICK mem : \E result \in Parse(s, mem, BodyLen[c], client[c]) :
        IF r.ret < 0 \/ result.ret < 0
          THEN CloseConnection(p, c) /\ Resume(p, -1) /\ UNCHANGED <<used, early>>
          ELSE /\ used' = [used EXCEPT ![c] = used[c] + result.n]
               /\ early' = [early EXCEPT ![c] =
                              @ + IF EndsEarly(s, mem, client[c]) THEN 1 ELSE 0]
               /\ client' = [client EXCEPT ![c] = result.client]
               /\ armed' = [armed EXCEPT ![c] = r.armed]
               /\ Resume(p, result.ret)
               /\ UNCHANGED <<connNum, status>>
  <2>1. s = SubSeq(Stream[c], used[c] + 1, got'[c])
    BY <1>5, <1>6, <1>7
  <2>2. PICK s2 \in {SubSeq(Stream[c], used[c] + 1, got'[c])},
             mem \in {SubSeq(Stream[c], base'[c] + 1, got'[c])} :
          \E result \in Parse(s2, mem, BodyLen[c], client[c]) :
            IF r.ret < 0 \/ result.ret < 0
              THEN CloseConnection(p, c) /\ Resume(p, -1) /\ UNCHANGED <<used, early>>
              ELSE /\ used' = [used EXCEPT ![c] = used[c] + result.n]
                   /\ early' = [early EXCEPT ![c] =
                                  @ + IF EndsEarly(s2, mem, client[c]) THEN 1 ELSE 0]
                   /\ client' = [client EXCEPT ![c] = result.client]
                   /\ armed' = [armed EXCEPT ![c] = r.armed]
                   /\ Resume(p, result.ret)
                   /\ UNCHANGED <<connNum, status>>
    BY <1>2
  <2>3. s2 = s
    BY <2>1
  <2> QED  BY <2>2, <2>3
<1>12. PICK result \in Parse(s, mem, BodyLen[c], cl) :
        IF r.ret < 0 \/ result.ret < 0
          THEN CloseConnection(p, c) /\ UNCHANGED <<used, early>>
          ELSE /\ used' = [used EXCEPT ![c] = u + result.n]
               /\ early' = [early EXCEPT ![c] = early[c] + IF EndsEarly(s, mem, cl) THEN 1 ELSE 0]
               /\ client' = [client EXCEPT ![c] = result.client]
  BY <1>6, <1>10, <1>11, Zenon
<1>13. CASE r.ret < 0 \/ result.ret < 0
  <2>1. used' = used /\ early' = early /\ client' = [client EXCEPT ![c] = FreshClient(FALSE)]
    BY <1>12, <1>13 DEF CloseConnection
  <2>2. Answered(c, u, FreshClient(FALSE), n)
    BY <1>10, ResetAnswered
  <2> QED  BY <1>0, <1>3, <1>6, <1>10, <2>1, <2>2 DEF ReplyInv
<1>14. CASE ~(r.ret < 0 \/ result.ret < 0)
  <2>1. PICK e \in {0, 1} : e = IF EndsEarly(s, mem, cl) THEN 1 ELSE 0
    OBVIOUS
  <2>2. /\ used' = [used EXCEPT ![c] = u + result.n]
        /\ client' = [client EXCEPT ![c] = result.client]
        /\ early' = [early EXCEPT ![c] = early[c] + e]
    BY <1>12, <1>14, <2>1
  <2>3. Answered(c, u + result.n, result.client, n - e)
    <3>1. CASE cl.stage = "line"
      <4>1. result = ParseRequestLine(s, cl)
        BY <3>1 DEF Parse
      <4>2. n - e = n
        BY <2>1, <3>1 DEF EndsEarly
      <4> QED  BY <1>6, <1>8, <1>10, <1>14, <3>1, <4>1, <4>2, LineAnswered
    <3>2. CASE cl.stage = "header"
      <4>1. result = ParseHeader(s, mem, cl)
        BY <3>2 DEF Parse
      <4>2. \/ ~EndsEarly(s, mem, cl) /\ Answered(c, u + result.n, result.client, n)
            \/ EndsEarly(s, mem, cl) /\ Answered(c, u + result.n, result.client, n - 1)
        <5>1. \A m \in 1..(g - u) : s[m] = Stream[c][u + m]
          BY <1>9
        <5>2. u <= g /\ s \in Seq(Tokens) /\ Len(s) = g - u
          BY <1>6, <1>9
        <5> QED  BY <1>10, <3>2, <4>1, <5>1, <5>2, HeaderAnswered
      <4>3. n - 0 = n
        OBVIOUS
      <4> QED  BY <2>1, <4>2, <4>3
    <3>3. CASE cl.stage = "body"
      <4>1. result \in ParseBody(s, BodyLen[c], cl)
        BY <3>3 DEF Parse
      <4>2. n - e = n
        BY <2>1, <3>3 DEF EndsEarly
      <4> QED  BY <1>9, <1>10, <1>14, <3>3, <4>1, <4>2, BodyAnswered
    <3> QED  BY <1>1, <1>10, <3>1, <3>2, <3>3
  <2>4. early' \in [Peers -> Nat] /\ early'[c] = early[c] + e /\ \A d \in Peers \ {c} : early'[d] = early[d]
    BY <1>0, <2>1, <2>2
  <2>5. replies'[c] - early'[c] = n - e
    BY <1>0, <1>3, <1>10, <2>1, <2>4
  <2>6. Answered(c, used'[c], client'[c], replies'[c] - early'[c])
    BY <1>0, <2>2, <2>3, <2>5
  <2>7. ASSUME NEW d \in Peers \ {c} PROVE Answered(d, used'[d], client'[d], replies'[d] - early'[d])
    <3>1. used'[d] = used[d] /\ client'[d] = client[d] /\ replies'[d] = replies[d] /\ early'[d] = early[d]
      BY <1>0, <1>3, <2>2, <2>4
    <3> QED  BY <3>1 DEF ReplyInv
  <2> QED  BY <1>3, <2>4, <2>6, <2>7 DEF ReplyInv
<1> QED  BY <1>13, <1>14

\* The handlers that make and send the response.
LEMMA ResponseAnswered ==
  ASSUME HttpInv, ReplyInv, NEW p \in Procs, NEW c \in Peers,
         GenerateResponse(p, c) \/ SendResponse(p, c)
  PROVE  ReplyInv'
<1>0. /\ used[c] \in Nat /\ client[c] \in HttpClient /\ replies[c] \in Nat /\ early[c] \in Nat
      /\ used \in [Peers -> Nat] /\ client \in [Peers -> HttpClient]
      /\ replies \in [Peers -> Nat] /\ early \in [Peers -> Nat]
  BY DEF HttpInv, TypeOK, ConnTypeOK, ReplyInv
<1>1. UNCHANGED <<used, early>>
  BY DEF GenerateResponse, SendResponse
<1>2. PICK cl \in HttpClient, n \in Int :
        cl = client[c] /\ n = replies[c] - early[c] /\ Answered(c, used[c], cl, n)
  BY <1>0 DEF ReplyInv
<1>3. ASSUME NEW k \in {0, 1}, NEW x, Answered(c, used[c], x, n + k),
             client' = [client EXCEPT ![c] = x], replies' = [replies EXCEPT ![c] = replies[c] + k]
      PROVE  ReplyInv'
  <2>1. replies' \in [Peers -> Nat] /\ replies'[c] = replies[c] + k
    BY <1>0, <1>3
  <2>2. replies'[c] - early'[c] = n + k
    BY <1>0, <1>1, <1>2, <2>1
  <2>3. Answered(c, used'[c], client'[c], replies'[c] - early'[c])
    BY <1>0, <1>1, <1>3, <2>2
  <2>4. ASSUME NEW d \in Peers \ {c} PROVE Answered(d, used'[d], client'[d], replies'[d] - early'[d])
    <3>1. used'[d] = used[d] /\ client'[d] = client[d] /\ replies'[d] = replies[d] /\ early'[d] = early[d]
      BY <1>0, <1>1, <1>3
    <3> QED  BY <3>1 DEF ReplyInv
  <2> QED  BY <1>0, <1>1, <2>1, <2>3, <2>4 DEF ReplyInv
<1>4. 0 \in {0, 1} /\ n + 0 = n /\ [replies EXCEPT ![c] = replies[c] + 0] = replies
  BY <1>0
<1>5. ASSUME GenerateResponse(p, c) PROVE ReplyInv'
  <2>1. cl.stage = "generate" /\ replies' = replies
    BY <1>2, <1>5 DEF GenerateResponse, Handling
  <2>2. PICK fin : fin = Finish(cl)
    OBVIOUS
  <2>3. PICK k : client' = [client EXCEPT ![c] = [fin EXCEPT !.left = k]]
    BY <1>2, <1>5, <2>2, Zenon DEF GenerateResponse
  <2>4. PICK x : x = [fin EXCEPT !.left = k]
    OBVIOUS
  <2>5. x.stage = "send" /\ x.bodyLen = cl.bodyLen /\ x.body = cl.body
    BY <2>1, <2>2, <2>4 DEF Finish, HttpClient
  <2>6. Answered(c, used[c], x, n + 0)
    BY <1>2, <1>4, <2>1, <2>5 DEF Answered
  <2> QED  BY <1>3, <1>4, <2>1, <2>3, <2>4, <2>6
<1>6. ASSUME SendResponse(p, c) PROVE ReplyInv'
  <2>1. cl.stage = "send"
    BY <1>2, <1>6 DEF SendResponse, Handling
  <2>2. PICK r \in SendBuffer(c, cl.left) :
          IF r.ret < 0
            THEN client' = [client EXCEPT ![c] = FreshClient(FALSE)] /\ replies' = replies
            ELSE LET left == cl.left - r.ret
                     rest == [cl EXCEPT !.left = left] IN
                 /\ client' = [client EXCEPT ![c] = IF left = 0 THEN Finish(rest) ELSE rest]
                 /\ replies' = [replies EXCEPT ![c] = IF left = 0 /\ r.ret > 0 THEN @ + 1 ELSE @]
    BY <1>2, <1>6 DEF SendResponse, CloseConnection
  <2>3. CASE r.ret < 0
    <3>1. Answered(c, used[c], FreshClient(FALSE), n + 0)
      BY <1>0, <1>2, <1>4, ResetAnswered
    <3> QED  BY <1>3, <1>4, <2>2, <2>3, <3>1
  <2>4. CASE ~(r.ret < 0)
    <3>1. PICK left, rest : left = cl.left - r.ret /\ rest = [cl EXCEPT !.left = left]
      OBVIOUS
    <3>2. /\ client' = [client EXCEPT ![c] = IF left = 0 THEN Finish(rest) ELSE rest]
          /\ replies' = [replies EXCEPT ![c] = IF left = 0 /\ r.ret > 0 THEN replies[c] + 1 ELSE replies[c]]
      BY <2>2, <2>4, <3>1
    <3>3. rest.stage = "send" /\ rest.bodyLen = cl.bodyLen /\ rest.body = cl.body
      BY <2>1, <3>1 DEF HttpClient
    <3>4. /\ Finish(rest).stage = "line" /\ Finish(rest).bodyLen = cl.bodyLen
          /\ Finish(rest).body = cl.body
      BY <2>1, <3>1, <3>3 DEF HttpClient, Finish
    <3>5. CASE left = 0
      <4>1. PICK k \in {0, 1} : replies' = [replies EXCEPT ![c] = replies[c] + k]
        BY <1>0, <1>4, <3>2, <3>5
      <4>2. n + k <= Ended(c, used[c])
        <5>1. PICK m \in Nat : m = Ended(c, used[c])
          BY <1>0, EndedFacts
        <5>2. n + 1 <= m
          BY <1>2, <2>1, <5>1 DEF Answered, Paid
        <5> QED  BY <5>1, <5>2
      <4>3. Answered(c, used[c], Finish(rest), n + k)
        BY <1>2, <2>1, <3>4, <4>2 DEF Answered
      <4>4. client' = [client EXCEPT ![c] = Finish(rest)]
        BY <3>2, <3>5
      <4> QED  BY <1>3, <4>1, <4>3, <4>4
    <3>6. CASE left # 0
      <4>1. client' = [client EXCEPT ![c] = rest] /\ replies' = replies
        BY <1>0, <3>2, <3>6
      <4>2. Answered(c, used[c], rest, n + 0)
        BY <1>2, <1>4, <2>1, <3>3 DEF Answered
      <4> QED  BY <1>3, <1>4, <4>1, <4>2
    <3> QED  BY <3>5, <3>6
  <2> QED  BY <2>3, <2>4
<1> QED  BY <1>5, <1>6

\* Every step.
LEMMA ReplyStep ==
  ASSUME PeersSendRequests, HttpInv, ReplyInv, [Next]_vars PROVE ReplyInv'
<1>1. CASE UNCHANGED <<used, client, replies, early>>
  BY <1>1 DEF ReplyInv
<1>2. ASSUME NEW p \in Procs, HandleAccepted(p) PROVE ReplyInv'
  <2>0. acceptQ[p] \in Seq(Peers) /\ acceptQ[p] # <<>>
    BY <1>2 DEF HandleAccepted, HttpInv, TypeOK, ProcTypeOK
  <2>1. PICK c \in Peers : c = Head(acceptQ[p])
    BY <2>0
  <2>2. UNCHANGED <<used, replies, early>> /\ client' = [client EXCEPT ![c] = FreshClient(TRUE)]
    BY <1>2, <2>1 DEF HandleAccepted
  <2>3. /\ used[c] \in Nat /\ client[c] \in HttpClient /\ replies[c] - early[c] \in Int
        /\ client \in [Peers -> HttpClient]
        /\ Answered(c, used[c], client[c], replies[c] - early[c])
    BY DEF HttpInv, TypeOK, ConnTypeOK, ReplyInv
  <2>4. Answered(c, used[c], FreshClient(TRUE), replies[c] - early[c])
    BY <2>3, ResetAnswered
  <2> QED  BY <2>2, <2>3, <2>4 DEF ReplyInv
<1>3. ASSUME NEW p \in Procs, Handler(p) PROVE ReplyInv'
  <2>1. PICK c \in Peers :
          \/ ProcessRequestLine(p, c) \/ ProcessHeader(p, c) \/ ProcessBody(p, c)
          \/ GenerateResponse(p, c) \/ SendResponse(p, c) \/ KilledBySigpipe(p, c)
    BY <1>3 DEF Handler
  <2>2. KilledBySigpipe(p, c) => UNCHANGED <<used, client, replies, early>>
    BY DEF KilledBySigpipe
  <2> QED  BY <1>1, <2>1, <2>2, ParsersAnswered, ResponseAnswered
<1>4. ASSUME NEW p \in Procs,
             \/ WatchListener(p) \/ WaitAll(p) \/ HandleAcceptReady(p) \/ QueueEvent(p)
             \/ HandleReadWrite(p)
      PROVE  UNCHANGED <<used, client, replies, early>>
  BY <1>4 DEF WatchListener, WaitAll, HandleAcceptReady, QueueEvent, HandleReadWrite, connVars
<1>5. ASSUME NEW c \in Peers, Connect(c) \/ Deliver(c) \/ Drain(c) \/ Leave(c)
      PROVE  UNCHANGED <<used, client, replies, early>>
  BY <1>5 DEF Connect, Deliver, Drain, Leave, connVars
<1>6. CASE UNCHANGED vars
  BY <1>1, <1>6 DEF vars, connVars
<1>7. ASSUME NEW p \in Procs, Process(p) PROVE ReplyInv'
  BY <1>1, <1>2, <1>3, <1>4, <1>7 DEF Process
<1> QED  BY <1>1, <1>5, <1>6, <1>7 DEF Next

\* If peers send requests, however many, however cut and however long they take, then no
\* response is made before its request has arrived to the end, and none twice, but for at
\* most one each time a rescan ends the headers of a request (HttpClient.cc:231).
THEOREM RepliesFollowRequests ==
  ASSUME PeersSendRequests PROVE SafetySpec => []RepliesNeedRequests
<1>1. Init => ReplyInv
  <2> SUFFICES ASSUME Init PROVE ReplyInv
    OBVIOUS
  <2>1. /\ used = [c \in Peers |-> 0] /\ replies = [c \in Peers |-> 0] /\ early = [c \in Peers |-> 0]
        /\ client = [c \in Peers |-> FreshClient(FALSE)]
    BY DEF Init
  <2>2. ASSUME NEW c \in Peers PROVE Answered(c, 0, FreshClient(FALSE), 0 - 0)
    <3>1. 0 \in Nat /\ 0 <= 0
      OBVIOUS
    <3>2. Ended(c, 0) \in Nat
      BY <3>1, EndedFacts
    <3>3. 0 <= Ended(c, 0)
      BY <3>2
    <3>4. 0 - 0 = 0
      OBVIOUS
    <3> QED  BY <3>3, <3>4 DEF Answered, FreshClient
  <2> QED  BY <2>1, <2>2 DEF ReplyInv
<1>2. ReplyInv /\ HttpInv /\ [Next]_vars => ReplyInv'
  BY ReplyStep
<1>3. ReplyInv /\ HttpInv => RepliesNeedRequests
  <2> SUFFICES ASSUME ReplyInv, HttpInv, NEW c \in Peers
               PROVE  replies[c] + (IF client[c].stage = "send" THEN 1 ELSE 0)
                        <= Cardinality({i \in RequestEnds(c) : i <= sent[c]}) + early[c]
    BY DEF RepliesNeedRequests
  <2>1. /\ used[c] \in Nat /\ sent[c] \in Nat /\ used[c] <= sent[c] /\ client[c] \in HttpClient
    <3>1. /\ used[c] \in Nat /\ sent[c] \in Nat /\ got[c] \in Nat /\ used[c] <= got[c]
          /\ got[c] <= sent[c]
      BY DEF HttpInv, TypeOK, NetTypeOK, ConnTypeOK, BufferInv
    <3>2. used[c] <= sent[c]
      BY <3>1
    <3> QED  BY <3>1, <3>2 DEF HttpInv, TypeOK, ConnTypeOK
  <2>2. PICK m \in Nat, n \in Nat : m = Ended(c, used[c]) /\ n = Ended(c, sent[c]) /\ m <= n
    BY <2>1, EndedFacts
  <2>3. n = Cardinality({i \in RequestEnds(c) : i <= sent[c]})
    BY <2>2 DEF Ended
  <2>4. PICK k \in Nat, e \in Nat, r \in Int :
          /\ k = replies[c] /\ e = early[c] /\ r = k - e /\ Answered(c, used[c], client[c], r)
    BY DEF ReplyInv
  <2>5. CASE client[c].stage = "send"
    <3>1. r + 1 <= m
      BY <2>2, <2>4, <2>5 DEF Answered, Paid
    <3>2. k + 1 <= n + e
      BY <2>2, <2>4, <3>1
    <3> QED  BY <2>3, <2>4, <2>5, <3>2
  <2>6. CASE client[c].stage # "send"
    <3>1. Answered(c, used[c], FreshClient(FALSE), r)
      BY <2>1, <2>4, ResetAnswered
    <3>2. r <= m
      BY <2>2, <3>1 DEF Answered, FreshClient
    <3>3. k + 0 <= n + e
      BY <2>2, <2>4, <3>2
    <3> QED  BY <2>3, <2>4, <2>6, <3>3
  <2> QED  BY <2>5, <2>6
<1> QED  BY <1>1, <1>2, <1>3, HttpInvariant, PTL DEF SafetySpec
=============================================================================
