----------------------------- MODULE HttpServer -----------------------------
(***************************************************************************)
(* The http server (http/): processes forked by main.cc share a listening  *)
(* socket; each polls its own epoll instance (SocketPoll.cc) in one thread *)
(* (ServerImpl::RunPoll, HttpServer::RunPoll) and hands the events of a    *)
(* connection to its HttpClient, a chain of handlers that parse what was   *)
(* read, make the response and send it.                                    *)
(*                                                                         *)
(* Every socket is watched with EPOLLONESHOT: an event disarms it until    *)
(* ReadBuffer or SendBuffer arms it again.  The bytes of a connection are  *)
(* a sequence of tokens: a method, "SP", "URL", "VER" (an http version),   *)
(* "CRLF", "HDR" and "CLEN" (header lines without their end, CLEN being    *)
(* Content-Length), "BYTE" (of a body).  A peer may cut them into segments.*)
(*                                                                         *)
(* epoll_ctl and malloc succeed, and AllocWriteBuffer has a buffer of the  *)
(* size it is asked for.  A client is its own connection, so that no       *)
(* descriptor number is used twice.                                        *)
(***************************************************************************)
EXTENDS Integers, Sequences, FiniteSets, FiniteSetsExt

CONSTANTS
  Procs,     \* the forked processes
  Peers,     \* remote clients; each connects once
  Stream,    \* [Peers -> Seq(Tokens)]: all that a peer may send
  Cuts,      \* [Peers -> sets of positions of the stream a segment may end at]
  BodyLen,   \* [Peers -> Nat]  the value of a peer's Content-Length headers
  MaxBody,   \* HttpRequest::MaxBodyLength
  RespLens,  \* lengths of the responses cgi_ may make
  StatusLen, \* length of "HTTP/1.1 404 " (13), which is part of them
  Granule,   \* the sizes of write buffers are its multiples (1024)
  SndBuf,    \* length of a socket's send buffer
  ReadCap,   \* length of a read buffer (8*1024)
  MaxConn    \* max_conn_id

Methods == {"GET", "POST"}
Tokens == Methods \cup
  {"BAD", "SP", "URL", "VER", "CRLF", "HDR", "CLEN", "BYTE"}
None == "none"
NoEvent == [conn |-> None, code |-> None]
Listener == "listener"   \* the listening socket in a set of poll events

\* The method at i is followed by a url, and that by a version or its like.
RequestLine(s, i) ==
  Len(s) >= i + 5 /\ s[i + 1] = "SP" /\ s[i + 2] = "URL" /\ s[i + 3] = "SP"

ASSUME HttpAssumption ==
  /\ Stream \in [Peers -> Seq(Tokens)]
  /\ \A c \in Peers : \A i \in DOMAIN Stream[c] :
       Stream[c][i] \in Methods => RequestLine(Stream[c], i)
  /\ \A c \in Peers : Cuts[c] \subseteq DOMAIN Stream[c]
  /\ BodyLen \in [Peers -> Nat \ {0}]
  /\ RespLens \subseteq Nat /\ StatusLen \in Nat /\ \A len \in RespLens : len > StatusLen
  /\ {MaxBody, Granule, SndBuf, ReadCap, MaxConn} \subseteq Nat \ {0}
  /\ None \notin Procs /\ Listener \notin Peers

VARIABLES
  (* the network *)
  backlog,  \* connections nobody has accepted, in order
  sent,     \* [Peers -> Nat]  tokens of the stream that have arrived
  gone,     \* [Peers -> BOOLEAN]  the peer closed its end
  room,     \* [Peers -> 0..SndBuf]  free space of the send buffer
  (* a connection *)
  owner,    \* [Peers -> Procs \cup {None}]  the process that accepted it
  status,   \* [Peers -> ...]  status_ of its slot; "none" before the accept
  armed,    \* [Peers -> {"off", "in", "inout"}]  what epoll watches
  got,      \* [Peers -> Nat]  tokens read from the socket
  base,     \* [Peers -> Nat]  got before the last read: memory_ begins there
  used,     \* [Peers -> Nat]  tokens consumed from the read buffer
  client,   \* [Peers -> record]  the HttpClient
  replies,  \* [Peers -> Nat]  history: responses sent to the end
  early,    \* [Peers -> Nat]  history: headers that a rescan has ended
  unsent,   \* [Peers -> BOOLEAN]  history: a response did not fit its buffer
  (* a process *)
  watching, \* [Procs -> BOOLEAN]  watching_; the listener's slot is LISTENING
  listen,   \* [Procs -> BOOLEAN]  epoll has the listener armed
  connNum,  \* [Procs -> Nat]  connNum_
  batch,    \* [Procs -> set of poll events]  pollEvent_ not looked at yet
  acceptQ,  \* [Procs -> Seq(Peers)]  accept_queue
  rwQ,      \* [Procs -> Seq(events)]  read_write_queue
  pc,       \* [Procs -> {"loop", "poll", "handle", "dead"}]
  cur       \* [Procs -> event]  what ProcessEvent is called with

netVars == <<backlog, sent, gone, room>>
connVars == <<owner, status, armed, got, base, used, client, replies, early, unsent>>
procVars == <<watching, listen, connNum, batch, acceptQ, rwQ, pc, cur>>
vars == <<netVars, connVars, procVars>>

\* A client after ResetClient; conn says whether conn_ is set.
\* stage is evtHandler_, left the unsent part of pendingWrite_, clen whether
\* the headers hold Content-Length, body the length of httpBody_.
FreshClient(hasConn) ==
  [conn |-> hasConn, stage |-> "line", method |-> None, clen |-> FALSE,
   bodyLen |-> 0, body |-> 0, left |-> 0]

\* main: listen, fork; every process watches the listening socket.
Init ==
  /\ backlog = <<>>
  /\ sent = [c \in Peers |-> 0] /\ gone = [c \in Peers |-> FALSE]
  /\ room = [c \in Peers |-> SndBuf]
  /\ owner = [c \in Peers |-> None] /\ status = [c \in Peers |-> None]
  /\ armed = [c \in Peers |-> "off"]
  /\ got = [c \in Peers |-> 0] /\ base = [c \in Peers |-> 0] /\ used = [c \in Peers |-> 0]
  /\ client = [c \in Peers |-> FreshClient(FALSE)]
  /\ replies = [c \in Peers |-> 0] /\ early = [c \in Peers |-> 0]
  /\ unsent = [c \in Peers |-> FALSE]
  /\ watching = [p \in Procs |-> TRUE] /\ listen = [p \in Procs |-> TRUE]
  /\ connNum = [p \in Procs |-> 0]
  /\ batch = [p \in Procs |-> {}]
  /\ acceptQ = [p \in Procs |-> <<>>] /\ rwQ = [p \in Procs |-> <<>>]
  /\ pc = [p \in Procs |-> "loop"]
  /\ cur = [p \in Procs |-> NoEvent]

-----------------------------------------------------------------------------
(* The peers *)

Connecting(c) == \E i \in DOMAIN backlog : backlog[i] = c

Connect(c) ==
  /\ status[c] = None /\ ~Connecting(c)
  /\ backlog' = Append(backlog, c)
  /\ UNCHANGED <<sent, gone, room, connVars, procVars>>

\* A segment arrives.
Deliver(c) ==
  /\ Connecting(c) \/ status[c] = "CONNECTED"
  /\ ~gone[c]
  /\ \E n \in Cuts[c] : n > sent[c] /\ sent' = [sent EXCEPT ![c] = n]
  /\ UNCHANGED <<backlog, gone, room, connVars, procVars>>

\* The peer reads what is in the send buffer.
Drain(c) ==
  /\ status[c] = "CONNECTED" /\ ~gone[c] /\ room[c] < SndBuf
  /\ room' = [room EXCEPT ![c] = SndBuf]
  /\ UNCHANGED <<backlog, sent, gone, connVars, procVars>>

Leave(c) ==
  /\ Connecting(c) \/ status[c] = "CONNECTED"
  /\ ~gone[c]
  /\ gone' = [gone EXCEPT ![c] = TRUE]
  /\ UNCHANGED <<backlog, sent, room, connVars, procVars>>

-----------------------------------------------------------------------------
(* SocketPoll and ServerImpl *)

Readable(c) == got[c] < sent[c] \/ gone[c]
Writable(c) == room[c] > 0 \/ gone[c]

\* What epoll_wait returns: armed sockets that are ready.  The code of a
\* connection's event is SC_READ if it is readable, whether writable or not.
PollEvents(p) ==
  {[conn |-> c, code |-> "READ"] : c \in {c \in Peers :
      owner[c] = p /\ armed[c] # "off" /\ Readable(c)}}
  \cup {[conn |-> c, code |-> "WRITE"] : c \in {c \in Peers :
      owner[c] = p /\ armed[c] = "inout" /\ ~Readable(c) /\ Writable(c)}}
  \cup {[conn |-> x, code |-> "ACCEPT"] : x \in {x \in {Listener} :
      listen[p] /\ backlog # <<>>}}

QueuesEmpty(p) == acceptQ[p] = <<>> /\ rwQ[p] = <<>>

\* SocketPoll::WaitAll blocks until there is an event; EPOLLONESHOT.
WaitAll(p) ==
  /\ pc[p] = "poll" /\ QueuesEmpty(p) /\ batch[p] = {}
  /\ \E events \in {PollEvents(p)} :
       /\ events # {}
       /\ batch' = [batch EXCEPT ![p] = events]
       /\ LET seen == {e.conn : e \in events}
          IN  /\ armed' = [c \in Peers |-> IF c \in seen THEN "off" ELSE armed[c]]
              /\ listen' = [listen EXCEPT ![p] = @ /\ Listener \notin seen]
  /\ UNCHANGED <<netVars, owner, status, got, base, used, client, replies, early, unsent,
                 watching, connNum, acceptQ, rwQ, pc, cur>>

TakeEvent(p, e) ==
  /\ pc[p] = "poll" /\ e \in batch[p]
  /\ batch' = [batch EXCEPT ![p] = @ \ {e}]

\* HandleAcceptReady: another process may have accepted the connection first.
\* The listener is not armed again.
HandleAcceptReady(p) ==
  /\ TakeEvent(p, [conn |-> Listener, code |-> "ACCEPT"])
  /\ IF backlog = <<>>
       THEN UNCHANGED <<backlog, owner, status, armed, connNum, acceptQ>>
       ELSE LET c == Head(backlog) IN
            /\ backlog' = Tail(backlog)
            /\ connNum' = [connNum EXCEPT ![p] = @ + 1]
            /\ owner' = [owner EXCEPT ![c] = p]
            /\ status' = [status EXCEPT ![c] = "CONNECTED"]
            /\ armed' = [armed EXCEPT ![c] = "in"]
            /\ acceptQ' = [acceptQ EXCEPT ![p] = Append(@, c)]
  /\ UNCHANGED <<sent, gone, room, got, base, used, client, replies, early, unsent, watching,
                 listen, rwQ, pc, cur>>

\* An event of a connection is queued, of a closed one it is dropped.
QueueEvent(p) ==
  /\ \E e \in batch[p] :
       /\ e.conn # Listener
       /\ TakeEvent(p, e)
       /\ rwQ' = IF status[e.conn] = "CONNECTED"
                   THEN [rwQ EXCEPT ![p] = Append(@, e)] ELSE rwQ
  /\ UNCHANGED <<netVars, connVars, watching, listen, connNum, acceptQ, pc, cur>>

\* Mutation: the socket is not watched again after reading.
ReadBufferUnwatched(c) ==
  LET n == Min({sent[c] - got[c], ReadCap})
  IN  {[n |-> n, armed |-> armed[c],
        ret |-> IF n = 0 /\ gone[c] THEN -1 ELSE n]}

\* The outcomes of ServerImpl::ReadBuffer: what was read, what epoll watches
\* after it and the value returned.  A read from a peer that is gone may fail.
ReadBuffer(c) ==
  LET n == Min({sent[c] - got[c], ReadCap})
  IN  {[n |-> n, armed |-> "in", ret |-> IF n = 0 /\ gone[c] THEN -1 ELSE n]}
      \cup {[n |-> 0, armed |-> "in", ret |-> -1] : x \in {x \in {c} : gone[x]}}

\* Mutation: a short write does not ask for the write event.
SendBufferReadOnly(c, sz) ==
  {[ret |-> Min({sz, room[c]}), armed |-> "in"]}

\* The outcomes of ServerImpl::SendBuffer for sz tokens.  A write to a peer that
\* is gone may fail too.
SendBuffer(c, sz) ==
  LET n == Min({sz, room[c]})
  IN  {[ret |-> n, armed |-> IF n < sz THEN "inout" ELSE "in"]}
      \cup {[ret |-> -1, armed |-> armed[c]] : x \in {x \in {c} : gone[x]}}

\* ForceSocketClose, called through HttpClient::CloseConnection.
ForceSocketClose(p, c) ==
  /\ connNum' = [connNum EXCEPT ![p] = @ - 1]
  /\ armed' = [armed EXCEPT ![c] = "off"]
  /\ status' = [status EXCEPT ![c] = "INVALID"]

-----------------------------------------------------------------------------
(* HttpClient: what the parsers do with the content of the read buffer.  A   *)
(* result is the tokens consumed, the value returned and the client.         *)

Buffered(c) == SubSeq(Stream[c], used[c] + 1, got[c])

\* Index of the first token of s in set, 0 if there is none.
Find(s, set) ==
  LET at == {i \in DOMAIN s : s[i] \in set}
  IN  IF at = {} THEN 0 ELSE Min(at)
FindSpace(s) == Find(s, {"SP", "HDR", "CLEN"})   \* a header holds ": "
FindEnd(s) == Find(s, {"CRLF"})

\* The Finish... functions: the handler that comes next.
Finish(cl) ==
  [cl EXCEPT !.stage = CASE @ = "line" -> "header" [] @ = "header" -> "body"
     [] @ = "body" -> "generate" [] @ = "generate" -> "send" [] @ = "send" -> "line"]

Result(n, ret, cl) == [n |-> n, ret |-> ret, client |-> cl]

\* A method without its url, or a url without the version, is consumed all
\* the same; the next call then takes what follows for a method.
ParseRequestLine(s, cl) ==
  LET hasMethod == [cl EXCEPT !.method = s[1]]
  IN  IF FindSpace(s) = 0 THEN Result(0, 0, cl)
      ELSE IF FindSpace(s) # 2 \/ s[1] \notin Methods THEN Result(0, -1, cl)
      ELSE IF Len(s) < 4 THEN Result(2, 2, hasMethod)
      ELSE IF Len(s) < 6 THEN Result(4, 4, hasMethod)
      ELSE IF s[5] # "VER" \/ s[6] # "CRLF" THEN Result(0, -1, cl)
      ELSE Result(6, 6, Finish(hasMethod))

\* The first line of s is a header.
HoldsHeader(s) == Find(SubSeq(s, 1, FindEnd(s) - 1), {"HDR", "CLEN"}) > 0
HoldsLength(s) == Find(SubSeq(s, 1, FindEnd(s) - 1), {"CLEN"}) > 0

\* A header line that empties the buffer: ConsumeBuffer sends curPtr_ back to
\* memory_, while ParseHeader keeps the end it began with.  So it goes on with
\* the first line of mem, all that was read last.
Rescans(s) == HoldsHeader(s) /\ FindEnd(s) = Len(s)

\* Mutation: a line that has not ended is taken for the end of the headers.
ParseHeaderUnended(s, mem, cl) ==
  LET end == FindEnd(s)
      added == [cl EXCEPT !.clen = @ \/ HoldsLength(s)]
  IN  IF ~HoldsHeader(s) THEN Result(end, 1, Finish(cl))
      ELSE IF ~Rescans(s) THEN Result(end, end, added)
      ELSE IF HoldsHeader(mem) THEN Result(end, end, [added EXCEPT !.stage = "spin"])
      ELSE Result(end, end, Finish(added))

\* One line of ParseHeader's loop.  A line that has not ended returns true, so
\* that ProcessEvent calls the handler again.  A rescan takes a request line for
\* the end of the headers, and never gets past a header line.
ParseHeader(s, mem, cl) ==
  LET end == FindEnd(s)
      added == [cl EXCEPT !.clen = @ \/ HoldsLength(s)]
  IN  IF end = 0 THEN Result(0, 1, cl)
      ELSE IF ~HoldsHeader(s) THEN Result(end, end, Finish(cl))
      ELSE IF ~Rescans(s) THEN Result(end, end, added)
      ELSE IF HoldsHeader(mem) THEN Result(end, end, [added EXCEPT !.stage = "spin"])
      ELSE Result(end, end, Finish(added))

\* The case in which the headers end without their empty line.
EndsEarly(s, mem, cl) == cl.stage = "header" /\ Rescans(s) /\ ~HoldsHeader(mem)

\* Anything but a POST drops all that is buffered.  The request is only cleaned
\* up by ResetClient: bodyLen, body and clen may be those of an earlier request.
\* AppendBody drops a chunk as long as the capacity of the string, which is
\* Content-Length or more.
ParseBody(s, declared, cl) ==
  LET contentLen == IF cl.bodyLen > 0 THEN cl.bodyLen
                    ELSE IF cl.clen THEN declared ELSE 0
      refused == cl.bodyLen = 0 /\ contentLen >= MaxBody
      left == contentLen - cl.body
      sized == [cl EXCEPT !.bodyLen = contentLen]
      done == IF Len(s) = left THEN Finish(sized) ELSE sized
      kept == IF Len(s) < contentLen THEN {Len(s)} ELSE {0, Len(s)}
  IN  IF cl.method # "POST" THEN {Result(Len(s), 1, Finish(cl))}
      ELSE IF refused THEN {Result(0, -1, cl)}
      ELSE IF left <= 0 THEN {Result(0, 0, sized)}
      ELSE IF Len(s) > left THEN {Result(0, -1, sized)}
      ELSE {Result(Len(s), Len(s), [done EXCEPT !.body = @ + k]) : k \in kept}

-----------------------------------------------------------------------------
(* HttpClient::ProcessEvent: one action per call of a handler.  It calls the *)
(* current one again while that returns a positive value.  A client in stage *)
(* "spin" is in a ParseHeader that does not return.                          *)

Handling(p, c, stage) ==
  /\ pc[p] = "handle" /\ cur[p].conn = c /\ client[c].stage = stage

\* Back to HttpServer::RunPoll, unless the handler is called again.
Resume(p, ret) ==
  /\ pc' = [pc EXCEPT ![p] = IF ret > 0 THEN "handle" ELSE "loop"]
  /\ cur' = [cur EXCEPT ![p] = IF ret > 0 THEN @ ELSE NoEvent]

CloseConnection(p, c) ==
  /\ ForceSocketClose(p, c)
  /\ client' = [client EXCEPT ![c] = FreshClient(FALSE)]

\* ReadHttpData reads only into an empty buffer, and only for SC_READ.
ReadHttpData(p, c) ==
  IF cur[p].code = "READ" /\ Buffered(c) = <<>> THEN ReadBuffer(c)
  ELSE {[n |-> 0, armed |-> armed[c], ret |-> 0]}

\* The results of the parser the current handler calls; s is the content of the
\* read buffer, mem what was read last, declared the value of Content-Length.
Parse(s, mem, declared, cl) ==
  CASE cl.stage = "line" -> {ParseRequestLine(s, cl)}
    [] cl.stage = "header" -> {ParseHeader(s, mem, cl)}
    [] cl.stage = "body" -> ParseBody(s, declared, cl)

\* ProcessRequestLine, ProcessHeader and ProcessBody: read, then parse.
ReadAndParse(p, c) ==
  /\ \E r \in ReadHttpData(p, c) :
       /\ got' = [got EXCEPT ![c] = @ + r.n]
       /\ base' = [base EXCEPT ![c] = IF r.n > 0 THEN got[c] ELSE @]
       /\ \E s \in {SubSeq(Stream[c], used[c] + 1, got'[c])},
             mem \in {SubSeq(Stream[c], base'[c] + 1, got'[c])} :
          \E result \in Parse(s, mem, BodyLen[c], client[c]) :
            IF r.ret < 0 \/ result.ret < 0
              THEN CloseConnection(p, c) /\ Resume(p, -1) /\ UNCHANGED <<used, early>>
              ELSE /\ used' = [used EXCEPT ![c] = @ + result.n]
                   /\ early' = [early EXCEPT ![c] =
                                  @ + IF EndsEarly(s, mem, client[c]) THEN 1 ELSE 0]
                   /\ client' = [client EXCEPT ![c] = result.client]
                   /\ armed' = [armed EXCEPT ![c] = r.armed]
                   /\ Resume(p, result.ret)
                   /\ UNCHANGED <<connNum, status>>
  /\ UNCHANGED <<netVars, owner, replies, unsent, watching, listen, batch, acceptQ, rwQ>>

ProcessRequestLine(p, c) ==
  /\ Handling(p, c, "line")
  /\ ReadAndParse(p, c)

ProcessHeader(p, c) ==
  /\ Handling(p, c, "header")
  /\ ReadAndParse(p, c)

ProcessBody(p, c) ==
  /\ Handling(p, c, "body")
  /\ ReadAndParse(p, c)

\* AllocWriteBuffer gives a multiple of Granule that holds what GetResponseSize
\* says.  CleanUp has set msgLen_ to 0, so that this is StatusLen too little;
\* and HttpResponse::GenerateResponse writes nothing unless two bytes are spare.
WriteBufferSize(len) == Granule * (((len - StatusLen) + Granule - 1) \div Granule)
Fits(len) == len + 1 < WriteBufferSize(len)

GenerateResponse(p, c) ==
  /\ Handling(p, c, "generate")
  /\ \E len \in RespLens :
       LET made == Finish(client[c])
           curSize == IF Fits(len) THEN len ELSE 0
       IN  /\ client' = [client EXCEPT ![c] = [made EXCEPT !.left = @ + curSize]]
           /\ unsent' = [unsent EXCEPT ![c] = @ \/ ~Fits(len)]
  /\ UNCHANGED <<netVars, owner, status, armed, got, base, used, replies, early, procVars>>

\* An empty response is sent in no time and answers nothing.
SendResponse(p, c) ==
  /\ Handling(p, c, "send")
  /\ \E r \in SendBuffer(c, client[c].left) :
       IF r.ret < 0
         THEN CloseConnection(p, c) /\ Resume(p, -1) /\ UNCHANGED <<room, replies>>
         ELSE LET left == client[c].left - r.ret
                  rest == [client[c] EXCEPT !.left = left] IN
              /\ room' = [room EXCEPT ![c] = @ - r.ret]
              /\ armed' = [armed EXCEPT ![c] = r.armed]
              /\ client' = [client EXCEPT ![c] =
                              IF left = 0 THEN Finish(rest) ELSE rest]
              /\ replies' = [replies EXCEPT ![c] = IF left = 0 /\ r.ret > 0 THEN @ + 1 ELSE @]
              /\ Resume(p, r.ret)
              /\ UNCHANGED <<connNum, status>>
  /\ UNCHANGED <<backlog, sent, gone, owner, got, base, used, early, unsent, watching, listen,
                 batch, acceptQ, rwQ>>

\* SIGPIPE, which nothing in http/ handles: a write to a peer that is gone may
\* end the process, and the kernel closes its sockets.
KilledBySigpipe(p, c) ==
  /\ Handling(p, c, "send") /\ gone[c]
  /\ pc' = [pc EXCEPT ![p] = "dead"]
  /\ status' = [d \in Peers |-> IF owner[d] = p THEN "INVALID" ELSE status[d]]
  /\ armed' = [d \in Peers |-> IF owner[d] = p THEN "off" ELSE armed[d]]
  /\ listen' = [listen EXCEPT ![p] = FALSE]
  /\ connNum' = [connNum EXCEPT ![p] = 0]
  /\ rwQ' = [rwQ EXCEPT ![p] = <<>>]
  /\ cur' = [cur EXCEPT ![p] = NoEvent]
  /\ UNCHANGED <<netVars, owner, got, base, used, client, replies, early, unsent, watching,
                 batch, acceptQ>>

-----------------------------------------------------------------------------
(* HttpServer::RunPoll *)

\* Both reset or set the listener's slot too.
UnwatchSocket(p) ==
  /\ watching' = [watching EXCEPT ![p] = FALSE]
  /\ listen' = [listen EXCEPT ![p] = FALSE]

WatchRawSocket(p) ==
  /\ watching' = [watching EXCEPT ![p] = TRUE]
  /\ listen' = [listen EXCEPT ![p] = TRUE]

\* The listener is unwatched when most of the slots are in use, and watched
\* again when half of them are free.
WatchListener(p) ==
  /\ pc[p] = "loop"
  /\ IF watching[p] /\ connNum[p] > MaxConn - (MaxConn \div 8)
       THEN UnwatchSocket(p)
       ELSE IF ~watching[p] /\ connNum[p] <= MaxConn \div 2
       THEN WatchRawSocket(p)
       ELSE UNCHANGED <<watching, listen>>
  /\ pc' = [pc EXCEPT ![p] = "poll"]
  /\ UNCHANGED <<netVars, connVars, connNum, batch, acceptQ, rwQ, cur>>

\* Mutation: the client of an accepted connection is left as it is.
HandleAcceptedWithoutReset(p) ==
  /\ pc[p] = "poll" /\ batch[p] = {} /\ acceptQ[p] # <<>>
  /\ acceptQ' = [acceptQ EXCEPT ![p] = Tail(@)]
  /\ pc' = [pc EXCEPT ![p] = "loop"]
  /\ UNCHANGED <<netVars, connVars, watching, listen, connNum, batch, rwQ, cur>>

\* RunPoll returns SC_ACCEPTED; PollHandler resets the connection's client.
HandleAccepted(p) ==
  /\ pc[p] = "poll" /\ batch[p] = {} /\ acceptQ[p] # <<>>
  /\ acceptQ' = [acceptQ EXCEPT ![p] = Tail(@)]
  /\ client' = [client EXCEPT ![Head(acceptQ[p])] = FreshClient(TRUE)]
  /\ pc' = [pc EXCEPT ![p] = "loop"]
  /\ UNCHANGED <<netVars, owner, status, armed, got, base, used, replies, early, unsent,
                 watching, listen, connNum, batch, rwQ, cur>>

\* RunPoll returns SC_READ or SC_WRITE; PollHandler calls ProcessEvent.
HandleReadWrite(p) ==
  /\ pc[p] = "poll" /\ batch[p] = {} /\ acceptQ[p] = <<>> /\ rwQ[p] # <<>>
  /\ cur' = [cur EXCEPT ![p] = Head(rwQ[p])]
  /\ rwQ' = [rwQ EXCEPT ![p] = Tail(@)]
  /\ pc' = [pc EXCEPT ![p] = "handle"]
  /\ UNCHANGED <<netVars, connVars, watching, listen, connNum, batch, acceptQ>>

-----------------------------------------------------------------------------
Handler(p) == \E c \in Peers :
  \/ ProcessRequestLine(p, c) \/ ProcessHeader(p, c) \/ ProcessBody(p, c)
  \/ GenerateResponse(p, c) \/ SendResponse(p, c) \/ KilledBySigpipe(p, c)

Process(p) ==
  \/ WatchListener(p) \/ WaitAll(p) \/ HandleAcceptReady(p) \/ QueueEvent(p)
  \/ HandleAccepted(p) \/ HandleReadWrite(p) \/ Handler(p)

Next ==
  \/ \E p \in Procs : Process(p)
  \/ \E c \in Peers : Connect(c) \/ Deliver(c) \/ Drain(c) \/ Leave(c)

\* A process that can run does, and a peer reads what it is sent.
Fairness ==
  /\ \A p \in Procs : WF_vars(Process(p))
  /\ \A c \in Peers : WF_vars(Drain(c))

SafetySpec == Init /\ [][Next]_vars
Spec == SafetySpec /\ Fairness

-----------------------------------------------------------------------------
\* Handlers run for a connection that is open and whose client has it:
\* conn_ is not NULL and the asserts on status_ in ReadBuffer and SendBuffer
\* (SocketServer.cc:316, 350) hold, for an event however long it was queued.
EventsFindClient ==
  \A p \in Procs :
    /\ \A i \in DOMAIN rwQ[p] : LET c == rwQ[p][i].conn IN
         status[c] = "CONNECTED" /\ owner[c] = p
         /\ (client[c].conn \/ \E j \in DOMAIN acceptQ[p] : acceptQ[p][j] = c)
    /\ pc[p] = "handle" =>
         status[cur[p].conn] = "CONNECTED" /\ client[cur[p].conn].conn

\* A process that waits for events watches each of its connections, unless the
\* client has unparsed bytes: only those make ReadHttpData return without
\* reading, and so without watching the socket again (HttpClient.cc:79).  And
\* connNum_, by which RunPoll stops and resumes accepting, is the number of
\* connections the process has open.
ConnectionsWatched ==
  /\ \A c \in Peers : LET p == owner[c] IN
       (status[c] = "CONNECTED" /\ pc[p] = "poll" /\ batch[p] = {} /\ QueuesEmpty(p))
         => (armed[c] # "off" \/ Buffered(c) # <<>>)
  /\ \A p \in Procs : connNum[p] =
       Cardinality({c \in Peers : owner[c] = p /\ status[c] = "CONNECTED"})

\* Positions at which a request of the peer's stream is complete.
RequestEnds(c) ==
  {i \in DOMAIN Stream[c] :
     i = Len(Stream[c]) \/ Stream[c][i + 1] \in Methods \cup {"BAD"}}

\* However the bytes are cut, no response is made before its request has
\* arrived to the end, and none twice, but for one: each time a segment ends
\* right after a header line and ParseHeader's rescan takes the request line for
\* the end of the headers, there is at most one response too many.
RepliesNeedRequests ==
  \A c \in Peers : replies[c] + (IF client[c].stage = "send" THEN 1 ELSE 0)
                     <= Cardinality({i \in RequestEnds(c) : i <= sent[c]}) + early[c]

\* A request that has arrived whole when the server first reads the connection
\* is answered, even if the response takes several writes, unless the response
\* does not fit the write buffer chosen for it.  (A POST must be all the peer
\* sends, ParseBody refuses bytes after the body, and be of an accepted length.)
WholeRequestAnswered ==
  \A c \in Peers :
    LET first == Min(RequestEnds(c))
    IN  (/\ status[c] = "CONNECTED" /\ got[c] = 0 /\ sent[c] >= first /\ first <= ReadCap
         /\ \/ Stream[c][1] = "GET"
            \/ Stream[c][1] = "POST" /\ first = Len(Stream[c]) /\ BodyLen[c] < MaxBody)
        ~> (replies[c] > 0 \/ gone[c] \/ unsent[c])

-----------------------------------------------------------------------------
(* The inductive invariant behind EventsFindClient and ConnectionsWatched. *)

ConnEvent == [conn : Peers, code : {"READ", "WRITE"}]
AcceptEvent == [conn |-> Listener, code |-> "ACCEPT"]
Stages == {"line", "header", "body", "generate", "send", "spin"}
HttpClient ==
  [conn : BOOLEAN, stage : Stages, method : Methods \cup {None}, clen : BOOLEAN,
   bodyLen : Nat, body : Nat, left : Nat]

NetTypeOK ==
  /\ backlog \in Seq(Peers)
  /\ sent \in [Peers -> Nat] /\ gone \in [Peers -> BOOLEAN] /\ room \in [Peers -> Nat]

ConnTypeOK ==
  /\ owner \in [Peers -> Procs \cup {None}]
  /\ status \in [Peers -> {None, "CONNECTED", "INVALID"}]
  /\ armed \in [Peers -> {"off", "in", "inout"}]
  /\ got \in [Peers -> Nat] /\ base \in [Peers -> Nat] /\ used \in [Peers -> Nat]
  /\ client \in [Peers -> HttpClient]

ProcTypeOK ==
  /\ connNum \in [Procs -> Int] /\ listen \in [Procs -> BOOLEAN]
  /\ batch \in [Procs -> SUBSET (ConnEvent \cup {AcceptEvent})]
  /\ acceptQ \in [Procs -> Seq(Peers)] /\ rwQ \in [Procs -> Seq(ConnEvent)]
  /\ pc \in [Procs -> {"loop", "poll", "handle", "dead"}]
  /\ cur \in [Procs -> ConnEvent \cup {NoEvent}]

TypeOK == NetTypeOK /\ ConnTypeOK /\ ProcTypeOK

\* Where process p has an event of connection c, or has just accepted it.
InBatch(p, c) == \E e \in batch[p] : e.conn = c
Queued(p, c) == \E i \in DOMAIN rwQ[p] : rwQ[p][i].conn = c
Current(p, c) == pc[p] = "handle" /\ cur[p].conn = c
Accepted(p, c) == \E i \in DOMAIN acceptQ[p] : acceptQ[p][i] = c

\* A connection of process p whose client expects event e.
Expects(p, e) ==
  /\ status[e.conn] = "CONNECTED" /\ owner[e.conn] = p
  /\ e.code = "WRITE" => client[e.conn].stage = "send"

\* Nobody has accepted what is in the backlog.
BacklogInv ==
  /\ \A i \in DOMAIN backlog : status[backlog[i]] = None
  /\ \A i, j \in DOMAIN backlog : backlog[i] = backlog[j] => i = j

\* The read buffer holds part of what has arrived.
BufferInv(c) == used[c] <= got[c] /\ got[c] <= sent[c] /\ sent[c] <= Len(Stream[c])

\* An open connection has its client, or is about to; it is watched, has bytes
\* to be parsed, or has an event under way.
Pending(p, c) == InBatch(p, c) \/ Queued(p, c) \/ Current(p, c)
ConnInv(c) ==
  /\ status[c] = None => owner[c] = None
  /\ armed[c] # "off" => status[c] = "CONNECTED"
  /\ armed[c] = "inout" => client[c].stage = "send"
  /\ status[c] = "CONNECTED" => \E p \in Procs :
       /\ owner[c] = p
       /\ client[c].conn \/ Accepted(p, c)
       /\ armed[c] # "off" \/ used[c] < got[c] \/ Pending(p, c)

\* The queues a process leaves behind when it goes on.
PhaseInv(p) ==
  /\ pc[p] \in {"loop", "handle"} => batch[p] = {}
  /\ pc[p] \in {"handle", "dead"} => acceptQ[p] = <<>>
  /\ pc[p] = "dead" => rwQ[p] = <<>>

\* Until the accept of a connection is handled there is no event of it.
AcceptInv(p) ==
  \A c \in Peers : Accepted(p, c) =>
    /\ status[c] = "CONNECTED" /\ owner[c] = p /\ armed[c] = "in"
    /\ ~InBatch(p, c) /\ ~Queued(p, c)

\* Of a connection at most one event is in the batch or queued, and none is
\* while one is handled.
BatchInv(p) ==
  pc[p] # "dead" => \A e, f \in batch[p] : e # AcceptEvent =>
    Expects(p, e) /\ ~Queued(p, e.conn) /\ (e.conn = f.conn => e = f)

QueueInv(p) ==
  /\ \A i \in DOMAIN rwQ[p] : Expects(p, rwQ[p][i])
  /\ \A i, j \in DOMAIN rwQ[p] : rwQ[p][i].conn = rwQ[p][j].conn => i = j

HandleInv(p) ==
  /\ pc[p] = "handle" => cur[p] \in ConnEvent
  /\ \A c \in Peers : Current(p, c) =>
       /\ status[c] = "CONNECTED" /\ owner[c] = p /\ client[c].conn /\ ~Queued(p, c)
       /\ cur[p].code = "WRITE" => client[c].stage = "send" \/ armed[c] # "off"

ProcInv(p) == PhaseInv(p) /\ AcceptInv(p) /\ BatchInv(p) /\ QueueInv(p) /\ HandleInv(p)

OpenConns(p) == {c \in Peers : owner[c] = p /\ status[c] = "CONNECTED"}

CountInv == \A p \in Procs : IsFiniteSet(OpenConns(p)) /\ connNum[p] = Cardinality(OpenConns(p))

HttpInv ==
  /\ TypeOK /\ BacklogInv /\ CountInv
  /\ \A c \in Peers : BufferInv(c) /\ ConnInv(c)
  /\ \A p \in Procs : ProcInv(p)

-----------------------------------------------------------------------------
(* The inductive invariant behind RepliesNeedRequests. *)

\* The request whose method is at i has h header lines, and ends where its method
\* says: at the empty line, or at the end of a body of the length declared.
EmptyLine(i, h) == i + 6 + 2 * h
RequestEnd(c, i, h) == EmptyLine(i, h) + IF Stream[c][i] = "POST" THEN BodyLen[c] ELSE 0
WellFormed(c, i, h) ==
  /\ \A j \in 0..(h - 1) : /\ Stream[c][i + 6 + 2 * j] \in {"HDR", "CLEN"}
                           /\ Stream[c][i + 7 + 2 * j] = "CRLF"
  /\ Stream[c][EmptyLine(i, h)] = "CRLF"
  /\ RequestEnd(c, i, h) \in RequestEnds(c)

\* Peers send requests, one after the other; what follows them begins with a word
\* that is no method.
PeersSendRequests ==
  \A c \in Peers : \A i \in DOMAIN Stream[c] :
    Stream[c][i] \in Methods => \E h \in 0..Len(Stream[c]) : WellFormed(c, i, h)

Ended(c, n) == Cardinality({i \in RequestEnds(c) : i <= n})

\* A client that has used u tokens and answered r requests is in the headers or the
\* body of the request at i, before which at least r others have ended.
Parsing(c, i, h, u, cl, r) ==
  /\ Stream[c][i] = cl.method /\ cl.method \in Methods /\ WellFormed(c, i, h)
  /\ r <= Ended(c, i - 1)
  /\ cl.stage = "header" => \E j \in 0..h : u = i + 5 + 2 * j
  /\ cl.stage = "body" =>
       /\ u >= EmptyLine(i, h)
       /\ cl.method = "POST" => cl.body = BodyLen[c] \/ u = EmptyLine(i, h) + cl.body

\* The response that is made, or will be when the body is read, is counted for.
Paid(c, u, r) == r + 1 <= Ended(c, u)

\* A request is answered when its end is used, and is counted once.
Answered(c, u, cl, r) ==
  /\ cl.bodyLen \in {0, BodyLen[c]}
  /\ cl.stage # "body" \/ cl.method # "POST" => cl.body \in {0, BodyLen[c]}
  /\ cl.stage \in {"line", "spin"} => r <= Ended(c, u)
  /\ cl.stage \in {"generate", "send"} => Paid(c, u, r)
  /\ cl.stage \in {"header", "body"} =>
       \/ cl.stage = "body" /\ Paid(c, u, r)
       \/ \E i \in DOMAIN Stream[c], h \in 0..Len(Stream[c]) : Parsing(c, i, h, u, cl, r)

\* The responses that do not come from a rescan.
ReplyInv ==
  /\ replies \in [Peers -> Nat] /\ early \in [Peers -> Nat]
  /\ \A c \in Peers : Answered(c, used[c], client[c], replies[c] - early[c])
=============================================================================
