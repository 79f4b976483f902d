------------------------------- MODULE Server -------------------------------
(***************************************************************************)
(* service/server.hpp: the life of a request, from the bytes libuv reads   *)
(* on its loop thread, through the request buffer kept for the peer and    *)
(* the worker that handles the request, to the write of the response.  The *)
(* loop thread, the workers of the pool, libuv's own threads and the       *)
(* clean-up thread of RequestBufferManager share the table of buffers and  *)
(* the connection handles.                                                 *)
(*                                                                         *)
(* A request is a sequence of parts; one read delivers one or more of      *)
(* them.  What probe() and parse() (service/http/protocol.hpp) make of the *)
(* bytes depends only on where the first line and the headers end, on the  *)
(* Content-Length, and on how much follows; parts are of one size, in      *)
(* which lengths are counted.  A client sends its next request when it has *)
(* had an answer, and may leave at any time.                               *)
(***************************************************************************)
EXTENDS Integers, Sequences

CONSTANTS
  Conns,        \* connection handles, each used once
  Peers,        \* "host:port", the keys of request_buffers_
  PeerOf,       \* the peer each connection comes from
  SlowPeers,    \* the peers that may be silent for 300 seconds
  Workers,      \* threads of the pool
  LengthOf,     \* the parts with a Content-Length: how much each says
  Heads,        \* those of them that are a first line and all the headers
  Shapes,       \* the requests that each client may send, sequences of parts
  Buffers,      \* bound: 1 .. Buffers are the buffers ever made
  MaxRequests,  \* bound: requests of each connection
  SizeLimit,    \* REQUEST_SIZE_LIMIT, in parts
  NoPeer, NoConn

\* "cut" and "tail" are a first line in two halves, "line" is a whole one; "end"
\* is the empty line behind the headers, "head" one with a header in front of it.
Plain == {"cut", "tail", "line", "header", "head", "end", "body"}
Parts == Plain \cup DOMAIN LengthOf
WholeLine == {"line"} \cup Heads
EmptyLine == {"head", "end"} \cup Heads

ASSUME PeersAssumption == PeerOf \in [Conns -> Peers] /\ NoPeer \notin Peers /\ NoConn \notin Conns
                          /\ SlowPeers \subseteq Peers
\* A length below zero is to the code what zero is.
ASSUME LengthAssumption == LengthOf \in [DOMAIN LengthOf -> Nat] /\ Plain \cap DOMAIN LengthOf = {}
                           /\ Heads \subseteq DOMAIN LengthOf
ASSUME ShapesAssumption == Shapes \in [Conns -> SUBSET Seq(Parts)]
\* A request has one first line, and it is in front, and one end of its headers.
ASSUME RequestAssumption ==
  \A c \in Conns : \A shape \in Shapes[c] : \A i, j \in DOMAIN shape : i < j =>
    /\ shape[j] \notin WholeLine \cup {"cut"}
    /\ ~(shape[i] \in EmptyLine /\ shape[j] \in EmptyLine)
ASSUME BoundsAssumption == Buffers \in Nat /\ MaxRequests \in [Conns -> Nat] /\ SizeLimit \in Nat

BufferIds == 1 .. Buffers
Requests == Conns \X (Nat \ {0})
Pieces == [part : Parts, req : Requests]

VARIABLES
  conn,     \* each handle: "new", "open", "left" by its client, "closing", "freed"
  asked,    \* how many requests each client has sent
  rest,     \* the pieces of them not read yet
  got,      \* the requests its answers were made for
  fresh,    \* connections accepted while their peer had no buffer
  table,    \* request_buffers_: the buffer of each peer, or 0
  made,     \* buffers made so far
  buffer,   \* each RequestBuffer
  loop,     \* where the loop thread is in on_read
  jobs,     \* the closures in the pool's queue
  worker,   \* where each worker is in RequestBuffer::handle
  writes,   \* uv_queue_work items
  cleaner,  \* the clean-up thread and its keys_to_cleanup
  crashed,  \* an uncaught exception, or memory used after it was freed
  early     \* connections a read of which was taken for the end of a request
            \* before the headers had ended

clients == <<asked, rest, got>>
vars == <<conn, clients, fresh, table, made, buffer, loop, jobs, worker, writes, cleaner, crashed,
          early>>

\* The headers, as far as they were read, have no Content-Length.
NoLength == -1

NewBuffer == [content |-> <<>>, protocol |-> "unknown", req |-> <<>>, ended |-> 0,
              length |-> NoLength, from |-> NoPeer, old |-> FALSE]
IdleLoop == [pc |-> "idle", conn |-> NoConn, data |-> <<>>, buf |-> 0]
IdleWorker == [pc |-> "idle", conn |-> NoConn, buf |-> 0, answer |-> <<>>, key |-> NoPeer]

BufferTypes == [content : Seq(Pieces), protocol : {"unknown", "http", "invalid"},
                req : Requests \cup {<<>>}, ended : Nat, length : Nat \cup {NoLength},
                from : Peers \cup {NoPeer}, old : BOOLEAN]
LoopTypes == [pc : {"idle", "at", "make", "accept"}, conn : Conns \cup {NoConn},
              data : Seq(Pieces), buf : BufferIds \cup {0}]
JobTypes == [conn : Conns, buf : BufferIds]
WorkerTypes == [pc : {"idle", "peer", "route", "queue", "count", "erase"},
                conn : Conns \cup {NoConn}, buf : BufferIds \cup {0},
                answer : Requests \cup {<<>>}, key : Peers \cup {NoPeer}]
WriteTypes == [conn : Conns, req : Requests, begun : BOOLEAN]

TypeOK ==
  /\ conn \in [Conns -> {"new", "open", "left", "closing", "freed"}]
  /\ asked \in [Conns -> Nat]
  /\ rest \in [Conns -> Seq(Pieces)] /\ got \in [Conns -> Seq(Requests)]
  /\ fresh \in SUBSET Conns
  /\ table \in [Peers -> BufferIds \cup {0}] /\ made \in 0 .. Buffers
  /\ buffer \in [BufferIds -> BufferTypes]
  /\ loop \in LoopTypes
  /\ loop.pc = "accept" => loop.buf # 0
  /\ jobs \in Seq(JobTypes)
  /\ worker \in [Workers -> WorkerTypes]
  /\ writes \in Seq(WriteTypes)
  /\ cleaner \in [scanning : BOOLEAN, keys : SUBSET Peers]
  /\ crashed \in BOOLEAN /\ early \in SUBSET Conns

Init ==
  /\ conn = [c \in Conns |-> "new"]
  /\ asked = [c \in Conns |-> 0]
  /\ rest = [c \in Conns |-> <<>>] /\ got = [c \in Conns |-> <<>>]
  /\ fresh = {}
  /\ table = [p \in Peers |-> 0] /\ made = 0
  /\ buffer = [b \in BufferIds |-> NewBuffer]
  /\ loop = IdleLoop
  /\ jobs = <<>> /\ writes = <<>>
  /\ worker = [w \in Workers |-> IdleWorker]
  /\ cleaner = [scanning |-> FALSE, keys |-> {}]
  /\ crashed = FALSE /\ early = {}

\* Mutant of KeyOf: the port is left out, all clients are on one host.
KeyOfHost(c) == CHOOSE p \in Peers : TRUE

\* parse_peer_info: the key of a connection's buffer.
KeyOf(c) == PeerOf[c]

Present(c) == conn[c] \in {"open", "left"}
DropAt(s, i) == SubSeq(s, 1, i - 1) \o SubSeq(s, i + 1, Len(s))

----------------------------------------------------------------------------
\* The clients.
Connect(c) ==
  /\ loop.pc = "idle" /\ conn[c] = "new"
  /\ \A d \in Conns : PeerOf[d] = PeerOf[c] => ~Present(d)
  /\ conn' = [conn EXCEPT ![c] = "open"]
  /\ fresh' = IF table[KeyOf(c)] = 0 THEN fresh \cup {c} ELSE fresh
  /\ UNCHANGED <<clients, table, made, buffer, loop, jobs, worker, writes, cleaner, crashed, early>>

Ask(c, shape) ==
  /\ conn[c] = "open"
  /\ asked[c] < MaxRequests[c] /\ asked[c] <= Len(got[c])
  /\ asked' = [asked EXCEPT ![c] = @ + 1]
  /\ rest' = [rest EXCEPT ![c] =
                @ \o [i \in DOMAIN shape |-> [part |-> shape[i], req |-> <<c, asked[c] + 1>>]]]
  /\ UNCHANGED <<conn, got, fresh, table, made, buffer, loop, jobs, worker, writes, cleaner, crashed, early>>

Leave(c) ==
  /\ conn[c] = "open"
  /\ conn' = [conn EXCEPT ![c] = "left"]
  /\ UNCHANGED <<clients, fresh, table, made, buffer, loop, jobs, worker, writes, cleaner, crashed, early>>

----------------------------------------------------------------------------
\* on_read on the loop thread; with_req_buffer looks the peer up twice.
Read(c, n) ==
  /\ loop.pc = "idle" /\ Present(c)
  /\ n \in 1 .. Len(rest[c])
  /\ rest' = [rest EXCEPT ![c] = SubSeq(@, n + 1, Len(@))]
  /\ loop' = [pc |-> IF table[KeyOf(c)] # 0 THEN "at" ELSE "make",
              conn |-> c, data |-> SubSeq(rest[c], 1, n), buf |-> 0]
  /\ UNCHANGED <<conn, asked, got, fresh, table, made, buffer, jobs, worker, writes, cleaner, crashed, early>>

\* The peer of a reset connection cannot be had: what was read is dropped.
ReadNobody(c, n) ==
  /\ loop.pc = "idle" /\ conn[c] = "left"
  /\ n \in 1 .. Len(rest[c])
  /\ rest' = [rest EXCEPT ![c] = SubSeq(@, n + 1, Len(@))]
  /\ UNCHANGED <<conn, asked, got, fresh, table, made, buffer, loop, jobs, worker, writes, cleaner,
                 crashed, early>>

\* request_buffers_.at(k) throws when the entry has gone since count(k).
At ==
  LET b == table[KeyOf(loop.conn)] IN
  /\ loop.pc = "at"
  /\ IF b = 0
       THEN crashed' = TRUE /\ UNCHANGED loop
       ELSE loop' = [loop EXCEPT !.pc = "accept", !.buf = b] /\ UNCHANGED crashed
  /\ UNCHANGED <<conn, clients, fresh, table, made, buffer, jobs, worker, writes, cleaner, early>>

\* A change of the table while the clean-up thread walks it may end the process.
Torn == crashed' \in IF cleaner.scanning THEN BOOLEAN ELSE {FALSE}

\* Mutant of Make: the last buffer is used again as it is.
MakeAgain ==
  /\ loop.pc = "make"
  /\ made' = IF made = 0 THEN 1 ELSE made
  /\ table' = [table EXCEPT ![KeyOf(loop.conn)] = made']
  /\ loop' = [loop EXCEPT !.pc = "accept", !.buf = made']
  /\ Torn
  /\ UNCHANGED <<conn, clients, fresh, buffer, jobs, worker, writes, cleaner, early>>

Make ==
  /\ loop.pc = "make"
  /\ made < Buffers
  /\ made' = made + 1
  /\ table' = [table EXCEPT ![KeyOf(loop.conn)] = made + 1]
  /\ loop' = [loop EXCEPT !.pc = "accept", !.buf = made + 1]
  /\ Torn
  /\ UNCHANGED <<conn, clients, fresh, buffer, jobs, worker, writes, cleaner, early>>

----------------------------------------------------------------------------
\* http::probe on the first line.
FirstLine(s) ==
  \/ s[1].part \in WholeLine
  \/ s[1].part = "cut" /\ Len(s) > 1 /\ s[2].part = "tail"

Probe(b) ==
  IF b.protocol # "unknown" THEN b
  ELSE IF FirstLine(b.content) THEN [b EXCEPT !.protocol = "http", !.req = b.content[1].req]
  ELSE [b EXCEPT !.protocol = "invalid"]

\* HttpRequest::parse.  The headers end at an empty line, but not at one that is
\* directly behind the first line.
EndsHeaders(s, i) ==
  s[i].part \in EmptyLine /\ (s[i].part = "end" => i > (IF s[1].part = "cut" THEN 3 ELSE 2))

\* The headers are read, from the first, until their end has been found once; of
\* several Content-Lengths the last one counts.
HeadersEnd(s) ==
  LET ends == {i \in DOMAIN s : EndsHeaders(s, i)}
  IN  IF ends = {} THEN 0 ELSE CHOOSE i \in ends : \A j \in ends : i <= j
LengthIn(s) ==
  LET says == {i \in DOMAIN s : s[i].part \in DOMAIN LengthOf /\ (HeadersEnd(s) # 0 => i <= HeadersEnd(s))}
  IN  IF says = {} THEN NoLength
      ELSE LengthOf[s[CHOOSE i \in says : \A j \in says : j <= i].part]
ParseHeaders(b) ==
  IF b.protocol = "http" /\ b.ended = 0
  THEN [b EXCEPT !.ended = HeadersEnd(b.content), !.length = LengthIn(b.content)]
  ELSE b

\* What has followed the headers or, until they have ended, the first byte.
Follows(b) == Len(b.content) - (IF b.ended = 0 THEN 1 ELSE b.ended)

\* Mutant of Status: more than Content-Length says is complete, too.
StatusAtLeast(b) ==
  CASE b.protocol # "http" -> "invalid"
    [] b.protocol = "http" /\ b.length > 0 ->
         IF Follows(b) < b.length THEN "continue" ELSE "complete"
    [] OTHER ->
         IF b.length = NoLength /\ b.ended > 0 /\ b.content[Len(b.content)].part \in EmptyLine
           THEN "complete" ELSE "invalid"

\* ... and the request is complete when as much as Content-Length says has
\* followed them, whether they have ended or not, or, without one, when they have
\* and the bytes end with an empty line.
Status(b) ==
  CASE b.protocol # "http" -> "invalid"
    [] b.protocol = "http" /\ b.length > 0 ->
         IF Follows(b) = b.length THEN "complete"
         ELSE IF Follows(b) < b.length THEN "continue" ELSE "invalid"
    [] OTHER ->
         IF b.length = NoLength /\ b.ended > 0 /\ b.content[Len(b.content)].part \in EmptyLine
           THEN "complete" ELSE "invalid"

\* RequestBuffer::accept: the bytes are copied behind those it has.
Accepted(b, data) ==
  ParseHeaders(Probe([b EXCEPT !.content = @ \o data, !.old = FALSE]))

\* Mutant of Submit: a request that is not complete yet goes to the pool, too.
SubmitEager(b) == Status(b) # "invalid"

\* Mutant of Submit: only a request that came in one read goes to the pool.
SubmitAtOnce(b) == Status(b) = "complete" /\ Len(b.content) = Len(loop.data)

\* on_read: a complete request goes to the pool.
Submit(b) == Status(b) = "complete"

\* More bytes move those that a worker looks at for the body, until the request is
\* complete again, and change the headers under it.
Disturbs(b, after) ==
  LET Holds(w, at) == worker[w].buf = b /\ worker[w].pc = at IN
  /\ buffer[b].length > 0
  /\ \/ \E w \in Workers : Holds(w, "route")
     \/ Status(after) # "complete" /\ \/ \E i \in DOMAIN jobs : jobs[i].buf = b
                                      \/ \E w \in Workers : Holds(w, "peer")

Accept ==
  loop.pc = "accept" /\ \E after \in {Accepted(buffer[loop.buf], loop.data)} :
  LET tooBig == Len(after.content) >= SizeLimit
      submits == ~tooBig /\ Submit(after)
  IN
  /\ buffer' = IF tooBig THEN buffer ELSE [buffer EXCEPT ![loop.buf] = after]
  /\ jobs' = IF submits THEN Append(jobs, [conn |-> loop.conn, buf |-> loop.buf]) ELSE jobs
  /\ early' = IF submits /\ after.ended = 0 THEN early \cup {loop.conn} ELSE early
  /\ crashed' \in IF ~tooBig /\ Disturbs(loop.buf, after) THEN BOOLEAN ELSE {FALSE}
  /\ loop' = IdleLoop
  /\ UNCHANGED <<conn, clients, fresh, table, made, worker, writes, cleaner>>

\* nread < 0: uv_close, and its callback in a later iteration.
Eof(c) ==
  /\ loop.pc = "idle" /\ conn[c] = "left"
  /\ conn' = [conn EXCEPT ![c] = "closing"]
  /\ UNCHANGED <<clients, fresh, table, made, buffer, loop, jobs, worker, writes, cleaner, crashed, early>>

OnClose(c) ==
  /\ loop.pc = "idle" /\ conn[c] = "closing"
  /\ conn' = [conn EXCEPT ![c] = "freed"]
  /\ UNCHANGED <<clients, fresh, table, made, buffer, loop, jobs, worker, writes, cleaner, crashed, early>>

----------------------------------------------------------------------------
\* RequestBuffer::handle on a worker.
Take(w) ==
  /\ worker[w].pc = "idle" /\ jobs # <<>>
  /\ worker' = [worker EXCEPT ![w] = [IdleWorker EXCEPT !.pc = "peer", !.conn = Head(jobs).conn,
                                                        !.buf = Head(jobs).buf]]
  /\ jobs' = Tail(jobs)
  /\ UNCHANGED <<conn, clients, fresh, table, made, buffer, loop, writes, cleaner, crashed, early>>

\* parse_peer_info into http_req.from, which keeps what it had on failure.
PeerInfo(w) ==
  LET c == worker[w].conn  b == worker[w].buf IN
  /\ worker[w].pc = "peer" /\ conn[c] # "freed"
  /\ \/ conn[c] \in {"open", "left"} /\ buffer' = [buffer EXCEPT ![b].from = PeerOf[c]]
     \/ conn[c] \in {"left", "closing"} /\ UNCHANGED buffer
  /\ worker' = [worker EXCEPT ![w].pc = "route"]
  /\ UNCHANGED <<conn, clients, fresh, table, made, loop, jobs, writes, cleaner, crashed, early>>

\* router->route makes the answer to the request that the buffer holds.
Route(w) ==
  /\ worker[w].pc = "route"
  /\ worker' = [worker EXCEPT ![w].pc = "queue", ![w].answer = buffer[worker[w].buf].req]
  /\ UNCHANGED <<conn, clients, fresh, table, made, buffer, loop, jobs, writes, cleaner, crashed, early>>

\* The callback: uv_queue_work.
QueueWork(w) ==
  /\ worker[w].pc = "queue"
  /\ writes' = Append(writes, [conn |-> worker[w].conn, req |-> worker[w].answer, begun |-> FALSE])
  /\ worker' = [worker EXCEPT ![w].pc = "count", ![w].key = buffer[worker[w].buf].from]
  /\ UNCHANGED <<conn, clients, fresh, table, made, buffer, loop, jobs, cleaner, crashed, early>>

\* free_req_buffer: count(k) without mutex_, then erase(k).
Count(w) ==
  /\ worker[w].pc = "count"
  /\ worker' = [worker EXCEPT ![w] =
                  IF @.key # NoPeer /\ table[@.key] # 0 THEN [@ EXCEPT !.pc = "erase"] ELSE IdleWorker]
  /\ UNCHANGED <<conn, clients, fresh, table, made, buffer, loop, jobs, writes, cleaner, crashed, early>>

EraseKey(w) ==
  /\ worker[w].pc = "erase"
  /\ table' = [table EXCEPT ![worker[w].key] = 0]
  /\ worker' = [worker EXCEPT ![w] = IdleWorker]
  /\ Torn
  /\ UNCHANGED <<conn, clients, fresh, made, buffer, loop, jobs, writes, cleaner, early>>

----------------------------------------------------------------------------
\* write_resp on one of libuv's threads.
WriteBegin(i) ==
  /\ ~writes[i].begun /\ conn[writes[i].conn] # "freed"
  /\ writes' = [writes EXCEPT ![i].begun = TRUE]
  /\ UNCHANGED <<conn, clients, fresh, table, made, buffer, loop, jobs, worker, cleaner, crashed, early>>

\* The response has been sent, or the connection is gone.
WriteEnd(i) ==
  LET c == writes[i].conn IN
  /\ writes[i].begun
  /\ writes' = DropAt(writes, i)
  /\ got' = IF conn[c] = "open" THEN [got EXCEPT ![c] = Append(@, writes[i].req)] ELSE got
  /\ UNCHANGED <<conn, asked, rest, fresh, table, made, buffer, loop, jobs, worker, cleaner, crashed, early>>

\* The handle was freed before the worker, or the write, reached it.
UseFreed(w) ==
  /\ worker[w].pc = "peer" /\ conn[worker[w].conn] = "freed"
  /\ crashed' = TRUE
  /\ UNCHANGED <<conn, clients, fresh, table, made, buffer, loop, jobs, worker, writes, cleaner, early>>

WriteFreed(i) ==
  /\ ~writes[i].begun /\ conn[writes[i].conn] = "freed"
  /\ crashed' = TRUE
  /\ UNCHANGED <<conn, clients, fresh, table, made, buffer, loop, jobs, worker, writes, cleaner, early>>

----------------------------------------------------------------------------
\* The clean-up thread.  Three hundred seconds pass without bytes for b (which
\* matters while it is in the table).
Age(b) ==
  /\ \E p \in SlowPeers : table[p] = b
  /\ ~buffer[b].old
  /\ buffer' = [buffer EXCEPT ![b].old = TRUE]
  /\ UNCHANGED <<conn, clients, fresh, table, made, loop, jobs, worker, writes, cleaner, crashed, early>>

Scan ==
  /\ ~cleaner.scanning /\ cleaner.keys = {}
  /\ cleaner' = [cleaner EXCEPT !.scanning = TRUE]
  /\ UNCHANGED <<conn, clients, fresh, table, made, buffer, loop, jobs, worker, writes, crashed, early>>

\* Mutant of Scanned: the comparison of the times is the wrong way round.
ScannedYoung ==
  /\ cleaner.scanning
  /\ cleaner' = [scanning |-> FALSE,
                 keys |-> {p \in Peers : table[p] # 0 /\ ~buffer[table[p]].old}]
  /\ UNCHANGED <<conn, clients, fresh, table, made, buffer, loop, jobs, worker, writes, crashed, early>>

Scanned ==
  /\ cleaner.scanning
  /\ cleaner' = [scanning |-> FALSE,
                 keys |-> {p \in Peers : table[p] # 0 /\ buffer[table[p]].old}]
  /\ UNCHANGED <<conn, clients, fresh, table, made, buffer, loop, jobs, worker, writes, crashed, early>>

CleanUp ==
  /\ ~cleaner.scanning /\ cleaner.keys # {}
  /\ table' = [p \in Peers |-> IF p \in cleaner.keys THEN 0 ELSE table[p]]
  /\ cleaner' = [cleaner EXCEPT !.keys = {}]
  /\ UNCHANGED <<conn, clients, fresh, made, buffer, loop, jobs, worker, writes, crashed, early>>

----------------------------------------------------------------------------
LoopStep == At \/ Make \/ Accept
Delivery == \E c \in Conns : \E n \in 1 .. Len(rest[c]) : Read(c, n) \/ ReadNobody(c, n)
WorkerStep(w) == Take(w) \/ PeerInfo(w) \/ Route(w) \/ QueueWork(w) \/ Count(w) \/ EraseKey(w)
                 \/ UseFreed(w)
WriteStep == \E i \in DOMAIN writes : WriteBegin(i) \/ WriteEnd(i) \/ WriteFreed(i)

Next ==
  /\ ~crashed
  /\ \/ \E c \in Conns : Connect(c) \/ Leave(c) \/ Eof(c) \/ OnClose(c)
     \/ \E c \in Conns : \E shape \in Shapes[c] : Ask(c, shape)
     \/ LoopStep \/ Delivery \/ WriteStep
     \/ \E w \in Workers : WorkerStep(w)
     \/ \E b \in BufferIds : Age(b)
     \/ Scan \/ Scanned \/ CleanUp

Spec == Init /\ [][Next]_vars

\* The loop goes on as long as there is something to read, the workers and
\* libuv's threads as long as there is work, time passes, and the clean-up thread
\* wakes up every thirty seconds; what the clients do is up to them.
LiveSpec ==
  /\ Spec
  /\ WF_vars(~crashed /\ (LoopStep \/ Delivery)) /\ WF_vars(~crashed /\ WriteStep)
  /\ \A w \in Workers : WF_vars(~crashed /\ WorkerStep(w))
  /\ WF_vars(~crashed /\ \E b \in BufferIds : Age(b))
  /\ WF_vars(~crashed /\ (Scan \/ Scanned \/ CleanUp))

----------------------------------------------------------------------------
(***************************************************************************)
(* Properties.                                                             *)
(***************************************************************************)

\* server.hpp:287-294: buffers are shared by all that come from one peer, one
\* after the other; the answer that a connection gets was made for a request
\* of its own peer, whatever leaves, comes back or is cleaned up meanwhile.
NoCrossTalk == \A c \in Conns : \A i \in DOMAIN got[c] : PeerOf[got[c][i][1]] = PeerOf[c]

\* server.hpp:291-294: a buffer may be handed to the pool more than once, but
\* no client gets two answers to one request, unless a read ended just so, within
\* the headers and behind the Content-Length, that the request was taken for
\* complete, which it will be a second time (protocol.hpp:335-339).
AtMostOneAnswer == \A c \in Conns \ early : Len(got[c]) <= asked[c]

\* server.hpp:204-210, 231: the responses are written by several of libuv's
\* threads at once, but never two of them to one connection, with the same
\* exception.
OneWritePerStream ==
  \A i, j \in DOMAIN writes : writes[i].conn = writes[j].conn /\ writes[i].conn \notin early => i = j

\* server.hpp:217-236: a connection whose peer had left no buffer behind gets,
\* as its first answer, the one to its first request.  (A later answer may be
\* the one to an earlier request: the response is sent before the buffer is
\* freed, and a client that is quicker continues the old buffer.)
FirstAnswerIsOwn == \A c \in fresh : got[c] # <<>> => got[c][1] = <<c, 1>>

\* A request that the code can take, in whatever pieces it comes if its first line
\* is one: the headers are not empty and end, and what follows is as much as
\* Content-Length says, which is not nothing.  (A request without a header is not
\* found to end, protocol.hpp:310, and of one with a Content-Length of zero every
\* status is INVALID, 337-357: neither is ever answered.)
Whole(shape) ==
  /\ Len(shape) < SizeLimit /\ Len(shape) > 1 /\ shape[1] \in WholeLine /\ shape[2] # "end"
  /\ \E e \in DOMAIN shape :
       LET says == {i \in 1 .. e : shape[i] \in DOMAIN LengthOf} IN
       /\ shape[e] \in EmptyLine
       /\ \A i \in DOMAIN shape : i > e => shape[i] \notin DOMAIN LengthOf
       /\ IF says = {} THEN e = Len(shape)
          ELSE Len(shape) > e /\ \A i \in says : LengthOf[shape[i]] = Len(shape) - e

\* Nobody else has its peer, which does not pause for so long that the clean-up
\* takes its buffer, and it sends only such requests.
Alone(c) == PeerOf[c] \notin SlowPeers /\ \A d \in Conns : PeerOf[d] = PeerOf[c] => d = c
Answerable == {c \in Conns : Alone(c) /\ \A shape \in Shapes[c] : Whole(shape)}

\* server.hpp:282-307, 217-236, protocol.hpp:297-358: the first request of such a
\* connection is answered if its client stays and sends only what the code can take,
\* whatever the reads cut it into.
FirstAnswered ==
  \A c \in Answerable :
    c \in fresh /\ asked[c] >= 1 ~> got[c] # <<>> \/ conn[c] # "open" \/ crashed

\* server.hpp:240-266: no buffer of a peer that falls silent stays in the table
\* for ever (an entry is replaced only after it has been erased).
BuffersGo == \A p \in SlowPeers : table[p] # 0 ~> (table[p] = 0 \/ crashed)

\* server.hpp:285: when accept answers COMPLETE the request has been received
\* whole.
CompleteIsComplete == [][Len(jobs') > Len(jobs) => rest[loop.conn] = <<>>]_vars

=============================================================================
