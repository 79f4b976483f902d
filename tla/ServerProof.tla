---------------------------- MODULE ServerProof ----------------------------
(***************************************************************************)
(* What Server promises, for any number of connections, peers, workers,    *)
(* buffers and requests.                                                   *)
(*                                                                         *)
(* SInv is about the records, and about the pieces on their way: those of  *)
(* a connection are read in the order in which they were sent.  On it rest *)
(*  - OwnedInv: each buffer is of one peer, from the moment it is made     *)
(*    (NoCrossTalk);                                                       *)
(*  - AnsweredInv: a buffer that has become complete, and has not been     *)
(*    freed, does not become so again by the pieces left of its request,   *)
(*    unless its headers had not ended then: the connections in `early`    *)
(*    are left out (AtMostOneAnswer, OneWritePerStream);                   *)
(*  - FirstInv: a connection that found no buffer uses, before its first   *)
(*    answer, one that holds its own first request (FirstAnswerIsOwn);     *)
(*  - NotLostInv: of a connection alone with its peer, whose requests the  *)
(*    code can take (Whole), what of the first request is not in its       *)
(*    buffer is still to be read, and nobody takes the buffer              *)
(*    (FirstNotLost).                                                      *)
(***************************************************************************)
EXTENDS Server, SequenceTheorems, WellFoundedInduction, TLAPS

Starts(piece) == piece.part \in WholeLine \cup {"cut"}
Empty(piece) == piece.part \in EmptyLine

\* What holds of the records apart from their types.  A buffer is "unknown" until
\* something is in it, and has a request as soon as it is taken for HTTP.
Serving(w) == worker[w].pc \in {"peer", "route", "queue"}
BufferOK(b) ==
  /\ b.protocol = "unknown" => b.content = <<>> /\ b.req = <<>>
  /\ b.protocol = "http" => b.req \in Requests
LoopOK ==
  /\ loop.pc # "idle" => loop.conn \in Conns /\ Present(loop.conn) /\ loop.data # <<>>
  /\ loop.pc = "make" => table[KeyOf(loop.conn)] = 0
  /\ loop.pc = "accept" => table[KeyOf(loop.conn)] \in {0, loop.buf}
JobsOK ==
  \A i \in DOMAIN jobs : buffer[jobs[i].buf].protocol = "http" /\ conn[jobs[i].conn] # "new"
WorkersOK ==
  \A w \in Workers :
    /\ worker[w].pc # "idle" => worker[w].conn \in Conns /\ worker[w].buf \in BufferIds
    /\ Serving(w) => conn[worker[w].conn] # "new"
    /\ worker[w].pc \in {"peer", "route"} => buffer[worker[w].buf].protocol = "http"
    /\ worker[w].pc = "queue" => worker[w].answer \in Requests
    /\ worker[w].pc = "erase" => worker[w].key \in Peers
WritesOK == \A i \in DOMAIN writes : conn[writes[i].conn] # "new"
UnusedOK ==
  /\ \A peer \in Peers : table[peer] <= made
  /\ loop.pc = "accept" => loop.buf <= made
  /\ \A b \in BufferIds : b > made => buffer[b].protocol = "unknown"
Untouched == \A c \in Conns : conn[c] = "new" => rest[c] = <<>> /\ got[c] = <<>> /\ asked[c] = 0
OneReader == \A c, d \in Conns : Present(c) /\ Present(d) /\ PeerOf[c] = PeerOf[d] => c = d

\* What has been sent by c and is not in a buffer yet.
Rest(c) == IF loop.pc # "idle" /\ loop.conn = c THEN loop.data \o rest[c] ELSE rest[c]

\* The requests of c in it: in their order, each with at most a first piece that
\* starts it and with one end of its headers; and c has asked for one more than
\* it has an answer to, at most.
InOrder(c) ==
  LET r == Rest(c) IN
  /\ \A i \in DOMAIN r : r[i].req[1] = c /\ r[i].req[2] <= asked[c]
  /\ \A i, j \in DOMAIN r : i < j =>
       /\ r[i].req[2] <= r[j].req[2]
       /\ r[i].req = r[j].req => ~Starts(r[j]) /\ ~(Empty(r[i]) /\ Empty(r[j]))
AskedOnce == \A c \in Conns : asked[c] <= Len(got[c]) + 1

SInv ==
  /\ TypeOK /\ \A b \in BufferIds : BufferOK(buffer[b])
  /\ LoopOK /\ JobsOK /\ WorkersOK /\ WritesOK /\ UnusedOK /\ Untouched /\ OneReader
  /\ AskedOnce /\ \A c \in Conns : InOrder(c)

----------------------------------------------------------------------------
\* Each buffer is of one peer, from its making on.
Owned(owner) ==
  /\ \A peer \in Peers : table[peer] # 0 => owner[table[peer]] = peer
  /\ loop.pc = "accept" => owner[loop.buf] = PeerOf[loop.conn]
  /\ \A i \in DOMAIN jobs : owner[jobs[i].buf] = PeerOf[jobs[i].conn]
  /\ \A w \in Workers :
       /\ worker[w].pc \in {"peer", "route"} => owner[worker[w].buf] = PeerOf[worker[w].conn]
       /\ worker[w].pc = "queue" => PeerOf[worker[w].answer[1]] = PeerOf[worker[w].conn]
  /\ \A b \in BufferIds : buffer[b].req # <<>> => owner[b] = PeerOf[buffer[b].req[1]]
  /\ \A i \in DOMAIN writes : PeerOf[writes[i].req[1]] = PeerOf[writes[i].conn]
OwnedInv == \E owner \in [BufferIds -> Peers \cup {NoPeer}] : Owned(owner)

----------------------------------------------------------------------------
\* A request of c is with a worker, or on its way to or from one.
Pending(c) ==
  \/ \E i \in DOMAIN jobs : jobs[i].conn = c
  \/ \E w \in Workers : Serving(w) /\ worker[w].conn = c
  \/ \E i \in DOMAIN writes : writes[i].conn = c
OnePending ==
  /\ \A i, j \in DOMAIN jobs : jobs[i].conn = jobs[j].conn /\ jobs[i].conn \notin early => i = j
  /\ \A v, w \in Workers :
       /\ Serving(v) /\ Serving(w) /\ worker[v].conn = worker[w].conn
       /\ worker[v].conn \notin early
       => v = w
  /\ \A i \in DOMAIN jobs, w \in Workers :
       Serving(w) /\ jobs[i].conn \notin early => jobs[i].conn # worker[w].conn
  /\ \A i \in DOMAIN jobs, k \in DOMAIN writes :
       jobs[i].conn \notin early => jobs[i].conn # writes[k].conn
  /\ \A w \in Workers, k \in DOMAIN writes :
       Serving(w) /\ worker[w].conn \notin early => worker[w].conn # writes[k].conn
Awaited == \A c \in Conns \ early : Pending(c) => asked[c] = Len(got[c]) + 1

\* The pieces of r up to request top are those left of requests that are answered
\* or about to be: they do not make b complete, now or with what follows them.
\* (While the headers of b have not ended, they could.)
Top(c) == IF Pending(c) THEN Len(got[c]) + 1 ELSE Len(got[c])
Deaf(b, r, top) ==
  \/ b.protocol # "http"
  \/ b.ended # 0 /\ b.length # NoLength /\ Len(b.content) >= b.ended + b.length
  \/ b.ended # 0 /\ b.length = NoLength /\ \A i \in DOMAIN r : r[i].req[2] <= top => ~Empty(r[i])
Answered(c) ==
  LET r == Rest(c) IN
  Present(c) => \A i \in DOMAIN r : r[i].req[2] <= Top(c) =>
    /\ ~Starts(r[i])
    /\ table[KeyOf(c)] # 0 => Deaf(buffer[table[KeyOf(c)]], r, Top(c))
    /\ loop.pc = "accept" /\ loop.conn = c => Deaf(buffer[loop.buf], r, Top(c))
AnsweredInv ==
  OnePending /\ OneWritePerStream /\ Awaited /\ AtMostOneAnswer /\ \A c \in Conns \ early : Answered(c)

----------------------------------------------------------------------------
\* Before its first answer, a connection that found no buffer uses one in which
\* there is nothing but its first request.
FirstOf(c, b) == buffer[b].req \in {<<>>, <<c, 1>>}
First(c) ==
  /\ conn[c] # "new"
  /\ got[c] # <<>> => got[c][1] = <<c, 1>>
  /\ got[c] = <<>> =>
       /\ Present(c) /\ table[KeyOf(c)] # 0 => FirstOf(c, table[KeyOf(c)])
       /\ loop.pc = "accept" /\ loop.conn = c => FirstOf(c, loop.buf)
       /\ \A i \in DOMAIN jobs : jobs[i].conn = c => FirstOf(c, jobs[i].buf)
       /\ \A w \in Workers : worker[w].conn = c =>
            /\ worker[w].pc \in {"peer", "route"} => FirstOf(c, worker[w].buf)
            /\ worker[w].pc = "queue" => worker[w].answer = <<c, 1>>
       /\ \A i \in DOMAIN writes : writes[i].conn = c => writes[i].req = <<c, 1>>
FirstInv == \A c \in fresh : First(c)
----------------------------------------------------------------------------
\* A set of numbers that is not empty has a least one.
LEMMA Least ==
  ASSUME NEW S \in SUBSET Nat, S # {}
  PROVE  \E m \in S : \A k \in S : m <= k
<1> DEFINE Less == OpToRel(<, Nat)
<1>1. IsWellFoundedOn(Less, Nat)
  BY NatLessThanWellFounded
<1>2. PICK m \in S : \A k \in S : <<k, m>> \notin Less
  <2> HIDE DEF Less
  <2> QED BY <1>1, WFMin
<1>3. \A k \in S : ~ (k < m)
  BY <1>2 DEF OpToRel
<1> QED BY <1>3

\* A sequence without its i-th element.
LEMMA DropAtIs ==
  ASSUME NEW S, NEW s \in Seq(S), NEW i \in DOMAIN s
  PROVE  /\ DropAt(s, i) \in Seq(S)
         /\ DOMAIN DropAt(s, i) = 1 .. (Len(s) - 1)
         /\ \A k \in 1 .. (Len(s) - 1) : DropAt(s, i)[k] = IF k < i THEN s[k] ELSE s[k + 1]
<1> DEFINE a == SubSeq(s, 1, i - 1)
           b == SubSeq(s, i + 1, Len(s))
<1>1. i \in 1 .. Len(s) /\ Len(s) \in Nat
  OBVIOUS
<1>2. a \in Seq(S) /\ Len(a) = i - 1 /\ \A k \in 1 .. (i - 1) : a[k] = s[k]
  BY <1>1
<1>3. b \in Seq(S) /\ Len(b) = Len(s) - i /\ \A k \in 1 .. (Len(s) - i) : b[k] = s[k + i]
  BY <1>1
<1> HIDE DEF a, b
<1>4. a \o b \in Seq(S) /\ Len(a \o b) = Len(s) - 1
  BY <1>1, <1>2, <1>3
<1>5. ASSUME NEW k \in 1 .. (Len(s) - 1)
      PROVE  (a \o b)[k] = IF k < i THEN s[k] ELSE s[k + 1]
  BY <1>1, <1>2, <1>3, ConcatProperties
<1>6. DropAt(s, i) = a \o b
  BY DEF DropAt, a, b
<1>7. DOMAIN (a \o b) = 1 .. (Len(s) - 1)
  BY <1>4
<1> QED BY <1>4, <1>5, <1>6, <1>7

\* A set of numbers up to n that is not empty has a greatest one.
LEMMA Greatest ==
  ASSUME NEW n \in Nat, NEW S \in SUBSET (1 .. n), S # {}
  PROVE  \E m \in S : \A k \in S : k <= m
<1> DEFINE T == {n - k : k \in S}
<1>1. T \in SUBSET Nat /\ T # {}
  OBVIOUS
<1>2. PICK t \in T : \A k \in T : t <= k
  <2> HIDE DEF T
  <2> QED BY <1>1, Least
<1>3. PICK m \in S : t = n - m
  BY <1>2
<1>4. ASSUME NEW k \in S PROVE k <= m
  <2>1. n - k \in T
    OBVIOUS
  <2>2. n - m <= n - k
    BY <1>2, <1>3, <2>1
  <2>3. k \in Nat /\ m \in Nat
    OBVIOUS
  <2> HIDE DEF T
  <2> QED BY <2>2, <2>3
<1> QED BY <1>4
----------------------------------------------------------------------------
\* The end of the headers is at the first piece that ends them, if any does, and
\* the length is the one said last before it.
LEMMA HeadersTypes ==
  ASSUME NEW s \in Seq(Pieces)
  PROVE  /\ HeadersEnd(s) \in Nat /\ LengthIn(s) \in Nat \cup {NoLength}
         /\ HeadersEnd(s) # 0 => HeadersEnd(s) \in DOMAIN s /\ EndsHeaders(s, HeadersEnd(s))
         /\ HeadersEnd(s) = 0 => \A i \in DOMAIN s : ~EndsHeaders(s, i)
         /\ LET Said(i) == s[i].part \in DOMAIN LengthOf /\ (HeadersEnd(s) # 0 => i <= HeadersEnd(s)) IN
            \/ LengthIn(s) = NoLength /\ \A i \in DOMAIN s : ~Said(i)
            \/ \E i \in DOMAIN s : Said(i) /\ LengthIn(s) = LengthOf[s[i].part]
<1> DEFINE ends == {i \in DOMAIN s : EndsHeaders(s, i)}
           e == HeadersEnd(s)
<1>0. Len(s) \in Nat /\ DOMAIN s = 1 .. Len(s)
  OBVIOUS
<1>1. /\ e \in Nat
      /\ e # 0 => e \in ends
      /\ e = 0 => ends = {}
  <2>1. CASE ends = {}
    BY <2>1 DEF HeadersEnd
  <2>2. CASE ends # {}
    <3>1. ends \in SUBSET Nat /\ 0 \notin ends
      BY <1>0
    <3>2. \E i \in ends : \A j \in ends : i <= j
      <4> HIDE DEF ends
      <4> QED BY <2>2, <3>1, Least
    <3>3. e = CHOOSE i \in ends : \A j \in ends : i <= j
      BY <2>2 DEF HeadersEnd
    <3> HIDE DEF ends, e
    <3>4. e \in ends
      BY <3>2, <3>3
    <3> QED BY <3>1, <3>4
  <2> QED BY <2>1, <2>2
<1> DEFINE says == {i \in DOMAIN s : s[i].part \in DOMAIN LengthOf /\ (e # 0 => i <= e)}
<1>2. /\ LengthIn(s) \in Nat \cup {NoLength}
      /\ \/ LengthIn(s) = NoLength /\ says = {}
         \/ \E i \in says : LengthIn(s) = LengthOf[s[i].part]
  <2>1. CASE says = {}
    BY <2>1 DEF LengthIn
  <2>2. CASE says # {}
    <3>1. says \in SUBSET (1 .. Len(s))
      BY <1>0
    <3>2. \E i \in says : \A j \in says : j <= i
      <4> HIDE DEF says
      <4> QED BY <2>2, <3>1, <1>0, Greatest
    <3> DEFINE last == CHOOSE i \in says : \A j \in says : j <= i
    <3>3. LengthIn(s) = LengthOf[s[last].part]
      BY <2>2 DEF LengthIn
    <3>4. last \in says
      <4> HIDE DEF says
      <4> QED BY <3>2
    <3> HIDE DEF last
    <3> QED BY <3>3, <3>4, LengthAssumption
  <2> QED BY <2>1, <2>2
<1> QED BY <1>1, <1>2

\* What accept() makes of a buffer with more behind what it has.
LEMMA ParsedIs ==
  ASSUME NEW b \in BufferTypes, b.content # <<>>
  PROVE  LET r == ParseHeaders(b) IN
         /\ r \in BufferTypes
         /\ r.content = b.content /\ r.protocol = b.protocol /\ r.req = b.req
         /\ b.protocol # "http" \/ b.ended # 0 => r = b
         /\ b.protocol = "http" /\ b.ended = 0 =>
              r.ended = HeadersEnd(b.content) /\ r.length = LengthIn(b.content)
<1> DEFINE r == ParseHeaders(b)
<1> SUFFICES /\ r \in BufferTypes
             /\ r.content = b.content /\ r.protocol = b.protocol /\ r.req = b.req
             /\ b.protocol # "http" \/ b.ended # 0 => r = b
             /\ b.protocol = "http" /\ b.ended = 0 =>
                  r.ended = HeadersEnd(b.content) /\ r.length = LengthIn(b.content)
  BY Zenon
<1>1. CASE b.protocol # "http" \/ b.ended # 0
  <2>1. r = b
    BY <1>1 DEF ParseHeaders
  <2> HIDE DEF r
  <2> QED BY <1>1, <2>1
<1>2. CASE b.protocol = "http" /\ b.ended = 0
  <2>1. HeadersEnd(b.content) \in Nat /\ LengthIn(b.content) \in Nat \cup {NoLength}
    <3>1. b.content \in Seq(Pieces)
      BY DEF BufferTypes
    <3> QED BY <3>1, HeadersTypes
  <2>2. r = [b EXCEPT !.ended = HeadersEnd(b.content), !.length = LengthIn(b.content)]
    BY <1>2 DEF ParseHeaders
  <2> HIDE DEF r
  <2> QED BY <1>2, <2>1, <2>2 DEF BufferTypes
<1> QED BY <1>1, <1>2

\* What probe() makes of a buffer with something in it.
LEMMA ProbedIs ==
  ASSUME NEW b \in BufferTypes, b.content # <<>>
  PROVE  LET r == Probe(b) IN
         /\ r \in BufferTypes /\ r.content = b.content /\ r.protocol # "unknown"
         /\ r.ended = b.ended /\ r.length = b.length
         /\ b.protocol # "unknown" => r = b
         /\ b.protocol = "unknown" => r.req = b.content[1].req \/ (r.protocol = "invalid" /\ r.req = b.req)
         /\ b.protocol = "unknown" /\ r.protocol = "http" => Starts(b.content[1])
<1> DEFINE r == Probe(b)
<1>1. b.content \in Seq(Pieces) /\ 1 \in DOMAIN b.content
  BY DEF BufferTypes
<1>2. b.content[1].req \in Requests
  <2>1. b.content[1] \in Pieces
    BY <1>1
  <2> QED BY <2>1 DEF Pieces
<1>3. CASE b.protocol # "unknown"
  BY <1>3 DEF Probe
<1>4. CASE b.protocol = "unknown" /\ FirstLine(b.content)
  <2>1. r = [b EXCEPT !.protocol = "http", !.req = b.content[1].req]
    BY <1>4 DEF Probe
  <2>2. Starts(b.content[1])
    BY <1>4 DEF FirstLine, Starts
  <2> QED BY <1>2, <1>4, <2>1, <2>2 DEF BufferTypes
<1>5. CASE b.protocol = "unknown" /\ ~FirstLine(b.content)
  <2>1. r = [b EXCEPT !.protocol = "invalid"]
    BY <1>5 DEF Probe
  <2> QED BY <1>5, <2>1 DEF BufferTypes
<1> QED BY <1>3, <1>4, <1>5

\* accept() as a whole: the bytes are kept, HTTP once is HTTP for good, and the
\* request of a buffer is the one its first bytes are of.
LEMMA AcceptedIs ==
  ASSUME NEW b \in BufferTypes, BufferOK(b), NEW data \in Seq(Pieces), data # <<>>
  PROVE  LET r == Accepted(b, data) IN
         /\ r \in BufferTypes /\ BufferOK(r)
         /\ r.content = b.content \o data /\ r.protocol # "unknown"
         /\ b.protocol # "unknown" => r.protocol = b.protocol /\ r.req = b.req
         /\ b.protocol # "http" /\ r.protocol = "http" =>
              b.protocol = "unknown" /\ Starts(data[1]) /\ r.req = data[1].req
         /\ b.protocol # "http" => r.req \in {b.req, data[1].req}
         /\ b.protocol = "http" /\ b.ended # 0 => r.ended = b.ended /\ r.length = b.length
<1> DEFINE s == [b EXCEPT !.content = @ \o data, !.old = FALSE]
           q == Probe(s)
           r == ParseHeaders(q)
<1>1. /\ s \in BufferTypes /\ s.content = b.content \o data /\ s.content # <<>>
      /\ s.protocol = b.protocol /\ s.req = b.req /\ s.ended = b.ended /\ s.length = b.length
  <2>1. b.content \in Seq(Pieces)
    BY DEF BufferTypes
  <2>2. b.content \o data \in Seq(Pieces) /\ b.content \o data # <<>>
    BY <2>1, ConcatProperties, ConcatEqualIffEmpty
  <2> HIDE DEF Accepted
  <2> QED BY <2>2 DEF BufferTypes
<1>2. b.protocol = "unknown" => s.content[1] = data[1]
  BY <1>1 DEF BufferOK, BufferTypes
<1> HIDE DEF s
<1>3. /\ q \in BufferTypes /\ q.content = s.content /\ q.protocol # "unknown"
      /\ q.ended = s.ended /\ q.length = s.length
      /\ s.protocol # "unknown" => q = s
      /\ s.protocol = "unknown" => q.req = s.content[1].req \/ (q.protocol = "invalid" /\ q.req = s.req)
      /\ s.protocol = "unknown" /\ q.protocol = "http" => Starts(s.content[1])
  BY <1>1, ProbedIs
<1> HIDE DEF q
<1>4. /\ r \in BufferTypes
      /\ r.content = q.content /\ r.protocol = q.protocol /\ r.req = q.req
      /\ q.protocol # "http" \/ q.ended # 0 => r = q
  BY <1>1, <1>3, ParsedIs
<1>5. Accepted(b, data) = r
  BY DEF Accepted, s, q, r
<1> HIDE DEF r
<1>6. r.content = b.content \o data /\ r.protocol # "unknown"
  BY <1>1, <1>3, <1>4
<1>7. b.protocol # "unknown" => r.protocol = b.protocol /\ r.req = b.req
  BY <1>1, <1>3, <1>4
<1>8. b.protocol # "http" /\ r.protocol = "http" =>
        b.protocol = "unknown" /\ Starts(data[1]) /\ r.req = data[1].req
  BY <1>1, <1>2, <1>3, <1>4
<1>9. b.protocol # "http" => r.req \in {b.req, data[1].req}
  BY <1>1, <1>2, <1>3, <1>4
<1>10. b.protocol = "http" /\ b.ended # 0 => r.ended = b.ended /\ r.length = b.length
  BY <1>1, <1>3, <1>4
<1>11. BufferOK(r)
  <2>1. data[1] \in Pieces
    OBVIOUS
  <2>4. data[1].req \in Requests
    BY <2>1 DEF Pieces
  <2>2. r.protocol = "http" => r.req \in Requests
    BY <2>4, <1>7, <1>8 DEF BufferOK
  <2> QED BY <2>2, <1>6 DEF BufferOK
<1> QED BY <1>4, <1>5, <1>6, <1>7, <1>8, <1>9, <1>10, <1>11
----------------------------------------------------------------------------
\* The first state.
LEMMA InitSInv == Init => SInv
<1> SUFFICES ASSUME Init PROVE SInv
  OBVIOUS
<1> USE DEF Init
<1>1. NewBuffer \in BufferTypes /\ BufferOK(NewBuffer)
  BY DEF NewBuffer, BufferTypes, BufferOK
<1>2. TypeOK
  <2>1. 0 \in 0 .. Buffers
    BY BoundsAssumption
  <2>2. IdleLoop \in LoopTypes /\ IdleLoop.pc # "accept"
    BY DEF IdleLoop, LoopTypes
  <2>3. IdleWorker \in WorkerTypes
    BY DEF IdleWorker, WorkerTypes
  <2>4. <<>> \in Seq(Pieces) /\ <<>> \in Seq(Requests) /\ <<>> \in Seq(JobTypes) /\ <<>> \in Seq(WriteTypes)
    BY EmptySeq
  <2> HIDE DEF IdleLoop, IdleWorker, NewBuffer, BufferTypes, LoopTypes, WorkerTypes
  <2> QED BY <1>1, <2>1, <2>2, <2>3, <2>4 DEF TypeOK
<1>3. LoopOK /\ JobsOK /\ WorkersOK /\ WritesOK
  BY DEF LoopOK, JobsOK, WorkersOK, WritesOK, Serving, IdleLoop, IdleWorker
<1>4. UnusedOK
  BY DEF UnusedOK, IdleLoop, NewBuffer
<1>6. Untouched /\ OneReader /\ AskedOnce
  BY DEF Untouched, OneReader, AskedOnce, Present
<1>5. ASSUME NEW c \in Conns PROVE InOrder(c)
  <2>1. Rest(c) = <<>>
    BY DEF Rest, IdleLoop
  <2> QED BY <2>1 DEF InOrder
<1> QED BY <1>1, <1>2, <1>3, <1>4, <1>5, <1>6 DEF SInv

\* The types of what is in hand in the steps.
LEMMA ConnTypes ==
  ASSUME TypeOK, NEW c \in Conns
  PROVE  /\ rest[c] \in Seq(Pieces) /\ got[c] \in Seq(Requests) /\ asked[c] \in Nat
         /\ Len(got[c]) \in Nat /\ Len(rest[c]) \in Nat
         /\ PeerOf[c] \in Peers /\ KeyOf(c) = PeerOf[c]
         /\ table[KeyOf(c)] \in BufferIds \cup {0}
BY PeersAssumption DEF TypeOK, KeyOf

\* A closure in the queue has a connection and a buffer.
LEMMA JobsTypes ==
  ASSUME TypeOK, NEW i \in DOMAIN jobs
  PROVE  jobs[i] \in JobTypes /\ jobs[i].conn \in Conns /\ jobs[i].buf \in BufferIds
<1>1. jobs[i] \in JobTypes
  BY DEF TypeOK
<1> QED BY <1>1 DEF JobTypes

\* A write has a connection and a request.
LEMMA WritesTypes ==
  ASSUME TypeOK, NEW i \in DOMAIN writes
  PROVE  /\ writes[i] \in WriteTypes /\ writes[i].conn \in Conns
         /\ writes[i].req \in Requests /\ writes[i].begun \in BOOLEAN
<1>1. writes[i] \in WriteTypes
  BY DEF TypeOK
<1> QED BY <1>1 DEF WriteTypes

\* What on_read has in hand.
LEMMA LoopIs ==
  ASSUME TypeOK
  PROVE  /\ loop.pc \in {"idle", "at", "make", "accept"} /\ loop.conn \in Conns \cup {NoConn}
         /\ loop.data \in Seq(Pieces) /\ loop.buf \in BufferIds \cup {0}
         /\ loop.pc = "accept" => loop.buf \in BufferIds
BY DEF TypeOK, LoopTypes

\* Every step keeps the types.
LEMMA StepTypes == SInv /\ Next => TypeOK'
<1> SUFFICES ASSUME SInv, Next PROVE TypeOK'
  OBVIOUS
<1>0. TypeOK /\ LoopOK /\ WorkersOK
  BY DEF SInv
<1> USE <1>0
<1>1. ASSUME NEW c \in Conns, Connect(c) \/ Leave(c) \/ Eof(c) \/ OnClose(c) PROVE TypeOK'
  BY <1>1 DEF TypeOK, Connect, Leave, Eof, OnClose, clients
<1>2. ASSUME NEW c \in Conns, NEW shape \in Shapes[c], Ask(c, shape) PROVE TypeOK'
  <2> DEFINE new == [i \in DOMAIN shape |-> [part |-> shape[i], req |-> <<c, asked[c] + 1>>]]
  <2>1. new \in Seq(Pieces)
    <3>1. shape \in Seq(Parts)
      BY ShapesAssumption
    <3>2. <<c, asked[c] + 1>> \in Requests
      BY ConnTypes DEF Requests
    <3>3. \A i \in DOMAIN shape : new[i] \in Pieces
      BY <3>1, <3>2 DEF Pieces
    <3> QED BY <3>1, <3>3
  <2>2. rest' = [rest EXCEPT ![c] = @ \o new]
    BY <1>2 DEF Ask
  <2> HIDE DEF new
  <2>3. rest[c] \o new \in Seq(Pieces) /\ asked[c] + 1 \in Nat
    BY <2>1, ConnTypes, ConcatProperties
  <2> QED BY <1>2, <2>2, <2>3 DEF TypeOK, Ask
<1>3. ASSUME NEW c \in Conns, NEW n \in 1 .. Len(rest[c]), Read(c, n) \/ ReadNobody(c, n) PROVE TypeOK'
  <2>1. SubSeq(rest[c], n + 1, Len(rest[c])) \in Seq(Pieces) /\ SubSeq(rest[c], 1, n) \in Seq(Pieces)
    BY ConnTypes
  <2>2. rest' \in [Conns -> Seq(Pieces)]
    BY <1>3, <2>1 DEF Read, ReadNobody, TypeOK
  <2>3. CASE Read(c, n)
    <3>1. loop' \in LoopTypes /\ loop'.pc # "accept"
      BY <2>1, <2>3 DEF Read, LoopTypes
    <3> QED BY <2>2, <2>3, <3>1 DEF Read, TypeOK
  <2>4. CASE ReadNobody(c, n)
    BY <2>2, <2>4 DEF ReadNobody, TypeOK
  <2> QED BY <1>3, <2>3, <2>4
<1>4. CASE At
  <2>1. loop.conn \in Conns
    BY <1>4 DEF At, LoopOK
  <2>2. loop' \in LoopTypes /\ (loop'.pc = "accept" => loop'.buf # 0)
    <3>1. loop \in LoopTypes /\ loop.pc = "at" /\ table[KeyOf(loop.conn)] \in BufferIds \cup {0}
      BY <1>4, <2>1, ConnTypes DEF At, TypeOK
    <3>2. \/ loop' = loop
          \/ table[KeyOf(loop.conn)] # 0 /\ loop' = [loop EXCEPT !.pc = "accept", !.buf = table[KeyOf(loop.conn)]]
      BY <1>4 DEF At
    <3> QED BY <3>1, <3>2 DEF LoopTypes
  <2>3. crashed' \in BOOLEAN
    BY <1>4 DEF At, TypeOK
  <2> QED BY <1>4, <2>2, <2>3 DEF TypeOK, At, clients
<1>5. CASE Make
  <2>1. made + 1 \in BufferIds /\ made + 1 \in 0 .. Buffers /\ made + 1 # 0
    BY <1>5, BoundsAssumption DEF Make, TypeOK, BufferIds
  <2>2. loop' \in LoopTypes /\ loop'.buf # 0
    BY <1>5, <2>1 DEF Make, TypeOK, LoopTypes
  <2>3. table' \in [Peers -> BufferIds \cup {0}] /\ crashed' \in BOOLEAN
    BY <1>5, <2>1 DEF Make, TypeOK, Torn
  <2> QED BY <1>5, <2>1, <2>2, <2>3 DEF TypeOK, Make, clients
<1>6. CASE Accept
  <2>1. loop.buf \in BufferIds /\ loop.conn \in Conns /\ loop.data # <<>> /\ loop.pc = "accept"
        /\ loop.data \in Seq(Pieces)
    BY <1>6, LoopIs DEF Accept, LoopOK
  <2>2. Accepted(buffer[loop.buf], loop.data) \in BufferTypes
    BY <2>1, AcceptedIs DEF SInv, TypeOK
  <2>3. buffer' \in [BufferIds -> BufferTypes]
    BY <1>6, <2>1, <2>2 DEF Accept, TypeOK
  <2>7. early' \in SUBSET Conns /\ crashed' \in BOOLEAN
    BY <1>6, <2>1 DEF Accept, TypeOK
  <2>4. [conn |-> loop.conn, buf |-> loop.buf] \in JobTypes
    BY <2>1 DEF JobTypes
  <2>5. jobs' \in Seq(JobTypes)
    <3>1. jobs' \in {jobs, Append(jobs, [conn |-> loop.conn, buf |-> loop.buf])}
      BY <1>6 DEF Accept
    <3>2. jobs \in Seq(JobTypes)
      BY DEF TypeOK
    <3> QED BY <2>4, <3>1, <3>2, AppendProperties
  <2>6. IdleLoop \in LoopTypes /\ IdleLoop.pc # "accept"
    BY DEF IdleLoop, LoopTypes
  <2> QED BY <1>6, <2>3, <2>5, <2>6, <2>7 DEF TypeOK, Accept, clients
<1>7. ASSUME NEW w \in Workers, WorkerStep(w) PROVE TypeOK'
  <2>0. worker[w] \in WorkerTypes /\ IdleWorker \in WorkerTypes
    BY DEF TypeOK, IdleWorker, WorkerTypes
  <2>1. CASE Take(w)
    <3>1. Head(jobs) \in JobTypes /\ Tail(jobs) \in Seq(JobTypes)
      BY <2>1 DEF Take, TypeOK
    <3>2. [IdleWorker EXCEPT !.pc = "peer", !.conn = Head(jobs).conn, !.buf = Head(jobs).buf] \in WorkerTypes
      BY <3>1, <2>0 DEF JobTypes, WorkerTypes
    <3> QED BY <2>1, <3>1, <3>2 DEF TypeOK, Take, clients
  <2>2. CASE PeerInfo(w)
    <3>1. worker[w].conn \in Conns /\ worker[w].buf \in BufferIds
      BY <2>2 DEF PeerInfo, WorkersOK
    <3>2. [buffer[worker[w].buf] EXCEPT !.from = PeerOf[worker[w].conn]] \in BufferTypes
      <4>1. buffer[worker[w].buf] \in BufferTypes
        BY <3>1 DEF TypeOK
      <4> QED BY <3>1, <4>1, ConnTypes DEF BufferTypes
    <3>3. buffer' \in [BufferIds -> BufferTypes]
      BY <2>2, <3>1, <3>2 DEF PeerInfo, TypeOK
    <3>4. [worker[w] EXCEPT !.pc = "route"] \in WorkerTypes
      BY <2>0 DEF WorkerTypes
    <3> QED BY <2>2, <3>3, <3>4 DEF TypeOK, PeerInfo, clients
  <2>3. CASE Route(w)
    <3>1. buffer[worker[w].buf] \in BufferTypes
      BY <2>3 DEF Route, TypeOK, WorkersOK
    <3>2. [worker[w] EXCEPT !.pc = "queue", !.answer = buffer[worker[w].buf].req] \in WorkerTypes
      BY <2>0, <3>1 DEF WorkerTypes, BufferTypes
    <3>3. worker' = [worker EXCEPT ![w] = [worker[w] EXCEPT !.pc = "queue", !.answer = buffer[worker[w].buf].req]]
      BY <2>3 DEF Route, TypeOK
    <3> QED BY <2>3, <3>2, <3>3 DEF TypeOK, Route, clients
  <2>4. CASE QueueWork(w)
    <3>1. /\ buffer[worker[w].buf] \in BufferTypes
          /\ worker[w].conn \in Conns /\ worker[w].answer \in Requests
      BY <2>4 DEF QueueWork, TypeOK, WorkersOK
    <3>2. [conn |-> worker[w].conn, req |-> worker[w].answer, begun |-> FALSE] \in WriteTypes
      BY <3>1 DEF WriteTypes
    <3>3. [worker[w] EXCEPT !.pc = "count", !.key = buffer[worker[w].buf].from] \in WorkerTypes
      BY <2>0, <3>1 DEF WorkerTypes, BufferTypes
    <3>4. worker' = [worker EXCEPT ![w] = [worker[w] EXCEPT !.pc = "count", !.key = buffer[worker[w].buf].from]]
      BY <2>4 DEF QueueWork, TypeOK
    <3> QED BY <2>4, <3>2, <3>3, <3>4 DEF TypeOK, QueueWork, clients
  <2>5. CASE Count(w)
    <3>1. [worker[w] EXCEPT !.pc = "erase"] \in WorkerTypes
      BY <2>0 DEF WorkerTypes
    <3> QED BY <2>0, <2>5, <3>1 DEF TypeOK, Count, clients
  <2>6. CASE EraseKey(w)
    BY <2>0, <2>6 DEF TypeOK, EraseKey, clients, Torn
  <2>7. CASE UseFreed(w)
    BY <2>7 DEF TypeOK, UseFreed, clients
  <2> QED BY <1>7, <2>1, <2>2, <2>3, <2>4, <2>5, <2>6, <2>7 DEF WorkerStep
<1>8. ASSUME NEW i \in DOMAIN writes, WriteBegin(i) \/ WriteEnd(i) \/ WriteFreed(i) PROVE TypeOK'
  <2>1. CASE WriteBegin(i)
    <3>1. [writes[i] EXCEPT !.begun = TRUE] \in WriteTypes
      BY WritesTypes DEF WriteTypes
    <3> QED BY <2>1, <3>1 DEF TypeOK, WriteBegin, clients
  <2>2. CASE WriteEnd(i)
    <3>1. writes' \in Seq(WriteTypes)
      BY <2>2, DropAtIs DEF WriteEnd, TypeOK
    <3>2. got' \in [Conns -> Seq(Requests)]
      BY <2>2, WritesTypes DEF WriteEnd, TypeOK
    <3> QED BY <2>2, <3>1, <3>2 DEF TypeOK, WriteEnd
  <2>3. CASE WriteFreed(i)
    BY <2>3 DEF TypeOK, WriteFreed, clients
  <2> QED BY <1>8, <2>1, <2>2, <2>3
<1>9. ASSUME NEW b \in BufferIds, Age(b) PROVE TypeOK'
  <2>1. [buffer[b] EXCEPT !.old = TRUE] \in BufferTypes
    <3>1. buffer[b] \in BufferTypes
      BY DEF TypeOK
    <3> QED BY <3>1 DEF BufferTypes
  <2> QED BY <1>9, <2>1 DEF TypeOK, Age, clients
<1>10. CASE Scan \/ Scanned \/ CleanUp
  <2>1. CASE Scan
    BY <2>1 DEF TypeOK, Scan, clients
  <2>2. CASE Scanned
    BY <2>2 DEF TypeOK, Scanned, clients
  <2>3. CASE CleanUp
    <3>1. table' \in [Peers -> BufferIds \cup {0}]
      BY <2>3 DEF TypeOK, CleanUp
    <3>2. cleaner' \in [scanning : BOOLEAN, keys : SUBSET Peers]
      BY <2>3 DEF TypeOK, CleanUp
    <3> QED BY <2>3, <3>1, <3>2 DEF TypeOK, CleanUp, clients
  <2> QED BY <1>10, <2>1, <2>2, <2>3
<1> QED BY <1>1, <1>2, <1>3, <1>4, <1>5, <1>6, <1>7, <1>8, <1>9, <1>10
  DEF Next, LoopStep, Delivery, WriteStep
----------------------------------------------------------------------------
\* What a step does to each part of the state that invariants speak of.
Same(r, b) ==
  /\ r.content = b.content /\ r.protocol = b.protocol /\ r.req = b.req
  /\ r.ended = b.ended /\ r.length = b.length
Accepting(b) ==
  Accept /\ b = loop.buf /\ buffer'[b] = Accepted(buffer[b], loop.data)

LEMMA BufferStep ==
  ASSUME SInv, Next, NEW b \in BufferIds
  PROVE  Same(buffer'[b], buffer[b]) \/ Accepting(b)
<1>0. TypeOK /\ buffer[b] \in BufferTypes
  BY DEF SInv, TypeOK
<1>1. CASE Accept
  BY <1>0, <1>1, LoopIs DEF Accept, Accepting, Same, TypeOK
<1>2. ASSUME NEW w \in Workers, PeerInfo(w) PROVE Same(buffer'[b], buffer[b])
  <2>1. buffer'[b] \in {buffer[b], [buffer[b] EXCEPT !.from = PeerOf[worker[w].conn]]}
    BY <1>0, <1>2 DEF PeerInfo, TypeOK
  <2> QED BY <1>0, <2>1 DEF BufferTypes, Same
<1>3. ASSUME NEW e \in BufferIds, Age(e) PROVE Same(buffer'[b], buffer[b])
  <2>1. buffer'[b] \in {buffer[b], [buffer[b] EXCEPT !.old = TRUE]}
    BY <1>0, <1>3 DEF Age, TypeOK
  <2> QED BY <1>0, <2>1 DEF BufferTypes, Same
<1>4. CASE UNCHANGED buffer
  BY <1>4 DEF Same
<1>5. ASSUME NEW c \in Conns, Connect(c) \/ Leave(c) \/ Eof(c) \/ OnClose(c) PROVE UNCHANGED buffer
  BY <1>5 DEF Connect, Leave, Eof, OnClose
<1>6. ASSUME NEW c \in Conns, NEW shape \in Shapes[c], Ask(c, shape) PROVE UNCHANGED buffer
  BY <1>6 DEF Ask
<1>7. ASSUME At \/ Make \/ Delivery \/ Scan \/ Scanned \/ CleanUp PROVE UNCHANGED buffer
  BY <1>7 DEF At, Make, Delivery, Read, ReadNobody, Scan, Scanned, CleanUp
<1>8. ASSUME WriteStep PROVE UNCHANGED buffer
  BY <1>8 DEF WriteStep, WriteBegin, WriteEnd, WriteFreed
<1>9. ASSUME NEW w \in Workers, WorkerStep(w) PROVE UNCHANGED buffer \/ PeerInfo(w)
  BY <1>9 DEF WorkerStep, Take, Route, QueueWork, Count, EraseKey, UseFreed
<1> QED BY <1>1, <1>2, <1>3, <1>4, <1>5, <1>6, <1>7, <1>8, <1>9 DEF Next, LoopStep

\* A buffer that is taken for HTTP stays so, with its request.
LEMMA BufferStays ==
  ASSUME SInv, Next, NEW b \in BufferIds
  PROVE  /\ BufferOK(buffer'[b])
         /\ buffer[b].protocol = "http" => buffer'[b].protocol = "http" /\ buffer'[b].req = buffer[b].req
<1>1. CASE Same(buffer'[b], buffer[b])
  BY <1>1 DEF Same, SInv, BufferOK
<1>2. CASE Accepting(b)
  <2>0. loop.pc = "accept"
    BY <1>2 DEF Accepting, Accept
  <2>1. buffer[b] \in BufferTypes /\ BufferOK(buffer[b])
        /\ loop.data \in Seq(Pieces) /\ loop.data # <<>>
    <3>1. TypeOK /\ LoopOK /\ BufferOK(buffer[b])
      BY DEF SInv
    <3>2. loop.data # <<>>
      BY <2>0, <3>1 DEF LoopOK
    <3> QED BY <3>1, <3>2, LoopIs DEF TypeOK
  <2> DEFINE r == Accepted(buffer[b], loop.data)
  <2>2. BufferOK(r) /\ (buffer[b].protocol = "http" => r.protocol = "http" /\ r.req = buffer[b].req)
    BY <2>1, AcceptedIs
  <2>3. buffer'[b] = r
    BY <1>2 DEF Accepting
  <2> HIDE DEF r
  <2> QED BY <2>2, <2>3
<1> QED BY <1>1, <1>2, BufferStep

\* How a handle changes: it becomes present by Connect alone, and leaves while the
\* loop is idle.
LEMMA ConnStep ==
  ASSUME SInv, Next, NEW c \in Conns
  PROVE  /\ conn[c] # "new" => conn'[c] # "new"
         /\ Present(c)' => Present(c) \/ Connect(c)
         /\ Present(c) /\ ~Present(c)' => loop.pc = "idle"
         /\ conn[c] = "new" => conn'[c] = "new" \/ Connect(c)
         /\ conn'[c] = "open" => conn[c] = "open" \/ Connect(c)
<1>0. TypeOK
  BY DEF SInv
<1>1. ASSUME NEW d \in Conns, Connect(d) \/ Leave(d) \/ Eof(d) \/ OnClose(d)
      PROVE  /\ conn[c] # "new" => conn'[c] # "new"
             /\ Present(c)' => Present(c) \/ Connect(c)
             /\ Present(c) /\ ~Present(c)' => loop.pc = "idle"
             /\ conn[c] = "new" => conn'[c] = "new" \/ Connect(c)
             /\ conn'[c] = "open" => conn[c] = "open" \/ Connect(c)
  BY <1>0, <1>1 DEF Connect, Leave, Eof, OnClose, TypeOK, Present
<1>2. CASE UNCHANGED conn
  BY <1>2 DEF Present
<1>3. ASSUME NEW d \in Conns, NEW shape \in Shapes[d], Ask(d, shape) PROVE UNCHANGED conn
  BY <1>3 DEF Ask
<1>4. ASSUME LoopStep \/ Delivery \/ Scan \/ Scanned \/ CleanUp PROVE UNCHANGED conn
  BY <1>4 DEF LoopStep, At, Make, Accept, Delivery, Read, ReadNobody, Scan, Scanned, CleanUp
<1>5. ASSUME WriteStep PROVE UNCHANGED conn
  BY <1>5 DEF WriteStep, WriteBegin, WriteEnd, WriteFreed
<1>6. ASSUME NEW w \in Workers, WorkerStep(w) PROVE UNCHANGED conn
  BY <1>6 DEF WorkerStep, Take, PeerInfo, Route, QueueWork, Count, EraseKey, UseFreed
<1>7. ASSUME NEW b \in BufferIds, Age(b) PROVE UNCHANGED conn
  BY <1>7 DEF Age
<1> QED BY <1>1, <1>2, <1>3, <1>4, <1>5, <1>6, <1>7 DEF Next

\* An entry of the table goes, or is made for the connection being read.
LEMMA TableStep ==
  ASSUME SInv, Next, NEW p \in Peers
  PROVE  \/ table'[p] \in {0, table[p]}
         \/ Make /\ p = KeyOf(loop.conn) /\ table'[p] = made + 1
<1>0. TypeOK
  BY DEF SInv
<1>1. CASE Make
  BY <1>0, <1>1 DEF Make, TypeOK
<1>2. ASSUME NEW w \in Workers, EraseKey(w) PROVE table'[p] \in {0, table[p]}
  BY <1>0, <1>2 DEF EraseKey, TypeOK
<1>3. CASE CleanUp
  BY <1>0, <1>3 DEF CleanUp, TypeOK
<1>4. CASE UNCHANGED table
  BY <1>4
<1>5. ASSUME NEW c \in Conns, Connect(c) \/ Leave(c) \/ Eof(c) \/ OnClose(c) PROVE UNCHANGED table
  BY <1>5 DEF Connect, Leave, Eof, OnClose
<1>6. ASSUME NEW c \in Conns, NEW shape \in Shapes[c], Ask(c, shape) PROVE UNCHANGED table
  BY <1>6 DEF Ask
<1>7. ASSUME At \/ Accept \/ Delivery \/ Scan \/ Scanned PROVE UNCHANGED table
  BY <1>7 DEF At, Accept, Delivery, Read, ReadNobody, Scan, Scanned
<1>8. ASSUME WriteStep PROVE UNCHANGED table
  BY <1>8 DEF WriteStep, WriteBegin, WriteEnd, WriteFreed
<1>9. ASSUME NEW w \in Workers, WorkerStep(w) PROVE UNCHANGED table \/ EraseKey(w)
  BY <1>9 DEF WorkerStep, Take, PeerInfo, Route, QueueWork, Count, UseFreed
<1>10. ASSUME NEW b \in BufferIds, Age(b) PROVE UNCHANGED table
  BY <1>10 DEF Age
<1> QED BY <1>1, <1>2, <1>3, <1>4, <1>5, <1>6, <1>7, <1>8, <1>9, <1>10 DEF Next, LoopStep

\* The loop thread reads for a connection, finds or makes its buffer, and accepts.
LEMMA LoopStays ==
  ASSUME SInv, Next
  PROVE  \/ UNCHANGED loop
         \/ LoopStep
         \/ \E c \in Conns, n \in Nat : n \in 1 .. Len(rest[c]) /\ Read(c, n)
<1>1. ASSUME NEW c \in Conns, Connect(c) \/ Leave(c) \/ Eof(c) \/ OnClose(c) PROVE UNCHANGED loop
  BY <1>1 DEF Connect, Leave, Eof, OnClose
<1>2. ASSUME NEW c \in Conns, NEW shape \in Shapes[c], Ask(c, shape) PROVE UNCHANGED loop
  BY <1>2 DEF Ask
<1>3. CASE Scan \/ Scanned \/ CleanUp
  BY <1>3 DEF Scan, Scanned, CleanUp
<1>4. ASSUME WriteStep PROVE UNCHANGED loop
  BY <1>4 DEF WriteStep, WriteBegin, WriteEnd, WriteFreed
<1>5. ASSUME NEW w \in Workers, WorkerStep(w) PROVE UNCHANGED loop
  BY <1>5 DEF WorkerStep, Take, PeerInfo, Route, QueueWork, Count, EraseKey, UseFreed
<1>6. ASSUME NEW b \in BufferIds, Age(b) PROVE UNCHANGED loop
  BY <1>6 DEF Age
<1>7. ASSUME NEW c \in Conns, NEW n \in 1 .. Len(rest[c]), ReadNobody(c, n) PROVE UNCHANGED loop
  BY <1>7 DEF ReadNobody
<1> QED BY <1>1, <1>2, <1>3, <1>4, <1>5, <1>6, <1>7 DEF Next, Delivery
\* The request of a job was complete when it was queued.
LEMMA CompleteIs ==
  ASSUME NEW b \in BufferTypes, Status(b) = "complete"
  PROVE  /\ b.protocol = "http"
         /\ b.ended # 0 =>
              \/ b.length # NoLength /\ Len(b.content) >= b.ended + b.length
              \/ b.length = NoLength /\ Empty(b.content[Len(b.content)])
<1>1. b.protocol = "http"
  BY DEF Status
<1>2. CASE b.length > 0
  <2>1. Follows(b) = b.length
    BY <1>1, <1>2 DEF Status
  <2>2. Len(b.content) \in Nat /\ b.ended \in Nat /\ b.length \in Nat \cup {NoLength}
    BY DEF BufferTypes
  <2> QED BY <1>1, <1>2, <2>1, <2>2 DEF Follows, NoLength
<1>3. CASE ~(b.length > 0)
  BY <1>1, <1>3 DEF Status, Empty
<1> QED BY <1>1, <1>2, <1>3

TheJob == [conn |-> loop.conn, buf |-> loop.buf]
Queueing == Accept /\ jobs' = Append(jobs, TheJob) /\ Status(buffer'[loop.buf]) = "complete"
                   /\ Accepting(loop.buf) /\ (buffer'[loop.buf].ended = 0 => loop.conn \in early')

\* The queue of the pool grows by what the loop queues and shrinks by Take.
LEMMA JobsStep ==
  ASSUME SInv, Next
  PROVE  UNCHANGED jobs \/ Queueing \/ \E w \in Workers : Take(w)
<1>0. TypeOK
  BY DEF SInv
<1>1. CASE Accept
  <2>1. loop.buf \in BufferIds
    BY <1>0, <1>1, LoopIs DEF Accept
  <2>2. UNCHANGED jobs \/ (/\ jobs' = Append(jobs, TheJob)
                           /\ buffer' = [buffer EXCEPT ![loop.buf] = Accepted(buffer[loop.buf], loop.data)]
                           /\ Status(Accepted(buffer[loop.buf], loop.data)) = "complete"
                           /\ (Accepted(buffer[loop.buf], loop.data).ended = 0 => loop.conn \in early'))
    BY <1>1 DEF Accept, TheJob, Submit
  <2> QED BY <1>0, <1>1, <2>1, <2>2 DEF Queueing, Accepting, TypeOK
<1>2. ASSUME NEW c \in Conns, Connect(c) \/ Leave(c) \/ Eof(c) \/ OnClose(c) PROVE UNCHANGED jobs
  BY <1>2 DEF Connect, Leave, Eof, OnClose
<1>3. ASSUME NEW c \in Conns, NEW shape \in Shapes[c], Ask(c, shape) PROVE UNCHANGED jobs
  BY <1>3 DEF Ask
<1>4. ASSUME At \/ Make \/ Delivery \/ Scan \/ Scanned \/ CleanUp PROVE UNCHANGED jobs
  BY <1>4 DEF At, Make, Delivery, Read, ReadNobody, Scan, Scanned, CleanUp
<1>5. ASSUME WriteStep PROVE UNCHANGED jobs
  BY <1>5 DEF WriteStep, WriteBegin, WriteEnd, WriteFreed
<1>6. ASSUME NEW w \in Workers, WorkerStep(w) PROVE UNCHANGED jobs \/ Take(w)
  BY <1>6 DEF WorkerStep, PeerInfo, Route, QueueWork, Count, EraseKey, UseFreed
<1>7. ASSUME NEW b \in BufferIds, Age(b) PROVE UNCHANGED jobs
  BY <1>7 DEF Age
<1> QED BY <1>1, <1>2, <1>3, <1>4, <1>5, <1>6, <1>7 DEF Next, LoopStep

\* The first element and the others.
LEMMA TailIs ==
  ASSUME NEW S, NEW s \in Seq(S), s # <<>>
  PROVE  /\ Head(s) = s[1] /\ 1 \in DOMAIN s
         /\ Tail(s) \in Seq(S) /\ DOMAIN Tail(s) = 1 .. (Len(s) - 1)
         /\ \A i \in DOMAIN Tail(s) : i + 1 \in DOMAIN s /\ Tail(s)[i] = s[i + 1]
<1>1. Tail(s) \in Seq(S) /\ Len(Tail(s)) = Len(s) - 1 /\ \A i \in 1 .. Len(Tail(s)) : Tail(s)[i] = s[i + 1]
  BY HeadTailProperties
<1>2. Len(s) \in Nat \ {0} /\ DOMAIN s = 1 .. Len(s)
  BY EmptySeq, LenProperties
<1>3. Head(s) = s[1]
  BY HeadTailProperties
<1> QED BY <1>1, <1>2, <1>3

\* Where each job comes from.
LEMMA EachJob ==
  ASSUME SInv, Next, NEW i \in DOMAIN jobs'
  PROVE  \/ \E k \in DOMAIN jobs : jobs'[i] = jobs[k]
         \/ Queueing /\ jobs'[i] = TheJob
<1>0. jobs \in Seq(JobTypes)
  BY DEF SInv, TypeOK
<1>1. CASE UNCHANGED jobs
  BY <1>1
<1>2. CASE Queueing
  <2>1. TheJob \in JobTypes
    BY <1>2, LoopIs DEF Queueing, Accept, TheJob, JobTypes, SInv, LoopOK
  <2> QED BY <1>0, <1>2, <2>1, AppendProperties DEF Queueing
<1>3. ASSUME NEW w \in Workers, Take(w) PROVE \E k \in DOMAIN jobs : jobs'[i] = jobs[k]
  <2>1. jobs # <<>> /\ jobs' = Tail(jobs)
    BY <1>3 DEF Take
  <2> QED BY <1>0, <2>1, TailIs
<1> QED BY <1>1, <1>2, <1>3, JobsStep

\* Where each write comes from.
LEMMA EachWrite ==
  ASSUME SInv, Next, NEW i \in DOMAIN writes'
  PROVE  \/ \E k \in DOMAIN writes : writes'[i].conn = writes[k].conn /\ writes'[i].req = writes[k].req
         \/ \E w \in Workers : /\ QueueWork(w)
                               /\ writes'[i].conn = worker[w].conn /\ writes'[i].req = worker[w].answer
<1>0. writes \in Seq(WriteTypes) /\ TypeOK
  BY DEF SInv, TypeOK
<1>1. ASSUME UNCHANGED writes
      PROVE  \E k \in DOMAIN writes : writes'[i].conn = writes[k].conn /\ writes'[i].req = writes[k].req
  BY <1>1
<1>2. ASSUME NEW w \in Workers, QueueWork(w)
      PROVE  \/ \E k \in DOMAIN writes : writes'[i].conn = writes[k].conn /\ writes'[i].req = writes[k].req
             \/ writes'[i].conn = worker[w].conn /\ writes'[i].req = worker[w].answer
  <2> DEFINE new == [conn |-> worker[w].conn, req |-> worker[w].answer, begun |-> FALSE]
  <2>1. new \in WriteTypes
    BY <1>2 DEF QueueWork, WriteTypes, SInv, WorkersOK
  <2>2. writes' = Append(writes, new)
    BY <1>2 DEF QueueWork
  <2>3. (i \in DOMAIN writes /\ writes'[i] = writes[i]) \/ writes'[i] = new
    <3> HIDE DEF new
    <3> QED BY <1>0, <2>1, <2>2, AppendProperties
  <2> QED BY <2>3
<1>3. ASSUME NEW k \in DOMAIN writes, WriteBegin(k) \/ WriteFreed(k)
      PROVE  \E j \in DOMAIN writes : writes'[i].conn = writes[j].conn /\ writes'[i].req = writes[j].req
  <2>1. DOMAIN writes' = DOMAIN writes
    BY <1>3 DEF WriteBegin, WriteFreed
  <2>2. writes'[i] \in {writes[i], [writes[i] EXCEPT !.begun = TRUE]}
    BY <1>3, <2>1 DEF WriteBegin, WriteFreed
  <2>3. writes[i] \in WriteTypes
    BY <1>0, <2>1
  <2> QED BY <2>1, <2>2, <2>3 DEF WriteTypes
<1>4. ASSUME NEW k \in DOMAIN writes, WriteEnd(k)
      PROVE  \E j \in DOMAIN writes : writes'[i].conn = writes[j].conn /\ writes'[i].req = writes[j].req
  <2>1. writes' = DropAt(writes, k)
    BY <1>4 DEF WriteEnd
  <2>2. i \in 1 .. (Len(writes) - 1) /\ writes'[i] = IF i < k THEN writes[i] ELSE writes[i + 1]
    BY <1>0, <2>1, DropAtIs
  <2>3. DOMAIN writes = 1 .. Len(writes) /\ Len(writes) \in Nat
    BY <1>0
  <2> QED BY <2>2, <2>3
<1>5. ASSUME NEW c \in Conns, Connect(c) \/ Leave(c) \/ Eof(c) \/ OnClose(c) PROVE UNCHANGED writes
  BY <1>5 DEF Connect, Leave, Eof, OnClose
<1>6. ASSUME NEW c \in Conns, NEW shape \in Shapes[c], Ask(c, shape) PROVE UNCHANGED writes
  BY <1>6 DEF Ask
<1>7. ASSUME LoopStep \/ Delivery \/ Scan \/ Scanned \/ CleanUp PROVE UNCHANGED writes
  BY <1>7 DEF LoopStep, At, Make, Accept, Delivery, Read, ReadNobody, Scan, Scanned, CleanUp
<1>8. ASSUME NEW w \in Workers, WorkerStep(w) PROVE UNCHANGED writes \/ QueueWork(w)
  BY <1>8 DEF WorkerStep, Take, PeerInfo, Route, Count, EraseKey, UseFreed
<1>9. ASSUME NEW b \in BufferIds, Age(b) PROVE UNCHANGED writes
  BY <1>9 DEF Age
<1> QED BY <1>1, <1>2, <1>3, <1>4, <1>5, <1>6, <1>7, <1>8, <1>9 DEF Next, WriteStep
\* A worker changes by its own steps, and not while the loop accepts.
LEMMA EachWorker ==
  ASSUME SInv, Next, NEW v \in Workers
  PROVE  worker'[v] = worker[v] \/ (WorkerStep(v) /\ ~Accept)
<1>0. TypeOK
  BY DEF SInv
<1>1. ASSUME NEW w \in Workers, WorkerStep(w) PROVE worker'[v] = worker[v] \/ (WorkerStep(v) /\ ~Accept)
  <2>1. worker' = worker \/ \E r : worker' = [worker EXCEPT ![w] = r]
    <3>1. CASE Take(w) \/ Count(w) \/ EraseKey(w) \/ UseFreed(w)
      BY <3>1 DEF Take, Count, EraseKey, UseFreed
    <3>2. CASE PeerInfo(w)
      BY <3>2 DEF PeerInfo
    <3>3. CASE Route(w)
      BY <3>3 DEF Route
    <3>4. CASE QueueWork(w)
      BY <3>4 DEF QueueWork
    <3> QED BY <1>1, <3>1, <3>2, <3>3, <3>4 DEF WorkerStep
  <2>2. v # w => worker'[v] = worker[v]
    BY <1>0, <2>1 DEF TypeOK
  <2>3. Accept => worker' = worker
    BY DEF Accept
  <2> QED BY <1>1, <2>2, <2>3
<1>2. ASSUME NEW c \in Conns, Connect(c) \/ Leave(c) \/ Eof(c) \/ OnClose(c) PROVE UNCHANGED worker
  BY <1>2 DEF Connect, Leave, Eof, OnClose
<1>3. ASSUME NEW c \in Conns, NEW shape \in Shapes[c], Ask(c, shape) PROVE UNCHANGED worker
  BY <1>3 DEF Ask
<1>4. ASSUME LoopStep \/ Delivery \/ Scan \/ Scanned \/ CleanUp PROVE UNCHANGED worker
  BY <1>4 DEF LoopStep, At, Make, Accept, Delivery, Read, ReadNobody, Scan, Scanned, CleanUp
<1>5. ASSUME WriteStep PROVE UNCHANGED worker
  BY <1>5 DEF WriteStep, WriteBegin, WriteEnd, WriteFreed
<1>6. ASSUME NEW b \in BufferIds, Age(b) PROVE UNCHANGED worker
  BY <1>6 DEF Age
<1> QED BY <1>1, <1>2, <1>3, <1>4, <1>5, <1>6 DEF Next

----------------------------------------------------------------------------
\* The parts of SInv.
LEMMA StepLoop == SInv /\ Next => LoopOK'
<1> SUFFICES ASSUME SInv, Next PROVE LoopOK'
  OBVIOUS
<1>0. TypeOK /\ LoopOK
  BY DEF SInv
<1>1. CASE UNCHANGED loop
  <2>1. ASSUME loop.pc # "idle"
        PROVE  /\ loop.conn \in Conns /\ Present(loop.conn)' /\ loop.data # <<>>
               /\ loop.pc = "make" => table'[KeyOf(loop.conn)] = 0 \/ Make
               /\ loop.pc = "accept" => table'[KeyOf(loop.conn)] \in {0, loop.buf} \/ Make
    <3>1. loop.conn \in Conns /\ Present(loop.conn) /\ loop.data # <<>>
      BY <1>0, <2>1 DEF LoopOK
    <3>2. Present(loop.conn)'
      BY <3>1, <2>1, <1>1, ConnStep
    <3>3. KeyOf(loop.conn) \in Peers
      BY <1>0, <3>1, ConnTypes
    <3> QED BY <1>0, <3>1, <3>2, <3>3, TableStep DEF LoopOK
  <2>2. ~Make
    <3>1. ASSUME Make PROVE loop'.pc = "accept" /\ loop.pc = "make"
      BY <3>1, <1>0 DEF Make, TypeOK, LoopTypes
    <3> QED BY <1>1, <3>1
  <2>3. KeyOf(loop.conn)' = KeyOf(loop.conn)
    BY <1>1 DEF KeyOf
  <2> QED BY <1>1, <2>1, <2>2, <2>3 DEF LoopOK, KeyOf
<1>2. CASE Accept
  BY <1>2 DEF Accept, LoopOK, IdleLoop
<1>3. CASE At
  <2>1. loop' = loop \/ loop' = [loop EXCEPT !.pc = "accept", !.buf = table[KeyOf(loop.conn)]]
    BY <1>3 DEF At
  <2>2. conn' = conn /\ table' = table /\ loop.pc = "at" /\ loop \in LoopTypes
    BY <1>0, <1>3 DEF At, TypeOK
  <2>3. loop.conn \in Conns /\ Present(loop.conn) /\ loop.data # <<>>
    BY <1>0, <2>2 DEF LoopOK
  <2>4. loop'.conn = loop.conn /\ loop'.data = loop.data /\ loop'.pc \in {"at", "accept"}
        /\ (loop'.pc = "accept" => loop'.buf = table[KeyOf(loop.conn)])
    BY <2>1, <2>2 DEF LoopTypes
  <2> QED BY <2>2, <2>3, <2>4 DEF LoopOK, Present, KeyOf
<1>4. CASE Make
  <2>1. loop.conn \in Conns /\ Present(loop.conn) /\ loop.data # <<>> /\ KeyOf(loop.conn) \in Peers
    BY <1>0, <1>4, ConnTypes DEF Make, LoopOK
  <2>2. loop'.conn = loop.conn /\ loop'.data = loop.data /\ loop'.buf = made + 1 /\ loop'.pc = "accept"
    BY <1>0, <1>4 DEF Make, TypeOK, LoopTypes
  <2>3. table'[KeyOf(loop.conn)] = made + 1 /\ Present(loop.conn)'
    BY <1>0, <1>4, <2>1 DEF Make, TypeOK, Present
  <2> QED BY <2>1, <2>2, <2>3 DEF LoopOK, KeyOf
<1>5. ASSUME NEW c \in Conns, NEW n \in Nat, n \in 1 .. Len(rest[c]), Read(c, n) PROVE LoopOK'
  <2>1. loop'.conn = c /\ loop'.data = SubSeq(rest[c], 1, n) /\ loop'.pc \in {"at", "make"}
        /\ (loop'.pc = "make" => table[KeyOf(c)] = 0) /\ table' = table /\ conn' = conn /\ Present(c)
    BY <1>5 DEF Read
  <2>2. SubSeq(rest[c], 1, n) # <<>>
    <3>1. rest[c] \in Seq(Pieces)
      BY <1>0, ConnTypes
    <3>2. Len(SubSeq(rest[c], 1, n)) = n
      BY <3>1, <1>5
    <3> QED BY <3>2, <1>5
  <2> QED BY <2>1, <2>2 DEF LoopOK, KeyOf, Present
<1> QED BY <1>1, <1>2, <1>3, <1>4, <1>5, LoopStays DEF LoopStep

\* A closure is for a buffer that is taken for HTTP, and a connection that was accepted.
LEMMA StepJobs == SInv /\ Next => JobsOK'
<1> SUFFICES ASSUME SInv, Next, NEW i \in DOMAIN jobs'
             PROVE  buffer'[jobs'[i].buf].protocol = "http" /\ conn'[jobs'[i].conn] # "new"
  BY DEF JobsOK
<1>0. TypeOK /\ JobsOK /\ LoopOK
  BY DEF SInv
<1>1. ASSUME NEW k \in DOMAIN jobs, jobs'[i] = jobs[k]
      PROVE  buffer'[jobs'[i].buf].protocol = "http" /\ conn'[jobs'[i].conn] # "new"
  <2>1. jobs[k].conn \in Conns /\ jobs[k].buf \in BufferIds
    BY <1>0, JobsTypes
  <2> QED BY <1>0, <1>1, <2>1, BufferStays, ConnStep DEF JobsOK
<1>2. ASSUME Queueing, jobs'[i] = TheJob
      PROVE  buffer'[jobs'[i].buf].protocol = "http" /\ conn'[jobs'[i].conn] # "new"
  <2>1. loop.conn \in Conns /\ Present(loop.conn) /\ loop.buf \in BufferIds
    BY <1>0, <1>2, LoopIs DEF Queueing, Accept, LoopOK
  <2>2. buffer'[loop.buf] \in BufferTypes
    BY <2>1, StepTypes DEF TypeOK, BufferIds
  <2>3. buffer'[loop.buf].protocol = "http"
    BY <1>2, <2>2, CompleteIs DEF Queueing
  <2> QED BY <1>2, <2>1, <2>3, ConnStep DEF TheJob, Present
<1> QED BY <1>1, <1>2, EachJob

\* So is what a worker has in hand.
LEMMA StepWorkers == SInv /\ Next => WorkersOK'
<1> SUFFICES ASSUME SInv, Next, NEW w \in Workers
             PROVE  /\ worker'[w].pc # "idle" => worker'[w].conn \in Conns /\ worker'[w].buf \in BufferIds
                    /\ Serving(w)' => conn'[worker'[w].conn] # "new"
                    /\ worker'[w].pc \in {"peer", "route"} => buffer'[worker'[w].buf].protocol = "http"
                    /\ worker'[w].pc = "queue" => worker'[w].answer \in Requests
                    /\ worker'[w].pc = "erase" => worker'[w].key \in Peers
  BY DEF WorkersOK, BufferIds
<1>0. TypeOK /\ WorkersOK /\ JobsOK /\ worker[w] \in WorkerTypes /\ \A b \in BufferIds : BufferOK(buffer[b])
  BY DEF SInv, TypeOK
<1>1. /\ worker[w].pc # "idle" => worker[w].conn \in Conns /\ worker[w].buf \in BufferIds
      /\ Serving(w) => conn'[worker[w].conn] # "new"
      /\ worker[w].pc \in {"peer", "route"} => buffer'[worker[w].buf].protocol = "http"
      /\ worker[w].pc = "queue" => worker[w].answer \in Requests
      /\ worker[w].pc = "erase" => worker[w].key \in Peers
  <2>1. worker[w].pc # "idle" => worker[w].conn \in Conns /\ worker[w].buf \in BufferIds
    BY <1>0 DEF WorkersOK
  <2> QED BY <1>0, <2>1, BufferStays, ConnStep DEF WorkersOK, Serving
<1>2. CASE worker'[w] = worker[w]
  BY <1>1, <1>2 DEF Serving
<1>3. CASE Take(w)
  <2>1. Head(jobs) = jobs[1] /\ 1 \in DOMAIN jobs
    BY <1>0, <1>3, TailIs DEF Take, TypeOK
  <2>2. jobs[1].conn \in Conns /\ jobs[1].buf \in BufferIds /\ buffer[jobs[1].buf].protocol = "http"
        /\ conn[jobs[1].conn] # "new"
    BY <1>0, <2>1, JobsTypes DEF JobsOK
  <2>3. worker'[w].pc = "peer" /\ worker'[w].conn = jobs[1].conn /\ worker'[w].buf = jobs[1].buf
    BY <1>0, <1>3, <2>1 DEF Take, TypeOK, IdleWorker
  <2> QED BY <2>2, <2>3, BufferStays, ConnStep DEF Serving
<1>4. CASE PeerInfo(w)
  <2>1. worker'[w] = [worker[w] EXCEPT !.pc = "route"] /\ worker[w].pc = "peer"
    BY <1>0, <1>4 DEF PeerInfo, TypeOK
  <2> QED BY <1>0, <1>1, <2>1 DEF Serving, WorkerTypes
<1>5. CASE Route(w)
  <2>1. worker'[w] = [worker[w] EXCEPT !.pc = "queue", !.answer = buffer[worker[w].buf].req]
        /\ worker[w].pc = "route"
    BY <1>0, <1>5 DEF Route, TypeOK
  <2>2. buffer[worker[w].buf].req \in Requests
    BY <1>0, <2>1 DEF WorkersOK, BufferOK
  <2> QED BY <1>0, <1>1, <2>1, <2>2 DEF Serving, WorkerTypes
<1>6. CASE QueueWork(w)
  <2>1. worker'[w] = [worker[w] EXCEPT !.pc = "count", !.key = buffer[worker[w].buf].from]
        /\ worker[w].pc = "queue"
    BY <1>0, <1>6 DEF QueueWork, TypeOK
  <2> QED BY <1>0, <1>1, <2>1 DEF Serving, WorkerTypes
<1>7. CASE Count(w)
  <2>1. \/ worker'[w] = IdleWorker
        \/ worker'[w] = [worker[w] EXCEPT !.pc = "erase"] /\ worker[w].key # NoPeer
    BY <1>0, <1>7 DEF Count, TypeOK
  <2>2. worker[w].pc = "count"
    BY <1>7 DEF Count
  <2> QED BY <1>0, <1>1, <2>1, <2>2 DEF Serving, WorkerTypes, IdleWorker
<1>8. CASE EraseKey(w)
  BY <1>0, <1>8 DEF EraseKey, TypeOK, Serving, IdleWorker
<1>9. CASE UseFreed(w)
  BY <1>2, <1>9 DEF UseFreed
<1> QED BY <1>2, <1>3, <1>4, <1>5, <1>6, <1>7, <1>8, <1>9, EachWorker DEF WorkerStep

\* So is a write.
LEMMA StepWrites == SInv /\ Next => WritesOK'
<1> SUFFICES ASSUME SInv, Next, NEW i \in DOMAIN writes' PROVE conn'[writes'[i].conn] # "new"
  BY DEF WritesOK
<1>0. TypeOK /\ WritesOK /\ WorkersOK
  BY DEF SInv
<1>1. ASSUME NEW k \in DOMAIN writes, writes'[i].conn = writes[k].conn PROVE conn'[writes'[i].conn] # "new"
  BY <1>0, <1>1, WritesTypes, ConnStep DEF WritesOK
<1>2. ASSUME NEW w \in Workers, QueueWork(w), writes'[i].conn = worker[w].conn
      PROVE  conn'[writes'[i].conn] # "new"
  <2>1. worker[w].conn \in Conns /\ conn[worker[w].conn] # "new"
    BY <1>0, <1>2 DEF QueueWork, WorkersOK, Serving
  <2> QED BY <1>2, <2>1, ConnStep
<1> QED BY <1>1, <1>2, EachWrite
\* Buffers are made by the loop alone.
LEMMA MadeStep == SInv /\ Next => made' = made \/ Make
<1> SUFFICES ASSUME SInv, Next PROVE made' = made \/ Make
  OBVIOUS
<1>1. ASSUME NEW c \in Conns, Connect(c) \/ Leave(c) \/ Eof(c) \/ OnClose(c) PROVE made' = made
  BY <1>1 DEF Connect, Leave, Eof, OnClose
<1>2. ASSUME NEW c \in Conns, NEW shape \in Shapes[c], Ask(c, shape) PROVE made' = made
  BY <1>2 DEF Ask
<1>3. ASSUME At \/ Accept \/ Delivery \/ Scan \/ Scanned \/ CleanUp PROVE made' = made
  BY <1>3 DEF At, Accept, Delivery, Read, ReadNobody, Scan, Scanned, CleanUp
<1>4. ASSUME WriteStep PROVE made' = made
  BY <1>4 DEF WriteStep, WriteBegin, WriteEnd, WriteFreed
<1>5. ASSUME NEW w \in Workers, WorkerStep(w) PROVE made' = made
  BY <1>5 DEF WorkerStep, Take, PeerInfo, Route, QueueWork, Count, EraseKey, UseFreed
<1>6. ASSUME NEW b \in BufferIds, Age(b) PROVE made' = made
  BY <1>6 DEF Age
<1> QED BY <1>1, <1>2, <1>3, <1>4, <1>5, <1>6 DEF Next, LoopStep

\* Nothing points to a buffer before it is made.
LEMMA StepUnused == SInv /\ Next => UnusedOK'
<1> SUFFICES ASSUME SInv, Next PROVE UnusedOK'
  OBVIOUS
<1>0. TypeOK /\ UnusedOK /\ LoopOK
  BY DEF SInv
<1>1. made \in Nat /\ made' \in Nat /\ made <= made'
  <2>1. Make => made' = made + 1
    BY DEF Make
  <2>2. made \in Nat
    BY <1>0, BoundsAssumption DEF TypeOK
  <2> QED BY <2>1, <2>2, MadeStep
<1>2. ASSUME NEW p \in Peers PROVE table'[p] <= made'
  <2>1. table[p] <= made /\ table[p] \in Nat
    BY <1>0 DEF UnusedOK, TypeOK, BufferIds
  <2>2. Make => made' = made + 1
    BY DEF Make
  <2> QED BY <1>1, <2>1, <2>2, TableStep
<1>3. ASSUME loop'.pc = "accept" PROVE loop'.buf <= made'
  <2>1. CASE UNCHANGED loop
    <3>1. loop.buf <= made /\ loop.buf \in Nat
      BY <1>0, <1>3, <2>1, LoopIs DEF UnusedOK, BufferIds
    <3> QED BY <2>1, <3>1, <1>1
  <2>2. CASE At
    <3>1. loop.conn \in Conns
      BY <1>0, <2>2 DEF At, LoopOK
    <3>2. table[KeyOf(loop.conn)] <= made /\ table[KeyOf(loop.conn)] \in Nat
      BY <1>0, <3>1, ConnTypes DEF UnusedOK, BufferIds
    <3>3. loop' = [loop EXCEPT !.pc = "accept", !.buf = table[KeyOf(loop.conn)]]
      BY <1>0, <1>3, <2>2, LoopIs DEF At
    <3>4. loop'.buf = table[KeyOf(loop.conn)]
      BY <1>0, <3>3 DEF TypeOK, LoopTypes
    <3> QED BY <3>2, <3>4, <1>1
  <2>3. CASE Make
    BY <1>0, <1>1, <2>3 DEF Make, TypeOK, LoopTypes
  <2>4. CASE Accept
    BY <1>3, <2>4 DEF Accept, IdleLoop
  <2>5. ASSUME NEW c \in Conns, NEW n \in Nat, Read(c, n) PROVE FALSE
    BY <1>3, <2>5 DEF Read
  <2> QED BY <2>1, <2>2, <2>3, <2>4, <2>5, LoopStays DEF LoopStep
<1>4. ASSUME NEW b \in BufferIds, b > made' PROVE buffer'[b].protocol = "unknown"
  <2>1. b > made /\ b \in Nat
    BY <1>1, <1>4 DEF BufferIds
  <2>2. buffer[b].protocol = "unknown"
    BY <1>0, <2>1 DEF UnusedOK
  <2>3. ~Accepting(b)
    <3>1. ASSUME Accepting(b) PROVE b <= made
      BY <1>0, <3>1 DEF Accepting, Accept, UnusedOK
    <3> QED BY <2>1, <3>1, <1>1
  <2> QED BY <2>2, <2>3, BufferStep DEF Same
<1> QED BY <1>2, <1>3, <1>4 DEF UnusedOK, BufferIds

\* Clients ask for one thing after the other.
LEMMA AskedStep ==
  ASSUME SInv, Next, NEW c \in Conns
  PROVE  \/ asked'[c] = asked[c]
         \/ /\ asked'[c] = asked[c] + 1 /\ asked[c] <= Len(got[c]) /\ got' = got /\ conn[c] = "open"
            /\ \E shape \in Shapes[c] : Ask(c, shape)
<1>0. TypeOK
  BY DEF SInv
<1>1. ASSUME NEW d \in Conns, NEW shape \in Shapes[d], Ask(d, shape)
      PROVE  \/ asked'[c] = asked[c]
             \/ /\ d = c /\ asked'[c] = asked[c] + 1 /\ asked[c] <= Len(got[c]) /\ got' = got
                /\ conn[c] = "open"
  BY <1>0, <1>1 DEF Ask, TypeOK
<1>2. ASSUME NEW d \in Conns, Connect(d) \/ Leave(d) \/ Eof(d) \/ OnClose(d) PROVE asked' = asked
  BY <1>2 DEF Connect, Leave, Eof, OnClose, clients
<1>3. ASSUME LoopStep \/ Delivery \/ Scan \/ Scanned \/ CleanUp PROVE asked' = asked
  BY <1>3 DEF LoopStep, At, Make, Accept, Delivery, Read, ReadNobody, Scan, Scanned, CleanUp, clients
<1>4. ASSUME WriteStep PROVE asked' = asked
  BY <1>4 DEF WriteStep, WriteBegin, WriteEnd, WriteFreed, clients
<1>5. ASSUME NEW w \in Workers, WorkerStep(w) PROVE asked' = asked
  BY <1>5 DEF WorkerStep, Take, PeerInfo, Route, QueueWork, Count, EraseKey, UseFreed, clients
<1>6. ASSUME NEW b \in BufferIds, Age(b) PROVE asked' = asked
  BY <1>6 DEF Age, clients
<1> QED BY <1>1, <1>2, <1>3, <1>4, <1>5, <1>6 DEF Next

\* A connection gets the answer of a write that ends while its client is there.
Answering(c) ==
  \E i \in DOMAIN writes : /\ WriteEnd(i) /\ writes[i].conn = c /\ conn[c] = "open"
                           /\ got'[c] = Append(got[c], writes[i].req) /\ asked' = asked

\* An answer is had by the end of a write alone.
LEMMA GotStep ==
  ASSUME SInv, Next, NEW c \in Conns
  PROVE  got'[c] = got[c] \/ Answering(c)
<1>0. TypeOK
  BY DEF SInv
<1>1. ASSUME NEW i \in DOMAIN writes, WriteEnd(i) PROVE got'[c] = got[c] \/ Answering(c)
  <2>1. writes[i].conn \in Conns
    BY <1>0, WritesTypes
  <2>2. CASE writes[i].conn = c /\ conn[c] = "open"
    <3>1. got' = [got EXCEPT ![c] = Append(got[c], writes[i].req)] /\ asked' = asked
      BY <1>1, <2>2 DEF WriteEnd
    <3>2. got'[c] = Append(got[c], writes[i].req)
      BY <1>0, <3>1 DEF TypeOK
    <3> QED BY <1>1, <2>2, <3>1, <3>2 DEF Answering
  <2>3. CASE ~(writes[i].conn = c /\ conn[c] = "open")
    <3>1. got' = got \/ (got' = [got EXCEPT ![writes[i].conn] = Append(@, writes[i].req)] /\ writes[i].conn # c)
      BY <1>1, <2>3 DEF WriteEnd
    <3> QED BY <1>0, <2>1, <3>1 DEF TypeOK
  <2> QED BY <2>2, <2>3
<1>2. ASSUME NEW i \in DOMAIN writes, WriteBegin(i) \/ WriteFreed(i) PROVE got' = got
  BY <1>2 DEF WriteBegin, WriteFreed, clients
<1>3. ASSUME NEW d \in Conns, Connect(d) \/ Leave(d) \/ Eof(d) \/ OnClose(d) PROVE got' = got
  BY <1>3 DEF Connect, Leave, Eof, OnClose, clients
<1>4. ASSUME NEW d \in Conns, NEW shape \in Shapes[d], Ask(d, shape) PROVE got' = got
  BY <1>4 DEF Ask
<1>5. ASSUME LoopStep \/ Delivery \/ Scan \/ Scanned \/ CleanUp PROVE got' = got
  BY <1>5 DEF LoopStep, At, Make, Accept, Delivery, Read, ReadNobody, Scan, Scanned, CleanUp, clients
<1>6. ASSUME NEW w \in Workers, WorkerStep(w) PROVE got' = got
  BY <1>6 DEF WorkerStep, Take, PeerInfo, Route, QueueWork, Count, EraseKey, UseFreed, clients
<1>7. ASSUME NEW b \in BufferIds, Age(b) PROVE got' = got
  BY <1>7 DEF Age, clients
<1> QED BY <1>1, <1>2, <1>3, <1>4, <1>5, <1>6, <1>7 DEF Next, WriteStep

\* A client does not ask again before it has its answer.
LEMMA StepAsked == SInv /\ Next => AskedOnce'
<1> SUFFICES ASSUME SInv, Next, NEW c \in Conns PROVE asked'[c] <= Len(got'[c]) + 1
  BY DEF AskedOnce
<1>0. /\ TypeOK /\ asked[c] <= Len(got[c]) + 1
      /\ asked[c] \in Nat /\ Len(got[c]) \in Nat /\ got[c] \in Seq(Requests)
  BY ConnTypes DEF SInv, AskedOnce
<1>1. CASE Answering(c)
  <2>1. PICK i \in DOMAIN writes : got'[c] = Append(got[c], writes[i].req) /\ asked' = asked
    BY <1>1 DEF Answering
  <2>2. Len(got'[c]) = Len(got[c]) + 1
    BY <1>0, <2>1, WritesTypes, AppendProperties
  <2> QED BY <1>0, <2>1, <2>2
<1>2. CASE got'[c] = got[c]
  BY <1>0, <1>2, AskedStep
<1> QED BY <1>1, <1>2, GotStep

\* One connection of a peer at a time.
LEMMA StepReader == SInv /\ Next => OneReader'
<1> SUFFICES ASSUME SInv, Next, NEW c \in Conns, NEW d \in Conns, Present(c)', Present(d)', PeerOf[c] = PeerOf[d]
             PROVE  c = d
  BY DEF OneReader
<1>1. CASE Present(c) /\ Present(d)
  BY <1>1 DEF SInv, OneReader
<1>2. ASSUME NEW a \in Conns, NEW b \in Conns, Connect(a), Present(b), PeerOf[a] = PeerOf[b] PROVE FALSE
  BY <1>2 DEF Connect
<1>3. ASSUME Connect(c), Connect(d) PROVE c = d
  BY <1>3 DEF Connect, SInv, TypeOK
<1> QED BY <1>1, <1>2, <1>3, ConnStep
----------------------------------------------------------------------------
\* What is sent is read in its order.
LEMMA EachRest ==
  ASSUME SInv, Next, NEW c \in Conns
  PROVE  \/ rest'[c] = rest[c]
         \/ \E shape \in Shapes[c] : Ask(c, shape)
         \/ \E n \in 1 .. Len(rest[c]) : Read(c, n) \/ ReadNobody(c, n)
<1>0. TypeOK
  BY DEF SInv
<1>1. ASSUME NEW d \in Conns, Connect(d) \/ Leave(d) \/ Eof(d) \/ OnClose(d) PROVE rest' = rest
  BY <1>1 DEF Connect, Leave, Eof, OnClose, clients
<1>2. ASSUME NEW d \in Conns, NEW shape \in Shapes[d], Ask(d, shape), d # c PROVE rest'[c] = rest[c]
  BY <1>0, <1>2 DEF Ask, TypeOK
<1>3. ASSUME NEW d \in Conns, NEW n \in 1 .. Len(rest[d]), Read(d, n) \/ ReadNobody(d, n), d # c
      PROVE  rest'[c] = rest[c]
  BY <1>0, <1>3 DEF Read, ReadNobody, TypeOK
<1>4. ASSUME LoopStep \/ Scan \/ Scanned \/ CleanUp PROVE rest' = rest
  BY <1>4 DEF LoopStep, At, Make, Accept, Scan, Scanned, CleanUp, clients
<1>5. ASSUME WriteStep PROVE rest' = rest
  BY <1>5 DEF WriteStep, WriteBegin, WriteEnd, WriteFreed, clients
<1>6. ASSUME NEW w \in Workers, WorkerStep(w) PROVE rest' = rest
  BY <1>6 DEF WorkerStep, Take, PeerInfo, Route, QueueWork, Count, EraseKey, UseFreed, clients
<1>7. ASSUME NEW b \in BufferIds, Age(b) PROVE rest' = rest
  BY <1>7 DEF Age, clients
<1> QED BY <1>1, <1>2, <1>3, <1>4, <1>5, <1>6, <1>7 DEF Next, Delivery

\* Before it is accepted a connection has sent nothing.
LEMMA StepUntouched == SInv /\ Next => Untouched'
<1> SUFFICES ASSUME SInv, Next, NEW c \in Conns, conn'[c] = "new"
             PROVE  rest'[c] = <<>> /\ got'[c] = <<>> /\ asked'[c] = 0
  BY DEF Untouched
<1>1. conn[c] = "new"
  BY ConnStep
<1>2. rest[c] = <<>> /\ got[c] = <<>> /\ asked[c] = 0
  BY <1>1 DEF SInv, Untouched
<1>3. rest'[c] = <<>>
  <2>1. \A shape \in Shapes[c] : ~Ask(c, shape)
    BY <1>1 DEF Ask
  <2>2. 1 .. Len(rest[c]) = {}
    BY <1>2
  <2> QED BY <1>2, <2>1, <2>2, EachRest
<1>4. got'[c] = <<>>
  BY <1>1, <1>2, GotStep DEF Answering
<1>5. asked'[c] = 0
  BY <1>1, <1>2, AskedStep
<1> QED BY <1>3, <1>4, <1>5

Sent(c, shape) == [i \in DOMAIN shape |-> [part |-> shape[i], req |-> <<c, asked[c] + 1>>]]
Suffix(r, s) ==
  \E n \in 0 .. Len(s) : Len(r) = Len(s) - n /\ \A i \in 1 .. Len(r) : r[i] = s[i + n]

\* The pieces on their way.
LEMMA RestTypes ==
  ASSUME TypeOK, NEW c \in Conns
  PROVE  Rest(c) \in Seq(Pieces) /\ DOMAIN Rest(c) = 1 .. Len(Rest(c)) /\ Len(Rest(c)) \in Nat
<1>1. Rest(c) \in Seq(Pieces)
  BY ConnTypes, LoopIs, ConcatProperties DEF Rest
<1> QED BY <1>1

\* The same of all connections, ...
LEMMA RestTypesAll ==
  TypeOK => \A c \in Conns :
    Rest(c) \in Seq(Pieces) /\ DOMAIN Rest(c) = 1 .. Len(Rest(c)) /\ Len(Rest(c)) \in Nat
BY RestTypes

\* ... and after a step.
LEMMA RestTypesNext ==
  TypeOK' => (\A c \in Conns :
    Rest(c) \in Seq(Pieces) /\ DOMAIN Rest(c) = 1 .. Len(Rest(c)) /\ Len(Rest(c)) \in Nat)'
BY RestTypesAll, PTL

\* The pieces of a request.
LEMMA SentIs ==
  ASSUME TypeOK, NEW c \in Conns, NEW shape \in Shapes[c]
  PROVE  /\ Sent(c, shape) \in Seq(Pieces) /\ Len(Sent(c, shape)) = Len(shape)
         /\ shape \in Seq(Parts) /\ Len(shape) \in Nat
         /\ \A i \in 1 .. Len(shape) :
              Sent(c, shape)[i].part = shape[i] /\ Sent(c, shape)[i].req = <<c, asked[c] + 1>>
<1>1. shape \in Seq(Parts)
  BY ShapesAssumption
<1>2. <<c, asked[c] + 1>> \in Requests
  BY ConnTypes DEF Requests
<1>3. \A i \in DOMAIN shape : Sent(c, shape)[i] \in Pieces
  BY <1>1, <1>2 DEF Pieces, Sent
<1> QED BY <1>1, <1>3 DEF Sent

\* Two sequences, one behind the other.
LEMMA Concat ==
  ASSUME NEW S, NEW s \in Seq(S), NEW t \in Seq(S)
  PROVE  /\ s \o t \in Seq(S) /\ Len(s \o t) = Len(s) + Len(t) /\ Len(s) \in Nat /\ Len(t) \in Nat
         /\ \A i \in 1 .. Len(s) : (s \o t)[i] = s[i]
         /\ \A i \in 1 .. Len(t) : (s \o t)[Len(s) + i] = t[i]
         /\ Suffix(t, s \o t)
<1>1. s \o t \in Seq(S) /\ Len(s \o t) = Len(s) + Len(t) /\ Len(s) \in Nat /\ Len(t) \in Nat
  BY ConcatProperties
<1>2. \A i \in 1 .. (Len(s) + Len(t)) :
        (s \o t)[i] = IF i <= Len(s) THEN s[i] ELSE t[i - Len(s)]
  BY ConcatProperties
<1>3. \A i \in 1 .. Len(s) : (s \o t)[i] = s[i]
  BY <1>1, <1>2
<1>4. ASSUME NEW i \in 1 .. Len(t) PROVE (s \o t)[Len(s) + i] = t[i]
  <2>1. Len(s) + i \in 1 .. (Len(s) + Len(t)) /\ ~(Len(s) + i <= Len(s)) /\ (Len(s) + i) - Len(s) = i
    BY <1>1
  <2> QED BY <1>2, <2>1
<1>5. Suffix(t, s \o t)
  <2>1. Len(s) \in 0 .. Len(s \o t) /\ Len(t) = Len(s \o t) - Len(s)
    BY <1>1
  <2>2. \A i \in 1 .. Len(t) : t[i] = (s \o t)[i + Len(s)]
    BY <1>1, <1>4
  <2> QED BY <2>1, <2>2 DEF Suffix
<1> QED BY <1>1, <1>3, <1>4, <1>5

Dropped(c) == \E n \in 1 .. Len(rest[c]) : ReadNobody(c, n)
\* The pieces on their way become fewer from the front and more at the end.
LEMMA RestStep ==
  ASSUME SInv, Next, NEW c \in Conns
  PROVE  \/ Rest(c)' = Rest(c) /\ ~(Accept /\ loop.conn = c)
         \/ \E shape \in Shapes[c] : Ask(c, shape) /\ Rest(c)' = Rest(c) \o Sent(c, shape)
         \/ Dropped(c) /\ Suffix(Rest(c)', Rest(c))
         \/ /\ Accept /\ loop.conn = c /\ Suffix(Rest(c)', Rest(c))
            /\ Rest(c) = loop.data \o rest[c] /\ Rest(c)' = rest[c]
<1>0. /\ TypeOK /\ LoopOK /\ rest[c] \in Seq(Pieces) /\ Len(rest[c]) \in Nat
      /\ loop.data \in Seq(Pieces) /\ loop \in LoopTypes
  BY ConnTypes, LoopIs DEF SInv, TypeOK
<1>1. CASE UNCHANGED loop
  <2>1. ~Accept /\ \A n \in 1 .. Len(rest[c]) : ~Read(c, n)
    <3>1. Accept => loop.pc = "accept" /\ loop'.pc = "idle"
      BY DEF Accept, IdleLoop
    <3>2. \A n \in 1 .. Len(rest[c]) : Read(c, n) => loop.pc = "idle" /\ loop'.pc # "idle"
      BY DEF Read
    <3> QED BY <1>1, <3>1, <3>2
  <2>2. ASSUME rest'[c] = rest[c] PROVE Rest(c)' = Rest(c)
    BY <1>1, <2>2 DEF Rest
  <2>3. ASSUME NEW shape \in Shapes[c], Ask(c, shape) PROVE Rest(c)' = Rest(c) \o Sent(c, shape)
    <3>1. rest' = [rest EXCEPT ![c] = @ \o Sent(c, shape)]
      BY <2>3 DEF Ask, Sent
    <3>2. rest'[c] = rest[c] \o Sent(c, shape)
      BY <1>0, <3>1 DEF TypeOK
    <3>3. Sent(c, shape) \in Seq(Pieces)
      BY <1>0, SentIs
    <3>4. loop.data \o (rest[c] \o Sent(c, shape)) = (loop.data \o rest[c]) \o Sent(c, shape)
      <4>1. \A r, s, t \in Seq(Pieces) : (r \o s) \o t = r \o (s \o t)
        BY ConcatAssociative
      <4> QED BY <1>0, <3>3, <4>1
    <3> QED BY <1>1, <3>2, <3>4 DEF Rest
  <2>4. ASSUME NEW n \in 1 .. Len(rest[c]), ReadNobody(c, n) PROVE Suffix(Rest(c)', Rest(c))
    <3>1. loop.pc = "idle" /\ rest'[c] = SubSeq(rest[c], n + 1, Len(rest[c]))
      BY <1>0, <2>4 DEF ReadNobody, TypeOK
    <3>2. Rest(c) = rest[c] /\ Rest(c)' = SubSeq(rest[c], n + 1, Len(rest[c]))
      BY <1>1, <3>1 DEF Rest
    <3>3. n \in 0 .. Len(rest[c]) /\ Len(Rest(c)') = Len(rest[c]) - n
          /\ \A i \in 1 .. Len(Rest(c)') : Rest(c)'[i] = rest[c][i + n]
      BY <1>0, <3>2
    <3> QED BY <3>2, <3>3 DEF Suffix
  <2> QED BY <1>0, <2>1, <2>2, <2>3, <2>4, EachRest DEF Dropped
<1>2. CASE LoopStep
  <2>1. rest' = rest
    BY <1>2 DEF LoopStep, At, Make, Accept, clients
  <2>2. CASE (At \/ Make) /\ ~(Accept /\ loop.conn = c)
    <3>1. loop'.conn = loop.conn /\ loop'.data = loop.data /\ loop'.pc # "idle" /\ loop.pc # "idle"
      BY <1>0, <2>2 DEF At, Make, LoopTypes
    <3> QED BY <2>1, <2>2, <3>1 DEF Rest
  <2>0. Accept => loop.pc = "accept" /\ loop'.pc = "idle"
    BY DEF Accept, IdleLoop
  <2>3. CASE Accept /\ loop.conn # c
    BY <2>0, <2>1, <2>3 DEF Rest
  <2>4. CASE Accept /\ loop.conn = c
    <3>1. Rest(c) = loop.data \o rest[c] /\ Rest(c)' = rest[c]
      BY <2>0, <2>1, <2>4 DEF Rest
    <3>3. Suffix(rest[c], loop.data \o rest[c])
      BY <1>0, Concat
    <3> QED BY <2>4, <3>1, <3>3
  <2> QED BY <1>2, <2>2, <2>3, <2>4 DEF LoopStep
<1>3. ASSUME NEW d \in Conns, NEW n \in Nat, n \in 1 .. Len(rest[d]), Read(d, n)
      PROVE  Rest(c)' = Rest(c) /\ ~(Accept /\ loop.conn = c)
  <2>1. loop.pc = "idle" /\ ~Accept /\ Rest(c) = rest[c]
    BY <1>3 DEF Read, Accept, Rest
  <2>2. loop'.conn = d /\ loop'.data = SubSeq(rest[d], 1, n) /\ loop'.pc # "idle"
    BY <1>3 DEF Read
  <2>3. CASE d # c
    BY <1>0, <1>3, <2>1, <2>2, <2>3 DEF Rest, Read, TypeOK
  <2>4. CASE d = c
    <3>1. rest'[c] = SubSeq(rest[c], n + 1, Len(rest[c]))
      BY <1>0, <1>3, <2>4 DEF Read, TypeOK
    <3>2. SubSeq(rest[c], 1, n) \o SubSeq(rest[c], n + 1, Len(rest[c])) = rest[c]
      <4>1. SubSeq(rest[c], 1, n) \o SubSeq(rest[c], n + 1, Len(rest[c])) = SubSeq(rest[c], 1, Len(rest[c]))
        <5>1. 1 \in 1 .. Len(rest[c]) + 1 /\ n \in 1 - 1 .. Len(rest[c]) /\ Len(rest[c]) \in n .. Len(rest[c])
          BY <1>0, <1>3, <2>4
        <5> QED BY <1>0, <5>1, ConcatAdjacentSubSeq
      <4> QED BY <1>0, <4>1, SubSeqFull
    <3> QED BY <2>1, <2>2, <2>4, <3>1, <3>2 DEF Rest
  <2> QED BY <2>1, <2>3, <2>4
<1> QED BY <1>1, <1>2, <1>3, LoopStays

\* They stay in their order.
LEMMA StepOrder ==
  ASSUME SInv, Next, NEW c \in Conns
  PROVE  InOrder(c)'
<1>0. TypeOK /\ TypeOK' /\ InOrder(c)
  BY StepTypes DEF SInv
<1> DEFINE r == Rest(c)
           s == Rest(c)'
<1>1. /\ r \in Seq(Pieces) /\ DOMAIN r = 1 .. Len(r) /\ Len(r) \in Nat
      /\ s \in Seq(Pieces) /\ DOMAIN s = 1 .. Len(s) /\ Len(s) \in Nat
  BY <1>0, RestTypes, RestTypesNext
<1>2. /\ \A i \in DOMAIN r : r[i].req[1] = c /\ r[i].req[2] <= asked[c]
      /\ \A i, j \in DOMAIN r : i < j =>
           /\ r[i].req[2] <= r[j].req[2]
           /\ r[i].req = r[j].req => ~Starts(r[j]) /\ ~(Empty(r[i]) /\ Empty(r[j]))
  BY <1>0 DEF InOrder
<1>3. asked[c] \in Nat /\ asked'[c] \in Nat /\ asked[c] <= asked'[c]
  BY <1>0, ConnTypes, AskedStep
<1>4. \A i \in DOMAIN r : r[i].req[2] \in Nat
  <2>1. \A i \in DOMAIN r : r[i] \in Pieces
    BY <1>1
  <2> QED BY <2>1 DEF Pieces, Requests
<1>5. SUFFICES /\ \A i \in DOMAIN s : s[i].req[1] = c /\ s[i].req[2] <= asked'[c]
               /\ \A i, j \in DOMAIN s : i < j =>
                    /\ s[i].req[2] <= s[j].req[2]
                    /\ s[i].req = s[j].req => ~Starts(s[j]) /\ ~(Empty(s[i]) /\ Empty(s[j]))
  BY DEF InOrder, Starts, Empty
<1> HIDE DEF r, s
<1>6. CASE s = r
  BY <1>2, <1>3, <1>4, <1>6
<1>7. CASE Suffix(s, r)
  <2>1. PICK n \in 0 .. Len(r) : Len(s) = Len(r) - n /\ \A i \in 1 .. Len(s) : s[i] = r[i + n]
    BY <1>7 DEF Suffix
  <2>2. \A i \in DOMAIN s : i + n \in DOMAIN r /\ s[i] = r[i + n]
    BY <1>1, <2>1
  <2>3. \A i, j \in DOMAIN s : i < j => i + n < j + n
    BY <1>1
  <2> QED BY <1>2, <1>3, <1>4, <2>2, <2>3
<1>8. ASSUME NEW shape \in Shapes[c], Ask(c, shape), s = r \o Sent(c, shape)
      PROVE  /\ \A i \in DOMAIN s : s[i].req[1] = c /\ s[i].req[2] <= asked'[c]
             /\ \A i, j \in DOMAIN s : i < j =>
                  /\ s[i].req[2] <= s[j].req[2]
                  /\ s[i].req = s[j].req => ~Starts(s[j]) /\ ~(Empty(s[i]) /\ Empty(s[j]))
  <2> DEFINE m == asked[c] + 1
             t == Sent(c, shape)
  <2>1. asked'[c] = m
    BY <1>0, <1>8 DEF Ask, TypeOK
  <2>2. /\ t \in Seq(Pieces) /\ Len(t) = Len(shape) /\ Len(shape) \in Nat
        /\ \A i \in 1 .. Len(shape) : t[i].part = shape[i] /\ t[i].req = <<c, m>>
    BY <1>0, SentIs
  <2>3. \A i, j \in 1 .. Len(shape) : i < j =>
          ~Starts(t[j]) /\ ~(Empty(t[i]) /\ Empty(t[j]))
    <3>1. DOMAIN shape = 1 .. Len(shape)
      BY <1>0, SentIs
    <3>2. \A i, j \in 1 .. Len(shape) : i < j =>
            /\ shape[j] \notin WholeLine \cup {"cut"}
            /\ ~(shape[i] \in EmptyLine /\ shape[j] \in EmptyLine)
      BY <3>1, RequestAssumption
    <3> HIDE DEF t
    <3> QED BY <2>2, <3>2 DEF Starts, Empty
  <2> HIDE DEF t
  <2>4. s = r \o t
    BY <1>8 DEF t
  <2>5. /\ Len(s) = Len(r) + Len(t) /\ Len(t) \in Nat
        /\ \A i \in 1 .. Len(r) : s[i] = r[i]
        /\ \A i \in 1 .. Len(t) : s[Len(r) + i] = t[i]
    <3>1. r \in Seq(Pieces) /\ t \in Seq(Pieces)
      BY <1>1, <2>2
    <3> QED BY <2>4, <3>1, Concat
  <2>6. ASSUME NEW i \in DOMAIN s, ~(i \in DOMAIN r)
        PROVE  i - Len(r) \in 1 .. Len(shape) /\ s[i] = t[i - Len(r)] /\ s[i].req = <<c, m>>
    <3>1. i - Len(r) \in 1 .. Len(t) /\ Len(r) + (i - Len(r)) = i
      BY <1>1, <2>5, <2>6
    <3> QED BY <2>2, <2>5, <3>1
  <2>7. \A i \in DOMAIN r : s[i] = r[i]
    BY <1>1, <2>5
  <2>8. ASSUME NEW i \in DOMAIN s PROVE s[i].req[1] = c /\ s[i].req[2] <= m
    <3>1. CASE i \in DOMAIN r
      BY <3>1, <1>2, <1>3, <1>4, <2>7
    <3>2. CASE ~(i \in DOMAIN r)
      BY <3>2, <2>6, <1>3
    <3> QED BY <3>1, <3>2
  <2>9. ASSUME NEW i \in DOMAIN s, NEW j \in DOMAIN s, i < j
        PROVE  /\ s[i].req[2] <= s[j].req[2]
               /\ s[i].req = s[j].req => ~Starts(s[j]) /\ ~(Empty(s[i]) /\ Empty(s[j]))
    <3>1. CASE i \in DOMAIN r /\ j \in DOMAIN r
      BY <3>1, <1>2, <2>7, <2>9
    <3>2. CASE i \in DOMAIN r /\ ~(j \in DOMAIN r)
      <4>1. s[i].req[2] <= asked[c] /\ s[i].req[2] \in Nat
        BY <3>2, <1>2, <1>4, <2>7
      <4>2. s[j].req[2] = m
        BY <3>2, <2>6
      <4> QED BY <4>1, <4>2, <1>3
    <3>3. CASE ~(i \in DOMAIN r) /\ ~(j \in DOMAIN r)
      <4>1. i - Len(r) \in 1 .. Len(shape) /\ s[i] = t[i - Len(r)] /\ s[i].req = <<c, m>>
        BY <3>3, <2>6
      <4>2. j - Len(r) \in 1 .. Len(shape) /\ s[j] = t[j - Len(r)] /\ s[j].req = <<c, m>>
        BY <3>3, <2>6
      <4>3. i - Len(r) < j - Len(r)
        BY <1>1, <2>9
      <4> QED BY <4>1, <4>2, <4>3, <2>3, <1>3
    <3>4. ~(~(i \in DOMAIN r) /\ j \in DOMAIN r)
      BY <1>1, <2>9
    <3> QED BY <3>1, <3>2, <3>3, <3>4
  <2> QED BY <2>1, <2>8, <2>9
<1> QED BY <1>6, <1>7, <1>8, RestStep DEF r, s

\* SInv is inductive.
LEMMA StepSInv == SInv /\ [Next]_vars => SInv'
<1>1. ASSUME SInv, Next PROVE SInv'
  <2>1. TypeOK' /\ LoopOK' /\ JobsOK' /\ WorkersOK' /\ WritesOK' /\ UnusedOK'
    BY <1>1, StepTypes, StepLoop, StepJobs, StepWorkers, StepWrites, StepUnused
  <2>2. Untouched' /\ OneReader' /\ AskedOnce'
    BY <1>1, StepUntouched, StepReader, StepAsked
  <2>3. (\A b \in BufferIds : BufferOK(buffer[b]))'
    BY <1>1, BufferStays DEF BufferIds, BufferOK, Requests
  <2>4. (\A c \in Conns : InOrder(c))'
    BY <1>1, StepOrder
  <2> QED BY <2>1, <2>2, <2>3, <2>4 DEF SInv
<1>2. ASSUME SInv, UNCHANGED vars PROVE SInv'
  <2>1. TypeOK'
    BY <1>2 DEF SInv, vars, clients, TypeOK, BufferIds, Requests, Pieces, BufferTypes, LoopTypes, JobTypes,
       WorkerTypes, WriteTypes
  <2>2. LoopOK' /\ JobsOK' /\ WorkersOK' /\ WritesOK' /\ UnusedOK'
    BY <1>2 DEF SInv, vars, LoopOK, JobsOK, WorkersOK, WritesOK, UnusedOK, Present, Serving, KeyOf,
       BufferIds, Requests
  <2>3. Untouched' /\ OneReader' /\ AskedOnce'
    BY <1>2 DEF SInv, vars, clients, Untouched, OneReader, AskedOnce, Present
  <2>4. (\A b \in BufferIds : BufferOK(buffer[b]))'
    BY <1>2 DEF SInv, vars, BufferIds, BufferOK, Requests
  <2>5. (\A c \in Conns : InOrder(c))'
    <3>1. \A c \in Conns : Rest(c)' = Rest(c)
      BY <1>2 DEF vars, clients, Rest
    <3> QED BY <1>2, <3>1 DEF SInv, vars, clients, InOrder, Starts, Empty
  <2> QED BY <2>1, <2>2, <2>3, <2>4, <2>5 DEF SInv
<1> QED BY <1>1, <1>2

----------------------------------------------------------------------------
\* Whose a buffer is: what a step does when the buffers made so far stay with
\* their peers and a new one is of the peer it is made for.
LEMMA NoRequest == \A r \in Requests : r # <<>>
<1> SUFFICES ASSUME NEW c \in Conns, NEW n \in Nat \ {0} PROVE <<c, n>> # <<>>
  BY DEF Requests
<1>1. Len(<<c, n>>) = 2 /\ Len(<<>>) = 0
  OBVIOUS
<1> QED BY <1>1

\* What has been read is the front of it.
LEMMA FirstData ==
  ASSUME SInv, loop.pc # "idle"
  PROVE  /\ loop.conn \in Conns /\ loop.data \in Seq(Pieces) /\ loop.data # <<>> /\ 1 \in DOMAIN loop.data
         /\ Rest(loop.conn) = loop.data \o rest[loop.conn]
         /\ \A i \in DOMAIN loop.data : i \in DOMAIN Rest(loop.conn) /\ Rest(loop.conn)[i] = loop.data[i]
         /\ \A i \in DOMAIN loop.data : loop.data[i].req[1] = loop.conn
<1>1. TypeOK /\ loop.conn \in Conns /\ loop.data \in Seq(Pieces) /\ loop.data # <<>>
  BY LoopIs DEF SInv, LoopOK
<1>2. 1 \in DOMAIN loop.data
  BY <1>1
<1>3. Rest(loop.conn) = loop.data \o rest[loop.conn] /\ rest[loop.conn] \in Seq(Pieces)
  BY <1>1, ConnTypes DEF Rest
<1>4. \A i \in DOMAIN loop.data : i \in DOMAIN Rest(loop.conn) /\ Rest(loop.conn)[i] = loop.data[i]
  <2>1. ASSUME NEW s \in Seq(Pieces), NEW t \in Seq(Pieces)
        PROVE  \A i \in DOMAIN s : i \in DOMAIN (s \o t) /\ (s \o t)[i] = s[i]
    BY ConcatProperties
  <2> QED BY <1>1, <1>3, <2>1
<1>5. \A i \in DOMAIN loop.data : loop.data[i].req[1] = loop.conn
  BY <1>1, <1>4 DEF SInv, InOrder
<1> QED BY <1>1, <1>2, <1>3, <1>4, <1>5

LEMMA OwnedStep ==
  ASSUME SInv, Next, NEW owner \in [BufferIds -> Peers \cup {NoPeer}], NEW later \in [BufferIds -> Peers \cup {NoPeer}], Owned(owner),
         \A b \in BufferIds : b <= made => later[b] = owner[b],
         Make => later[made + 1] = PeerOf[loop.conn]
  PROVE  Owned(later)'
<1>0. /\ TypeOK /\ LoopOK /\ JobsOK /\ WorkersOK /\ UnusedOK
      /\ (\A b \in BufferIds : BufferOK(buffer[b])) /\ made \in Nat
  BY BoundsAssumption DEF SInv, TypeOK
<1>1. ASSUME NEW b \in BufferIds, buffer[b].protocol # "unknown" PROVE later[b] = owner[b]
  <2>1. b <= made
    BY <1>0, <1>1 DEF UnusedOK, BufferIds
  <2> QED BY <2>1
<1>2. ASSUME NEW peer \in Peers, table'[peer] # 0 PROVE later[table'[peer]] = peer
  <2>1. CASE table'[peer] = table[peer]
    <3>1. table[peer] \in BufferIds /\ table[peer] <= made
      BY <1>0, <1>2, <2>1 DEF UnusedOK, TypeOK
    <3> QED BY <1>2, <2>1, <3>1 DEF Owned
  <2>2. CASE Make /\ peer = KeyOf(loop.conn) /\ table'[peer] = made + 1
    BY <2>2 DEF KeyOf
  <2> QED BY <1>2, <2>1, <2>2, TableStep
<1>3. ASSUME loop'.pc = "accept" PROVE later[loop'.buf] = PeerOf[loop'.conn]
  <2>1. CASE UNCHANGED loop
    <3>1. loop.buf \in BufferIds /\ loop.buf <= made
      BY <1>0, <1>3, <2>1, LoopIs DEF UnusedOK
    <3> QED BY <1>3, <2>1, <3>1 DEF Owned
  <2>2. CASE At
    <3>1. loop' = [loop EXCEPT !.pc = "accept", !.buf = table[KeyOf(loop.conn)]] /\ table[KeyOf(loop.conn)] # 0
          /\ loop.conn \in Conns
      BY <1>0, <1>3, <2>2, LoopIs DEF At, LoopOK
    <3>2. loop'.buf = table[KeyOf(loop.conn)] /\ loop'.conn = loop.conn
      BY <1>0, <3>1 DEF TypeOK, LoopTypes
    <3>3. table[KeyOf(loop.conn)] \in BufferIds /\ table[KeyOf(loop.conn)] <= made /\ KeyOf(loop.conn) \in Peers
      BY <1>0, <3>1, ConnTypes DEF UnusedOK
    <3> QED BY <3>1, <3>2, <3>3 DEF Owned, KeyOf
  <2>3. CASE Make
    <3>1. loop'.buf = made + 1 /\ loop'.conn = loop.conn
      BY <1>0, <2>3 DEF Make, TypeOK, LoopTypes
    <3> QED BY <2>3, <3>1
  <2>4. CASE Accept
    BY <1>3, <2>4 DEF Accept, IdleLoop
  <2>5. ASSUME NEW c \in Conns, NEW n \in Nat, Read(c, n) PROVE FALSE
    BY <1>3, <2>5 DEF Read
  <2> QED BY <2>1, <2>2, <2>3, <2>4, <2>5, LoopStays DEF LoopStep
<1>4. ASSUME NEW i \in DOMAIN jobs PROVE later[jobs[i].buf] = PeerOf[jobs[i].conn]
  <2>1. jobs[i].buf \in BufferIds /\ buffer[jobs[i].buf].protocol = "http"
    BY <1>0, JobsTypes DEF JobsOK
  <2> QED BY <1>1, <2>1 DEF Owned
<1>5. ASSUME NEW i \in DOMAIN jobs' PROVE later[jobs'[i].buf] = PeerOf[jobs'[i].conn]
  <2>1. CASE \E k \in DOMAIN jobs : jobs'[i] = jobs[k]
    BY <1>4, <2>1
  <2>2. CASE Queueing /\ jobs'[i] = TheJob
    <3>1. loop.buf \in BufferIds /\ loop.buf <= made /\ loop.pc = "accept"
      BY <1>0, <2>2, LoopIs DEF UnusedOK, Queueing, Accept
    <3> QED BY <2>2, <3>1 DEF TheJob, Owned
  <2> QED BY <2>1, <2>2, EachJob
<1>6. ASSUME NEW w \in Workers
      PROVE  /\ worker'[w].pc \in {"peer", "route"} => later[worker'[w].buf] = PeerOf[worker'[w].conn]
             /\ worker'[w].pc = "queue" => PeerOf[worker'[w].answer[1]] = PeerOf[worker'[w].conn]
  <2>0. worker[w] \in WorkerTypes
    BY <1>0 DEF TypeOK
  <2>1. ASSUME worker[w].pc \in {"peer", "route"}
        PROVE  /\ later[worker[w].buf] = PeerOf[worker[w].conn]
               /\ worker[w].buf \in BufferIds /\ buffer[worker[w].buf].protocol = "http"
    <3>1. worker[w].buf \in BufferIds /\ buffer[worker[w].buf].protocol = "http"
      BY <1>0, <2>1 DEF WorkersOK
    <3> QED BY <1>1, <2>1, <3>1 DEF Owned
  <2>2. CASE worker'[w] = worker[w]
    BY <2>1, <2>2 DEF Owned
  <2>3. CASE Take(w)
    <3>1. Head(jobs) = jobs[1] /\ 1 \in DOMAIN jobs
      BY <1>0, <2>3, TailIs DEF Take, TypeOK
    <3>2. worker'[w].pc = "peer" /\ worker'[w].conn = jobs[1].conn /\ worker'[w].buf = jobs[1].buf
      BY <1>0, <2>3, <3>1 DEF Take, TypeOK, IdleWorker
    <3> QED BY <1>4, <3>1, <3>2
  <2>4. CASE PeerInfo(w)
    <3>1. worker'[w] = [worker[w] EXCEPT !.pc = "route"] /\ worker[w].pc = "peer"
      BY <1>0, <2>4 DEF PeerInfo, TypeOK
    <3> QED BY <2>0, <2>1, <3>1 DEF WorkerTypes
  <2>5. CASE Route(w)
    <3>1. worker'[w] = [worker[w] EXCEPT !.pc = "queue", !.answer = buffer[worker[w].buf].req]
          /\ worker[w].pc = "route"
      BY <1>0, <2>5 DEF Route, TypeOK
    <3>2. worker'[w].pc = "queue" /\ worker'[w].answer = buffer[worker[w].buf].req
          /\ worker'[w].conn = worker[w].conn
      BY <2>0, <3>1 DEF WorkerTypes
    <3>3. worker[w].buf \in BufferIds /\ buffer[worker[w].buf].req \in Requests
      BY <1>0, <2>1, <3>1 DEF BufferOK
    <3>4. buffer[worker[w].buf].req # <<>>
      BY <3>3, NoRequest
    <3>5. owner[worker[w].buf] = PeerOf[buffer[worker[w].buf].req[1]]
      BY <3>3, <3>4 DEF Owned
    <3>6. owner[worker[w].buf] = PeerOf[worker[w].conn]
      BY <3>1 DEF Owned
    <3> QED BY <3>2, <3>5, <3>6
  <2>6. CASE QueueWork(w)
    <3>1. worker'[w] = [worker[w] EXCEPT !.pc = "count", !.key = buffer[worker[w].buf].from]
      BY <1>0, <2>6 DEF QueueWork, TypeOK
    <3> QED BY <2>0, <3>1 DEF WorkerTypes
  <2>7. CASE Count(w)
    <3>1. worker'[w] = IdleWorker \/ worker'[w] = [worker[w] EXCEPT !.pc = "erase"]
      BY <1>0, <2>7 DEF Count, TypeOK
    <3> QED BY <2>0, <3>1 DEF WorkerTypes, IdleWorker
  <2>8. CASE EraseKey(w)
    BY <1>0, <2>8 DEF EraseKey, TypeOK, IdleWorker
  <2>9. CASE UseFreed(w)
    BY <2>2, <2>9 DEF UseFreed
  <2> QED BY <2>2, <2>3, <2>4, <2>5, <2>6, <2>7, <2>8, <2>9, EachWorker DEF WorkerStep
<1>7. ASSUME NEW b \in BufferIds, buffer'[b].req # <<>> PROVE later[b] = PeerOf[buffer'[b].req[1]]
  <2>1. CASE buffer'[b].req = buffer[b].req
    BY <1>0, <1>1, <1>7, <2>1 DEF BufferOK, Owned
  <2>2. CASE Accepting(b) /\ buffer'[b].req # buffer[b].req
    <3>1. /\ loop.pc = "accept" /\ b = loop.buf /\ b <= made /\ buffer[b] \in BufferTypes /\ BufferOK(buffer[b])
          /\ buffer'[b] = Accepted(buffer[b], loop.data)
      BY <1>0, <2>2 DEF Accepting, Accept, UnusedOK, TypeOK
    <3>2. loop.data \in Seq(Pieces) /\ loop.data # <<>> /\ loop.data[1].req[1] = loop.conn
      BY <3>1, FirstData
    <3>3. buffer'[b].req \in {buffer[b].req, loop.data[1].req}
      BY <3>1, <3>2, AcceptedIs
    <3> QED BY <2>2, <3>1, <3>2, <3>3 DEF Owned
  <2> QED BY <2>1, <2>2, BufferStep DEF Same
<1>8. ASSUME NEW i \in DOMAIN writes' PROVE PeerOf[writes'[i].req[1]] = PeerOf[writes'[i].conn]
  <2>1. ASSUME NEW w \in Workers, QueueWork(w)
        PROVE  PeerOf[worker[w].answer[1]] = PeerOf[worker[w].conn]
    BY <2>1 DEF QueueWork, Owned
  <2> QED BY <2>1, EachWrite DEF Owned
<1> QED BY <1>2, <1>3, <1>5, <1>6, <1>7, <1>8 DEF Owned, BufferIds

\* OwnedInv is inductive: only Make adds to the buffers that are of somebody.
LEMMA StepOwned == SInv /\ OwnedInv /\ Next => OwnedInv'
<1> SUFFICES ASSUME SInv, OwnedInv, Next PROVE OwnedInv'
  OBVIOUS
<1>1. PICK owner \in [BufferIds -> Peers \cup {NoPeer}] : Owned(owner)
  BY DEF OwnedInv
<1>2. \E later \in [BufferIds -> Peers \cup {NoPeer}] :
        /\ \A b \in BufferIds : b <= made => later[b] = owner[b]
        /\ Make => later[made + 1] = PeerOf[loop.conn]
  <2>1. CASE Make
    <3> DEFINE made_for == [owner EXCEPT ![made + 1] = PeerOf[loop.conn]]
    <3>1. made + 1 \in BufferIds /\ made \in Nat /\ ~(made + 1 <= made)
      BY <2>1, BoundsAssumption DEF Make, SInv, TypeOK, BufferIds
    <3>2. PeerOf[loop.conn] \in Peers
      BY <2>1, ConnTypes DEF Make, SInv, LoopOK
    <3>3. /\ made_for \in [BufferIds -> Peers \cup {NoPeer}]
          /\ \A b \in BufferIds : b <= made => made_for[b] = owner[b]
          /\ made_for[made + 1] = PeerOf[loop.conn]
      BY <3>1, <3>2
    <3> QED BY <3>3
  <2>2. CASE ~Make
    BY <2>2
  <2> QED BY <2>1, <2>2
<1>3. PICK later \in [BufferIds -> Peers \cup {NoPeer}] :
        /\ \A b \in BufferIds : b <= made => later[b] = owner[b]
        /\ Make => later[made + 1] = PeerOf[loop.conn]
  BY <1>2
<1>4. Owned(later)'
  BY <1>1, <1>3, OwnedStep
<1> QED BY <1>4 DEF OwnedInv, BufferIds

\* An answer is for a request of the peer it is written to.
LEMMA StepCrossTalk == SInv /\ OwnedInv /\ NoCrossTalk /\ Next => NoCrossTalk'
<1> SUFFICES ASSUME SInv, OwnedInv, NoCrossTalk, Next, NEW c \in Conns, NEW i \in DOMAIN got'[c]
             PROVE  PeerOf[got'[c][i][1]] = PeerOf[c]
  BY DEF NoCrossTalk
<1>0. TypeOK /\ got[c] \in Seq(Requests)
  BY ConnTypes DEF SInv
<1>1. CASE got'[c] = got[c]
  BY <1>1 DEF NoCrossTalk
<1>2. CASE Answering(c)
  <2>1. PICK k \in DOMAIN writes : writes[k].conn = c /\ got'[c] = Append(got[c], writes[k].req)
    BY <1>2 DEF Answering
  <2>2. PeerOf[writes[k].req[1]] = PeerOf[c] /\ writes[k].req \in Requests
    BY <1>0, <2>1, WritesTypes DEF OwnedInv, Owned
  <2>3. (i \in DOMAIN got[c] /\ got'[c][i] = got[c][i]) \/ got'[c][i] = writes[k].req
    BY <1>0, <2>1, <2>2, AppendProperties
  <2> QED BY <2>2, <2>3 DEF NoCrossTalk
<1> QED BY <1>1, <1>2, GotStep

\* At first nobody has a buffer.
LEMMA InitOwned == Init => OwnedInv /\ NoCrossTalk
<1> SUFFICES ASSUME Init PROVE OwnedInv /\ NoCrossTalk
  OBVIOUS
<1> USE DEF Init
<1>1. NoCrossTalk
  BY DEF NoCrossTalk
<1>2. ASSUME NEW owner \in [BufferIds -> Peers \cup {NoPeer}] PROVE Owned(owner)
  BY DEF Owned, IdleLoop, IdleWorker, NewBuffer
<1>3. [b \in BufferIds |-> NoPeer] \in [BufferIds -> Peers \cup {NoPeer}]
  OBVIOUS
<1> QED BY <1>1, <1>2, <1>3 DEF OwnedInv

----------------------------------------------------------------------------
\* How a request moves from the loop to a worker and to its write.
Still ==
  /\ jobs' = jobs /\ DOMAIN writes' = DOMAIN writes
  /\ \A i \in DOMAIN writes : writes'[i].conn = writes[i].conn
  /\ \A w \in Workers : (Serving(w)' <=> Serving(w)) /\ (Serving(w) => worker'[w].conn = worker[w].conn)

\* A step queues, takes, answers or ends a request, or leaves all where they are.
LEMMA Moves ==
  ASSUME SInv, Next
  PROVE  \/ Still
         \/ Queueing /\ writes' = writes /\ worker' = worker
         \/ \E w \in Workers : Take(w) \/ QueueWork(w)
         \/ \E i \in DOMAIN writes : WriteEnd(i)
<1>0. TypeOK
  BY DEF SInv
<1>1. ASSUME jobs' = jobs, writes' = writes, worker' = worker PROVE Still
  BY <1>1 DEF Still, Serving
<1>2. ASSUME NEW c \in Conns, Connect(c) \/ Leave(c) \/ Eof(c) \/ OnClose(c) PROVE Still
  BY <1>1, <1>2 DEF Connect, Leave, Eof, OnClose
<1>3. ASSUME NEW c \in Conns, NEW shape \in Shapes[c], Ask(c, shape) PROVE Still
  BY <1>1, <1>3 DEF Ask
<1>4. ASSUME At \/ Make \/ Delivery \/ Scan \/ Scanned \/ CleanUp PROVE Still
  BY <1>1, <1>4 DEF At, Make, Delivery, Read, ReadNobody, Scan, Scanned, CleanUp
<1>5. ASSUME Accept PROVE Still \/ (Queueing /\ writes' = writes /\ worker' = worker)
  <2>1. writes' = writes /\ worker' = worker
    BY <1>5 DEF Accept
  <2>2. ASSUME NEW w \in Workers, Take(w) PROVE FALSE
    <3>1. worker[w].pc = "idle" /\ worker'[w].pc = "peer"
      BY <1>0, <2>2 DEF Take, TypeOK, IdleWorker
    <3> QED BY <2>1, <3>1
  <2> QED BY <1>1, <2>1, <2>2, JobsStep
<1>6. ASSUME NEW b \in BufferIds, Age(b) PROVE Still
  BY <1>1, <1>6 DEF Age
<1>7. ASSUME NEW w \in Workers, WorkerStep(w), ~Take(w), ~QueueWork(w) PROVE Still
  <2>1. worker[w] \in WorkerTypes
    BY <1>0 DEF TypeOK
  <2>2. jobs' = jobs /\ writes' = writes
    BY <1>7 DEF WorkerStep, PeerInfo, Route, Count, EraseKey, UseFreed
  <2>3. (Serving(w)' <=> Serving(w)) /\ (Serving(w) => worker'[w].conn = worker[w].conn)
    <3>1. CASE PeerInfo(w)
      <4>1. worker'[w] = [worker[w] EXCEPT !.pc = "route"] /\ worker[w].pc = "peer"
        BY <1>0, <3>1 DEF PeerInfo, TypeOK
      <4> QED BY <2>1, <4>1 DEF Serving, WorkerTypes
    <3>2. CASE Route(w)
      <4>1. /\ worker'[w] = [worker[w] EXCEPT !.pc = "queue", !.answer = buffer[worker[w].buf].req]
            /\ worker[w].pc = "route"
        BY <1>0, <3>2 DEF Route, TypeOK
      <4> QED BY <2>1, <4>1 DEF Serving, WorkerTypes
    <3>3. CASE Count(w)
      <4>1. worker[w].pc = "count" /\ worker'[w] \in {IdleWorker, [worker[w] EXCEPT !.pc = "erase"]}
        BY <1>0, <3>3 DEF Count, TypeOK
      <4> QED BY <2>1, <4>1 DEF Serving, WorkerTypes, IdleWorker
    <3>4. CASE EraseKey(w)
      BY <1>0, <3>4 DEF EraseKey, TypeOK, Serving, IdleWorker
    <3>5. CASE UseFreed(w)
      BY <3>5 DEF UseFreed, Serving
    <3> QED BY <1>7, <3>1, <3>2, <3>3, <3>4, <3>5 DEF WorkerStep
  <2>4. \A v \in Workers : v # w => worker'[v] = worker[v]
    BY <1>0, <1>7 DEF WorkerStep, PeerInfo, Route, Count, EraseKey, UseFreed, TypeOK
  <2>5. \A v \in Workers : v # w =>
          (Serving(v)' <=> Serving(v)) /\ (Serving(v) => worker'[v].conn = worker[v].conn)
    BY <2>4 DEF Serving
  <2> QED BY <2>2, <2>3, <2>5 DEF Still
<1>8. ASSUME NEW i \in DOMAIN writes, WriteBegin(i) \/ WriteFreed(i) PROVE Still
  <2>1. jobs' = jobs /\ worker' = worker /\ DOMAIN writes' = DOMAIN writes
    BY <1>8 DEF WriteBegin, WriteFreed
  <2>2. ASSUME NEW k \in DOMAIN writes PROVE writes'[k].conn = writes[k].conn
    <3>1. writes'[k] \in {writes[k], [writes[k] EXCEPT !.begun = TRUE]}
      BY <1>8 DEF WriteBegin, WriteFreed
    <3>2. writes[k] \in WriteTypes
      BY <1>0, WritesTypes
    <3> QED BY <3>1, <3>2 DEF WriteTypes
  <2> QED BY <2>1, <2>2 DEF Still, Serving
<1> QED BY <1>2, <1>3, <1>4, <1>5, <1>6, <1>7, <1>8 DEF Next, LoopStep, WriteStep

\* What Take, QueueWork and WriteEnd do to the three.
LEMMA TakeIs ==
  ASSUME SInv, NEW w \in Workers, Take(w)
  PROVE  /\ 1 \in DOMAIN jobs /\ ~Serving(w) /\ Serving(w)' /\ worker'[w].conn = jobs[1].conn
         /\ worker'[w].buf = jobs[1].buf /\ worker'[w].pc = "peer"
         /\ \A v \in Workers : v # w => worker'[v] = worker[v]
         /\ \A i \in DOMAIN jobs' : i + 1 \in DOMAIN jobs /\ i \in Nat \ {0} /\ jobs'[i] = jobs[i + 1]
         /\ writes' = writes
<1>0. TypeOK /\ jobs \in Seq(JobTypes)
  BY DEF SInv, TypeOK
<1>1. jobs # <<>> /\ jobs' = Tail(jobs) /\ writes' = writes
  BY DEF Take
<1>2. /\ Head(jobs) = jobs[1] /\ 1 \in DOMAIN jobs
      /\ DOMAIN Tail(jobs) = 1 .. (Len(jobs) - 1)
      /\ \A i \in DOMAIN Tail(jobs) : i + 1 \in DOMAIN jobs /\ Tail(jobs)[i] = jobs[i + 1]
  BY <1>0, <1>1, TailIs
<1>3. worker' = [worker EXCEPT ![w] = [IdleWorker EXCEPT !.pc = "peer", !.conn = Head(jobs).conn,
                                                        !.buf = Head(jobs).buf]]
      /\ worker[w].pc = "idle"
  BY DEF Take
<1>4. /\ worker'[w].pc = "peer" /\ worker'[w].conn = jobs[1].conn /\ worker'[w].buf = jobs[1].buf
      /\ \A v \in Workers : v # w => worker'[v] = worker[v]
  BY <1>0, <1>2, <1>3 DEF TypeOK, IdleWorker
<1> QED BY <1>1, <1>2, <1>3, <1>4 DEF Serving

LEMMA QueueWorkIs ==
  ASSUME SInv, NEW w \in Workers, QueueWork(w)
  PROVE  /\ Serving(w) /\ ~Serving(w)' /\ jobs' = jobs
         /\ \A v \in Workers : v # w => worker'[v] = worker[v]
         /\ DOMAIN writes' = 1 .. (Len(writes) + 1) /\ DOMAIN writes = 1 .. Len(writes) /\ Len(writes) \in Nat
         /\ \A i \in DOMAIN writes : writes'[i] = writes[i]
         /\ writes'[Len(writes) + 1].conn = worker[w].conn
         /\ writes'[Len(writes) + 1].req = worker[w].answer
<1>0. TypeOK /\ writes \in Seq(WriteTypes) /\ worker[w] \in WorkerTypes
  BY DEF SInv, TypeOK
<1> DEFINE new == [conn |-> worker[w].conn, req |-> worker[w].answer, begun |-> FALSE]
<1>1. new \in WriteTypes
  BY DEF QueueWork, WriteTypes, SInv, WorkersOK
<1>2. writes' = Append(writes, new) /\ jobs' = jobs /\ worker[w].pc = "queue"
  BY DEF QueueWork
<1>3. new.conn = worker[w].conn /\ new.req = worker[w].answer
  OBVIOUS
<1>4. /\ worker'[w].pc = "count" /\ \A v \in Workers : v # w => worker'[v] = worker[v]
  <2>1. worker' = [worker EXCEPT ![w] = [worker[w] EXCEPT !.pc = "count", !.key = buffer[worker[w].buf].from]]
    BY <1>0 DEF QueueWork, TypeOK
  <2>2. [worker[w] EXCEPT !.pc = "count", !.key = buffer[worker[w].buf].from].pc = "count"
    BY <1>0 DEF WorkerTypes
  <2> QED BY <1>0, <2>1, <2>2 DEF TypeOK
<1> HIDE DEF new
<1>5. /\ DOMAIN writes' = 1 .. (Len(writes) + 1) /\ DOMAIN writes = 1 .. Len(writes) /\ Len(writes) \in Nat
      /\ \A i \in DOMAIN writes : writes'[i] = writes[i]
      /\ writes'[Len(writes) + 1] = new
  BY <1>0, <1>1, <1>2, AppendProperties
<1> QED BY <1>2, <1>3, <1>4, <1>5 DEF Serving

LEMMA WriteEndIs ==
  ASSUME SInv, NEW i \in DOMAIN writes, WriteEnd(i)
  PROVE  /\ jobs' = jobs /\ worker' = worker
         /\ i \in Nat /\ DOMAIN writes = 1 .. Len(writes) /\ DOMAIN writes' = 1 .. (Len(writes) - 1)
         /\ Len(writes) \in Nat
         /\ \A k \in 1 .. (Len(writes) - 1) : writes'[k] = IF k < i THEN writes[k] ELSE writes[k + 1]
<1>0. writes \in Seq(WriteTypes)
  BY DEF SInv, TypeOK
<1> QED BY <1>0, DropAtIs DEF WriteEnd

\* What is taken for complete early stays on record.
LEMMA EarlyStep == SInv /\ Next => early \subseteq early'
<1> SUFFICES ASSUME SInv, Next PROVE early \subseteq early'
  OBVIOUS
<1>1. ASSUME Accept PROVE early \subseteq early'
  BY <1>1 DEF Accept
<1>2. ASSUME NEW c \in Conns, Connect(c) \/ Leave(c) \/ Eof(c) \/ OnClose(c) PROVE early' = early
  BY <1>2 DEF Connect, Leave, Eof, OnClose
<1>3. ASSUME NEW c \in Conns, NEW shape \in Shapes[c], Ask(c, shape) PROVE early' = early
  BY <1>3 DEF Ask
<1>4. ASSUME At \/ Make \/ Delivery \/ Scan \/ Scanned \/ CleanUp PROVE early' = early
  BY <1>4 DEF At, Make, Delivery, Read, ReadNobody, Scan, Scanned, CleanUp
<1>5. ASSUME WriteStep PROVE early' = early
  BY <1>5 DEF WriteStep, WriteBegin, WriteEnd, WriteFreed
<1>6. ASSUME NEW w \in Workers, WorkerStep(w) PROVE early' = early
  BY <1>6 DEF WorkerStep, Take, PeerInfo, Route, QueueWork, Count, EraseKey, UseFreed
<1>7. ASSUME NEW b \in BufferIds, Age(b) PROVE early' = early
  BY <1>7 DEF Age
<1> QED BY <1>1, <1>2, <1>3, <1>4, <1>5, <1>6, <1>7 DEF Next, LoopStep

\* If nothing is queued for a connection that is served, each has one request in hand.
LEMMA StepOnePending ==
  ASSUME SInv, Next, OnePending, OneWritePerStream,
         Queueing /\ loop.conn \notin early' => ~Pending(loop.conn)
  PROVE  OnePending' /\ OneWritePerStream'
<1>0. TypeOK /\ jobs \in Seq(JobTypes) /\ writes \in Seq(WriteTypes) /\ early \subseteq early'
  BY EarlyStep DEF SInv, TypeOK
<1>1. CASE Still
  BY <1>0, <1>1 DEF Still, OnePending, OneWritePerStream
<1>2. CASE Queueing /\ writes' = writes /\ worker' = worker
  <2>1. TheJob \in JobTypes /\ TheJob.conn = loop.conn
    BY <1>2, LoopIs DEF Queueing, Accept, TheJob, JobTypes, SInv, LoopOK
  <2>2. \A i \in DOMAIN jobs' : (i \in DOMAIN jobs /\ jobs'[i] = jobs[i]) \/ (i = Len(jobs) + 1 /\ jobs'[i] = TheJob)
    BY <1>0, <1>2, <2>1, AppendProperties DEF Queueing
  <2>3. loop.conn \notin early' => ~Pending(loop.conn)
    BY <1>2
  <2> QED BY <1>0, <1>2, <2>1, <2>2, <2>3 DEF OnePending, OneWritePerStream, Pending, Serving
<1>3. ASSUME NEW w \in Workers, Take(w) PROVE OnePending' /\ OneWritePerStream'
  <2>1. /\ 1 \in DOMAIN jobs /\ ~Serving(w) /\ Serving(w)' /\ worker'[w].conn = jobs[1].conn
        /\ \A v \in Workers : v # w => worker'[v] = worker[v]
        /\ \A i \in DOMAIN jobs' : i + 1 \in DOMAIN jobs /\ i \in Nat \ {0} /\ jobs'[i] = jobs[i + 1]
        /\ writes' = writes
    BY <1>3, TakeIs
  <2>2. \A i \in DOMAIN jobs' : i + 1 # 1
    BY <2>1
  <2>3. \A i, j \in DOMAIN jobs' : i + 1 = j + 1 => i = j
    BY <2>1
  <2>4. \A v \in Workers : v # w => (Serving(v)' <=> Serving(v))
    BY <2>1 DEF Serving
  <2>5. \A i, j \in DOMAIN jobs' : jobs'[i].conn = jobs'[j].conn /\ jobs'[i].conn \notin early' => i = j
    BY <1>0, <2>1, <2>3 DEF OnePending
  <2>6. \A i \in DOMAIN jobs', v \in Workers : Serving(v)' /\ jobs'[i].conn \notin early' => jobs'[i].conn # worker'[v].conn
    BY <1>0, <2>1, <2>2, <2>4 DEF OnePending
  <2>7. \A u, v \in Workers :
          Serving(u)' /\ Serving(v)' /\ worker'[u].conn = worker'[v].conn /\ worker'[u].conn \notin early'
          => u = v
    BY <1>0, <2>1, <2>4 DEF OnePending
  <2>8. \A v \in Workers, k \in DOMAIN writes' : Serving(v)' /\ worker'[v].conn \notin early' => worker'[v].conn # writes'[k].conn
    BY <1>0, <2>1, <2>4 DEF OnePending
  <2>9. \A i \in DOMAIN jobs', k \in DOMAIN writes' :
          jobs'[i].conn \notin early' => jobs'[i].conn # writes'[k].conn
    BY <1>0, <2>1 DEF OnePending
  <2> QED BY <1>0, <2>1, <2>5, <2>6, <2>7, <2>8, <2>9 DEF OnePending, OneWritePerStream
<1>4. ASSUME NEW w \in Workers, QueueWork(w) PROVE OnePending' /\ OneWritePerStream'
  <2>1. /\ Serving(w) /\ ~Serving(w)' /\ jobs' = jobs
        /\ \A v \in Workers : v # w => worker'[v] = worker[v]
        /\ DOMAIN writes' = 1 .. (Len(writes) + 1) /\ DOMAIN writes = 1 .. Len(writes) /\ Len(writes) \in Nat
        /\ \A i \in DOMAIN writes : writes'[i] = writes[i]
        /\ writes'[Len(writes) + 1].conn = worker[w].conn
    BY <1>4, QueueWorkIs
  <2>2. \A i \in DOMAIN writes' : (i \in DOMAIN writes /\ writes'[i].conn = writes[i].conn)
                                  \/ (i = Len(writes) + 1 /\ writes'[i].conn = worker[w].conn)
    BY <2>1
  <2>3. \A v \in Workers : Serving(v)' => v # w /\ Serving(v) /\ worker'[v].conn = worker[v].conn
    BY <2>1 DEF Serving
  <2>4. \A i, j \in DOMAIN writes' : writes'[i].conn = writes'[j].conn /\ writes'[i].conn \notin early' => i = j
    BY <1>0, <2>1, <2>2 DEF OnePending, OneWritePerStream
  <2>5. \A u, v \in Workers :
          Serving(u)' /\ Serving(v)' /\ worker'[u].conn = worker'[v].conn /\ worker'[u].conn \notin early'
          => u = v
    BY <1>0, <2>3 DEF OnePending
  <2>6. \A v \in Workers, k \in DOMAIN writes' : Serving(v)' /\ worker'[v].conn \notin early' => worker'[v].conn # writes'[k].conn
    BY <1>0, <2>1, <2>2, <2>3 DEF OnePending
  <2>7. \A i \in DOMAIN jobs', k \in DOMAIN writes' :
          jobs'[i].conn \notin early' => jobs'[i].conn # writes'[k].conn
    BY <1>0, <2>1, <2>2 DEF OnePending
  <2>8. \A i \in DOMAIN jobs', v \in Workers : Serving(v)' /\ jobs'[i].conn \notin early' => jobs'[i].conn # worker'[v].conn
    BY <1>0, <2>1, <2>3 DEF OnePending
  <2>9. \A i, j \in DOMAIN jobs' : jobs'[i].conn = jobs'[j].conn /\ jobs'[i].conn \notin early' => i = j
    BY <1>0, <2>1 DEF OnePending
  <2>10. OneWritePerStream'
    BY <2>4 DEF OneWritePerStream
  <2>11. OnePending'
    BY <2>5, <2>6, <2>7, <2>8, <2>9 DEF OnePending
  <2> QED BY <2>10, <2>11
<1>5. ASSUME NEW i \in DOMAIN writes, WriteEnd(i) PROVE OnePending' /\ OneWritePerStream'
  <2>1. /\ jobs' = jobs /\ worker' = worker
        /\ i \in Nat /\ DOMAIN writes = 1 .. Len(writes) /\ DOMAIN writes' = 1 .. (Len(writes) - 1)
        /\ Len(writes) \in Nat
        /\ \A k \in 1 .. (Len(writes) - 1) : writes'[k] = IF k < i THEN writes[k] ELSE writes[k + 1]
    BY <1>5, WriteEndIs
  <2> DEFINE From(k) == IF k < i THEN k ELSE k + 1
  <2>2. \A k \in DOMAIN writes' : From(k) \in DOMAIN writes /\ writes'[k] = writes[From(k)]
    BY <2>1
  <2>3. \A k, j \in DOMAIN writes' : From(k) = From(j) => k = j
    BY <2>1
  <2> HIDE DEF From
  <2> QED BY <1>0, <2>1, <2>2, <2>3 DEF OnePending, OneWritePerStream, Serving
<1> QED BY <1>1, <1>2, <1>3, <1>4, <1>5, Moves

----------------------------------------------------------------------------
\* The pieces of answered requests stay so, until a request is queued.
LEMMA PendingIs ==
  ASSUME SInv, Next, NEW c \in Conns, Pending(c)', ~(Queueing /\ loop.conn = c)
  PROVE  Pending(c)
<1>0. TypeOK
  BY DEF SInv
<1>1. ASSUME NEW i \in DOMAIN jobs', jobs'[i].conn = c PROVE Pending(c)
  <2>1. ~(Queueing /\ jobs'[i] = TheJob)
    BY <1>1 DEF TheJob
  <2> QED BY <1>1, <2>1, EachJob DEF Pending
<1>2. ASSUME NEW i \in DOMAIN writes', writes'[i].conn = c PROVE Pending(c)
  <2>1. \A w \in Workers : QueueWork(w) => Serving(w)
    BY DEF QueueWork, Serving
  <2> QED BY <1>2, <2>1, EachWrite DEF Pending
<1>3. ASSUME NEW v \in Workers, Serving(v)', worker'[v].conn = c PROVE Pending(c)
  <2>1. CASE Still
    BY <1>3, <2>1 DEF Still, Pending
  <2>2. CASE worker' = worker
    BY <1>3, <2>2 DEF Pending, Serving
  <2>3. ASSUME NEW w \in Workers, Take(w) PROVE Pending(c)
    <3>1. CASE v = w
      BY <1>3, <2>3, <3>1, TakeIs DEF Pending
    <3>2. CASE v # w
      BY <1>3, <2>3, <3>2, TakeIs DEF Pending, Serving
    <3> QED BY <3>1, <3>2
  <2>4. ASSUME NEW w \in Workers, QueueWork(w) PROVE Pending(c)
    BY <1>3, <2>4, QueueWorkIs DEF Pending, Serving
  <2>5. ASSUME NEW i \in DOMAIN writes, WriteEnd(i) PROVE worker' = worker
    BY <2>5 DEF WriteEnd
  <2> QED BY <2>1, <2>2, <2>3, <2>4, <2>5, Moves
<1> QED BY <1>1, <1>2, <1>3 DEF Pending

\* The end of a write is the end of the request.
LEMMA AnsweringIs ==
  ASSUME SInv, Next, OnePending, OneWritePerStream, NEW c \in Conns \ early, Answering(c)
  PROVE  /\ Pending(c) /\ ~Pending(c)' /\ Len(got'[c]) = Len(got[c]) + 1 /\ asked'[c] = asked[c]
<1>0. TypeOK /\ got[c] \in Seq(Requests)
  BY ConnTypes DEF SInv
<1>1. PICK i \in DOMAIN writes : /\ WriteEnd(i) /\ writes[i].conn = c /\ asked' = asked
                                 /\ got'[c] = Append(got[c], writes[i].req)
  BY DEF Answering
<1>2. Pending(c) /\ asked'[c] = asked[c]
  BY <1>1 DEF Pending
<1>3. Len(got'[c]) = Len(got[c]) + 1
  BY <1>0, <1>1, WritesTypes, AppendProperties
<1>4. /\ jobs' = jobs /\ worker' = worker
      /\ i \in Nat /\ DOMAIN writes = 1 .. Len(writes) /\ DOMAIN writes' = 1 .. (Len(writes) - 1)
      /\ Len(writes) \in Nat
      /\ \A k \in 1 .. (Len(writes) - 1) : writes'[k] = IF k < i THEN writes[k] ELSE writes[k + 1]
  BY <1>1, WriteEndIs
<1>5. \A k \in DOMAIN jobs' : jobs'[k].conn # c
  BY <1>1, <1>4 DEF OnePending
<1>6. \A w \in Workers : Serving(w)' => worker'[w].conn # c
  BY <1>1, <1>4 DEF OnePending, Serving
<1>7. ASSUME NEW k \in DOMAIN writes' PROVE writes'[k].conn # c
  <2>1. CASE k < i
    <3>1. k \in DOMAIN writes /\ k # i /\ writes'[k] = writes[k]
      BY <1>4, <2>1
    <3> QED BY <1>1, <3>1 DEF OneWritePerStream
  <2>2. CASE ~(k < i)
    <3>1. k + 1 \in DOMAIN writes /\ k + 1 # i /\ writes'[k] = writes[k + 1]
      BY <1>4, <2>2
    <3> QED BY <1>1, <3>1 DEF OneWritePerStream
  <2> QED BY <2>1, <2>2
<1> QED BY <1>2, <1>3, <1>5, <1>6, <1>7 DEF Pending

\* Numbers of requests, ...
LEMMA TopTypes == TypeOK => \A c \in Conns : Len(got[c]) \in Nat /\ Top(c) \in Nat /\ Len(got[c]) <= Top(c)
<1> SUFFICES ASSUME TypeOK, NEW c \in Conns
             PROVE  Len(got[c]) \in Nat /\ Top(c) \in Nat /\ Len(got[c]) <= Top(c)
  OBVIOUS
<1>1. Len(got[c]) \in Nat /\ Top(c) \in {Len(got[c]), Len(got[c]) + 1}
  BY ConnTypes DEF Top
<1> QED BY <1>1

\* ... and after a step.
LEMMA TopTypesNext ==
  TypeOK' => (\A c \in Conns : Len(got[c]) \in Nat /\ Top(c) \in Nat /\ Len(got[c]) <= Top(c))'
BY TopTypes, PTL

\* No step but the queueing of a request makes more pieces belong to answered ones.
LEMMA TopStep ==
  ASSUME SInv, Next, OnePending, OneWritePerStream, NEW c \in Conns \ early, ~(Queueing /\ loop.conn = c)
  PROVE  Top(c)' <= Top(c)
<1>0. TypeOK /\ Len(got[c]) \in Nat
  BY ConnTypes DEF SInv
<1>1. CASE Answering(c)
  <2>1. Pending(c) /\ ~Pending(c)' /\ Len(got'[c]) = Len(got[c]) + 1
    BY <1>1, AnsweringIs
  <2> QED BY <1>0, <2>1 DEF Top
<1>2. CASE got'[c] = got[c]
  <2>1. Pending(c)' => Pending(c)
    BY PendingIs
  <2>2. CASE Pending(c)
    <3>1. Top(c) = Len(got[c]) + 1
      BY <2>2 DEF Top
    <3>2. Top(c)' \in {Len(got[c]), Len(got[c]) + 1}
      BY <1>2 DEF Top
    <3> QED BY <1>0, <3>1, <3>2
  <2>3. CASE ~Pending(c)
    BY <1>0, <1>2, <2>1, <2>3 DEF Top
  <2> QED BY <2>2, <2>3
<1> QED BY <1>1, <1>2, GotStep

\* What is awaited stays awaited.
LEMMA StepAwaited ==
  ASSUME SInv, Next, OnePending, OneWritePerStream, Awaited, AtMostOneAnswer,
         Queueing /\ loop.conn \notin early' => asked[loop.conn] = Len(got[loop.conn]) + 1
  PROVE  Awaited' /\ AtMostOneAnswer'
<1> SUFFICES ASSUME NEW c \in Conns \ early'
             PROVE  /\ Pending(c)' => asked'[c] = Len(got'[c]) + 1
                    /\ Len(got'[c]) <= asked'[c]
  BY DEF Awaited, AtMostOneAnswer
<1>0. c \in Conns \ early
  BY EarlyStep
<1>3. TypeOK /\ Len(got[c]) \in Nat /\ asked[c] \in Nat /\ Len(got[c]) <= asked[c]
  BY <1>0, ConnTypes DEF SInv, AtMostOneAnswer
<1>1. CASE Answering(c)
  <2>1. Pending(c) /\ ~Pending(c)' /\ Len(got'[c]) = Len(got[c]) + 1 /\ asked'[c] = asked[c]
    BY <1>0, <1>1, AnsweringIs
  <2>2. asked[c] = Len(got[c]) + 1
    BY <1>0, <2>1 DEF Awaited
  <2> QED BY <1>3, <2>1, <2>2
<1>2. CASE got'[c] = got[c]
  <2>1. CASE asked'[c] = asked[c]
    <3>1. Pending(c)' => Pending(c) \/ (Queueing /\ loop.conn = c)
      BY PendingIs
    <3>2. Pending(c)' => asked[c] = Len(got[c]) + 1
      BY <1>0, <3>1 DEF Awaited
    <3> QED BY <1>3, <1>2, <2>1, <3>2
  <2>2. ASSUME NEW shape \in Shapes[c], Ask(c, shape), asked'[c] = asked[c] + 1, asked[c] <= Len(got[c])
        PROVE  ~Pending(c)' /\ Len(got'[c]) <= asked'[c]
    <3>1. ~Pending(c)
      BY <1>0, <1>3, <2>2 DEF Awaited
    <3>2. jobs' = jobs /\ writes' = writes /\ worker' = worker
      BY <2>2 DEF Ask
    <3> QED BY <1>3, <1>2, <2>2, <3>1, <3>2 DEF Pending, Serving
  <2> QED BY <2>1, <2>2, AskedStep
<1> QED BY <1>1, <1>2, GotStep

----------------------------------------------------------------------------
\* Buffers that are deaf stay so.
Kept(s, low, r, top) ==
  \A i \in DOMAIN s : s[i].req[2] <= low => \E j \in DOMAIN r : s[i] = r[j] /\ r[j].req[2] <= top

\* A buffer that no bytes go into stays deaf.
LEMMA DeafKept ==
  ASSUME NEW b, NEW d, Same(d, b), NEW r, NEW top, NEW s, NEW low, Kept(s, low, r, top), Deaf(b, r, top)
  PROVE  Deaf(d, s, low)
BY DEF Same, Kept, Deaf

\* What is left of answered requests does not make a deaf buffer complete.
LEMMA AcceptedDeaf ==
  ASSUME NEW b \in BufferTypes, BufferOK(b), NEW data \in Seq(Pieces), data # <<>>, NEW r, NEW top,
         Deaf(b, r, top), \A i \in DOMAIN data : ~Starts(data[i]),
         \A i \in DOMAIN data : \E j \in DOMAIN r : data[i] = r[j] /\ r[j].req[2] <= top,
         NEW s, Kept(s, top, r, top)
  PROVE  Status(Accepted(b, data)) # "complete" /\ Deaf(Accepted(b, data), s, top)
<1> DEFINE e == Accepted(b, data)
<1>1. /\ e \in BufferTypes /\ BufferOK(e)
      /\ e.content = b.content \o data /\ e.protocol # "unknown"
      /\ b.protocol # "unknown" => e.protocol = b.protocol /\ e.req = b.req
      /\ b.protocol # "http" /\ e.protocol = "http" => Starts(data[1])
      /\ b.protocol = "http" /\ b.ended # 0 => e.ended = b.ended /\ e.length = b.length
  BY AcceptedIs
<1> HIDE DEF e
<1>2. /\ b.content \in Seq(Pieces) /\ Len(b.content) \in Nat /\ b.ended \in Nat /\ e.ended \in Nat
      /\ b.length \in Nat \cup {NoLength}
      /\ Len(data) \in Nat \ {0} /\ 1 \in DOMAIN data /\ Len(data) \in DOMAIN data
  BY <1>1 DEF BufferTypes
<1>3. /\ Len(e.content) = Len(b.content) + Len(data)
      /\ e.content[Len(e.content)] = data[Len(data)]
  <2>1. Len(b.content \o data) = Len(b.content) + Len(data)
        /\ (b.content \o data)[Len(b.content) + Len(data)] = data[Len(data)]
    BY <1>2, Concat
  <2> QED BY <1>1, <2>1
<1>4. CASE b.protocol # "http"
  <2>1. e.protocol # "http"
    BY <1>1, <1>2, <1>4
  <2> QED BY <2>1 DEF Deaf, Status, e
<1>5. CASE /\ b.protocol = "http" /\ b.ended # 0 /\ b.length # NoLength
           /\ Len(b.content) >= b.ended + b.length
  <2>1. e.protocol = "http" /\ e.ended = b.ended /\ e.length = b.length
    BY <1>1, <1>5
  <2>2. b.length \in Nat
    BY <1>2, <1>5
  <2>3. Len(e.content) - e.ended > e.length /\ Len(e.content) >= e.ended + e.length
    BY <1>2, <1>3, <1>5, <2>1, <2>2
  <2>4. Follows(e) = Len(e.content) - e.ended
    BY <1>5, <2>1 DEF Follows
  <2>5. Status(e) = "invalid"
    <3> DEFINE f == Follows(e)
    <3>1. f \in Int /\ f > e.length
      BY <1>2, <1>3, <2>1, <2>2, <2>3, <2>4
    <3>2. ~(f = e.length) /\ ~(f < e.length)
      <4> HIDE DEF f
      <4> QED BY <2>1, <2>2, <3>1
    <3> QED BY <1>5, <2>1, <3>2 DEF Status
  <2> QED BY <1>5, <2>1, <2>3, <2>5 DEF Deaf, e
<1>6. CASE /\ b.protocol = "http" /\ b.ended # 0 /\ b.length = NoLength
           /\ \A i \in DOMAIN r : r[i].req[2] <= top => ~Empty(r[i])
  <2>1. \A i \in DOMAIN data : ~Empty(data[i])
    BY <1>6
  <2>2. e.protocol = "http" /\ e.ended = b.ended /\ e.length = NoLength
    BY <1>1, <1>6
  <2>3. ~Empty(e.content[Len(e.content)])
    BY <1>2, <1>3, <2>1
  <2>4. Status(e) = "invalid"
    BY <2>2, <2>3 DEF Status, Empty, NoLength
  <2> QED BY <1>6, <2>2, <2>4 DEF Deaf, Kept, e
<1> QED BY <1>4, <1>5, <1>6 DEF Deaf

\* The pieces that stay are the old ones, except where a request is queued.
LEMMA PiecesKept ==
  ASSUME SInv, Next, OnePending, OneWritePerStream, Awaited, AtMostOneAnswer, NEW c \in Conns \ early, ~(Queueing /\ loop.conn = c)
  PROVE  Kept(Rest(c)', Top(c)', Rest(c), Top(c))
<1>0. TypeOK /\ TypeOK' /\ Top(c) \in Nat /\ Top(c)' \in Nat /\ Top(c)' <= Top(c)
  BY StepTypes, TopTypes, TopTypesNext, TopStep DEF SInv
<1> DEFINE r == Rest(c)
           s == Rest(c)'
           low == Top(c)'
<1>1. /\ r \in Seq(Pieces) /\ DOMAIN r = 1 .. Len(r) /\ Len(r) \in Nat
      /\ s \in Seq(Pieces) /\ DOMAIN s = 1 .. Len(s) /\ Len(s) \in Nat
  BY <1>0, RestTypes, RestTypesNext
<1>2. /\ \A i \in DOMAIN r : r[i].req[2] \in Nat
      /\ \A i \in DOMAIN s : s[i].req[2] \in Nat
  <2>1. \A x \in Pieces : x.req[2] \in Nat
    BY DEF Pieces, Requests
  <2> HIDE DEF r, s
  <2>2. (\A i \in DOMAIN r : r[i] \in Pieces) /\ (\A i \in DOMAIN s : s[i] \in Pieces)
    BY <1>1
  <2> QED BY <2>1, <2>2
<1>3. CASE s = r
  <2> HIDE DEF s, r
  <2> QED BY <1>0, <1>2, <1>3 DEF Kept, r, s
<1>4. CASE Suffix(s, r)
  <2>1. PICK n \in 0 .. Len(r) : Len(s) = Len(r) - n /\ \A i \in 1 .. Len(s) : s[i] = r[i + n]
    BY <1>4 DEF Suffix
  <2> HIDE DEF s, r
  <2>2. \A i \in DOMAIN s : i + n \in DOMAIN r /\ s[i] = r[i + n]
    BY <1>1, <2>1
  <2> QED BY <1>0, <1>2, <2>2 DEF Kept, r, s
<1>5. ASSUME NEW shape \in Shapes[c], Ask(c, shape), s = r \o Sent(c, shape)
      PROVE  Kept(s, low, r, Top(c))
  <2>1. asked[c] <= Len(got[c]) /\ Len(got[c]) <= asked[c] /\ Len(got[c]) \in Nat /\ asked[c] \in Nat
    BY <1>0, <1>5, ConnTypes DEF Ask, AtMostOneAnswer
  <2>2. ~Pending(c) /\ Top(c) = asked[c]
    BY <2>1 DEF Awaited, Top
  <2> DEFINE t == Sent(c, shape)
  <2>3. /\ t \in Seq(Pieces) /\ Len(t) = Len(shape) /\ Len(shape) \in Nat
        /\ \A i \in 1 .. Len(t) : t[i].req[2] = asked[c] + 1
    BY <1>0, SentIs
  <2> HIDE DEF t, r, s, low
  <2>4. /\ Len(s) = Len(r) + Len(t)
        /\ \A i \in 1 .. Len(r) : s[i] = r[i]
        /\ \A i \in 1 .. Len(t) : s[Len(r) + i] = t[i]
    <3>1. r \in Seq(Pieces) /\ t \in Seq(Pieces) /\ s = r \o t
      BY <1>1, <1>5, <2>3 DEF t
    <3> QED BY <3>1, Concat
  <2>5. ASSUME NEW i \in DOMAIN s, s[i].req[2] <= low
        PROVE  i \in DOMAIN r /\ s[i] = r[i] /\ r[i].req[2] <= Top(c)
    <3>1. CASE i \in DOMAIN r
      BY <1>0, <1>1, <1>2, <2>4, <2>5, <3>1 DEF low
    <3>2. CASE i \notin DOMAIN r
      <4>1. i - Len(r) \in 1 .. Len(t) /\ Len(r) + (i - Len(r)) = i
        BY <1>1, <2>3, <2>4, <3>2
      <4>2. s[i].req[2] = asked[c] + 1
        BY <2>3, <2>4, <4>1
      <4> QED BY <1>0, <2>1, <2>2, <2>5, <4>2 DEF low
    <3> QED BY <3>1, <3>2
  <2> QED BY <2>5 DEF Kept
<1> QED BY <1>3, <1>4, <1>5, RestStep

----------------------------------------------------------------------------
\* The end of on_read for connection c.
LEMMA LastIs ==
  ASSUME NEW S, NEW s \in Seq(S), s # <<>>
  PROVE  1 \in DOMAIN s /\ Len(s) \in DOMAIN s /\ Len(s) \in Nat \ {0} /\ DOMAIN s = 1 .. Len(s)
OBVIOUS

LEMMA AcceptAnswered ==
  ASSUME SInv, Next, OwnedInv, AnsweredInv, Accept, NEW c \in Conns \ early', loop.conn = c
  PROVE  /\ Queueing => ~Pending(c) /\ asked[c] = Len(got[c]) + 1
         /\ Answered(c)'
<1> DEFINE b == buffer[loop.buf]
           data == loop.data
           e == Accepted(b, data)
           r == Rest(c)
           s == rest[c]
           low == Top(c)'
<1>0. /\ c \notin early /\ TypeOK /\ TypeOK' /\ Top(c) \in Nat /\ low \in Nat /\ Len(got[c]) \in Nat /\ asked[c] \in Nat
      /\ loop.pc = "accept" /\ loop.buf \in BufferIds /\ b \in BufferTypes /\ BufferOK(b) /\ Present(c)
      /\ table[KeyOf(c)] \in {0, loop.buf} /\ KeyOf(c) \in Peers
  <2>1. c \notin early /\ TypeOK /\ TypeOK' /\ loop.pc = "accept" /\ LoopOK
    BY StepTypes, EarlyStep DEF SInv, Accept
  <2>2. loop.buf \in BufferIds
    BY <2>1, LoopIs
  <2>3. b \in BufferTypes /\ BufferOK(b)
    BY <2>1, <2>2 DEF SInv, TypeOK
  <2> QED BY <2>1, <2>2, <2>3, TopTypes, TopTypesNext, ConnTypes DEF LoopOK
<1>1. /\ data \in Seq(Pieces) /\ data # <<>> /\ 1 \in DOMAIN data /\ Len(data) \in DOMAIN data
      /\ r = data \o s /\ \A i \in DOMAIN data : i \in DOMAIN r /\ r[i] = data[i]
  <2>1. /\ loop.data \in Seq(Pieces) /\ loop.data # <<>> /\ Rest(loop.conn) = loop.data \o rest[loop.conn]
        /\ \A i \in DOMAIN loop.data : i \in DOMAIN Rest(loop.conn) /\ Rest(loop.conn)[i] = loop.data[i]
    BY <1>0, FirstData
  <2> QED BY <2>1, LastIs
<1>2. Rest(c)' = s /\ s \in Seq(Pieces) /\ s = rest'[c] /\ DOMAIN s = 1 .. Len(s) /\ Len(s) \in Nat
      /\ Len(data) \in Nat
  BY <1>0, <1>1, ConnTypes DEF Accept, Rest, IdleLoop, clients
<1>3. \A i \in DOMAIN s : Len(data) + i \in DOMAIN r /\ r[Len(data) + i] = s[i] /\ Len(data) < Len(data) + i
  <2>1. ASSUME NEW t \in Seq(Pieces), NEW u \in Seq(Pieces)
        PROVE  \A i \in DOMAIN u : /\ Len(t) + i \in DOMAIN (t \o u) /\ (t \o u)[Len(t) + i] = u[i]
                                 /\ Len(t) < Len(t) + i
    BY ConcatProperties
  <2> HIDE DEF data, r, s
  <2> QED BY <1>1, <1>2, <2>1
<1>4. /\ loop' = IdleLoop /\ table' = table /\ conn' = conn /\ got' = got
      /\ ~Queueing => jobs' = jobs
      /\ \/ buffer' = buffer /\ jobs' = jobs
         \/ buffer'[loop.buf] = e
      /\ Queueing => Status(e) = "complete" /\ buffer'[loop.buf] = e /\ e.ended # 0
  <2>1. ~Queueing => jobs' = jobs
    <3>1. \A w \in Workers : ~Take(w)
      <4>1. worker' = worker
        BY DEF Accept
      <4>2. ASSUME NEW w \in Workers, Take(w) PROVE FALSE
        BY <4>1, <4>2, TakeIs DEF Serving
      <4> QED BY <4>2
    <3> QED BY <3>1, JobsStep
  <2>2. \/ buffer' = buffer /\ jobs' = jobs
        \/ buffer'[loop.buf] = e
    BY <1>0 DEF Accept, TypeOK
  <2>3. Queueing => Status(e) = "complete" /\ buffer'[loop.buf] = e /\ e.ended # 0
    BY DEF Queueing, Accepting
  <2> QED BY <2>1, <2>2, <2>3 DEF Accept, clients
<1>5. InOrder(c) /\ Answered(c) /\ \A i \in DOMAIN r : r[i].req \in Requests /\ r[i].req[2] \in Nat
  <2>1. \A x \in Pieces : x.req \in Requests /\ x.req[2] \in Nat
    BY DEF Pieces, Requests
  <2>2. r \in Seq(Pieces)
    BY <1>0, RestTypes
  <2>3. \A i \in DOMAIN r : r[i] \in Pieces
    BY <2>2
  <2>4. InOrder(c) /\ Answered(c)
    BY <1>0 DEF SInv, AnsweredInv
  <2> QED BY <2>1, <2>3, <2>4
<1>6. /\ \A i \in DOMAIN r : r[i].req[1] = c /\ r[i].req[2] <= asked[c]
      /\ \A i, j \in DOMAIN r : i < j =>
           /\ r[i].req[2] <= r[j].req[2]
           /\ r[i].req = r[j].req => ~Starts(r[j]) /\ ~(Empty(r[i]) /\ Empty(r[j]))
  BY <1>5 DEF InOrder
<1>7. \A i \in DOMAIN r : r[i].req[2] <= Top(c) => ~Starts(r[i]) /\ Deaf(b, r, Top(c))
  BY <1>0, <1>5 DEF Answered
<1>8. SUFFICES /\ Queueing => ~Pending(c) /\ asked[c] = Len(got[c]) + 1
               /\ \A i \in DOMAIN s : s[i].req[2] <= low => ~Starts(s[i]) /\ Deaf(buffer'[loop.buf], s, low)
  <2>1. (KeyOf(c))' = KeyOf(c) /\ loop'.pc # "accept"
    BY <1>4 DEF KeyOf, IdleLoop
  <2>2. SUFFICES ASSUME \A i \in DOMAIN s : s[i].req[2] <= low => ~Starts(s[i]) /\ Deaf(buffer'[loop.buf], s, low)
                 PROVE  Answered(c)'
    OBVIOUS
  <2>3. \A i \in DOMAIN s : s[i].req[2] <= low =>
          /\ ~Starts(s[i])
          /\ table'[KeyOf(c)] # 0 => Deaf(buffer'[table'[KeyOf(c)]], s, low)
    BY <1>0, <1>4, <2>2
  <2> QED BY <1>2, <2>1, <2>3 DEF Answered, Starts, Deaf, Empty
<1>9. ASSUME ~Queueing
      PROVE  low <= Top(c) /\ Kept(s, low, r, Top(c)) /\ low = Top(c)
  <2>1. low = Top(c)
    <3>1. jobs' = jobs /\ writes' = writes /\ worker' = worker
      BY <1>4, <1>9 DEF Accept
    <3>2. Pending(c)' <=> Pending(c)
      BY <3>1 DEF Pending, Serving
    <3> QED BY <1>4, <3>2 DEF Top
  <2>2. Kept(s, low, r, Top(c))
    BY <1>0, <1>2, <1>9, PiecesKept DEF AnsweredInv
  <2> QED BY <1>0, <2>1, <2>2
<1> DEFINE last == data[Len(data)]
<1>10. last.req \in Requests /\ last.req[2] \in Nat /\ last = r[Len(data)] /\ Len(data) \in DOMAIN r
  BY <1>1, <1>5
<1>11. \A i \in DOMAIN data : data[i].req[2] <= last.req[2]
  <2> HIDE DEF r, data, last
  <2>1. \A i \in DOMAIN data : i < Len(data) \/ i = Len(data)
    BY <1>1
  <2>2. \A i \in DOMAIN data : i < Len(data) => r[i].req[2] <= r[Len(data)].req[2]
    BY <1>1, <1>6, <1>10
  <2>3. data[Len(data)] = last
    BY DEF last
  <2> QED BY <1>1, <1>10, <2>1, <2>2, <2>3
<1> HIDE DEF b, data, e, r, s, low, last
<1>12. CASE last.req[2] <= Top(c)
  <2>1. \A i \in DOMAIN data : i \in DOMAIN r /\ data[i] = r[i] /\ data[i].req[2] \in Nat /\ data[i].req[2] <= Top(c)
    BY <1>0, <1>1, <1>5, <1>10, <1>11, <1>12
  <2>2. Deaf(b, r, Top(c)) /\ \A i \in DOMAIN data : ~Starts(data[i])
    BY <1>1, <1>7, <2>1
  <2>3. Kept(s, Top(c), r, Top(c))
    BY <1>3 DEF Kept
  <2>4. Status(e) # "complete" /\ Deaf(e, s, Top(c))
    BY <1>0, <1>1, <2>1, <2>2, <2>3, AcceptedDeaf DEF e
  <2>5. ~Queueing
    BY <1>4, <2>4
  <2>6. \A i \in DOMAIN s : s[i].req[2] <= low => ~Starts(s[i])
    BY <1>3, <1>7, <1>9, <2>5
  <2>7. Deaf(buffer'[loop.buf], s, low)
    <3>1. CASE buffer'[loop.buf] = e
      BY <1>9, <2>4, <2>5, <3>1
    <3>2. CASE buffer' = buffer
      BY <1>9, <2>2, <2>5, <3>2, DeafKept DEF Same, b
    <3> QED BY <1>4, <3>1, <3>2
  <2> QED BY <2>5, <2>6, <2>7
<1>13. CASE ~(last.req[2] <= Top(c))
  <2>1. \A i \in DOMAIN s : s[i].req[2] \in Nat /\ last.req[2] <= s[i].req[2]
    BY <1>3, <1>5, <1>6, <1>10
  <2>2. CASE ~Queueing
    BY <1>0, <1>9, <1>10, <1>13, <2>1, <2>2
  <2>3. CASE Queueing
    <3>1. last.req[2] <= asked[c] /\ asked[c] <= Len(got[c]) + 1
      BY <1>6, <1>10 DEF SInv, AskedOnce
    <3>2. ~Pending(c) /\ asked[c] = Len(got[c]) + 1 /\ last.req[2] = asked[c]
      <4>1. Pending(c) => Top(c) = Len(got[c]) + 1
        BY DEF Top
      <4>2. ~Pending(c) => Top(c) = Len(got[c])
        BY DEF Top
      <4> QED BY <1>0, <1>10, <1>13, <3>1, <4>1, <4>2
    <3>3. Status(e) = "complete" /\ buffer'[loop.buf] = e /\ e \in BufferTypes /\ e.ended # 0
      BY <1>0, <1>1, <1>4, <2>3, AcceptedIs DEF e
    <3>4. \A i \in DOMAIN s : s[i].req = last.req
      <4>1. \A i \in DOMAIN s : s[i].req \in Requests /\ s[i].req[1] = c /\ s[i].req[2] <= asked[c]
        BY <1>3, <1>5, <1>6
      <4>2. last.req[1] = c
        BY <1>6, <1>10
      <4>3. \A x, y \in Requests : x[1] = y[1] /\ x[2] = y[2] => x = y
        BY DEF Requests
      <4>4. \A i \in DOMAIN s : s[i].req[2] = last.req[2]
        BY <1>0, <1>10, <2>1, <3>2, <4>1
      <4> QED BY <1>10, <4>1, <4>2, <4>3, <4>4
    <3>5. \A i \in DOMAIN s : ~Starts(s[i]) /\ ~(Empty(last) /\ Empty(s[i]))
      BY <1>3, <1>6, <1>10, <3>4
    <3>6. e.content[Len(e.content)] = last
      <4>1. e.content = b.content \o data /\ b.content \in Seq(Pieces) /\ Len(data) \in 1 .. Len(data)
        <5>1. b.content \in Seq(Pieces)
          BY <1>0 DEF BufferTypes
        <5>2. e.content = b.content \o data
          BY <1>0, <1>1, AcceptedIs DEF e
        <5> QED BY <1>1, <5>1, <5>2, LastIs
      <4>2. Len(b.content \o data) = Len(b.content) + Len(data)
            /\ (b.content \o data)[Len(b.content) + Len(data)] = data[Len(data)]
        BY <1>1, <4>1, Concat
      <4> QED BY <4>1, <4>2 DEF last
    <3>7. \/ e.length # NoLength /\ Len(e.content) >= e.ended + e.length
          \/ e.length = NoLength /\ Empty(last)
      BY <3>3, <3>6, CompleteIs
    <3>8. Deaf(e, s, low)
      BY <3>3, <3>5, <3>7 DEF Deaf
    <3> QED BY <3>2, <3>3, <3>5, <3>8
  <2> QED BY <2>2, <2>3
<1> QED BY <1>12, <1>13

\* No other connection has the buffer that is accepted into.
LEMMA OtherBuffer ==
  ASSUME SInv, OwnedInv, NEW c \in Conns, Present(c), table[KeyOf(c)] # 0,
         loop.pc = "accept", loop.buf = table[KeyOf(c)]
  PROVE  loop.conn = c
<1>1. PICK owner \in [BufferIds -> Peers \cup {NoPeer}] : Owned(owner)
  BY DEF OwnedInv
<1>2. loop.conn \in Conns /\ Present(loop.conn) /\ KeyOf(c) = PeerOf[c] /\ PeerOf[c] \in Peers
  BY ConnTypes DEF SInv, LoopOK
<1>3. owner[table[KeyOf(c)]] = KeyOf(c) /\ owner[loop.buf] = PeerOf[loop.conn]
  BY <1>1, <1>2 DEF Owned
<1> QED BY <1>2, <1>3 DEF SInv, OneReader

\* The other steps: none reaches a buffer that is deaf to c.
LEMMA StepAnswered ==
  ASSUME SInv, Next, OwnedInv, AnsweredInv, NEW c \in Conns \ early', ~(Accept /\ loop.conn = c)
  PROVE  Answered(c)'
<1> DEFINE r == Rest(c)
           s == Rest(c)'
           low == Top(c)'
<1>0. /\ c \in Conns \ early /\ TypeOK /\ LoopOK /\ UnusedOK /\ made \in Nat
      /\ KeyOf(c) \in Peers /\ table[KeyOf(c)] \in BufferIds \cup {0} /\ Answered(c)
      /\ OnePending /\ OneWritePerStream /\ Awaited /\ AtMostOneAnswer
  <2>1. c \in Conns \ early /\ TypeOK /\ LoopOK /\ UnusedOK
    BY EarlyStep DEF SInv
  <2>2. made \in Nat
    BY <2>1, BoundsAssumption DEF TypeOK
  <2>3. Answered(c) /\ OnePending /\ OneWritePerStream /\ Awaited /\ AtMostOneAnswer
    BY <2>1 DEF AnsweredInv
  <2> QED BY <2>1, <2>2, <2>3, ConnTypes
<1>1. Kept(s, low, r, Top(c))
  BY <1>0, PiecesKept DEF Queueing
<1>2. SUFFICES ASSUME Present(c)', NEW i \in DOMAIN s, s[i].req[2] <= low
               PROVE  /\ ~Starts(s[i])
                      /\ table'[KeyOf(c)] # 0 => Deaf(buffer'[table'[KeyOf(c)]], s, low)
                      /\ loop'.pc = "accept" /\ loop'.conn = c => Deaf(buffer'[loop'.buf], s, low)
  <2>1. (KeyOf(c))' = KeyOf(c)
    BY DEF KeyOf
  <2> QED BY <2>1 DEF Answered, Starts, Deaf, Empty
<1>3. PICK j \in DOMAIN r : s[i] = r[j] /\ r[j].req[2] <= Top(c)
  BY <1>1, <1>2 DEF Kept
<1>4. Present(c)
  <2>1. ASSUME Connect(c) PROVE FALSE
    <3>1. loop.pc = "idle" /\ rest[c] = <<>>
      BY <2>1 DEF Connect, SInv, Untouched
    <3>2. r = <<>>
      BY <3>1 DEF Rest
    <3> QED BY <3>2
  <2> QED BY <1>2, <2>1, ConnStep
<1>5. /\ ~Starts(r[j])
      /\ table[KeyOf(c)] # 0 => Deaf(buffer[table[KeyOf(c)]], r, Top(c))
      /\ loop.pc = "accept" /\ loop.conn = c => Deaf(buffer[loop.buf], r, Top(c))
  BY <1>0, <1>3, <1>4 DEF Answered
<1> HIDE DEF r, s, low
<1>6. ASSUME NEW b \in BufferIds, Deaf(buffer[b], r, Top(c)), ~Accepting(b)
      PROVE  Deaf(buffer'[b], s, low)
  <2>1. Same(buffer'[b], buffer[b])
    BY <1>6, BufferStep
  <2> QED BY <1>1, <1>6, <2>1, DeafKept
<1>7. ASSUME Make PROVE Deaf(buffer'[made + 1], s, low)
  <2>1. made + 1 \in BufferIds /\ made + 1 > made
    BY <1>0, <1>7, BoundsAssumption DEF Make, BufferIds
  <2>2. buffer[made + 1].protocol = "unknown" /\ buffer' = buffer
    BY <1>0, <1>7, <2>1 DEF UnusedOK, Make
  <2> QED BY <2>2 DEF Deaf
<1>8. ASSUME table'[KeyOf(c)] # 0 PROVE Deaf(buffer'[table'[KeyOf(c)]], s, low)
  <2>1. CASE table'[KeyOf(c)] = table[KeyOf(c)]
    <3>1. ~Accepting(table[KeyOf(c)])
      BY <1>0, <1>4, <1>8, <2>1, OtherBuffer DEF Accepting, Accept
    <3> QED BY <1>0, <1>5, <1>6, <1>8, <2>1, <3>1
  <2>2. CASE Make /\ table'[KeyOf(c)] = made + 1
    BY <1>7, <2>2
  <2> QED BY <1>0, <1>8, <2>1, <2>2, TableStep
<1>9. ASSUME loop'.pc = "accept", loop'.conn = c PROVE Deaf(buffer'[loop'.buf], s, low)
  <2>1. CASE UNCHANGED loop
    <3>1. loop.buf \in BufferIds /\ ~Accepting(loop.buf)
      BY <1>0, <1>9, <2>1, LoopIs DEF Accepting
    <3> QED BY <1>5, <1>6, <1>9, <2>1, <3>1
  <2>2. CASE At
    <3>1. loop' = [loop EXCEPT !.pc = "accept", !.buf = table[KeyOf(loop.conn)]] /\ table[KeyOf(loop.conn)] # 0
          /\ loop.pc = "at" /\ buffer' = buffer
      BY <1>0, <1>9, <2>2, LoopIs DEF At
    <3>2. loop'.buf = table[KeyOf(loop.conn)] /\ loop'.conn = loop.conn
      BY <1>0, <3>1 DEF TypeOK, LoopTypes
    <3>3. ~Accepting(table[KeyOf(c)])
      BY <3>1 DEF Accepting, Accept
    <3> QED BY <1>0, <1>5, <1>6, <1>9, <3>1, <3>2, <3>3
  <2>3. CASE Make
    <3>1. loop'.buf = made + 1
      BY <1>0, <2>3 DEF Make, TypeOK, LoopTypes
    <3> QED BY <1>7, <2>3, <3>1
  <2>4. CASE Accept
    BY <1>9, <2>4 DEF Accept, IdleLoop
  <2>5. ASSUME NEW d \in Conns, NEW n \in Nat, Read(d, n) PROVE FALSE
    BY <1>9, <2>5 DEF Read
  <2> QED BY <2>1, <2>2, <2>3, <2>4, <2>5, LoopStays DEF LoopStep
<1>10. ~Starts(s[i])
  BY <1>3, <1>5 DEF r, s
<1> QED BY <1>8, <1>9, <1>10

\* AnsweredInv is inductive.
LEMMA StepAnsweredInv == SInv /\ OwnedInv /\ AnsweredInv /\ Next => AnsweredInv'
<1> SUFFICES ASSUME SInv, OwnedInv, AnsweredInv, Next PROVE AnsweredInv'
  OBVIOUS
<1>0. OnePending /\ OneWritePerStream /\ Awaited /\ AtMostOneAnswer
  BY DEF AnsweredInv
<1>1. ASSUME Queueing, loop.conn \notin early' PROVE ~Pending(loop.conn) /\ asked[loop.conn] = Len(got[loop.conn]) + 1
  <2>1. Accept /\ loop.conn \in Conns
    BY <1>1 DEF Queueing, Accept, SInv, LoopOK
  <2> QED BY <1>1, <2>1, AcceptAnswered
<1>2. OnePending' /\ OneWritePerStream'
  BY <1>0, <1>1, StepOnePending
<1>3. Awaited' /\ AtMostOneAnswer'
  BY <1>0, <1>1, StepAwaited
<1>4. ASSUME NEW c \in Conns \ early' PROVE Answered(c)'
  BY AcceptAnswered, StepAnswered
<1> QED BY <1>2, <1>3, <1>4 DEF AnsweredInv

\* At first nothing is asked.
LEMMA InitAnswered == Init => AnsweredInv
<1> SUFFICES ASSUME Init PROVE AnsweredInv
  OBVIOUS
<1>1. ASSUME NEW c \in Conns PROVE ~Pending(c)
  BY DEF Init, Pending, Serving, IdleWorker
<1>2. OnePending /\ OneWritePerStream /\ AtMostOneAnswer
  BY DEF Init, OnePending, OneWritePerStream, AtMostOneAnswer, Serving, IdleWorker
<1>3. Awaited
  BY <1>1 DEF Awaited
<1>4. ASSUME NEW c \in Conns PROVE Answered(c)
  BY DEF Init, Answered, Present
<1> QED BY <1>2, <1>3, <1>4 DEF AnsweredInv

----------------------------------------------------------------------------
\* The first answer.
LEMMA FirstStays ==
  ASSUME SInv, Next, NEW c \in Conns, got[c] = <<>>, NEW b \in BufferIds, FirstOf(c, b),
         Accepting(b) => loop.conn = c
  PROVE  buffer'[b].req \in {<<>>, <<c, 1>>}
<1>1. CASE Same(buffer'[b], buffer[b])
  BY <1>1 DEF Same, FirstOf
<1>2. CASE Accepting(b)
  <2>1. /\ loop.pc = "accept" /\ loop.conn = c /\ b = loop.buf
        /\ buffer[b] \in BufferTypes /\ BufferOK(buffer[b]) /\ buffer'[b] = Accepted(buffer[b], loop.data)
    BY <1>2 DEF Accepting, Accept, SInv, TypeOK
  <2>2. /\ loop.data \in Seq(Pieces) /\ loop.data # <<>> /\ 1 \in DOMAIN loop.data /\ loop.data[1].req[1] = c
        /\ 1 \in DOMAIN Rest(c) /\ Rest(c)[1] = loop.data[1]
    BY <2>1, FirstData
  <2>3. loop.data[1].req \in Requests
    <3>1. loop.data[1] \in Pieces
      BY <2>2
    <3> QED BY <3>1 DEF Pieces
  <2>4. loop.data[1].req[2] <= 1
    <3>1. InOrder(c) /\ asked[c] <= Len(got[c]) + 1 /\ Len(got[c]) = 0
      BY DEF SInv, AskedOnce
    <3>2. loop.data[1].req[2] <= asked[c]
      BY <2>2, <3>1 DEF InOrder
    <3>3. asked[c] \in Nat /\ asked[c] <= 1
      BY <3>1, ConnTypes DEF SInv
    <3>4. loop.data[1].req[2] \in Nat
      BY <2>3 DEF Requests
    <3> QED BY <3>2, <3>3, <3>4
  <2>5. loop.data[1].req = <<c, 1>>
    <3>1. loop.data[1].req \in Requests
      BY <2>3
    <3>2. \A x \in Requests : x[1] = c /\ x[2] <= 1 => x = <<c, 1>>
      BY DEF Requests
    <3> QED BY <2>2, <2>4, <3>1, <3>2
  <2>6. buffer'[b].req \in {buffer[b].req, loop.data[1].req}
    <3>1. Accepted(buffer[b], loop.data).req \in {buffer[b].req, loop.data[1].req}
      BY <2>1, <2>2, AcceptedIs
    <3> QED BY <2>1, <3>1 DEF Accepting
  <2> QED BY <2>5, <2>6 DEF FirstOf
<1> QED BY <1>1, <1>2, BufferStep

\* A connection is fresh from its Connect on.
LEMMA FreshStep ==
  ASSUME SInv, Next, NEW c \in fresh'
  PROVE  c \in fresh \/ (c \in Conns /\ Connect(c) /\ table[KeyOf(c)] = 0)
<1>1. ASSUME NEW d \in Conns, Connect(d)
      PROVE  c \in fresh \/ (c \in Conns /\ Connect(c) /\ table[KeyOf(c)] = 0)
  BY <1>1 DEF Connect
<1>2. ASSUME NEW d \in Conns, Leave(d) \/ Eof(d) \/ OnClose(d) PROVE fresh' = fresh
  BY <1>2 DEF Leave, Eof, OnClose
<1>3. ASSUME NEW d \in Conns, NEW shape \in Shapes[d], Ask(d, shape) PROVE fresh' = fresh
  BY <1>3 DEF Ask
<1>4. ASSUME LoopStep \/ Delivery \/ Scan \/ Scanned \/ CleanUp PROVE fresh' = fresh
  BY <1>4 DEF LoopStep, At, Make, Accept, Delivery, Read, ReadNobody, Scan, Scanned, CleanUp
<1>5. ASSUME WriteStep PROVE fresh' = fresh
  BY <1>5 DEF WriteStep, WriteBegin, WriteEnd, WriteFreed
<1>6. ASSUME NEW w \in Workers, WorkerStep(w) PROVE fresh' = fresh
  BY <1>6 DEF WorkerStep, Take, PeerInfo, Route, QueueWork, Count, EraseKey, UseFreed
<1>7. ASSUME NEW b \in BufferIds, Age(b) PROVE fresh' = fresh
  BY <1>7 DEF Age
<1> QED BY <1>1, <1>2, <1>3, <1>4, <1>5, <1>6, <1>7 DEF Next

\* It starts with nothing in hand.
LEMMA FirstConnect ==
  ASSUME SInv, NEW c \in Conns, Connect(c), table[KeyOf(c)] = 0
  PROVE  First(c)'
<1>1. /\ conn[c] = "new" /\ loop.pc = "idle" /\ conn'[c] = "open"
      /\ got' = got /\ table' = table /\ loop' = loop /\ jobs' = jobs /\ worker' = worker /\ writes' = writes
  BY DEF Connect, clients, SInv, TypeOK
<1>2. got[c] = <<>>
  BY <1>1 DEF SInv, Untouched
<1>3. /\ \A i \in DOMAIN jobs : jobs[i].conn # c
      /\ \A i \in DOMAIN writes : writes[i].conn # c
      /\ \A w \in Workers : worker[w].conn = c => ~Serving(w)
  BY <1>1 DEF SInv, JobsOK, WritesOK, WorkersOK
<1> QED BY <1>1, <1>2, <1>3 DEF First, Serving, KeyOf

\* Until it has its first answer, what is in hand for it is its first request.
LEMMA FirstStep ==
  ASSUME SInv, OwnedInv, Next, NEW c \in Conns, First(c)
  PROVE  First(c)'
<1>0. /\ TypeOK /\ LoopOK /\ UnusedOK /\ JobsOK /\ WorkersOK
      /\ conn[c] # "new" /\ conn'[c] # "new" /\ got[c] \in Seq(Requests)
      /\ KeyOf(c) \in Peers /\ table[KeyOf(c)] \in BufferIds \cup {0}
  BY ConnTypes, ConnStep DEF SInv, First
<1>1. got'[c] # <<>> => got'[c][1] = <<c, 1>>
  <2>1. CASE got'[c] = got[c]
    BY <2>1 DEF First
  <2>2. CASE Answering(c)
    <3>1. PICK i \in DOMAIN writes : writes[i].conn = c /\ got'[c] = Append(got[c], writes[i].req)
      BY <2>2 DEF Answering
    <3>2. writes[i].req \in Requests
      BY <1>0, WritesTypes
    <3>3. CASE got[c] = <<>>
      <4>1. writes[i].req = <<c, 1>>
        BY <3>1, <3>3 DEF First
      <4>2. Append(<<>>, <<c, 1>>)[1] = <<c, 1>>
        OBVIOUS
      <4> QED BY <3>1, <3>3, <4>1, <4>2
    <3>4. CASE got[c] # <<>>
      <4>1. 1 \in DOMAIN got[c] /\ got[c][1] = <<c, 1>>
        BY <1>0, <3>4, LastIs DEF First
      <4>2. got'[c][1] = got[c][1]
        BY <1>0, <3>1, <3>2, <4>1, AppendProperties
      <4> QED BY <4>1, <4>2
    <3> QED BY <3>3, <3>4
  <2> QED BY <2>1, <2>2, GotStep
<1>2. SUFFICES ASSUME got'[c] = <<>>
               PROVE
       /\ Present(c)' /\ table'[KeyOf(c)] # 0 => buffer'[table'[KeyOf(c)]].req \in {<<>>, <<c, 1>>}
       /\ loop'.pc = "accept" /\ loop'.conn = c => buffer'[loop'.buf].req \in {<<>>, <<c, 1>>}
       /\ \A i \in DOMAIN jobs' : jobs'[i].conn = c => buffer'[jobs'[i].buf].req \in {<<>>, <<c, 1>>}
       /\ \A w \in Workers : worker'[w].conn = c =>
            /\ worker'[w].pc \in {"peer", "route"} => buffer'[worker'[w].buf].req \in {<<>>, <<c, 1>>}
            /\ worker'[w].pc = "queue" => worker'[w].answer = <<c, 1>>
       /\ \A i \in DOMAIN writes' : writes'[i].conn = c => writes'[i].req = <<c, 1>>
  <2>1. (KeyOf(c))' = KeyOf(c)
    BY DEF KeyOf
  <2> QED BY <1>0, <1>1, <2>1 DEF First, FirstOf
<1>3. got[c] = <<>>
  <2>1. ASSUME Answering(c) PROVE FALSE
    <3>1. PICK i \in DOMAIN writes : got'[c] = Append(got[c], writes[i].req)
      BY <2>1 DEF Answering
    <3>2. Len(Append(got[c], writes[i].req)) = Len(got[c]) + 1 /\ Len(got[c]) \in Nat
      BY <1>0, WritesTypes, AppendProperties
    <3> QED BY <1>2, <3>1, <3>2
  <2> QED BY <1>2, <2>1, GotStep
<1>4. /\ Present(c) /\ table[KeyOf(c)] # 0 => FirstOf(c, table[KeyOf(c)])
      /\ loop.pc = "accept" /\ loop.conn = c => FirstOf(c, loop.buf)
      /\ \A i \in DOMAIN jobs : jobs[i].conn = c => FirstOf(c, jobs[i].buf)
      /\ \A w \in Workers : worker[w].conn = c =>
           /\ worker[w].pc \in {"peer", "route"} => FirstOf(c, worker[w].buf)
           /\ worker[w].pc = "queue" => worker[w].answer = <<c, 1>>
      /\ \A i \in DOMAIN writes : writes[i].conn = c => writes[i].req = <<c, 1>>
  BY <1>3 DEF First
<1>5. ASSUME Make PROVE buffer'[made + 1].req \in {<<>>, <<c, 1>>}
  <2>1. made + 1 \in BufferIds /\ made + 1 > made
    BY <1>0, <1>5, BoundsAssumption DEF Make, BufferIds, TypeOK
  <2>2. buffer[made + 1].req = <<>> /\ buffer' = buffer
    BY <1>0, <1>5, <2>1 DEF UnusedOK, Make, SInv, BufferOK
  <2> QED BY <2>2
<1>6. ASSUME Present(c)', table'[KeyOf(c)] # 0 PROVE buffer'[table'[KeyOf(c)]].req \in {<<>>, <<c, 1>>}
  <2>1. Present(c)
    BY <1>0, <1>6, ConnStep DEF Connect
  <2>2. CASE table'[KeyOf(c)] = table[KeyOf(c)]
    <3>1. Accepting(table[KeyOf(c)]) => loop.conn = c
      BY <1>6, <2>1, <2>2, OtherBuffer DEF Accepting, Accept
    <3> QED BY <1>0, <1>3, <1>4, <1>6, <2>1, <2>2, <3>1, FirstStays
  <2>3. CASE Make /\ table'[KeyOf(c)] = made + 1
    BY <1>5, <2>3
  <2> QED BY <1>0, <1>6, <2>2, <2>3, TableStep
<1>7. ASSUME loop'.pc = "accept", loop'.conn = c PROVE buffer'[loop'.buf].req \in {<<>>, <<c, 1>>}
  <2>1. CASE UNCHANGED loop
    <3>1. loop.buf \in BufferIds
      BY <1>0, <1>7, <2>1, LoopIs
    <3> QED BY <1>3, <1>4, <1>7, <2>1, <3>1, FirstStays
  <2>2. CASE At
    <3>1. loop' = [loop EXCEPT !.pc = "accept", !.buf = table[KeyOf(loop.conn)]] /\ table[KeyOf(loop.conn)] # 0
          /\ loop.pc = "at" /\ buffer' = buffer /\ Present(loop.conn)
      BY <1>0, <1>7, <2>2, LoopIs DEF At, LoopOK
    <3>2. loop'.buf = table[KeyOf(loop.conn)] /\ loop'.conn = loop.conn
      BY <1>0, <3>1 DEF TypeOK, LoopTypes
    <3> QED BY <1>4, <1>7, <3>1, <3>2 DEF FirstOf
  <2>3. CASE Make
    <3>1. loop'.buf = made + 1
      BY <1>0, <2>3 DEF Make, TypeOK, LoopTypes
    <3> QED BY <1>5, <2>3, <3>1
  <2>4. CASE Accept
    BY <1>7, <2>4 DEF Accept, IdleLoop
  <2>5. ASSUME NEW d \in Conns, NEW n \in Nat, Read(d, n) PROVE FALSE
    BY <1>7, <2>5 DEF Read
  <2> QED BY <2>1, <2>2, <2>3, <2>4, <2>5, LoopStays DEF LoopStep
<1>8. ASSUME NEW i \in DOMAIN jobs, jobs[i].conn = c
      PROVE  FirstOf(c, jobs[i].buf) /\ buffer'[jobs[i].buf].req = buffer[jobs[i].buf].req
  <2>1. jobs[i].buf \in BufferIds /\ buffer[jobs[i].buf].protocol = "http"
    BY <1>0, JobsTypes DEF JobsOK
  <2> QED BY <1>4, <1>8, <2>1, BufferStays
<1>9. ASSUME NEW i \in DOMAIN jobs', jobs'[i].conn = c PROVE buffer'[jobs'[i].buf].req \in {<<>>, <<c, 1>>}
  <2>1. ASSUME NEW k \in DOMAIN jobs, jobs'[i] = jobs[k] PROVE buffer'[jobs'[i].buf].req \in {<<>>, <<c, 1>>}
    BY <1>8, <1>9, <2>1 DEF FirstOf
  <2>2. CASE Queueing /\ jobs'[i] = TheJob
    <3>1. loop.buf \in BufferIds /\ loop.pc = "accept" /\ loop.conn = c /\ jobs'[i].buf = loop.buf
      <4>1. loop.pc = "accept"
        BY <2>2 DEF Queueing, Accept
      <4>2. jobs'[i].conn = loop.conn /\ jobs'[i].buf = loop.buf
        BY <2>2 DEF TheJob
      <4> QED BY <1>0, <1>9, <4>1, <4>2, LoopIs
    <3> QED BY <1>3, <1>4, <3>1, FirstStays
  <2> QED BY <2>1, <2>2, EachJob
<1>10. ASSUME NEW w \in Workers, worker'[w].conn = c
       PROVE  /\ worker'[w].pc \in {"peer", "route"} => buffer'[worker'[w].buf].req \in {<<>>, <<c, 1>>}
              /\ worker'[w].pc = "queue" => worker'[w].answer = <<c, 1>>
  <2>0. worker[w] \in WorkerTypes
    BY <1>0 DEF TypeOK
  <2>1. ASSUME worker[w].pc \in {"peer", "route"}, worker[w].conn = c
        PROVE  /\ buffer[worker[w].buf].req \in {<<>>, <<c, 1>>} /\ buffer[worker[w].buf].req \in Requests
               /\ buffer'[worker[w].buf].req = buffer[worker[w].buf].req
    <3>1. worker[w].buf \in BufferIds /\ buffer[worker[w].buf].protocol = "http"
      BY <1>0, <2>1 DEF WorkersOK
    <3> QED BY <1>4, <2>1, <3>1, BufferStays DEF FirstOf, SInv, BufferOK
  <2>2. CASE worker'[w] = worker[w]
    BY <1>4, <1>10, <2>1, <2>2
  <2>3. CASE Take(w)
    <3>1. 1 \in DOMAIN jobs /\ worker'[w].conn = jobs[1].conn /\ worker'[w].buf = jobs[1].buf
          /\ worker'[w].pc = "peer"
      BY <2>3, TakeIs
    <3> QED BY <1>8, <1>10, <3>1 DEF FirstOf
  <2>4. CASE PeerInfo(w)
    <3>1. worker'[w] = [worker[w] EXCEPT !.pc = "route"] /\ worker[w].pc = "peer"
      BY <1>0, <2>4 DEF PeerInfo, TypeOK
    <3>2. worker'[w].pc = "route" /\ worker'[w].conn = worker[w].conn /\ worker'[w].buf = worker[w].buf
      BY <2>0, <3>1 DEF WorkerTypes
    <3> QED BY <1>10, <2>1, <3>1, <3>2
  <2>5. CASE Route(w)
    <3>1. worker'[w] = [worker[w] EXCEPT !.pc = "queue", !.answer = buffer[worker[w].buf].req]
          /\ worker[w].pc = "route"
      BY <1>0, <2>5 DEF Route, TypeOK
    <3>2. worker'[w].pc = "queue" /\ worker'[w].conn = worker[w].conn
          /\ worker'[w].answer = buffer[worker[w].buf].req
      BY <2>0, <3>1 DEF WorkerTypes
    <3> QED BY <1>10, <2>1, <3>1, <3>2, NoRequest
  <2>6. CASE QueueWork(w)
    <3>1. worker'[w] = [worker[w] EXCEPT !.pc = "count", !.key = buffer[worker[w].buf].from]
      BY <1>0, <2>6 DEF QueueWork, TypeOK
    <3> QED BY <2>0, <3>1 DEF WorkerTypes
  <2>7. CASE Count(w)
    <3>1. worker'[w] = IdleWorker \/ worker'[w] = [worker[w] EXCEPT !.pc = "erase"]
      BY <1>0, <2>7 DEF Count, TypeOK
    <3> QED BY <2>0, <3>1 DEF WorkerTypes, IdleWorker
  <2>8. CASE EraseKey(w)
    BY <1>0, <2>8 DEF EraseKey, TypeOK, IdleWorker
  <2>9. CASE UseFreed(w)
    BY <2>2, <2>9 DEF UseFreed
  <2> QED BY <2>2, <2>3, <2>4, <2>5, <2>6, <2>7, <2>8, <2>9, EachWorker DEF WorkerStep
<1>11. ASSUME NEW i \in DOMAIN writes', writes'[i].conn = c PROVE writes'[i].req = <<c, 1>>
  <2>1. \A w \in Workers : QueueWork(w) => worker[w].pc = "queue"
    BY DEF QueueWork
  <2> QED BY <1>4, <1>11, <2>1, EachWrite
<1> QED BY <1>6, <1>7, <1>9, <1>10, <1>11

\* FirstInv is inductive.
LEMMA StepFirst == SInv /\ OwnedInv /\ FirstInv /\ Next => FirstInv'
<1> SUFFICES ASSUME SInv, OwnedInv, FirstInv, Next, NEW c \in fresh' PROVE First(c)'
  BY DEF FirstInv
<1>1. CASE c \in fresh
  <2>1. c \in Conns /\ First(c)
    BY <1>1 DEF FirstInv, SInv, TypeOK
  <2> QED BY <2>1, FirstStep
<1>2. CASE c \in Conns /\ Connect(c) /\ table[KeyOf(c)] = 0
  BY <1>2, FirstConnect
<1> QED BY <1>1, <1>2, FreshStep

----------------------------------------------------------------------------
\* Steps that change nothing.
LEMMA Stutter ==
  ASSUME UNCHANGED vars
  PROVE  /\ OwnedInv => OwnedInv'
         /\ NoCrossTalk => NoCrossTalk'
         /\ AnsweredInv => AnsweredInv'
         /\ FirstInv => FirstInv'
<1>1. OwnedInv => OwnedInv'
  BY DEF vars, OwnedInv, Owned, BufferIds
<1>2. NoCrossTalk => NoCrossTalk'
  BY DEF vars, clients, NoCrossTalk
<1>3. AnsweredInv => AnsweredInv'
  <2>1. OnePending => OnePending'
    BY DEF vars, OnePending, Serving
  <2>2. OneWritePerStream => OneWritePerStream'
    BY DEF vars, OneWritePerStream
  <2>3. \A c \in Conns : (Pending(c)' <=> Pending(c)) /\ Rest(c)' = Rest(c)
    BY DEF vars, clients, Pending, Serving, Rest
  <2>4. \A c \in Conns : Top(c)' = Top(c)
    BY <2>3 DEF vars, clients, Top
  <2>5. Awaited => Awaited'
    BY <2>3 DEF vars, clients, Awaited
  <2>6. AtMostOneAnswer => AtMostOneAnswer'
    BY DEF vars, clients, AtMostOneAnswer
  <2>7. ASSUME NEW c \in Conns, Answered(c) PROVE Answered(c)'
    BY <2>3, <2>4, <2>7 DEF vars, Answered, Present, KeyOf, Starts, Deaf, Empty
  <2>8. (\A c \in Conns \ early : Answered(c)) => (\A c \in Conns \ early : Answered(c))'
    BY <2>7 DEF vars
  <2> QED BY <2>1, <2>2, <2>5, <2>6, <2>8 DEF AnsweredInv
<1>4. FirstInv => FirstInv'
  BY DEF vars, clients, FirstInv, First, FirstOf, Present, KeyOf
<1> QED BY <1>1, <1>2, <1>3, <1>4

----------------------------------------------------------------------------
\* The invariants hold always: SInv, ...
LEMMA AlwaysSInv == Spec => []SInv
BY InitSInv, StepSInv, PTL DEF Spec

\* server.hpp: the table, the buffers, the closures and the writes hold what they
\* are declared to hold; in particular no worker handles a closure without a
\* connection or a buffer.
THEOREM ServerTypeOK == Spec => []TypeOK
<1>1. SInv => TypeOK
  BY DEF SInv
<1> QED BY <1>1, AlwaysSInv, PTL

\* ... the buffers' peers, ...
LEMMA AlwaysOwned == Spec => [](OwnedInv /\ NoCrossTalk)
<1>1. OwnedInv /\ NoCrossTalk /\ SInv /\ [Next]_vars => OwnedInv' /\ NoCrossTalk'
  BY StepOwned, StepCrossTalk, Stutter
<1> QED BY <1>1, AlwaysSInv, InitOwned, PTL DEF Spec

\* server.hpp:287-294: the answer a connection gets was made for a request of its
\* own peer.
THEOREM ServerNoCrossTalk == Spec => []NoCrossTalk
BY AlwaysOwned, PTL

\* ... the pieces left of answered requests.
LEMMA AlwaysAnswered == Spec => []AnsweredInv
<1>1. AnsweredInv /\ SInv /\ OwnedInv /\ [Next]_vars => AnsweredInv'
  BY StepAnsweredInv, Stutter
<1> QED BY <1>1, AlwaysSInv, AlwaysOwned, InitAnswered, PTL DEF Spec

\* server.hpp:291-294: no client gets two answers to one request, unless a read that
\* ended within its headers was taken for its end (protocol.hpp:335-339).
THEOREM ServerAtMostOneAnswer == Spec => []AtMostOneAnswer
<1>1. AnsweredInv => AtMostOneAnswer
  BY DEF AnsweredInv
<1> QED BY <1>1, AlwaysAnswered, PTL

\* server.hpp:204-210, 231: never two writes to one connection, though libuv's
\* threads are several, with the same exception: a request that is taken for complete
\* twice is handed to the pool twice.
THEOREM ServerOneWritePerStream == Spec => []OneWritePerStream
<1>1. AnsweredInv => OneWritePerStream
  BY DEF AnsweredInv
<1> QED BY <1>1, AlwaysAnswered, PTL

\* At first no connection is fresh.
LEMMA InitFirst == Init => FirstInv
BY DEF Init, FirstInv

\* server.hpp:217-236: the first answer to a connection whose peer had left no
\* buffer behind is the one to its first request.
THEOREM ServerFirstAnswerIsOwn == Spec => []FirstAnswerIsOwn
<1>1. FirstInv /\ SInv /\ OwnedInv /\ [Next]_vars => FirstInv'
  BY StepFirst, Stutter
<1>2. FirstInv => FirstAnswerIsOwn
  BY DEF FirstInv, First, FirstAnswerIsOwn
<1> QED BY <1>1, <1>2, AlwaysSInv, AlwaysOwned, InitFirst, PTL DEF Spec

----------------------------------------------------------------------------
\* What is in a buffer of which the first line has been read, if anything: when the
\* headers have ended, its length is one that they say, if they say one.
Says(s, i) == s[i].part \in DOMAIN LengthOf
TakenIn(b) ==
  /\ b.content = <<>> => b.protocol = "unknown" /\ b.ended = 0
  /\ b.content # <<>> => b.protocol = "http"
  /\ b.ended = 0 => \A i \in DOMAIN b.content : ~EndsHeaders(b.content, i)
  /\ b.ended # 0 =>
       /\ b.ended \in DOMAIN b.content /\ EndsHeaders(b.content, b.ended)
       /\ \/ b.length = NoLength /\ \A i \in 1 .. b.ended : ~Says(b.content, i)
          \/ \E i \in 1 .. b.ended : Says(b.content, i) /\ b.length = LengthOf[b.content[i].part]

\* The first request of c, cut in what is in its buffer and what is to come.
BufferOf(c) == table[PeerOf[c]]
Content(c) == IF BufferOf(c) = 0 THEN <<>> ELSE buffer[BufferOf(c)].content
FirstRequest(c, shape) == [i \in DOMAIN shape |-> [part |-> shape[i], req |-> <<c, 1>>]]
Coming(c) ==
  /\ Rest(c) # <<>>
  /\ \E shape \in Shapes[c] : Content(c) \o Rest(c) = FirstRequest(c, shape)

\* Nobody has begun to answer c, or to free its buffer.
Unserved(c) ==
  /\ \A b \in BufferIds : buffer[b].from # PeerOf[c]
  /\ \A w \in Workers : worker[w].key # PeerOf[c]
  /\ PeerOf[c] \notin cleaner.keys
  /\ BufferOf(c) # 0 => ~buffer[BufferOf(c)].old /\ TakenIn(buffer[BufferOf(c)])
  /\ loop.conn = c => /\ loop.pc = "at" => BufferOf(c) # 0
                      /\ loop.pc = "accept" => BufferOf(c) = loop.buf
  /\ asked[c] = 0 => BufferOf(c) = 0 /\ Rest(c) = <<>>
  /\ asked[c] # 0 => Coming(c)

Waiting(c) == c \in Answerable /\ conn[c] \in {"new", "open"} /\ got[c] = <<>> /\ ~Pending(c)
NotLostInv ==
  /\ \A b \in BufferIds : b > made => buffer[b] = NewBuffer
  /\ \A c \in Conns : Waiting(c) => Unserved(c)

\* The first request of an answerable connection is with the server, or part of it is
\* still to be read.
FirstNotLost ==
  \A c \in Answerable : conn[c] = "open" /\ got[c] = <<>> /\ asked[c] # 0 =>
    Pending(c) \/ Rest(c) # <<>>

\* What a step does to a buffer, in full.
LEMMA BufferChange ==
  ASSUME SInv, Next, NEW b \in BufferIds
  PROVE  \/ buffer'[b] = buffer[b]
         \/ Accepting(b)
         \/ \E w \in Workers : /\ PeerInfo(w) /\ b = worker[w].buf
                               /\ buffer'[b] = [buffer[b] EXCEPT !.from = PeerOf[worker[w].conn]]
         \/ Age(b) /\ buffer'[b] = [buffer[b] EXCEPT !.old = TRUE]
<1>0. TypeOK /\ buffer[b] \in BufferTypes
  BY DEF SInv, TypeOK
<1>1. CASE Accept
  BY <1>0, <1>1, LoopIs DEF Accept, Accepting, TypeOK
<1>2. ASSUME NEW w \in Workers, PeerInfo(w)
      PROVE  \/ buffer'[b] = buffer[b]
             \/ b = worker[w].buf /\ buffer'[b] = [buffer[b] EXCEPT !.from = PeerOf[worker[w].conn]]
  BY <1>0, <1>2 DEF PeerInfo, TypeOK
<1>3. ASSUME NEW e \in BufferIds, Age(e)
      PROVE  buffer'[b] = buffer[b] \/ (Age(b) /\ buffer'[b] = [buffer[b] EXCEPT !.old = TRUE])
  BY <1>0, <1>3 DEF Age, TypeOK
<1>4. ASSUME NEW c \in Conns, Connect(c) \/ Leave(c) \/ Eof(c) \/ OnClose(c) PROVE UNCHANGED buffer
  BY <1>4 DEF Connect, Leave, Eof, OnClose
<1>5. ASSUME NEW c \in Conns, NEW shape \in Shapes[c], Ask(c, shape) PROVE UNCHANGED buffer
  BY <1>5 DEF Ask
<1>6. ASSUME At \/ Make \/ Delivery \/ Scan \/ Scanned \/ CleanUp PROVE UNCHANGED buffer
  BY <1>6 DEF At, Make, Delivery, Read, ReadNobody, Scan, Scanned, CleanUp
<1>7. ASSUME WriteStep PROVE UNCHANGED buffer
  BY <1>7 DEF WriteStep, WriteBegin, WriteEnd, WriteFreed
<1>8. ASSUME NEW w \in Workers, WorkerStep(w) PROVE UNCHANGED buffer \/ PeerInfo(w)
  BY <1>8 DEF WorkerStep, Take, Route, QueueWork, Count, EraseKey, UseFreed
<1> QED BY <1>1, <1>2, <1>3, <1>4, <1>5, <1>6, <1>7, <1>8 DEF Next, LoopStep

\* accept() on a buffer of which the first line has been read, or is read now.
LEMMA TakesMore ==
  ASSUME NEW b \in BufferTypes, BufferOK(b), TakenIn(b), NEW data \in Seq(Pieces), data # <<>>,
         b.content = <<>> => data[1].part \in WholeLine
  PROVE  LET r == Accepted(b, data) IN TakenIn(r) /\ ~r.old /\ r.from = b.from
<1> DEFINE all == b.content \o data
           s == [b EXCEPT !.content = all, !.old = FALSE]
           q == Probe(s)
           r == ParseHeaders(q)
<1>1. b.content \in Seq(Pieces)
  BY DEF BufferTypes
<1>2. /\ all \in Seq(Pieces) /\ all # <<>> /\ DOMAIN all = 1 .. Len(all) /\ Len(all) \in Nat
      /\ \A i \in DOMAIN b.content : i \in DOMAIN all /\ all[i] = b.content[i]
      /\ b.content = <<>> => all[1] = data[1]
  <2>1. all \in Seq(Pieces) /\ all # <<>>
    BY <1>1, ConcatProperties, ConcatEqualIffEmpty
  <2>2. \A i \in DOMAIN b.content : i \in DOMAIN all /\ all[i] = b.content[i]
    BY <1>1, ConcatProperties
  <2>3. b.content = <<>> => all = data
    OBVIOUS
  <2> HIDE DEF all
  <2> QED BY <2>1, <2>2, <2>3
<1> HIDE DEF all
<1>3. /\ s \in BufferTypes /\ s.content = all /\ s.old = FALSE /\ s.from = b.from
      /\ s.protocol = b.protocol /\ s.ended = b.ended /\ s.length = b.length
  BY <1>2 DEF BufferTypes
<1>4. Accepted(b, data) = r
  BY DEF Accepted, all
<1> HIDE DEF s
<1>5. /\ q.content = all /\ q.old = FALSE /\ q.from = b.from /\ q.ended = b.ended /\ q.length = b.length
      /\ q.protocol = "http" /\ q \in BufferTypes
  <2>1. q \in BufferTypes /\ q.content = all /\ q.ended = b.ended /\ q.length = b.length
    BY <1>2, <1>3, ProbedIs
  <2>2. CASE b.content = <<>>
    <3>1. s.protocol = "unknown" /\ FirstLine(s.content)
      BY <1>2, <1>3, <2>2 DEF TakenIn, FirstLine
    <3>2. q = [s EXCEPT !.protocol = "http", !.req = s.content[1].req]
      BY <3>1 DEF Probe
    <3> HIDE DEF q
    <3> QED BY <1>3, <2>1, <3>2 DEF BufferTypes
  <2>3. CASE b.content # <<>>
    <3>1. s.protocol = "http"
      BY <1>3, <2>3 DEF TakenIn
    <3>2. q = s
      BY <3>1 DEF Probe
    <3> QED BY <1>3, <2>1, <3>1, <3>2
  <2> QED BY <2>2, <2>3
<1> HIDE DEF q
<1>6. CASE b.ended # 0
  <2>1. r = q
    BY <1>5, <1>6 DEF ParseHeaders
  <2>2. /\ b.ended \in DOMAIN b.content /\ EndsHeaders(b.content, b.ended)
        /\ \/ b.length = NoLength /\ \A i \in 1 .. b.ended : ~Says(b.content, i)
           \/ \E i \in 1 .. b.ended : Says(b.content, i) /\ b.length = LengthOf[b.content[i].part]
    BY <1>6 DEF TakenIn
  <2>3. /\ b.ended \in DOMAIN all /\ 1 \in DOMAIN b.content
        /\ \A i \in 1 .. b.ended : i \in DOMAIN b.content
    BY <1>1, <1>2, <2>2
  <2>4. EndsHeaders(all, b.ended)
    BY <1>2, <2>2, <2>3 DEF EndsHeaders
  <2>5. \/ b.length = NoLength /\ \A i \in 1 .. b.ended : ~Says(all, i)
        \/ \E i \in 1 .. b.ended : Says(all, i) /\ b.length = LengthOf[all[i].part]
    BY <1>2, <2>2, <2>3 DEF Says
  <2> HIDE DEF r
  <2> QED BY <1>2, <1>4, <1>5, <1>6, <2>1, <2>3, <2>4, <2>5 DEF TakenIn
<1>7. CASE b.ended = 0
  <2>1. /\ r.content = all /\ r.protocol = "http"
        /\ r.ended = HeadersEnd(all) /\ r.length = LengthIn(all)
    BY <1>2, <1>5, <1>7, ParsedIs
  <2>2. r = [q EXCEPT !.ended = HeadersEnd(all), !.length = LengthIn(all)]
    BY <1>5, <1>7 DEF ParseHeaders
  <2> HIDE DEF r
  <2>3. r.old = FALSE /\ r.from = b.from
    BY <1>5, <2>2 DEF BufferTypes
  <2>4. /\ HeadersEnd(all) \in Nat
        /\ HeadersEnd(all) # 0 => HeadersEnd(all) \in DOMAIN all /\ EndsHeaders(all, HeadersEnd(all))
        /\ HeadersEnd(all) = 0 => \A i \in DOMAIN all : ~EndsHeaders(all, i)
    BY <1>2, HeadersTypes
  <2>5. ASSUME HeadersEnd(all) # 0
        PROVE  \/ LengthIn(all) = NoLength /\ \A i \in 1 .. HeadersEnd(all) : ~Says(all, i)
               \/ \E i \in 1 .. HeadersEnd(all) : Says(all, i) /\ LengthIn(all) = LengthOf[all[i].part]
    <3>1. \/ LengthIn(all) = NoLength
             /\ \A i \in DOMAIN all : ~(all[i].part \in DOMAIN LengthOf /\ i <= HeadersEnd(all))
          \/ \E i \in DOMAIN all : /\ all[i].part \in DOMAIN LengthOf /\ i <= HeadersEnd(all)
                                   /\ LengthIn(all) = LengthOf[all[i].part]
      BY <1>2, <2>5, HeadersTypes
    <3> QED BY <1>2, <2>4, <2>5, <3>1 DEF Says
  <2> QED BY <1>2, <1>4, <2>1, <2>3, <2>4, <2>5 DEF TakenIn
<1> QED BY <1>6, <1>7

\* The pieces of a first request.
LEMMA FirstRequestIs ==
  ASSUME NEW c \in Conns, NEW shape \in Shapes[c]
  PROVE  /\ shape \in Seq(Parts) /\ Len(shape) \in Nat
         /\ FirstRequest(c, shape) \in Seq(Pieces) /\ Len(FirstRequest(c, shape)) = Len(shape)
         /\ \A i \in 1 .. Len(shape) : FirstRequest(c, shape)[i].part = shape[i]
<1>1. shape \in Seq(Parts)
  BY ShapesAssumption
<1>2. <<c, 1>> \in Requests
  BY DEF Requests
<1>3. \A i \in DOMAIN shape : FirstRequest(c, shape)[i] \in Pieces
  BY <1>1, <1>2 DEF Pieces, FirstRequest
<1> QED BY <1>1, <1>3 DEF FirstRequest

\* A buffer that holds all of it is complete.
LEMMA WholeIsComplete ==
  ASSUME NEW c \in Conns, NEW shape \in Shapes[c], Whole(shape),
         NEW r \in BufferTypes, BufferOK(r), TakenIn(r), r.content = FirstRequest(c, shape)
  PROVE  Status(r) = "complete"
<1> DEFINE n == Len(shape)
<1>1. /\ n \in Nat /\ n > 1 /\ Len(r.content) = n /\ DOMAIN r.content = 1 .. n /\ DOMAIN shape = 1 .. n
      /\ \A i \in 1 .. n : r.content[i].part = shape[i]
      /\ shape[1] \in WholeLine /\ shape[2] # "end"
  BY FirstRequestIs DEF Whole
<1>2. PICK e \in 1 .. n :
        LET says == {i \in 1 .. e : shape[i] \in DOMAIN LengthOf} IN
        /\ shape[e] \in EmptyLine
        /\ IF says = {} THEN e = n ELSE n > e /\ \A i \in says : LengthOf[shape[i]] = n - e
  BY <1>1 DEF Whole
<1>3. r.protocol = "http"
  BY <1>1 DEF TakenIn
<1>4. shape[1] \notin {"cut", "end"}
  BY <1>1, LengthAssumption DEF WholeLine, Plain
<1>5. EndsHeaders(r.content, e)
  <2>1. r.content[1].part = shape[1] /\ r.content[e].part = shape[e]
    <3>1. 1 \in 1 .. n /\ e \in 1 .. n
      BY <1>1
    <3> QED BY <1>1, <3>1
  <2>2. shape[e] = "end" => e # 1 /\ e # 2
    BY <1>1, <1>4
  <2>3. shape[e] = "end" => e > 2
    BY <1>2, <2>2
  <2> QED BY <1>2, <1>4, <2>1, <2>3 DEF EndsHeaders
<1>6. r.ended # 0
  BY <1>1, <1>5 DEF TakenIn
<1>7. r.ended = e
  <2>1. r.ended \in 1 .. n /\ shape[r.ended] \in EmptyLine
    BY <1>1, <1>6 DEF TakenIn, EndsHeaders
  <2>2. ~(e < r.ended) /\ ~(r.ended < e)
    BY <1>1, <1>2, <2>1, RequestAssumption
  <2> QED BY <2>1, <2>2
<1>8. CASE \A i \in 1 .. e : shape[i] \notin DOMAIN LengthOf
  <2>1. e = n
    BY <1>2, <1>8
  <2>2. r.length = NoLength
    BY <1>1, <1>7, <1>6, <1>8 DEF TakenIn, Says
  <2>3. ~(r.length > 0)
    BY <2>2 DEF NoLength
  <2>4. r.ended > 0 /\ r.content[Len(r.content)].part \in EmptyLine
    BY <1>1, <1>2, <1>7, <2>1
  <2> QED BY <1>3, <2>2, <2>3, <2>4 DEF Status
<1>9. CASE \E i \in 1 .. e : shape[i] \in DOMAIN LengthOf
  <2>1. n > e /\ \A i \in 1 .. e : shape[i] \in DOMAIN LengthOf => LengthOf[shape[i]] = n - e
    BY <1>2, <1>9
  <2>2. r.length = n - e
    BY <1>1, <1>7, <1>6, <1>9, <2>1 DEF TakenIn, Says
  <2>3. r.length > 0 /\ Follows(r) = r.length
    BY <1>1, <1>6, <1>7, <2>1, <2>2 DEF Follows
  <2> QED BY <1>3, <2>3 DEF Status
<1> QED BY <1>8, <1>9

\* What is pending stays so until the client has its answer.
LEMMA PendingStays ==
  ASSUME SInv, Next, NEW c \in Conns, Pending(c), conn[c] = "open"
  PROVE  Pending(c)' \/ Answering(c)
<1>0. TypeOK /\ jobs \in Seq(JobTypes) /\ writes \in Seq(WriteTypes) /\ got \in [Conns -> Seq(Requests)]
  BY DEF SInv, TypeOK
<1>1. CASE Still
  BY <1>1 DEF Still, Pending
<1>2. CASE Queueing /\ writes' = writes /\ worker' = worker
  <2>1. jobs' = Append(jobs, TheJob)
    BY <1>2 DEF Queueing
  <2>2. \A i \in DOMAIN jobs : i \in DOMAIN jobs' /\ jobs'[i] = jobs[i]
    BY <1>0, <2>1
  <2> QED BY <1>2, <2>2 DEF Pending, Serving
<1>3. ASSUME NEW w \in Workers, Take(w) PROVE Pending(c)'
  <2>1. /\ 1 \in DOMAIN jobs /\ ~Serving(w) /\ Serving(w)' /\ worker'[w].conn = jobs[1].conn
        /\ \A v \in Workers : v # w => worker'[v] = worker[v]
        /\ writes' = writes
    BY <1>3, TakeIs
  <2>2. jobs' = Tail(jobs) /\ jobs # <<>>
    BY <1>3 DEF Take
  <2>3. DOMAIN jobs' = 1 .. (Len(jobs) - 1) /\ \A i \in DOMAIN jobs' : jobs'[i] = jobs[i + 1]
    BY <1>0, <2>2, TailIs
  <2>4. ASSUME NEW i \in DOMAIN jobs, jobs[i].conn = c PROVE Pending(c)'
    <3>1. CASE i = 1
      BY <2>1, <2>4, <3>1 DEF Pending
    <3>2. CASE i # 1
      <4>1. i - 1 \in DOMAIN jobs' /\ (i - 1) + 1 = i
        BY <1>0, <2>3, <3>2
      <4> QED BY <2>3, <2>4, <4>1 DEF Pending
    <3> QED BY <3>1, <3>2
  <2>5. ASSUME NEW v \in Workers, Serving(v), worker[v].conn = c PROVE Pending(c)'
    BY <2>1, <2>5 DEF Pending, Serving
  <2> QED BY <2>1, <2>4, <2>5 DEF Pending
<1>4. ASSUME NEW w \in Workers, QueueWork(w) PROVE Pending(c)'
  <2>1. /\ jobs' = jobs /\ \A v \in Workers : v # w => worker'[v] = worker[v]
        /\ DOMAIN writes' = 1 .. (Len(writes) + 1) /\ DOMAIN writes = 1 .. Len(writes) /\ Len(writes) \in Nat
        /\ \A i \in DOMAIN writes : writes'[i] = writes[i]
        /\ writes'[Len(writes) + 1].conn = worker[w].conn
    BY <1>4, QueueWorkIs
  <2>2. Len(writes) + 1 \in DOMAIN writes' /\ \A i \in DOMAIN writes : i \in DOMAIN writes'
    BY <2>1
  <2>3. ASSUME NEW v \in Workers, Serving(v), worker[v].conn = c PROVE Pending(c)'
    BY <2>1, <2>2, <2>3 DEF Pending, Serving
  <2> QED BY <2>1, <2>2, <2>3 DEF Pending
<1>5. ASSUME NEW i \in DOMAIN writes, WriteEnd(i) PROVE Pending(c)' \/ Answering(c)
  <2>1. /\ jobs' = jobs /\ worker' = worker
        /\ i \in Nat /\ DOMAIN writes = 1 .. Len(writes) /\ DOMAIN writes' = 1 .. (Len(writes) - 1)
        /\ Len(writes) \in Nat
        /\ \A k \in 1 .. (Len(writes) - 1) : writes'[k] = IF k < i THEN writes[k] ELSE writes[k + 1]
    BY <1>5, WriteEndIs
  <2>2. CASE writes[i].conn = c
    BY <1>0, <1>5, <2>2 DEF Answering, WriteEnd
  <2>3. ASSUME NEW k \in DOMAIN writes, k # i, writes[k].conn = c PROVE Pending(c)'
    <3>1. CASE k < i
      <4>1. k \in DOMAIN writes' /\ writes'[k] = writes[k]
        BY <2>1, <3>1
      <4> QED BY <2>3, <4>1 DEF Pending
    <3>2. CASE ~(k < i)
      <4>1. k - 1 \in DOMAIN writes' /\ ~(k - 1 < i) /\ (k - 1) + 1 = k
        BY <2>1, <2>3, <3>2
      <4>2. writes'[k - 1] = writes[k]
        BY <2>1, <4>1
      <4> QED BY <2>3, <4>1, <4>2 DEF Pending
    <3> QED BY <3>1, <3>2
  <2> QED BY <2>1, <2>2, <2>3 DEF Pending, Serving
<1> QED BY <1>1, <1>2, <1>3, <1>4, <1>5, Moves

\* A connection that waits has waited from the beginning.
LEMMA WaitedBefore ==
  ASSUME SInv, Next, NEW c \in Conns, Waiting(c)'
  PROVE  Waiting(c) /\ (conn[c] = "open" \/ Connect(c) \/ conn'[c] = "new")
<1>0. TypeOK /\ got[c] \in Seq(Requests) /\ Alone(c) /\ got'[c] = <<>> /\ conn'[c] \in {"new", "open"} /\ ~Pending(c)'
  BY ConnTypes DEF SInv, Waiting, Answerable, Alone
<1>1. ~Answering(c)
  <2>1. ASSUME NEW r PROVE Append(got[c], r) # <<>>
    <3>1. Len(Append(got[c], r)) # 0
      BY <1>0
    <3> QED BY <3>1
  <2> QED BY <1>0, <2>1 DEF Answering
<1>2. got[c] = <<>>
  BY <1>0, <1>1, GotStep
<1>3. conn[c] = "new" \/ conn[c] = "open"
  BY <1>0, ConnStep DEF Connect
<1>4. conn[c] = "new" => ~Pending(c)
  BY DEF SInv, JobsOK, WorkersOK, WritesOK, Pending
<1>5. ~Pending(c)
  BY <1>0, <1>1, <1>3, <1>4, PendingStays
<1>6. conn[c] = "open" \/ Connect(c) \/ conn'[c] = "new"
  BY <1>0, ConnStep
<1> QED BY <1>0, <1>2, <1>3, <1>5, <1>6 DEF Waiting

\* The buffers not made yet are as new.
LEMMA UnmadeStays ==
  ASSUME SInv, Next, \A b \in BufferIds : b > made => buffer[b] = NewBuffer
  PROVE  (\A b \in BufferIds : b > made => buffer[b] = NewBuffer)'
<1>0. TypeOK /\ UnusedOK /\ WorkersOK /\ made \in Nat /\ (made' = made \/ made' = made + 1)
  BY MadeStep, BoundsAssumption DEF SInv, TypeOK, Make
<1>1. SUFFICES ASSUME NEW b \in BufferIds, b > made' PROVE buffer'[b] = NewBuffer
  BY DEF BufferIds, NewBuffer
<1>2. b > made /\ b \in Nat /\ buffer[b] = NewBuffer
  BY <1>0, <1>1 DEF BufferIds
<1>3. ~Accepting(b)
  <2>1. Accept => loop.pc = "accept"
    BY DEF Accept
  <2>2. loop.pc = "accept" => loop.buf <= made
    BY <1>0 DEF UnusedOK
  <2>3. b = loop.buf => ~(loop.buf <= made)
    BY <1>0, <1>2
  <2> QED BY <2>1, <2>2, <2>3 DEF Accepting
<1>4. ASSUME NEW w \in Workers, PeerInfo(w), b = worker[w].buf PROVE FALSE
  BY <1>0, <1>2, <1>4 DEF PeerInfo, WorkersOK, NewBuffer
<1>5. ~Age(b)
  BY <1>0, <1>2, PeersAssumption DEF Age, UnusedOK, TypeOK
<1> QED BY <1>2, <1>3, <1>4, <1>5, BufferChange

\* accept() does not know whose the bytes are.
LEMMA AcceptedFrom ==
  ASSUME NEW b \in BufferTypes, NEW data \in Seq(Pieces), data # <<>>
  PROVE  Accepted(b, data).from = b.from
<1> DEFINE s == [b EXCEPT !.content = b.content \o data, !.old = FALSE]
           q == Probe(s)
           r == ParseHeaders(q)
<1>1. s \in BufferTypes /\ s.from = b.from /\ s.content # <<>>
  <2>1. b.content \o data \in Seq(Pieces) /\ b.content \o data # <<>>
    BY ConcatProperties, ConcatEqualIffEmpty DEF BufferTypes
  <2> QED BY <2>1 DEF BufferTypes
<1>2. Accepted(b, data) = r
  BY DEF Accepted
<1> HIDE DEF s
<1>3. q.from = s.from
  BY <1>1 DEF Probe, BufferTypes
<1>4. q \in BufferTypes
  BY <1>1, ProbedIs
<1> HIDE DEF q
<1>5. r.from = q.from
  BY <1>4 DEF ParseHeaders, BufferTypes
<1> QED BY <1>1, <1>2, <1>3, <1>5

\* No worker begins with a connection that is not pending, and no other worker
\* writes its peer into a buffer.
LEMMA FromStays ==
  ASSUME SInv, Next, NEW c \in Conns, Waiting(c), Unserved(c), NEW b \in BufferIds
  PROVE  buffer'[b].from # PeerOf[c]
<1>0. TypeOK /\ WorkersOK /\ LoopOK /\ buffer[b] \in BufferTypes /\ buffer[b].from # PeerOf[c]
  BY DEF SInv, TypeOK, Unserved
<1>1. CASE buffer'[b] = buffer[b]
  BY <1>0, <1>1
<1>2. CASE Accepting(b)
  <2>1. loop.data \in Seq(Pieces) /\ loop.data # <<>>
    BY <1>0, <1>2, LoopIs DEF Accepting, Accept, LoopOK
  <2> QED BY <1>0, <1>2, <2>1, AcceptedFrom DEF Accepting
<1>3. ASSUME NEW w \in Workers, PeerInfo(w), buffer'[b] = [buffer[b] EXCEPT !.from = PeerOf[worker[w].conn]]
      PROVE  buffer'[b].from # PeerOf[c]
  <2>1. worker[w].pc = "peer" /\ worker[w].conn \in Conns
    BY <1>0, <1>3 DEF PeerInfo, WorkersOK
  <2>2. worker[w].conn # c
    BY <2>1 DEF Waiting, Pending, Serving
  <2>3. PeerOf[worker[w].conn] # PeerOf[c]
    BY <2>1, <2>2 DEF Waiting, Answerable, Alone
  <2>4. buffer'[b].from = PeerOf[worker[w].conn]
    BY <1>0, <1>3 DEF BufferTypes
  <2> QED BY <2>3, <2>4
<1>4. CASE buffer'[b] = [buffer[b] EXCEPT !.old = TRUE]
  BY <1>0, <1>4 DEF BufferTypes
<1> QED BY <1>1, <1>2, <1>3, <1>4, BufferChange

\* So no worker has it for the key of a buffer to free, ...
LEMMA KeysStay ==
  ASSUME SInv, Next, NEW c \in Conns, Unserved(c), NEW w \in Workers
  PROVE  worker'[w].key # PeerOf[c]
<1>0. /\ TypeOK /\ WorkersOK /\ worker[w] \in WorkerTypes /\ worker[w].key # PeerOf[c]
      /\ PeerOf[c] \in Peers /\ PeerOf[c] # NoPeer
  BY PeersAssumption DEF SInv, TypeOK, Unserved
<1>1. CASE worker'[w] = worker[w]
  BY <1>0, <1>1
<1>2. CASE Take(w) \/ EraseKey(w)
  <2>1. IdleWorker.key = NoPeer /\ \A d, b : [IdleWorker EXCEPT !.pc = "peer", !.conn = d, !.buf = b].key = NoPeer
    BY DEF IdleWorker
  <2>2. CASE Take(w)
    <3>1. worker'[w] = [IdleWorker EXCEPT !.pc = "peer", !.conn = Head(jobs).conn, !.buf = Head(jobs).buf]
      <4> DEFINE r == [IdleWorker EXCEPT !.pc = "peer", !.conn = Head(jobs).conn, !.buf = Head(jobs).buf]
      <4>1. worker' = [worker EXCEPT ![w] = r]
        BY <2>2 DEF Take
      <4> HIDE DEF r
      <4>2. worker'[w] = r
        BY <1>0, <4>1 DEF TypeOK
      <4> QED BY <4>2 DEF r
    <3> QED BY <1>0, <2>1, <3>1
  <2>3. CASE EraseKey(w)
    <3>1. worker'[w] = IdleWorker
      BY <1>0, <2>3 DEF EraseKey, TypeOK
    <3> QED BY <1>0, <2>1, <3>1
  <2> QED BY <1>2, <2>2, <2>3
<1>3. CASE PeerInfo(w)
  <2>1. worker'[w] = [worker[w] EXCEPT !.pc = "route"]
    BY <1>0, <1>3 DEF PeerInfo, TypeOK
  <2> QED BY <1>0, <2>1 DEF WorkerTypes
<1>4. CASE Route(w)
  <2>1. worker'[w] = [worker[w] EXCEPT !.pc = "queue", !.answer = buffer[worker[w].buf].req]
    BY <1>0, <1>4 DEF Route, TypeOK
  <2> QED BY <1>0, <2>1 DEF WorkerTypes
<1>5. CASE QueueWork(w)
  <2>1. worker'[w] = [worker[w] EXCEPT !.pc = "count", !.key = buffer[worker[w].buf].from]
    BY <1>0, <1>5 DEF QueueWork, TypeOK
  <2>2. worker[w].buf \in BufferIds
    BY <1>0, <1>5 DEF QueueWork, WorkersOK
  <2>3. buffer[worker[w].buf].from # PeerOf[c]
    BY <2>2 DEF Unserved
  <2> QED BY <1>0, <2>1, <2>3 DEF WorkerTypes
<1>6. CASE Count(w)
  <2>1. worker'[w] \in {IdleWorker, [worker[w] EXCEPT !.pc = "erase"]}
    BY <1>0, <1>6 DEF Count, TypeOK
  <2> QED BY <1>0, <2>1 DEF WorkerTypes, IdleWorker
<1>7. CASE UseFreed(w)
  BY <1>0, <1>7 DEF UseFreed
<1> QED BY <1>1, <1>2, <1>3, <1>4, <1>5, <1>6, <1>7, EachWorker DEF WorkerStep

\* ... nor does the clean-up, as its buffer is young.
LEMMA CleanerStays ==
  ASSUME SInv, Next, NEW c \in Conns, Unserved(c)
  PROVE  PeerOf[c] \notin cleaner'.keys
<1>0. TypeOK /\ PeerOf[c] \notin cleaner.keys
  BY DEF SInv, Unserved
<1>1. CASE UNCHANGED cleaner
  BY <1>0, <1>1
<1>2. CASE Scan \/ CleanUp
  BY <1>0, <1>2 DEF Scan, CleanUp, TypeOK
<1>3. CASE Scanned
  BY <1>3 DEF Scanned, Unserved, BufferOf
<1>4. ASSUME NEW d \in Conns, Connect(d) \/ Leave(d) \/ Eof(d) \/ OnClose(d) PROVE UNCHANGED cleaner
  BY <1>4 DEF Connect, Leave, Eof, OnClose
<1>5. ASSUME NEW d \in Conns, NEW shape \in Shapes[d], Ask(d, shape) PROVE UNCHANGED cleaner
  BY <1>5 DEF Ask
<1>6. ASSUME LoopStep \/ Delivery PROVE UNCHANGED cleaner
  BY <1>6 DEF LoopStep, At, Make, Accept, Delivery, Read, ReadNobody
<1>7. ASSUME WriteStep PROVE UNCHANGED cleaner
  BY <1>7 DEF WriteStep, WriteBegin, WriteEnd, WriteFreed
<1>8. ASSUME NEW w \in Workers, WorkerStep(w) PROVE UNCHANGED cleaner
  BY <1>8 DEF WorkerStep, Take, PeerInfo, Route, QueueWork, Count, EraseKey, UseFreed
<1>9. ASSUME NEW b \in BufferIds, Age(b) PROVE UNCHANGED cleaner
  BY <1>9 DEF Age
<1> QED BY <1>1, <1>2, <1>3, <1>4, <1>5, <1>6, <1>7, <1>8, <1>9 DEF Next

\* Its entry of the table stays, or is made for it.
LEMMA EntryStays ==
  ASSUME SInv, Next, NEW c \in Conns, Waiting(c), Unserved(c)
  PROVE  \/ BufferOf(c)' = BufferOf(c) /\ ~(Make /\ loop.conn = c)
         \/ Make /\ loop.conn = c /\ BufferOf(c) = 0 /\ BufferOf(c)' = made + 1 /\ made + 1 \in BufferIds
<1>0. TypeOK /\ LoopOK /\ PeerOf[c] \in Peers /\ made \in Nat
  BY PeersAssumption, BoundsAssumption DEF SInv, TypeOK
<1> USE DEF BufferOf
<1>1. CASE Make
  <2>1. loop.conn \in Conns /\ KeyOf(loop.conn) = PeerOf[loop.conn] /\ table[KeyOf(loop.conn)] = 0
    BY <1>0, <1>1, ConnTypes DEF Make, LoopOK
  <2>2. loop.conn # c => PeerOf[loop.conn] # PeerOf[c]
    BY <2>1 DEF Waiting, Answerable, Alone
  <2>3. table' = [table EXCEPT ![PeerOf[loop.conn]] = made + 1] /\ made < Buffers
    BY <1>1, <2>1 DEF Make
  <2>4. made + 1 \in BufferIds
    BY <1>0, <2>3, BoundsAssumption DEF BufferIds
  <2> QED BY <1>0, <1>1, <2>1, <2>2, <2>3, <2>4 DEF TypeOK
<1>2. ASSUME UNCHANGED table PROVE BufferOf(c)' = BufferOf(c) /\ ~(Make /\ loop.conn = c)
  <2>1. ASSUME Make, loop.conn = c PROVE FALSE
    <3>1. table[PeerOf[c]] = 0 /\ table' = [table EXCEPT ![PeerOf[c]] = made + 1]
      BY <1>0, <2>1, ConnTypes DEF Make, LoopOK
    <3>2. made + 1 # 0
      BY <1>0
    <3> QED BY <1>0, <1>2, <3>1, <3>2 DEF TypeOK
  <2> QED BY <1>2, <2>1
<1>3. ASSUME NEW w \in Workers, EraseKey(w) PROVE BufferOf(c)' = BufferOf(c) /\ loop' = loop
  <2>1. worker[w].key # PeerOf[c]
    BY DEF Unserved
  <2> QED BY <1>0, <1>3, <2>1 DEF EraseKey, TypeOK
<1>4. ASSUME CleanUp PROVE BufferOf(c)' = BufferOf(c) /\ loop' = loop
  <2>1. PeerOf[c] \notin cleaner.keys
    BY DEF Unserved
  <2> QED BY <1>0, <1>4, <2>1 DEF CleanUp, TypeOK
<1>5. ASSUME loop' = loop PROVE ~Make
  <2>1. Make => loop.pc = "make" /\ loop' = [loop EXCEPT !.pc = "accept", !.buf = made + 1]
    BY DEF Make
  <2> QED BY <1>0, <1>5, <2>1 DEF TypeOK, LoopTypes
<1>6. ASSUME NEW d \in Conns, Connect(d) \/ Leave(d) \/ Eof(d) \/ OnClose(d) PROVE UNCHANGED table
  BY <1>6 DEF Connect, Leave, Eof, OnClose
<1>7. ASSUME NEW d \in Conns, NEW shape \in Shapes[d], Ask(d, shape) PROVE UNCHANGED table
  BY <1>7 DEF Ask
<1>8. ASSUME At \/ Accept \/ Delivery \/ Scan \/ Scanned PROVE UNCHANGED table
  BY <1>8 DEF At, Accept, Delivery, Read, ReadNobody, Scan, Scanned
<1>9. ASSUME WriteStep PROVE UNCHANGED table
  BY <1>9 DEF WriteStep, WriteBegin, WriteEnd, WriteFreed
<1>10. ASSUME NEW w \in Workers, WorkerStep(w) PROVE UNCHANGED table \/ EraseKey(w)
  BY <1>10 DEF WorkerStep, Take, PeerInfo, Route, QueueWork, Count, UseFreed
<1>11. ASSUME NEW b \in BufferIds, Age(b) PROVE UNCHANGED table
  BY <1>11 DEF Age
<1> QED
  BY <1>1, <1>2, <1>3, <1>4, <1>5, <1>6, <1>7, <1>8, <1>9, <1>10, <1>11 DEF Next, LoopStep

\* The loop accepts into its buffer only what is next of its first request.
LEMMA NextPieces ==
  ASSUME SInv, NEW c \in Conns, Waiting(c), Unserved(c), loop.pc = "accept", loop.conn = c
  PROVE  /\ BufferOf(c) = loop.buf /\ loop.buf \in BufferIds /\ loop.buf # 0 /\ TakenIn(buffer[loop.buf])
         /\ loop.data \in Seq(Pieces) /\ loop.data # <<>> /\ rest[c] \in Seq(Pieces)
         /\ Rest(c) = loop.data \o rest[c] /\ Coming(c)
         /\ buffer[loop.buf].content = <<>> => loop.data[1].part \in WholeLine
<1>0. TypeOK /\ LoopOK
  BY DEF SInv
<1>1. /\ loop.data \in Seq(Pieces) /\ loop.data # <<>> /\ 1 \in DOMAIN loop.data
      /\ Rest(c) = loop.data \o rest[c] /\ 1 \in DOMAIN Rest(c) /\ Rest(c)[1] = loop.data[1]
  BY FirstData
<1>2. rest[c] \in Seq(Pieces)
  BY <1>0, ConnTypes
<1>3. loop.buf \in BufferIds /\ loop.buf # 0 /\ BufferOf(c) = loop.buf
  BY <1>0, LoopIs DEF TypeOK, Unserved
<1>4. Rest(c) # <<>>
  BY <1>1
<1>5. Coming(c) /\ TakenIn(buffer[loop.buf])
  BY <1>3, <1>4 DEF Unserved
<1>6. ASSUME buffer[loop.buf].content = <<>> PROVE loop.data[1].part \in WholeLine
  <2>1. PICK shape \in Shapes[c] : Content(c) \o Rest(c) = FirstRequest(c, shape)
    BY <1>5 DEF Coming
  <2>2. Content(c) = <<>>
    BY <1>3, <1>6 DEF Content
  <2>3. <<>> \o Rest(c) = Rest(c)
    BY <1>0, RestTypes
  <2>4. Rest(c) = FirstRequest(c, shape)
    BY <2>1, <2>2, <2>3
  <2>5. Whole(shape)
    BY DEF Waiting, Answerable, Alone
  <2>6. FirstRequest(c, shape)[1].part = shape[1]
    BY <2>5, FirstRequestIs DEF Whole
  <2> QED BY <1>1, <2>4, <2>5, <2>6 DEF Whole
<1> QED BY <1>1, <1>2, <1>3, <1>5, <1>6

\* What is in its buffer stays there, and it grows by what is accepted for it.
LEMMA BufferOfStays ==
  ASSUME SInv, OwnedInv, Next, NEW c \in Conns, Waiting(c), Unserved(c), NEW b \in BufferIds, BufferOf(c) = b
  PROVE  /\ ~buffer'[b].old /\ TakenIn(buffer'[b])
         /\ \/ Accepting(b) /\ loop.conn = c
            \/ buffer'[b].content = buffer[b].content /\ ~(Accept /\ loop.conn = c /\ Accepting(b))
<1>0. /\ TypeOK /\ LoopOK /\ Untouched /\ buffer[b] \in BufferTypes /\ BufferOK(buffer[b]) /\ b # 0
      /\ ~buffer[b].old /\ TakenIn(buffer[b]) /\ KeyOf(c) = PeerOf[c] /\ PeerOf[c] \in Peers
  <2>1. TypeOK /\ LoopOK /\ Untouched /\ buffer[b] \in BufferTypes /\ BufferOK(buffer[b])
    BY DEF SInv, TypeOK
  <2>2. b # 0
    BY DEF BufferIds
  <2>3. ~buffer[b].old /\ TakenIn(buffer[b])
    BY <2>2 DEF Unserved
  <2> QED BY <2>1, <2>2, <2>3, ConnTypes
<1>1. CASE Accepting(b)
  <2>1. loop.pc = "accept" /\ loop.buf = b /\ buffer'[b] = Accepted(buffer[b], loop.data)
    BY <1>1 DEF Accepting, Accept
  <2>2. Present(c)
    <3>1. asked[c] # 0
      BY <1>0 DEF Unserved
    <3> QED BY <1>0, <3>1 DEF Untouched, Waiting, Present
  <2>3. loop.conn = c
    BY <1>0, <2>1, <2>2, OtherBuffer DEF BufferOf
  <2>4. /\ loop.data \in Seq(Pieces) /\ loop.data # <<>>
        /\ buffer[b].content = <<>> => loop.data[1].part \in WholeLine
    BY <2>1, <2>3, NextPieces
  <2>5. TakenIn(Accepted(buffer[b], loop.data)) /\ ~Accepted(buffer[b], loop.data).old
    BY <1>0, <2>4, TakesMore
  <2> QED BY <1>1, <2>1, <2>3, <2>5
<1>2. CASE ~Accepting(b)
  <2>1. ~Age(b)
    <3>1. SUFFICES ASSUME NEW p \in SlowPeers, table[p] = b PROVE FALSE
      BY DEF Age
    <3>2. PICK owner \in [BufferIds -> Peers \cup {NoPeer}] : Owned(owner)
      BY DEF OwnedInv
    <3>3. p \in Peers /\ p # PeerOf[c]
      BY PeersAssumption DEF Waiting, Answerable, Alone
    <3> QED BY <1>0, <3>1, <3>2, <3>3 DEF Owned, BufferOf
  <2>2. buffer'[b] = buffer[b] \/ \E p : buffer'[b] = [buffer[b] EXCEPT !.from = p]
    BY <1>2, <2>1, BufferChange
  <2>3. /\ buffer'[b].content = buffer[b].content /\ buffer'[b].protocol = buffer[b].protocol
        /\ buffer'[b].ended = buffer[b].ended /\ buffer'[b].length = buffer[b].length
        /\ buffer'[b].old = buffer[b].old
    BY <1>0, <2>2 DEF BufferTypes
  <2> QED BY <1>0, <1>2, <2>3 DEF TakenIn
<1> QED BY <1>1, <1>2

\* A new buffer is made for it empty.
LEMMA MadeEmpty ==
  ASSUME SInv, Next, NEW c \in Conns, Make, \A b \in BufferIds : b > made => buffer[b] = NewBuffer,
         made + 1 \in BufferIds
  PROVE  buffer'[made + 1] = NewBuffer
<1>1. made \in Nat /\ made + 1 > made
  BY BoundsAssumption DEF SInv, TypeOK
<1>2. buffer[made + 1] = NewBuffer
  BY <1>1
<1> QED BY <1>2 DEF Make

LEMMA YoungStays ==
  ASSUME SInv, OwnedInv, NotLostInv, Next, NEW c \in Conns, Waiting(c), Unserved(c), BufferOf(c)' # 0
  PROVE  ~buffer'[BufferOf(c)'].old /\ TakenIn(buffer'[BufferOf(c)'])
<1>1. CASE BufferOf(c)' = BufferOf(c)
  <2>1. BufferOf(c) \in BufferIds
    BY <1>1, PeersAssumption DEF SInv, TypeOK, BufferOf
  <2>2. ~buffer'[BufferOf(c)].old /\ TakenIn(buffer'[BufferOf(c)])
    BY <2>1, BufferOfStays
  <2> QED BY <1>1, <2>2
<1>2. CASE Make /\ BufferOf(c)' = made + 1 /\ made + 1 \in BufferIds
  <2>1. buffer'[made + 1] = NewBuffer
    BY <1>2, MadeEmpty DEF NotLostInv
  <2>2. ~NewBuffer.old /\ TakenIn(NewBuffer)
    BY DEF NewBuffer, TakenIn
  <2> QED BY <1>2, <2>1, <2>2
<1> QED BY <1>1, <1>2, EntryStays

\* What the loop finds, or makes, is the buffer of its connection.
LEMMA LoopFinds ==
  ASSUME SInv, Next, NEW c \in Conns, Waiting(c), Unserved(c), loop'.conn = c
  PROVE  /\ loop'.pc = "at" => BufferOf(c)' # 0
         /\ loop'.pc = "accept" => BufferOf(c)' = loop'.buf
<1>0. TypeOK /\ LoopOK /\ KeyOf(c) = PeerOf[c] /\ loop \in LoopTypes
  BY ConnTypes DEF SInv, TypeOK
<1>1. CASE UNCHANGED loop
  <2>1. ~Make
    <3>1. Make => loop.pc = "make" /\ loop' = [loop EXCEPT !.pc = "accept", !.buf = made + 1]
      BY DEF Make
    <3> QED BY <1>0, <1>1, <3>1 DEF LoopTypes
  <2>2. BufferOf(c)' = BufferOf(c)
    BY <2>1, EntryStays
  <2> QED BY <1>1, <2>2 DEF Unserved
<1>2. CASE At
  <2>1. loop.conn = c
    BY <1>0, <1>2 DEF At, LoopTypes
  <2>2. BufferOf(c)' = table[KeyOf(loop.conn)]
    BY <1>0, <1>2, <2>1 DEF At, BufferOf
  <2>3. table[KeyOf(loop.conn)] = 0 => UNCHANGED loop
    BY <1>2 DEF At
  <2>4. table[KeyOf(loop.conn)] # 0 => loop'.buf = table[KeyOf(loop.conn)] /\ loop'.pc = "accept"
    BY <1>0, <1>2 DEF At, LoopTypes
  <2> QED BY <1>1, <2>2, <2>3, <2>4
<1>3. CASE Make
  <2>1. loop'.conn = loop.conn /\ loop'.pc = "accept" /\ loop'.buf = made + 1
    BY <1>0, <1>3 DEF Make, LoopTypes
  <2> QED BY <1>3, <2>1, EntryStays
<1>4. CASE Accept
  BY <1>4, PeersAssumption DEF Accept, IdleLoop
<1>5. ASSUME NEW d \in Conns, NEW n \in Nat, Read(d, n)
      PROVE  (loop'.pc = "at" => BufferOf(c)' # 0) /\ loop'.pc # "accept"
  <2>1. loop'.conn = d /\ loop'.pc = (IF table[KeyOf(d)] # 0 THEN "at" ELSE "make") /\ table' = table
    BY <1>5 DEF Read
  <2> QED BY <1>0, <2>1 DEF BufferOf
<1> QED BY <1>1, <1>2, <1>3, <1>4, <1>5, LoopStays DEF LoopStep

\* Nothing is there before it has asked for anything.
LEMMA NothingAsked ==
  ASSUME SInv, SInv', Next, NEW c \in Conns, Waiting(c), Unserved(c), asked'[c] = 0
  PROVE  BufferOf(c)' = 0 /\ Rest(c)' = <<>>
<1>0. TypeOK /\ TypeOK' /\ asked[c] \in Nat
  BY ConnTypes DEF SInv
<1>1. asked[c] = 0
  <2>1. asked[c] + 1 # 0
    BY <1>0
  <2> QED BY <2>1, AskedStep
<1>2. BufferOf(c) = 0 /\ Rest(c) = <<>>
  BY <1>1 DEF Unserved
<1>3. ~(Make /\ loop.conn = c)
  <2>1. Make /\ loop.conn = c => 1 \in DOMAIN Rest(c)
    BY FirstData DEF Make
  <2> QED BY <1>2, <2>1
<1>4. BufferOf(c)' = 0
  BY <1>2, <1>3, EntryStays
<1>5. Rest(c)' = <<>>
  <2>1. Rest(c)' \in Seq(Pieces) /\ DOMAIN Rest(c)' = 1 .. Len(Rest(c)') /\ Len(Rest(c)') \in Nat
    BY <1>0, RestTypesNext
  <2>2. ASSUME NEW i \in DOMAIN Rest(c)' PROVE FALSE
    <3>1. Rest(c)'[i].req[2] <= asked'[c]
      BY <2>2 DEF SInv, InOrder
    <3>2. Rest(c)'[i] \in Pieces
      BY <2>1, <2>2
    <3>3. Rest(c)'[i].req \in Requests
      BY <3>2 DEF Pieces
    <3>4. PICK k \in Nat \ {0} : k = Rest(c)'[i].req[2]
      BY <3>3 DEF Requests
    <3> QED BY <3>1, <3>4
  <2>3. Len(Rest(c)') = 0
    <3>1. PICK n \in Nat : n = Len(Rest(c)')
      BY <2>1
    <3>2. ~(1 \in 1 .. n)
      BY <2>1, <2>2, <3>1
    <3> QED BY <3>1, <3>2
  <2> QED BY <2>1, <2>3, EmptySeq
<1> QED BY <1>4, <1>5

\* Its first request is sent.
LEMMA FirstIsSent ==
  ASSUME SInv, Next, NEW c \in Conns, Waiting(c), Unserved(c), asked[c] = 0, asked'[c] # 0
  PROVE  Coming(c)'
<1>0. TypeOK /\ LoopOK /\ rest[c] \in Seq(Pieces) /\ loop \in LoopTypes
  BY ConnTypes DEF SInv, TypeOK
<1>1. PICK shape \in Shapes[c] : Ask(c, shape)
  BY AskedStep
<1>2. BufferOf(c) = 0 /\ Rest(c) = <<>>
  BY DEF Unserved
<1>3. ~(loop.pc # "idle" /\ loop.conn = c)
  <2>1. loop.pc # "idle" /\ loop.conn = c => 1 \in DOMAIN loop.data /\ \A i \in DOMAIN loop.data : i \in DOMAIN Rest(c)
    BY FirstData
  <2> QED BY <1>2, <2>1
<1>4. rest[c] = <<>>
  BY <1>2, <1>3 DEF Rest
<1>5. Sent(c, shape) = FirstRequest(c, shape) /\ Sent(c, shape) \in Seq(Pieces)
  BY <1>0, SentIs DEF Sent, FirstRequest
<1>6. rest'[c] = FirstRequest(c, shape) /\ loop' = loop /\ table' = table
  <2>1. rest' = [rest EXCEPT ![c] = @ \o Sent(c, shape)] /\ loop' = loop /\ table' = table
    BY <1>1 DEF Ask, Sent
  <2>2. rest[c] \o Sent(c, shape) = Sent(c, shape)
    BY <1>4, <1>5
  <2> QED BY <1>0, <1>5, <2>1, <2>2 DEF TypeOK
<1>7. Rest(c)' = FirstRequest(c, shape)
  BY <1>3, <1>6 DEF Rest
<1>8. Content(c)' = <<>>
  BY <1>2, <1>6 DEF Content, BufferOf
<1>9. FirstRequest(c, shape) # <<>> /\ FirstRequest(c, shape) \in Seq(Pieces)
  <2>1. Whole(shape) /\ Len(FirstRequest(c, shape)) = Len(shape)
    BY FirstRequestIs DEF Waiting, Answerable, Alone
  <2> QED BY <1>5, <2>1 DEF Whole
<1>10. <<>> \o FirstRequest(c, shape) = FirstRequest(c, shape)
  BY <1>9
<1>11. (Content(c) \o Rest(c))' = FirstRequest(c, shape)
  BY <1>7, <1>8, <1>10
<1> QED BY <1>7, <1>9, <1>11 DEF Coming, FirstRequest

\* What is read of it and accepted goes behind what is in the buffer, and the rest is
\* still to come: when nothing is, the request is complete, and queued.
LEMMA AcceptsNext ==
  ASSUME SInv, Next, NEW c \in Conns, Waiting(c), Unserved(c), Accept, loop.conn = c,
         Rest(c)' = rest[c], ~Pending(c)'
  PROVE  Coming(c)'
<1> DEFINE b == loop.buf
           all == buffer[b].content \o loop.data
<1>1. /\ BufferOf(c) = b /\ b \in BufferIds /\ b # 0 /\ TakenIn(buffer[b])
      /\ loop.data \in Seq(Pieces) /\ loop.data # <<>> /\ rest[c] \in Seq(Pieces)
      /\ Rest(c) = loop.data \o rest[c] /\ Coming(c)
      /\ buffer[b].content = <<>> => loop.data[1].part \in WholeLine
  BY NextPieces DEF Accept
<1>2. /\ TypeOK /\ buffer[b] \in BufferTypes /\ BufferOK(buffer[b]) /\ buffer[b].content \in Seq(Pieces)
      /\ jobs \in Seq(JobTypes)
  BY <1>1 DEF SInv, TypeOK, BufferTypes
<1>3. PICK shape \in Shapes[c] : Content(c) \o Rest(c) = FirstRequest(c, shape)
  BY <1>1 DEF Coming
<1>4. Whole(shape) /\ FirstRequest(c, shape) \in Seq(Pieces) /\ Len(FirstRequest(c, shape)) = Len(shape)
      /\ Len(shape) \in Nat
  BY FirstRequestIs DEF Waiting, Answerable, Alone
<1>5. all \in Seq(Pieces) /\ Len(all) = Len(buffer[b].content) + Len(loop.data)
      /\ all \o rest[c] = FirstRequest(c, shape) /\ Len(all) + Len(rest[c]) = Len(shape)
      /\ Len(all) \in Nat /\ Len(rest[c]) \in Nat
  <2>1. \A s, t \in Seq(Pieces) : s \o t \in Seq(Pieces) /\ Len(s \o t) = Len(s) + Len(t) /\ Len(s) \in Nat
    BY Concat
  <2>2. all \in Seq(Pieces) /\ Len(all) = Len(buffer[b].content) + Len(loop.data)
    BY <1>1, <1>2, <2>1
  <2>3. all \o rest[c] = buffer[b].content \o (loop.data \o rest[c])
    <3>1. \A p, s, t \in Seq(Pieces) : (p \o s) \o t = p \o (s \o t)
      BY ConcatAssociative
    <3> QED BY <1>1, <1>2, <3>1
  <2>4. Content(c) = buffer[b].content
    BY <1>1 DEF Content
  <2> HIDE DEF all
  <2>5. all \o rest[c] = FirstRequest(c, shape)
    BY <1>1, <1>3, <2>3, <2>4
  <2>6. Len(all \o rest[c]) = Len(all) + Len(rest[c]) /\ Len(all) \in Nat /\ Len(rest[c]) \in Nat
    BY <1>1, <2>1, <2>2
  <2> QED BY <1>4, <2>2, <2>5, <2>6
<1> DEFINE r == Accepted(buffer[b], loop.data)
<1>6. r \in BufferTypes /\ BufferOK(r) /\ r.content = all
  BY <1>1, <1>2, AcceptedIs
<1>7. ~(Len(r.content) >= SizeLimit)
  <2> HIDE DEF all, r
  <2>1. PICK n \in Nat : n = Len(all)
    BY <1>5
  <2>2. PICK m \in Nat : m = Len(rest[c])
    BY <1>5
  <2>3. PICK k \in Nat : k = Len(shape)
    BY <1>4
  <2>4. n + m = k
    BY <1>5, <2>1, <2>2, <2>3
  <2>5. k < SizeLimit /\ SizeLimit \in Nat
    BY <1>4, <2>3, BoundsAssumption DEF Whole
  <2>6. ~(n >= SizeLimit)
    BY <2>4, <2>5
  <2> QED BY <1>6, <2>1, <2>6
<1>8. /\ buffer' = [buffer EXCEPT ![b] = r]
      /\ Status(r) = "complete" => jobs' = Append(jobs, [conn |-> loop.conn, buf |-> b])
      /\ table' = table
  <2> HIDE DEF r
  <2>1. PICK after : after = r /\ LET tooBig == Len(after.content) >= SizeLimit
                                     submits == ~tooBig /\ Submit(after)
                                 IN  /\ buffer' = IF tooBig THEN buffer ELSE [buffer EXCEPT ![b] = after]
                                     /\ jobs' = IF submits THEN Append(jobs, [conn |-> loop.conn, buf |-> b])
                                                ELSE jobs
                                     /\ table' = table
    BY DEF Accept, r
  <2> QED BY <1>7, <2>1 DEF Submit
<1>9. TakenIn(r)
  BY <1>1, <1>2, TakesMore
<1> HIDE DEF r, all
<1>10. buffer'[b] = r
  BY <1>1, <1>2, <1>8 DEF TypeOK
<1>11. Content(c)' = all
  BY <1>1, <1>6, <1>8, <1>10 DEF Content, BufferOf
<1>12. ASSUME rest[c] = <<>> PROVE FALSE
  <2>1. all = FirstRequest(c, shape)
    BY <1>5, <1>12
  <2>2. Status(r) = "complete"
    BY <1>4, <1>6, <1>9, <2>1, WholeIsComplete
  <2>3. jobs' = Append(jobs, [conn |-> c, buf |-> b])
    BY <1>1, <1>8, <2>2
  <2>4. Len(jobs) + 1 \in DOMAIN jobs' /\ jobs'[Len(jobs) + 1] = [conn |-> c, buf |-> b]
    BY <1>2, <2>3
  <2>5. jobs'[Len(jobs) + 1].conn = c
    BY <2>4
  <2> QED BY <2>4, <2>5 DEF Pending
<1>13. (Content(c) \o Rest(c))' = FirstRequest(c, shape)
  BY <1>5, <1>11
<1> QED BY <1>12, <1>13 DEF Coming, FirstRequest

\* So it is with the buffer, or still to come, at every step.
LEMMA StillComing ==
  ASSUME SInv, OwnedInv, NotLostInv, Next, NEW c \in Conns, Waiting(c), Waiting(c)', Unserved(c), asked[c] # 0
  PROVE  Coming(c)'
<1>0. TypeOK /\ asked[c] \in Nat /\ Coming(c)
  BY ConnTypes DEF SInv, Unserved
<1>1. CASE Rest(c)' = Rest(c) /\ ~(Accept /\ loop.conn = c)
  <2>1. Content(c)' = Content(c)
    <3>1. CASE Make /\ loop.conn = c
      <4>1. BufferOf(c) = 0 /\ BufferOf(c)' = made + 1 /\ made + 1 \in BufferIds
        BY <3>1, EntryStays
      <4>2. buffer'[made + 1] = NewBuffer
        BY <3>1, <4>1, MadeEmpty DEF NotLostInv
      <4> QED BY <4>1, <4>2 DEF Content, NewBuffer
    <3>2. CASE BufferOf(c)' = BufferOf(c) /\ BufferOf(c) = 0
      BY <3>2 DEF Content
    <3>3. CASE BufferOf(c)' = BufferOf(c) /\ BufferOf(c) # 0
      <4>1. BufferOf(c) \in BufferIds
        BY <1>0, <3>3, PeersAssumption DEF TypeOK, BufferOf
      <4>2. buffer'[BufferOf(c)].content = buffer[BufferOf(c)].content
        BY <1>1, <4>1, BufferOfStays DEF Accepting
      <4> QED BY <3>3, <4>2 DEF Content
    <3> QED BY <3>1, <3>2, <3>3, EntryStays
  <2>2. (Content(c) \o Rest(c))' = Content(c) \o Rest(c)
    BY <1>1, <2>1
  <2> QED BY <1>0, <1>1, <2>2 DEF Coming, FirstRequest
<1>2. ASSUME NEW shape \in Shapes[c], Ask(c, shape) PROVE FALSE
  <2>1. asked[c] <= Len(got[c]) /\ got[c] = <<>>
    BY <1>2 DEF Ask, Waiting
  <2>2. asked[c] <= 0
    BY <2>1
  <2> QED BY <1>0, <2>2
<1>3. ~Dropped(c)
  BY DEF Dropped, ReadNobody, Waiting
<1>4. CASE Accept /\ loop.conn = c /\ Rest(c)' = rest[c]
  BY <1>4, AcceptsNext DEF Waiting
<1> QED BY <1>1, <1>2, <1>3, <1>4, RestStep

LEMMA StepNotLost == SInv /\ OwnedInv /\ NotLostInv /\ Next => NotLostInv'
<1> SUFFICES ASSUME SInv, OwnedInv, NotLostInv, Next PROVE NotLostInv'
  OBVIOUS
<1>0. SInv'
  BY StepSInv
<1>1. (\A b \in BufferIds : b > made => buffer[b] = NewBuffer)'
  BY UnmadeStays DEF NotLostInv
<1>2. ASSUME NEW c \in Conns, Waiting(c)' PROVE Unserved(c)'
  <2>1. Waiting(c) /\ Unserved(c)
    BY <1>2, WaitedBefore DEF NotLostInv
  <2>2. /\ \A b \in BufferIds : buffer'[b].from # PeerOf[c]
        /\ \A w \in Workers : worker'[w].key # PeerOf[c]
        /\ PeerOf[c] \notin cleaner'.keys
    BY <2>1, FromStays, KeysStay, CleanerStays
  <2>3. BufferOf(c)' # 0 => ~buffer'[BufferOf(c)'].old /\ TakenIn(buffer'[BufferOf(c)'])
    BY <2>1, YoungStays
  <2>4. loop'.conn = c => /\ loop'.pc = "at" => BufferOf(c)' # 0
                          /\ loop'.pc = "accept" => BufferOf(c)' = loop'.buf
    BY <2>1, LoopFinds
  <2>5. asked'[c] = 0 => BufferOf(c)' = 0 /\ Rest(c)' = <<>>
    BY <1>0, <2>1, NothingAsked
  <2>6. asked'[c] # 0 => Coming(c)'
    BY <1>2, <2>1, FirstIsSent, StillComing
  <2> QED BY <2>2, <2>3, <2>4, <2>5, <2>6 DEF Unserved, TakenIn, EndsHeaders
<1> QED BY <1>1, <1>2 DEF NotLostInv

LEMMA InitNotLost == Init => NotLostInv
<1> SUFFICES ASSUME Init PROVE NotLostInv
  OBVIOUS
<1> USE DEF Init
<1>1. \A b \in BufferIds : buffer[b] = NewBuffer
  OBVIOUS
<1>2. ASSUME NEW c \in Conns PROVE Unserved(c)
  <2>1. PeerOf[c] \in Peers /\ PeerOf[c] # NoPeer /\ c # NoConn
    BY PeersAssumption
  <2>2. BufferOf(c) = 0 /\ asked[c] = 0
    BY <2>1 DEF BufferOf
  <2>3. Rest(c) = <<>>
    BY DEF Rest, IdleLoop
  <2>4. loop.conn # c
    BY <2>1 DEF IdleLoop
  <2>5. \A b \in BufferIds : buffer[b].from = NoPeer
    BY DEF NewBuffer
  <2>6. \A w \in Workers : worker[w].key = NoPeer
    BY DEF IdleWorker
  <2>7. PeerOf[c] \notin cleaner.keys
    OBVIOUS
  <2> QED BY <2>1, <2>2, <2>3, <2>4, <2>5, <2>6, <2>7 DEF Unserved
<1> QED BY <1>1, <1>2 DEF NotLostInv

LEMMA NotLostStutters == NotLostInv /\ UNCHANGED vars => NotLostInv'
<1> SUFFICES ASSUME NotLostInv, UNCHANGED vars PROVE NotLostInv'
  OBVIOUS
<1>1. \A c \in Conns : (Pending(c)' <=> Pending(c)) /\ Rest(c)' = Rest(c) /\ BufferOf(c)' = BufferOf(c)
                       /\ Content(c)' = Content(c)
  BY DEF vars, clients, Pending, Serving, Rest, BufferOf, Content
<1>2. \A c \in Conns : (Waiting(c)' <=> Waiting(c)) /\ (Coming(c) => Coming(c)')
  BY <1>1 DEF vars, clients, Waiting, Answerable, Alone, Whole, Coming, FirstRequest
<1>3. ASSUME NEW c \in Conns, Unserved(c) PROVE Unserved(c)'
  BY <1>1, <1>2, <1>3 DEF vars, clients, Unserved, TakenIn, EndsHeaders
<1> QED BY <1>2, <1>3 DEF vars, NotLostInv

\* server.hpp:282-307, 217-236, 240-266: for any connections, peers, workers, buffers and
\* requests, whatever the other clients, the workers and the clean-up do: as long as
\* the client of a connection that is alone with its peer, and sends only what the
\* code can take (Whole), waits for its first answer, its request is with a worker, or
\* in the queue to or from one, or part of it is still to be read.  The buffer it grows
\* in is not taken from it, and no such request is left in it unnoticed.  This is what
\* FirstAnswered rests on.
THEOREM ServerFirstNotLost == Spec => []FirstNotLost
<1>1. NotLostInv /\ SInv /\ OwnedInv /\ [Next]_vars => NotLostInv'
  BY StepNotLost, NotLostStutters
<1>2. NotLostInv => FirstNotLost
  BY DEF NotLostInv, FirstNotLost, Waiting, Unserved, Coming, Answerable
<1> QED BY <1>1, <1>2, AlwaysSInv, AlwaysOwned, InitNotLost, PTL DEF Spec
=============================================================================
