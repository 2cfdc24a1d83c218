---------------------------- MODULE ServerProofs ----------------------------
(***************************************************************************)
(* Proofs about the server of src/server: what NodeServer answers, and the *)
(* deadlines and the results of the body reads, for any connections,       *)
(* requests, uploads, deadlines and bounds.                                *)
(***************************************************************************)
EXTENDS NodeServer, BodyReads, WellFoundedInduction, TLAPS

(***************************************************************************)
(* The connections: ServerAnswers.                                         *)
(***************************************************************************)
Places ==
    {"new", "idle", "handle", "static", "write", "drain", "stuck", "upgraded", "closed"}

SocketType ==
    [pc : Places, served : Nat, kind : {"none", "plain", "HEAD", "static", "large"},
     unread : BOOLEAN, rest : BOOLEAN, keep : BOOLEAN, length : Seq(Nat), flushed : BOOLEAN,
     response : ResponseType, read : Nat, sent : Nat, failures : Nat, reported : Nat,
     status : Nat, gone : BOOLEAN]

\* The state keeps its types (the records of server-node.ts and its cache).
ServerTypeOK ==
    /\ sockets \in [Connections -> SocketType]
    /\ static \in [cache : {"none", "reading", "ready", "failed"}, used : BOOLEAN]
    /\ stopping \in {"no", "soft", "forced"}

\* What ServerAnswers needs to know of a socket between a request and its
\* answer: a response is being written on a socket that will close or has
\* nothing left of its request; a static value is written whole; a socket
\* without a client takes no request.
SocketInv(socket) ==
    /\ socket.reported = socket.failures
    /\ socket.pc \in {"write", "drain"} => (socket.keep => ~socket.unread)
    /\ socket.pc = "idle" => ~socket.rest
    /\ socket.pc = "idle" => ~socket.gone
    /\ socket.pc = "handle" => socket.kind \in {"plain", "HEAD"}
    /\ socket.pc = "static" => socket.kind = "static" /\ socket.sent = 0
    /\ socket.kind = "static" =>
         /\ socket.failures = 0
         /\ socket.pc \in {"write", "drain"} =>
              /\ socket.response.fails = <<>>
              /\ socket.response.chunks = StaticChunks
              /\ socket.sent = socket.read
         /\ socket.pc = "idle" => socket.sent = StaticChunks

\* The cache entry exists as soon as the body was touched, and so nobody finds
\* the body used without one.
CacheInv == static.cache # "failed" /\ (static.used => static.cache # "none")

StopInv(socket) ==
    stopping = "forced" =>
        socket.gone \/ socket.pc \in {"new", "closed", "stuck", "upgraded"}

ServerInv ==
    /\ ServerTypeOK
    /\ CacheInv
    /\ \A c \in Connections : SocketInv(sockets[c]) /\ StopInv(sockets[c])

-----------------------------------------------------------------------------
USE ServerAssumption

\* A socket that was never connected has the types and the invariant.
LEMMA NewSocketType == NewSocket \in SocketType /\ SocketInv(NewSocket)
BY DEF NewSocket, NoResponse, SocketType, ResponseType, Places, SocketInv

\* Ending a response keeps the types.
LEMMA EndedType == ASSUME NEW socket \in SocketType PROVE Ended(socket) \in SocketType
<1>1. (IF socket.keep /\ ~socket.gone THEN "idle" ELSE "closed") \in Places
  BY DEF Places
<1> QED BY <1>1, Zenon DEF Ended, SocketType

\* Closing a connection for its unread body keeps the types.
LEMMA DrainedType ==
    ASSUME NEW socket \in SocketType PROVE DrainUnreadBody(socket) \in SocketType
BY Zenon DEF DrainUnreadBody, SocketType

\* WriteResponse keeps the types and leaves a socket that is written or closed.
LEMMA Written ==
    ASSUME NEW socket \in SocketType, SocketInv(socket), NEW status \in Nat,
           NEW response \in ResponseType, socket.pc \in {"handle", "static", "write"},
           socket.kind = "static" =>
               /\ response.fails = <<>> /\ response.chunks = StaticChunks
               /\ socket.sent = 0
    PROVE  LET next == WriteResponse(socket, status, response)
           IN  next \in SocketType /\ SocketInv(next) /\ next.gone = socket.gone
<1> DEFINE next == WriteResponse(socket, status, response)
<1> DEFINE drained == DrainUnreadBody(socket)
           length == IF response.length # <<>> THEN response.length ELSE drained.length
           head == [drained EXCEPT !.status = status, !.response = response, !.read = 0,
                                   !.length = length]
<1>1. next \in SocketType
  <2>1. drained \in SocketType
    BY DrainedType
  <2>2. length \in Seq(Nat)
    BY <2>1 DEF SocketType, ResponseType
  <2>3. head \in SocketType
    <3> HIDE DEF drained, length
    <3> QED BY <2>1, <2>2, Zenon DEF SocketType
  <2>4. [head EXCEPT !.pc = "write"] \in SocketType
    <3> HIDE DEF head
    <3> QED BY <2>3, Zenon DEF SocketType, Places
  <2>5. Ended(head) \in SocketType
    BY <2>3, EndedType
  <2> QED
    BY <2>4, <2>5, Zenon DEF WriteResponse
<1>a. /\ next.reported = socket.reported /\ next.failures = socket.failures
      /\ next.kind = socket.kind /\ next.sent = socket.sent /\ next.unread = socket.unread
      /\ next.response = response /\ next.read = 0 /\ next.gone = socket.gone
      /\ next.keep = (socket.keep /\ ~socket.unread)
  BY DEF WriteResponse, DrainUnreadBody, Ended, SocketType
<1>b. socket.kind # "HEAD" => next.pc = "write"
  BY DEF WriteResponse, DrainUnreadBody, SocketType
<1>c. socket.kind = "HEAD" =>
        /\ next.pc = IF next.keep /\ ~next.gone THEN "idle" ELSE "closed"
        /\ next.rest = socket.unread
  BY DEF WriteResponse, DrainUnreadBody, Ended, SocketType
<1>2. SocketInv(next)
  <2> HIDE DEF next
  <2> QED BY <1>a, <1>b, <1>c, Zenon DEF SocketInv
<1> QED BY <1>1, <1>2, <1>a

\* A failure is counted and reported once, by the guard or by the listener.
LEMMA FailedOnce ==
    ASSUME NEW socket \in SocketType, SocketInv(socket), socket.pc \in {"handle", "write"},
           socket.kind # "static"
    PROVE  /\ Caught(socket) \in SocketType /\ SocketInv(Caught(socket))
           /\ Caught(socket).gone = socket.gone \/ Caught(socket).pc = "closed"
           /\ LET masked == Masked([socket EXCEPT !.failures = @ + 1])
              IN  masked \in SocketType /\ SocketInv(masked) /\ masked.gone = socket.gone
<1> DEFINE failed == [socket EXCEPT !.failures = @ + 1]
           seen == [failed EXCEPT !.reported = @ + 1]
           dropped == [seen EXCEPT !.pc = "closed"]
<1>1. /\ failed \in SocketType
      /\ failed.gone = socket.gone /\ failed.pc = socket.pc /\ failed.kind = socket.kind
      /\ failed.reported = socket.reported /\ failed.failures = socket.failures + 1
  <2>1. socket.failures + 1 \in Nat
    BY DEF SocketType
  <2> QED BY <2>1, Zenon DEF SocketType
<1>2. /\ seen \in SocketType
      /\ seen.gone = socket.gone /\ seen.pc = socket.pc /\ seen.kind = socket.kind
  <2> HIDE DEF failed
  <2>1. failed.reported + 1 \in Nat
    BY <1>1, SMTT(30) DEF SocketType
  <2> QED BY <1>1, <2>1, Zenon DEF SocketType
<1>3. SocketInv(seen)
  BY DEF SocketType, SocketInv
<1>4. dropped \in SocketType /\ dropped.pc = "closed"
  <2> HIDE DEF seen
  <2> QED BY <1>2, Zenon DEF SocketType, Places
<1>5. SocketInv(dropped)
  <2> HIDE DEF seen
  <2> QED BY <1>2, <1>3, socket.kind # "static" DEF SocketType, SocketInv
<1>6. MaskedBody \in ResponseType
  BY DEF MaskedBody, ResponseType
<1>7. LET next == WriteResponse(seen, 500, MaskedBody)
      IN  next \in SocketType /\ SocketInv(next) /\ next.gone = seen.gone
  <2> HIDE DEF seen
  <2> QED BY <1>2, <1>3, <1>6, Written
<1>8. Masked(failed) = WriteResponse(seen, 500, MaskedBody)
  BY DEF Masked
<1>9. Caught(socket) = IF socket.flushed THEN dropped ELSE Masked(failed)
  BY DEF Caught
<1> DEFINE masked == Masked(failed)
<1>10. masked \in SocketType /\ SocketInv(masked) /\ masked.gone = socket.gone
  <2> HIDE DEF seen, failed
  <2> QED BY <1>2, <1>7, <1>8, Zenon
<1>11. /\ Caught(socket) \in SocketType /\ SocketInv(Caught(socket))
       /\ Caught(socket).gone = socket.gone \/ Caught(socket).pc = "closed"
  <2> HIDE DEF masked, dropped
  <2>1. Caught(socket) = IF socket.flushed THEN dropped ELSE masked
    BY <1>9 DEF masked
  <2> QED BY <2>1, <1>4, <1>5, <1>10, Zenon
<1> QED BY <1>10, <1>11, Zenon

\* One socket takes a step: the others are as they were.
LEMMA OneSocket ==
    ASSUME ServerInv, NEW c \in Connections, NEW s \in SocketType, SocketInv(s), StopInv(s),
           Puts(c, s), UNCHANGED <<static, stopping>>
    PROVE  ServerInv'
<1>1. \A d \in Connections : sockets'[d] = IF d = c THEN s ELSE sockets[d]
  BY DEF Puts, ServerInv, ServerTypeOK
<1>2. ServerTypeOK'
  BY DEF Puts, ServerInv, ServerTypeOK
<1>3. CacheInv'
  BY DEF ServerInv, CacheInv
<1>4. \A d \in Connections : SocketInv(sockets'[d]) /\ StopInv(sockets[d])'
  BY <1>1 DEF ServerInv, StopInv
<1> QED BY <1>2, <1>3, <1>4 DEF ServerInv, SocketInv

-----------------------------------------------------------------------------
\* Initially no socket is connected and the static body is untouched.
LEMMA ServerInitially == ServerInit => ServerInv
BY NewSocketType DEF ServerInit, ServerInv, ServerTypeOK, CacheInv, StopInv

\* What a step finds on the socket it is about.
LEMMA Found ==
    ASSUME ServerInv, NEW c \in Connections
    PROVE  sockets[c] \in SocketType /\ SocketInv(sockets[c]) /\ StopInv(sockets[c])
BY DEF ServerInv, ServerTypeOK

\* A socket that is connected takes the place of a new one.
LEMMA ConnectStep ==
    ASSUME ServerInv, NEW c \in Connections, Connect(c) PROVE ServerInv'
<1> DEFINE s == [NewSocket EXCEPT !.pc = "idle"]
<1>1. s \in SocketType /\ SocketInv(s)
  <2>1. s \in SocketType
    BY NewSocketType, Zenon DEF SocketType, Places
  <2>2. SocketInv(s)
    BY DEF NewSocket, SocketInv
  <2> QED BY <2>1, <2>2
<1>2. StopInv(s)
  BY DEF Connect, StopInv
<1> HIDE DEF s
<1>3. Puts(c, s) /\ UNCHANGED <<static, stopping>>
  BY DEF Connect, s
<1> QED BY <1>1, <1>2, <1>3, OneSocket

\* A request starts over on a socket that has its client; only a static one
\* touches the cache.
LEMMA RequestStep ==
    ASSUME ServerInv, NEW c \in Connections,
           NEW kind \in {"plain", "HEAD", "static", "large"}, NEW body \in BOOLEAN,
           Request(c, kind, body)
    PROVE  ServerInv'
<1> DEFINE keep == sockets[c].served + 1 < MaxRequests
           served == sockets[c].served + 1
           socket == [NewSocket EXCEPT !.served = served, !.kind = kind, !.unread = body,
                                       !.keep = keep]
<1>1. served \in Nat /\ keep \in BOOLEAN
  BY Found DEF SocketType
<1>2. /\ socket \in SocketType
      /\ socket.kind = kind /\ socket.unread = body /\ socket.sent = 0
      /\ socket.failures = 0 /\ socket.reported = 0 /\ socket.gone = FALSE
  <2> HIDE DEF served, keep
  <2>1. socket \in SocketType
    BY <1>1, NewSocketType, Zenon DEF SocketType
  <2>2. /\ socket.kind = kind /\ socket.unread = body /\ socket.sent = 0
        /\ socket.failures = 0 /\ socket.reported = 0 /\ socket.gone = FALSE
    BY DEF NewSocket
  <2> QED BY <2>1, <2>2
<1>3. stopping # "forced"
  BY Found DEF Request, StopInv, SocketInv
<1>4. /\ \/ /\ kind = "large"
            /\ Puts(c, Ended([socket EXCEPT !.keep = FALSE, !.status = 413]))
            /\ UNCHANGED static
         \/ /\ kind = "static"
            /\ Puts(c, [socket EXCEPT !.pc = "static"])
            /\ static' = Materialized
         \/ /\ kind \in {"plain", "HEAD"}
            /\ Puts(c, [socket EXCEPT !.pc = "handle"])
            /\ UNCHANGED static
      /\ UNCHANGED stopping
  BY DEF Request
<1> HIDE DEF socket
<1>5. CASE kind = "large"
  <2> DEFINE refused == [socket EXCEPT !.keep = FALSE, !.status = 413]
             s == Ended(refused)
  <2>1. refused \in SocketType
    <3>1. \A n \in Nat : [socket EXCEPT !.keep = FALSE, !.status = n] \in SocketType
      BY <1>2, Zenon DEF SocketType
    <3>2. 413 \in Nat
      OBVIOUS
    <3> QED BY <3>1, <3>2, Zenon
  <2>2. s \in SocketType
    <3> HIDE DEF refused
    <3> QED BY <2>1, EndedType
  <2>3. SocketInv(s) /\ StopInv(s)
    BY <1>2, <1>3, <1>5 DEF Ended, SocketType, SocketInv, StopInv
  <2>4. Puts(c, s) /\ UNCHANGED <<static, stopping>>
    BY <1>4, <1>5
  <2> HIDE DEF s
  <2> QED BY <2>2, <2>3, <2>4, OneSocket
<1>6. CASE kind = "static"
  <2> DEFINE s == [socket EXCEPT !.pc = "static"]
  <2>1. s \in SocketType /\ SocketInv(s)
    BY <1>2, <1>6, Zenon DEF SocketType, SocketInv, Places
  <2>2. Puts(c, s) /\ static' = Materialized /\ UNCHANGED stopping
    BY <1>4, <1>6
  <2>3. /\ CacheInv'
        /\ static' \in [cache : {"none", "reading", "ready", "failed"}, used : BOOLEAN]
    BY <2>2 DEF Materialized, ServerInv, ServerTypeOK, CacheInv
  <2> HIDE DEF s
  <2>4. \A d \in Connections : sockets'[d] = IF d = c THEN s ELSE sockets[d]
    BY <2>2 DEF Puts, ServerInv, ServerTypeOK
  <2>5. ServerTypeOK'
    BY <2>1, <2>2, <2>3, Zenon DEF Puts, ServerInv, ServerTypeOK
  <2>6. \A d \in Connections : SocketInv(sockets'[d]) /\ StopInv(sockets[d])'
    BY <1>3, <2>1, <2>2, <2>4 DEF ServerInv, StopInv
  <2> QED BY <2>3, <2>5, <2>6 DEF ServerInv, SocketInv
<1>7. CASE kind \in {"plain", "HEAD"}
  <2> DEFINE s == [socket EXCEPT !.pc = "handle"]
  <2>1. s \in SocketType /\ SocketInv(s) /\ StopInv(s)
    BY <1>2, <1>3, <1>7, Zenon DEF SocketType, SocketInv, StopInv, Places
  <2>2. Puts(c, s) /\ UNCHANGED <<static, stopping>>
    BY <1>4, <1>7
  <2> HIDE DEF s
  <2> QED BY <2>1, <2>2, OneSocket
<1> QED BY <1>5, <1>6, <1>7

\* The rest of a body arrives; a handler returns, or throws.
LEMMA HandlerStep ==
    ASSUME ServerInv, NEW c \in Connections,
           \/ BodyComplete(c)
           \/ \E response \in Responses : HandlerReturns(c, response)
           \/ \E guarded \in BOOLEAN : HandlerThrows(c, guarded)
    PROVE  ServerInv'
<1> DEFINE socket == sockets[c]
<1>1. socket \in SocketType /\ SocketInv(socket) /\ StopInv(socket)
  BY Found
<1>2. CASE BodyComplete(c)
  <2> DEFINE s == [socket EXCEPT !.unread = FALSE]
  <2>1. s \in SocketType
    BY <1>1, Zenon DEF SocketType
  <2>2. SocketInv(s) /\ StopInv(s)
    BY <1>1 DEF SocketType, SocketInv, StopInv
  <2>3. Puts(c, s) /\ UNCHANGED <<static, stopping>>
    BY <1>2 DEF BodyComplete
  <2> HIDE DEF s
  <2> QED BY <2>1, <2>2, <2>3, OneSocket
<1>3. ASSUME NEW response \in Responses, HandlerReturns(c, response) PROVE ServerInv'
  <2> DEFINE s == WriteResponse(socket, 200, response)
  <2>1. /\ socket.pc = "handle" /\ socket.kind # "static"
        /\ 200 \in Nat /\ response \in ResponseType
    BY <1>1, <1>3 DEF HandlerReturns, SocketInv
  <2>2. s \in SocketType /\ SocketInv(s) /\ s.gone = socket.gone
    <3> HIDE DEF socket
    <3> QED BY <1>1, <2>1, Written
  <2>3. Puts(c, s) /\ UNCHANGED <<static, stopping>>
    BY <1>3 DEF HandlerReturns
  <2> HIDE DEF s
  <2>4. StopInv(s)
    BY <1>1, <2>1, <2>2 DEF StopInv
  <2> QED BY <2>2, <2>3, <2>4, OneSocket, Zenon
<1>4. ASSUME NEW guarded \in BOOLEAN, HandlerThrows(c, guarded) PROVE ServerInv'
  <2> DEFINE masked == Masked([socket EXCEPT !.failures = @ + 1])
             s == IF guarded THEN masked ELSE Caught(socket)
  <2>1. socket.pc = "handle" /\ socket.kind # "static"
    BY <1>1, <1>4 DEF HandlerThrows, SocketInv
  <2>2. /\ s \in SocketType /\ SocketInv(s)
        /\ s.gone = socket.gone \/ s.pc = "closed"
    <3> HIDE DEF socket
    <3>1. /\ Caught(socket) \in SocketType /\ SocketInv(Caught(socket))
          /\ Caught(socket).gone = socket.gone \/ Caught(socket).pc = "closed"
      BY <1>1, <2>1, FailedOnce, Zenon
    <3>2. masked \in SocketType /\ SocketInv(masked) /\ masked.gone = socket.gone
      BY <1>1, <2>1, FailedOnce
    <3> HIDE DEF masked
    <3> QED BY <3>1, <3>2, Zenon
  <2>3. Puts(c, s) /\ UNCHANGED <<static, stopping>>
    BY <1>4 DEF HandlerThrows
  <2> HIDE DEF s
  <2>4. StopInv(s)
    BY <1>1, <2>1, <2>2 DEF StopInv
  <2> QED BY <2>2, <2>3, <2>4, OneSocket
<1> QED BY <1>2, <1>3, <1>4

\* The static body has been read: every request that waits finds it.
LEMMA StaticReadStep == ASSUME ServerInv, StaticRead PROVE ServerInv'
<1>1. static' = [static EXCEPT !.cache = "ready"] /\ UNCHANGED <<sockets, stopping>>
  BY DEF StaticRead
<1>2. ServerTypeOK' /\ CacheInv'
  BY <1>1, Zenon DEF ServerInv, ServerTypeOK, CacheInv
<1>3. \A c \in Connections : SocketInv(sockets[c])' /\ StopInv(sockets[c])'
  BY <1>1 DEF ServerInv, SocketInv, StopInv
<1> QED BY <1>2, <1>3 DEF ServerInv

\* A request that awaited the static body goes on to write all of it.
LEMMA StaticResumesStep ==
    ASSUME ServerInv, NEW c \in Connections, StaticResumes(c) PROVE ServerInv'
<1> DEFINE socket == sockets[c]
           response == [NoResponse EXCEPT !.chunks = StaticChunks]
           s == WriteResponse(socket, 200, response)
<1>1. socket \in SocketType /\ SocketInv(socket) /\ StopInv(socket)
  BY Found
<1>2. socket.pc = "static" /\ socket.sent = 0
  BY <1>1 DEF StaticResumes, SocketInv
<1>3. /\ 200 \in Nat /\ response \in ResponseType
      /\ response.fails = <<>> /\ response.chunks = StaticChunks
  <2>1. response = [length |-> <<>>, chunks |-> StaticChunks, fails |-> <<>>]
    BY DEF NoResponse
  <2>2. [length |-> <<>>, chunks |-> StaticChunks, fails |-> <<>>] \in ResponseType
    BY DEF ResponseType
  <2> HIDE DEF response
  <2> QED BY <2>1, <2>2
<1>4. s \in SocketType /\ SocketInv(s) /\ s.gone = socket.gone
  <2> HIDE DEF socket, response
  <2> QED BY <1>1, <1>2, <1>3, Written
<1>5. static.cache = "ready"
  BY DEF StaticResumes, ServerInv, CacheInv
<1>6. Puts(c, s) /\ UNCHANGED <<static, stopping>>
  BY <1>5 DEF StaticResumes
<1> HIDE DEF s
<1>7. StopInv(s)
  BY <1>1, <1>2, <1>4 DEF StopInv
<1> QED BY <1>4, <1>6, <1>7, OneSocket

\* A chunk is written, the body ends or fails, or the socket drains.
LEMMA WriteStep ==
    ASSUME ServerInv, NEW c \in Connections,
           \/ \E full \in BOOLEAN : WriteChunk(c, full)
           \/ WriteEnds(c) \/ WriteFails(c) \/ Drains(c)
    PROVE  ServerInv'
<1> DEFINE socket == sockets[c]
<1>1. socket \in SocketType /\ SocketInv(socket) /\ StopInv(socket)
  BY Found
<1>2. ASSUME NEW full \in BOOLEAN, WriteChunk(c, full) PROVE ServerInv'
  <2> DEFINE place == IF socket.gone THEN "stuck" ELSE IF full THEN "drain" ELSE "write"
             read == socket.read + 1
             sent == socket.sent + 1
             s == [socket EXCEPT !.read = read, !.flushed = TRUE, !.sent = sent, !.pc = place]
  <2>1. read \in Nat /\ sent \in Nat /\ place \in {"stuck", "drain", "write"}
    BY <1>1, SMTT(30) DEF SocketType
  <2>2. s \in SocketType
    <3> HIDE DEF read, sent, place, socket
    <3> QED BY <1>1, <2>1, Zenon DEF SocketType, Places
  <2>3. /\ s.reported = socket.reported /\ s.failures = socket.failures
        /\ s.keep = socket.keep /\ s.unread = socket.unread /\ s.kind = socket.kind
        /\ s.response = socket.response /\ s.gone = socket.gone
        /\ s.pc = place /\ s.read = read /\ s.sent = sent
    <3> HIDE DEF read, sent, place, socket
    <3> QED BY <1>1 DEF SocketType
  <2>4. socket.pc = "write" /\ Puts(c, s) /\ UNCHANGED <<static, stopping>>
    BY <1>2, Zenon DEF WriteChunk
  <2> HIDE DEF s
  <2>5. SocketInv(s)
    BY <1>1, <2>1, <2>3, <2>4, Zenon DEF SocketInv
  <2>6. StopInv(s)
    BY <1>1, <2>3, <2>4 DEF StopInv
  <2> QED BY <2>2, <2>4, <2>5, <2>6, OneSocket
<1>3. CASE WriteEnds(c)
  <2> DEFINE s == Ended(socket)
  <2>1. s \in SocketType
    <3> HIDE DEF socket
    <3> QED BY <1>1, EndedType
  <2>2. /\ s.reported = socket.reported /\ s.failures = socket.failures
        /\ s.keep = socket.keep /\ s.unread = socket.unread /\ s.kind = socket.kind
        /\ s.sent = socket.sent /\ s.gone = socket.gone /\ s.rest = socket.unread
        /\ s.pc = IF socket.keep /\ ~socket.gone THEN "idle" ELSE "closed"
    BY <1>1 DEF Ended, SocketType
  <2>3. /\ socket.pc = "write" /\ socket.read = socket.response.chunks
        /\ Puts(c, s) /\ UNCHANGED <<static, stopping>>
    BY <1>3, Zenon DEF WriteEnds
  <2> HIDE DEF s
  <2>4. SocketInv(s)
    BY <1>1, <2>2, <2>3, Zenon DEF SocketInv
  <2>5. StopInv(s)
    BY <1>1, <2>2, <2>3 DEF StopInv
  <2> QED BY <2>1, <2>3, <2>4, <2>5, OneSocket
<1>4. CASE WriteFails(c)
  <2> DEFINE s == Caught(socket)
  <2>1. socket.pc = "write" /\ socket.response.fails = <<socket.read>>
    BY <1>4, Zenon DEF WriteFails
  <2>2. socket.kind # "static"
    <3>1. <<socket.read>> # <<>>
      OBVIOUS
    <3> QED BY <1>1, <2>1, <3>1 DEF SocketInv
  <2>3. /\ s \in SocketType /\ SocketInv(s)
        /\ s.gone = socket.gone \/ s.pc = "closed"
    <3> HIDE DEF socket
    <3> QED BY <1>1, <2>1, <2>2, FailedOnce, Zenon
  <2>4. Puts(c, s) /\ UNCHANGED <<static, stopping>>
    BY <1>4 DEF WriteFails
  <2> HIDE DEF s
  <2>5. StopInv(s)
    BY <1>1, <2>1, <2>3 DEF StopInv
  <2> QED BY <2>3, <2>4, <2>5, OneSocket
<1>5. CASE Drains(c)
  <2> DEFINE s == [socket EXCEPT !.pc = "write"]
  <2>1. s \in SocketType
    BY <1>1, Zenon DEF SocketType, Places
  <2>2. socket.pc = "drain" /\ Puts(c, s) /\ UNCHANGED <<static, stopping>>
    BY <1>5 DEF Drains
  <2>3. SocketInv(s) /\ StopInv(s)
    BY <1>1, <2>2 DEF SocketType, SocketInv, StopInv
  <2> HIDE DEF s
  <2> QED BY <2>1, <2>2, <2>3, OneSocket
<1> QED BY <1>2, <1>3, <1>4, <1>5

\* A lost socket keeps its invariant, and has no client.
LEMMA LostSocket ==
    ASSUME NEW socket \in SocketType, SocketInv(socket)
    PROVE  Lost(socket) \in SocketType /\ SocketInv(Lost(socket)) /\ Lost(socket).gone
<1> DEFINE place == IF socket.pc = "idle" THEN "closed"
                    ELSE IF socket.pc = "drain" THEN "stuck" ELSE socket.pc
           s == [socket EXCEPT !.gone = TRUE, !.pc = place]
<1>1. place \in Places /\ place \notin {"idle", "drain"}
  BY DEF SocketType, Places
<1>2. Lost(socket) = s
  BY DEF Lost, SocketType
<1>3. s \in SocketType
  <2> HIDE DEF place
  <2> QED BY <1>1, Zenon DEF SocketType
<1>4. SocketInv(s) /\ s.gone
  BY DEF SocketType, SocketInv
<1> HIDE DEF s
<1> QED BY <1>2, <1>3, <1>4

\* A WebSocket takes the socket over, or the client leaves.
LEMMA LeaveStep ==
    ASSUME ServerInv, NEW c \in Connections,
           (\E accepted \in BOOLEAN : Upgrade(c, accepted)) \/ SocketCloses(c)
    PROVE  ServerInv'
<1> DEFINE socket == sockets[c]
<1>1. socket \in SocketType /\ SocketInv(socket) /\ StopInv(socket)
  BY Found
<1>2. ASSUME NEW accepted \in BOOLEAN, Upgrade(c, accepted) PROVE ServerInv'
  <2> DEFINE place == IF accepted THEN "upgraded" ELSE "closed"
             s == [socket EXCEPT !.pc = place]
  <2>1. place \in {"upgraded", "closed"}
    OBVIOUS
  <2> HIDE DEF place
  <2>2. s \in SocketType
    BY <1>1, <2>1, Zenon DEF SocketType, Places
  <2>3. SocketInv(s) /\ StopInv(s)
    BY <1>1, <2>1, Zenon DEF SocketType, SocketInv, StopInv
  <2>4. Puts(c, s) /\ UNCHANGED <<static, stopping>>
    BY <1>2 DEF Upgrade, place
  <2> HIDE DEF s
  <2> QED BY <2>2, <2>3, <2>4, OneSocket
<1>3. CASE SocketCloses(c)
  <2> DEFINE s == Lost(socket)
  <2>1. s \in SocketType /\ SocketInv(s) /\ s.gone
    <3> HIDE DEF socket
    <3> QED BY <1>1, LostSocket
  <2>2. Puts(c, s) /\ UNCHANGED <<static, stopping>>
    BY <1>3 DEF SocketCloses
  <2> HIDE DEF s
  <2>3. StopInv(s)
    BY <2>1 DEF StopInv
  <2> QED BY <2>1, <2>2, <2>3, OneSocket
<1> QED BY <1>2, <1>3

\* The two steps of a shutdown.
LEMMA StopStep == ASSUME ServerInv, Signal \/ ForceStop PROVE ServerInv'
<1>1. CASE Signal
  <2> DEFINE s(c) == IF sockets[c].pc = "idle" THEN [sockets[c] EXCEPT !.pc = "closed"]
                     ELSE sockets[c]
  <2>1. ASSUME NEW c \in Connections PROVE s(c) \in SocketType /\ SocketInv(s(c))
    <3> DEFINE closed == [sockets[c] EXCEPT !.pc = "closed"]
    <3>1. sockets[c] \in SocketType /\ SocketInv(sockets[c])
      BY Found
    <3>2. closed \in SocketType
      BY <3>1, Zenon DEF SocketType, Places
    <3>3. SocketInv(closed)
      BY <3>1 DEF SocketType, SocketInv
    <3> HIDE DEF closed
    <3>4. s(c) = IF sockets[c].pc = "idle" THEN closed ELSE sockets[c]
      BY DEF closed
    <3> HIDE DEF s
    <3> QED BY <3>1, <3>2, <3>3, <3>4
  <2>2. /\ sockets' = [c \in Connections |-> s(c)]
        /\ stopping' = "soft" /\ static' = static
    BY <1>1 DEF Signal
  <2> HIDE DEF s
  <2>3. ServerTypeOK' /\ CacheInv'
    BY <2>1, <2>2 DEF ServerInv, ServerTypeOK, CacheInv
  <2>4. \A c \in Connections : SocketInv(sockets'[c]) /\ StopInv(sockets[c])'
    BY <2>1, <2>2 DEF StopInv
  <2> QED BY <2>3, <2>4 DEF ServerInv, SocketInv
<1>2. CASE ForceStop
  <2> DEFINE s(c) == IF sockets[c].pc \in {"idle", "handle", "static", "write", "drain"}
                     THEN Lost(sockets[c]) ELSE sockets[c]
  <2>1. ASSUME NEW c \in Connections
        PROVE  /\ s(c) \in SocketType /\ SocketInv(s(c))
               /\ s(c).gone \/ s(c).pc \in {"new", "closed", "stuck", "upgraded"}
    <3>1. sockets[c] \in SocketType /\ SocketInv(sockets[c])
      BY Found
    <3>2. /\ Lost(sockets[c]) \in SocketType /\ SocketInv(Lost(sockets[c]))
          /\ Lost(sockets[c]).gone
      BY <3>1, LostSocket, Zenon
    <3>3. \/ sockets[c].pc \in {"idle", "handle", "static", "write", "drain"}
          \/ sockets[c].pc \in {"new", "closed", "stuck", "upgraded"}
      BY <3>1, Zenon DEF SocketType, Places
    <3> QED BY <3>1, <3>2, <3>3, Zenon
  <2>2. /\ sockets' = [c \in Connections |-> s(c)]
        /\ stopping' = "forced" /\ static' = static
    BY <1>2 DEF ForceStop
  <2> HIDE DEF s
  <2>3. ServerTypeOK' /\ CacheInv'
    BY <2>1, <2>2 DEF ServerInv, ServerTypeOK, CacheInv
  <2>4. \A c \in Connections : SocketInv(sockets'[c]) /\ StopInv(sockets[c])'
    BY <2>1, <2>2 DEF StopInv
  <2> QED BY <2>3, <2>4 DEF ServerInv, SocketInv
<1> QED BY <1>1, <1>2, Zenon

\* Every step of the server keeps the invariant.
LEMMA ServerStep == ASSUME ServerInv, [ServerNext]_serverVars PROVE ServerInv'
<1>1. CASE ServerNext
  BY <1>1, ConnectStep, RequestStep, HandlerStep, StaticReadStep, StaticResumesStep,
     WriteStep, LeaveStep, StopStep, Zenon DEF ServerNext
<1>2. CASE UNCHANGED serverVars
  BY <1>2 DEF serverVars, ServerInv, ServerTypeOK, CacheInv, SocketInv, StopInv
<1> QED BY <1>1, <1>2, Zenon

\* For any connections, any responses and any number of requests: every
\* failure is reported once, a reused socket is clean, a static value is served
\* whole, and a forced stop leaves no client of the server (server-node.ts).
THEOREM ServerAlwaysAnswers == ServerSpec => []ServerAnswers
<1>1. ServerInv => ServerAnswers
  BY Zenon DEF ServerInv, SocketInv, StopInv, ServerAnswers
<1> QED BY <1>1, ServerInitially, ServerStep, PTL DEF ServerSpec

-----------------------------------------------------------------------------
(***************************************************************************)
(* The body reads: DeadlineKept.                                           *)
(***************************************************************************)
IntervalType == {<<>>} \union {<<n>> : n \in 0..SWEEP_MS}
LeftType == {<<>>} \union {<<n>> : n \in Int}

ReadType ==
    [pc : {"out", "wait", "cancel", "done"}, upload : UploadType, arrived : Nat,
     ended : BOOLEAN, gone : BOOLEAN, taken : Nat, left : LeftType,
     race : {"none", "read", "timeout", "abort", "error"},
     result : {"none", "ok", "timeout", "abort", "error", "too_large"}, status : Nat]

\* What the watchdog knows of a read: a tracked read is in its race and, at
\* the next sweep, less than a period past its deadline; a read in its race
\* that is no longer tracked was rejected by the sweep.
Kept(r) ==
    /\ r \in tracked =>
          /\ reads[r].pc = "wait" /\ reads[r].left # <<>>
          /\ reads[r].left[1] > interval[1] - SWEEP_MS
    /\ (reads[r].pc = "wait" /\ reads[r].left # <<>> /\ r \notin tracked) =>
          reads[r].race = "timeout" /\ reads[r].left[1] > -SWEEP_MS
    /\ r \in listeners => reads[r].pc = "wait"

BodyInv ==
    /\ reads \in [Readers -> ReadType]
    /\ tracked \subseteq Readers
    /\ interval \in IntervalType
    /\ (interval # <<>>) <=> (tracked # {})
    /\ \A r \in Readers : Kept(r)

-----------------------------------------------------------------------------
HIDE ServerAssumption
USE BodyAssumption

\* A slot without a request has the types.
LEMMA NotStartedType == NotStarted \in ReadType /\ NotStarted.pc = "out"
BY DEF NotStarted, ReadType, UploadType, LeftType

\* Initially nothing is read and nothing is watched.
LEMMA BodyInitially == BodyInit => BodyInv
<1> SUFFICES ASSUME BodyInit PROVE BodyInv
  OBVIOUS
<1>1. reads \in [Readers -> ReadType]
  BY NotStartedType DEF BodyInit
<1>2. \A r \in Readers : Kept(r)
  BY NotStartedType, Zenon DEF BodyInit, Kept
<1> QED BY <1>1, <1>2 DEF BodyInit, BodyInv, IntervalType

\* One read takes a step: the watch over the others is as it was.
LEMMA OneRead ==
    ASSUME BodyInv, NEW r \in Readers, NEW read \in ReadType,
           reads' = [reads EXCEPT ![r] = read],
           tracked' \subseteq Readers, tracked' \ {r} = tracked \ {r},
           listeners' \ {r} = listeners \ {r},
           interval' \in IntervalType, (interval' # <<>>) <=> (tracked' # {}),
           interval' = interval \/ interval' = <<>> \/ interval = <<>>,
           Kept(r)'
    PROVE  BodyInv'
<1>1. reads' \in [Readers -> ReadType]
  BY Zenon DEF BodyInv
<1>2. ASSUME NEW d \in Readers, d # r PROVE Kept(d)'
  <2>1. /\ reads'[d] = reads[d] /\ Kept(d)
        /\ d \in tracked' <=> d \in tracked
        /\ d \in listeners' <=> d \in listeners
    BY <1>2 DEF BodyInv
  <2>2. d \in tracked => interval' = interval
    BY <2>1 DEF BodyInv
  <2> QED BY <2>1, <2>2 DEF Kept
<1> QED BY <1>1, <1>2 DEF BodyInv

\* An answer leaves the read outside its race, with the deadline it had.
LEMMA Answered ==
    ASSUME NEW r \in Readers, NEW read \in ReadType,
           NEW result \in {"none", "ok", "timeout", "abort", "error", "too_large"},
           Answers(r, read, result)
    PROVE  \E next \in ReadType :
              next.pc = "done" /\ reads' = [reads EXCEPT ![r] = next]
<1>1. PICK route \in RouteKinds : \E status \in StatusesFor(route, result, read.gone) :
         reads' = [reads EXCEPT ![r] = [read EXCEPT !.pc = "done", !.race = "none",
                                                    !.result = result, !.status = status]]
  BY Zenon DEF Answers
<1>2. PICK status \in StatusesFor(route, result, read.gone) :
         reads' = [reads EXCEPT ![r] = [read EXCEPT !.pc = "done", !.race = "none",
                                                    !.result = result, !.status = status]]
  BY <1>1, Zenon
<1>3. status \in Nat
  BY DEF StatusesFor
<1> DEFINE next == [read EXCEPT !.pc = "done", !.race = "none",
                                !.result = result, !.status = status]
<1>4. next \in ReadType /\ next.pc = "done"
  BY <1>3, Zenon DEF ReadType
<1>5. reads' = [reads EXCEPT ![r] = next]
  BY <1>2
<1> HIDE DEF next
<1> QED BY <1>4, <1>5, Zenon

\* What a whole-body read gives is one of its results.
LEMMA WholeResults == ASSUME NEW read PROVE WholeResult(read) \in {"ok", "abort", "too_large"}
BY DEF WholeResult

\* A read that is answered, or whose slot is cleared, outside its race.
LEMMA OutsideRace ==
    ASSUME BodyInv, NEW r \in Readers, reads[r].pc # "wait", NEW next \in ReadType,
           next.pc # "wait", reads' = [reads EXCEPT ![r] = next],
           UNCHANGED <<tracked, interval, listeners>>
    PROVE  BodyInv'
<1>1. r \notin tracked /\ r \notin listeners
  BY DEF BodyInv, Kept
<1>2. reads'[r] = next
  BY DEF BodyInv
<1>3. Kept(r)'
  BY <1>1, <1>2 DEF Kept
<1> QED BY <1>3, OneRead, Zenon DEF BodyInv

\* The finally of a read: neither an entry nor a listener is left behind.
LEMMA CleanedUp ==
    ASSUME BodyInv, NEW r \in Readers, NEW next \in ReadType,
           next.pc # "wait", reads' = [reads EXCEPT ![r] = next], Cleanup(r)
    PROVE  BodyInv'
<1>1. reads'[r] = next
  BY DEF BodyInv
<1>2. r \notin tracked' /\ r \notin listeners' /\ tracked' = tracked \ {r}
      /\ listeners' = listeners \ {r}
  BY DEF Cleanup, Untrack, BodyInv, Kept
<1>3. Kept(r)'
  BY <1>1, <1>2 DEF Kept
<1>4. /\ interval' = interval \/ interval' = <<>>
      /\ interval' \in IntervalType
      /\ (interval' # <<>>) <=> (tracked' # {})
  BY <1>2 DEF Cleanup, Untrack, BodyInv, IntervalType
<1>5. tracked' \subseteq Readers
  BY <1>2 DEF BodyInv
<1> QED BY <1>2, <1>3, <1>4, <1>5, OneRead, Zenon

\* A read enters its race: a deadline is tracked, and an interval that was not
\* running starts with a whole period.
LEMMA RaceBegins ==
    ASSUME BodyInv, NEW r \in Readers, reads[r].pc # "wait", NEW read \in ReadType,
           NEW timeout \in BodyTimeouts, Races(r, read, timeout)
    PROVE  BodyInv'
<1> DEFINE left == IF timeout = 0 THEN <<>> ELSE <<timeout>>
           race == IF BytesThere(read) THEN "read" ELSE "none"
           next == [read EXCEPT !.pc = "wait", !.left = left, !.race = race]
<1>1. left \in LeftType /\ race \in {"read", "none"}
  BY DEF LeftType
<1>2. next \in ReadType /\ next.pc = "wait" /\ next.left = left
  <2> HIDE DEF left, race
  <2> QED BY <1>1, Zenon DEF ReadType
<1>3. reads' = [reads EXCEPT ![r] = next] /\ listeners' = listeners \union {r}
  BY DEF Races
<1> HIDE DEF next
<1>4. reads'[r] = next
  BY <1>3, Zenon DEF BodyInv
<1>5. r \notin tracked
  BY DEF BodyInv, Kept
<1>6. CASE timeout = 0
  <2>1. UNCHANGED <<tracked, interval>> /\ next.left = <<>>
    BY <1>2, <1>6, Zenon DEF Races
  <2>2. Kept(r)'
    BY <1>2, <1>4, <1>5, <2>1 DEF Kept
  <2> QED BY <1>2, <1>3, <2>1, <2>2, OneRead, Zenon DEF BodyInv
<1>7. CASE timeout # 0
  <2>1. /\ tracked' = tracked \union {r}
        /\ interval' = IF interval = <<>> THEN <<SWEEP_MS>> ELSE interval
    BY <1>7 DEF Races, Track
  <2>2. next.left = <<timeout>> /\ timeout \in Nat \ {0}
    <3>1. left = <<timeout>> /\ timeout \in Nat
      BY <1>7, Zenon
    <3> QED BY <1>2, <1>7, <3>1, Zenon
  <2>3. interval' \in IntervalType /\ interval' # <<>> /\ interval'[1] <= SWEEP_MS
        /\ interval'[1] \in Nat
    BY <2>1 DEF BodyInv, IntervalType
  <2>4. Kept(r)'
    <3>1. reads'[r].pc = "wait" /\ reads'[r].left = <<timeout>> /\ r \in tracked'
      BY <1>2, <1>4, <2>1, <2>2, Zenon
    <3>2. reads'[r].left # <<>> /\ reads'[r].left[1] = timeout
      BY <3>1
    <3>3. timeout > interval'[1] - SWEEP_MS
      BY <2>2, <2>3
    <3> QED BY <3>1, <3>2, <3>3, Zenon DEF Kept
  <2>5. tracked' \subseteq Readers /\ tracked' # {} /\ tracked' \ {r} = tracked \ {r}
        /\ listeners' \ {r} = listeners \ {r}
    BY <1>3, <2>1, Zenon DEF BodyInv
  <2> QED BY <1>2, <1>3, <2>1, <2>3, <2>4, <2>5, OneRead, Zenon
<1> QED BY <1>6, <1>7

\* A route calls readBodyWithLimit: it is answered at once or enters its race.
LEMMA StartStep ==
    ASSUME BodyInv, NEW r \in Readers, NEW upload \in Uploads, NEW gone \in BOOLEAN,
           NEW runtime \in Runtimes, NEW timeout \in BodyTimeouts,
           NEW arrived \in 0..Len(upload.chunks),
           Start(r, upload, arrived, gone, runtime, timeout)
    PROVE  BodyInv'
<1> DEFINE ended == upload.ends /\ arrived = Len(upload.chunks)
           read == [NotStarted EXCEPT !.upload = upload, !.arrived = arrived,
                                      !.gone = gone, !.ended = ended]
<1>1. read \in ReadType
  <2>1. upload \in UploadType /\ arrived \in Nat /\ ended \in BOOLEAN
    BY DEF UploadType
  <2> HIDE DEF ended
  <2> QED BY <2>1, NotStartedType, Zenon DEF ReadType
<1>2. /\ reads[r].pc # "wait"
      /\ \/ /\ \/ Answers(r, read, "abort") \/ Answers(r, read, "too_large")
               \/ Answers(r, read, WholeResult(read))
            /\ UNCHANGED <<tracked, interval, listeners>>
         \/ Races(r, read, timeout)
  BY Zenon DEF Start
<1> HIDE DEF read
<1>3. CASE Races(r, read, timeout)
  BY <1>1, <1>2, <1>3, RaceBegins, Zenon
<1>4. CASE /\ \/ Answers(r, read, "abort") \/ Answers(r, read, "too_large")
              \/ Answers(r, read, WholeResult(read))
           /\ UNCHANGED <<tracked, interval, listeners>>
  <2>1. PICK result \in {"none", "ok", "timeout", "abort", "error", "too_large"} :
           Answers(r, read, result)
    BY <1>4, WholeResults
  <2>2. PICK next \in ReadType : next.pc = "done" /\ reads' = [reads EXCEPT ![r] = next]
    BY <1>1, <2>1, Answered
  <2> QED BY <1>2, <1>4, <2>2, OutsideRace, Zenon
<1> QED BY <1>2, <1>3, <1>4

\* The race of a read has settled: it goes on with the next chunk, or ends.
LEMMA ResumeStep ==
    ASSUME BodyInv, NEW r \in Readers, ResumeWhole(r) \/ ResumeStream(r)
    PROVE  BodyInv'
<1> DEFINE read == reads[r]
<1>1. read \in ReadType /\ read.pc = "wait" /\ read.race # "none"
  BY DEF BodyInv, ResumeWhole, ResumeStream
<1>2. ASSUME NEW result \in {"none", "ok", "timeout", "abort", "error", "too_large"},
             Answers(r, read, result), Cleanup(r)
      PROVE  BodyInv'
  <2>1. PICK next \in ReadType : next.pc = "done" /\ reads' = [reads EXCEPT ![r] = next]
    BY <1>1, <1>2, Answered
  <2> QED BY <1>2, <2>1, CleanedUp, Zenon
<1>3. CASE ResumeWhole(r)
  <2>1. (IF read.race = "read" THEN WholeResult(read) ELSE read.race)
           \in {"none", "ok", "timeout", "abort", "error", "too_large"}
    BY <1>1, WholeResults DEF ReadType
  <2> QED BY <1>2, <1>3, <2>1, Zenon DEF ResumeWhole
<1>4. CASE ResumeStream(r)
  <2> DEFINE chunk == read.race = "read" /\ read.arrived > read.taken
             next == [read EXCEPT !.taken = @ + 1]
             race == IF BytesThere(next) THEN "read" ELSE "none"
             counted == [next EXCEPT !.race = race]
             result == IF chunk THEN "too_large" ELSE read.race
             left == [read EXCEPT !.pc = "cancel", !.race = "none", !.result = result]
  <2>1. \/ /\ chunk
           /\ reads' = [reads EXCEPT ![r] = counted]
           /\ UNCHANGED <<tracked, interval, listeners>>
        \/ Answers(r, read, "ok") /\ Cleanup(r)
        \/ /\ read.race # "read" \/ chunk
           /\ reads' = [reads EXCEPT ![r] = left] /\ Cleanup(r)
    BY <1>4 DEF ResumeStream
  <2>2. CASE /\ chunk
             /\ reads' = [reads EXCEPT ![r] = counted]
             /\ UNCHANGED <<tracked, interval, listeners>>
    <3>1. next \in ReadType /\ next.pc = "wait" /\ next.left = read.left
      <4>1. read.taken + 1 \in Nat
        BY <1>1 DEF ReadType
      <4> QED BY <1>1, <4>1 DEF ReadType
    <3>2. counted \in ReadType /\ counted.pc = "wait" /\ counted.left = read.left
      <4>1. race \in {"read", "none"}
        OBVIOUS
      <4> HIDE DEF next, race
      <4> QED BY <3>1, <4>1 DEF ReadType
    <3> HIDE DEF counted
    <3>3. reads'[r] = counted
      BY <2>2, Zenon DEF BodyInv
    <3>4. Kept(r) /\ (r \in tracked \/ read.left = <<>>)
      BY <1>1, <2>2, Zenon DEF BodyInv, Kept
    <3>5. Kept(r)'
      BY <1>1, <2>2, <3>2, <3>3, <3>4 DEF Kept
    <3> QED BY <2>2, <3>2, <3>5, OneRead, Zenon DEF BodyInv
  <2>3. CASE /\ read.race # "read" \/ chunk
             /\ reads' = [reads EXCEPT ![r] = left] /\ Cleanup(r)
    <3>1. result \in {"none", "read", "timeout", "abort", "error", "too_large"}
          /\ result # "read"
      BY <1>1, <2>3 DEF ReadType
    <3>2. left \in ReadType /\ left.pc = "cancel"
      <4> HIDE DEF result
      <4> QED BY <1>1, <3>1, Zenon DEF ReadType
    <3> HIDE DEF left
    <3> QED BY <2>3, <3>2, CleanedUp, Zenon
  <2> QED BY <1>2, <2>1, <2>2, <2>3, Zenon
<1> QED BY <1>3, <1>4

\* The cancelled reader is answered for, and an answer returned.
LEMMA LeaveRaceStep ==
    ASSUME BodyInv, NEW r \in Readers, Cancelled(r) \/ Returned(r) PROVE BodyInv'
<1>1. reads[r] \in ReadType /\ reads[r].pc # "wait"
      /\ UNCHANGED <<tracked, interval, listeners>>
  BY DEF BodyInv, Cancelled, Returned
<1>2. \E next \in ReadType : next.pc # "wait" /\ reads' = [reads EXCEPT ![r] = next]
  <2>1. CASE Cancelled(r)
    <3>1. reads[r].result \in {"none", "ok", "timeout", "abort", "error", "too_large"}
      BY <1>1, Zenon DEF ReadType
    <3>2. Answers(r, reads[r], reads[r].result)
      BY <2>1, Zenon DEF Cancelled
    <3>3. PICK next \in ReadType : next.pc = "done" /\ reads' = [reads EXCEPT ![r] = next]
      BY <1>1, <3>1, <3>2, Answered
    <3> QED BY <3>3, Zenon
  <2>2. CASE Returned(r)
    BY <2>2, NotStartedType, Zenon DEF Returned
  <2> QED BY <2>1, <2>2
<1> QED BY <1>1, <1>2, OutsideRace, Zenon

\* Chunks, an error or the client's leaving settle a race; none of them
\* touches the watchdog.
LEMMA ClientStep ==
    ASSUME BodyInv, NEW r \in Readers, Arrives(r) \/ Disconnects(r) \/ BodyFails(r)
    PROVE  BodyInv'
<1>1. /\ reads[r] \in ReadType /\ Kept(r)
      /\ reads[r].race = "none"
  BY DEF BodyInv, Arrives, Disconnects, BodyFails, Quiet
<1>2. ASSUME NEW next \in ReadType, next.pc = reads[r].pc, next.left = reads[r].left,
             reads' = [reads EXCEPT ![r] = next], UNCHANGED <<tracked, interval>>,
             listeners' = listeners \/ listeners' = listeners \ {r}
      PROVE  BodyInv'
  <2>1. reads'[r] = next
    BY <1>2, Zenon DEF BodyInv
  <2>2. (reads[r].pc = "wait" /\ reads[r].left # <<>>) => r \in tracked
    BY <1>1, Zenon DEF Kept
  <2>3. Kept(r)'
    BY <1>1, <1>2, <2>1, <2>2 DEF Kept
  <2> QED BY <1>2, <2>3, OneRead, Zenon DEF BodyInv
<1>3. ASSUME NEW read \in ReadType, NEW outcome \in {"read", "abort", "error"}
      PROVE  /\ Settled(read, outcome) \in ReadType
             /\ Settled(read, outcome).pc = read.pc /\ Settled(read, outcome).left = read.left
  BY DEF Settled, ReadType
<1>4. CASE Arrives(r)
  <2> DEFINE arrived == reads[r].arrived + 1
             ended == /\ reads[r].upload.ends
                      /\ reads[r].arrived + 1 = Len(reads[r].upload.chunks)
             read == [reads[r] EXCEPT !.arrived = arrived, !.ended = ended]
             next == IF BytesThere(read) THEN Settled(read, "read") ELSE read
  <2>1. arrived \in Nat /\ ended \in BOOLEAN
    BY <1>1 DEF ReadType, UploadType
  <2>2. read \in ReadType /\ read.pc = reads[r].pc /\ read.left = reads[r].left
    <3> HIDE DEF arrived, ended
    <3> QED BY <1>1, <2>1, Zenon DEF ReadType
  <2>3. reads' = [reads EXCEPT ![r] = next] /\ UNCHANGED <<tracked, interval, listeners>>
    BY <1>4, Zenon DEF Arrives
  <2> HIDE DEF read
  <2>4. next \in ReadType /\ next.pc = reads[r].pc /\ next.left = reads[r].left
    BY <1>3, <2>2
  <2> HIDE DEF next
  <2> QED BY <1>2, <2>3, <2>4, Zenon
<1>5. CASE Disconnects(r)
  <2> DEFINE read == [reads[r] EXCEPT !.gone = TRUE]
             next == IF r \in listeners THEN Settled(read, "abort") ELSE read
  <2>1. read \in ReadType /\ read.pc = reads[r].pc /\ read.left = reads[r].left
    BY <1>1, Zenon DEF ReadType
  <2>2. /\ reads' = [reads EXCEPT ![r] = next] /\ UNCHANGED <<tracked, interval>>
        /\ listeners' = listeners \ {r}
    BY <1>5, Zenon DEF Disconnects
  <2> HIDE DEF read
  <2>3. next \in ReadType /\ next.pc = reads[r].pc /\ next.left = reads[r].left
    BY <1>3, <2>1
  <2> HIDE DEF next
  <2> QED BY <1>2, <2>2, <2>3, Zenon
<1>6. CASE BodyFails(r)
  <2> DEFINE next == Settled(reads[r], "error")
  <2>1. next \in ReadType /\ next.pc = reads[r].pc /\ next.left = reads[r].left
    BY <1>1, <1>3, Zenon
  <2>2. reads' = [reads EXCEPT ![r] = next] /\ UNCHANGED <<tracked, interval, listeners>>
    BY <1>6 DEF BodyFails
  <2> HIDE DEF next
  <2> QED BY <1>2, <2>1, <2>2, Zenon
<1> QED BY <1>4, <1>5, <1>6

\* A sweep rejects the reads that are due; the others have more than nothing
\* left when the next period begins.
LEMMA SweepStep == ASSUME BodyInv, Sweep PROVE BodyInv'
<1> DEFINE due == {r \in tracked : reads[r].left[1] <= 0}
           s(r) == IF r \in due THEN [reads[r] EXCEPT !.race = "timeout"] ELSE reads[r]
<1>1. /\ interval = <<0>> /\ reads' = [r \in Readers |-> s(r)] /\ tracked' = tracked \ due
      /\ interval' = IF tracked' = {} THEN <<>> ELSE <<SWEEP_MS>>
      /\ listeners' = listeners
  BY DEF Sweep
<1>2. interval[1] = 0
  BY <1>1, Zenon
<1>3. ASSUME NEW r \in Readers
      PROVE  /\ s(r) \in ReadType /\ s(r).pc = reads[r].pc /\ s(r).left = reads[r].left
             /\ r \in due => s(r).race = "timeout"
             /\ r \notin due => s(r).race = reads[r].race
  <2> DEFINE late == [reads[r] EXCEPT !.race = "timeout"]
  <2>1. reads[r] \in ReadType
    BY DEF BodyInv
  <2>2. /\ late \in ReadType /\ late.pc = reads[r].pc /\ late.left = reads[r].left
        /\ late.race = "timeout"
    BY <2>1 DEF ReadType
  <2>3. s(r) = IF r \in due THEN late ELSE reads[r]
    BY Zenon
  <2> HIDE DEF s, late
  <2> QED BY <2>1, <2>2, <2>3, Zenon
<1> HIDE DEF s
<1>4. reads' \in [Readers -> ReadType]
  BY <1>1, <1>3
<1>5. interval' \in IntervalType /\ ((interval' # <<>>) <=> (tracked' # {}))
  BY <1>1 DEF IntervalType
<1>6. ASSUME NEW r \in Readers PROVE Kept(r)'
  <2>1. /\ reads'[r] = s(r) /\ Kept(r) /\ reads[r] \in ReadType
        /\ reads[r].left \in LeftType
    BY <1>1, <1>6, Zenon DEF BodyInv, ReadType
  <2>2. r \in due => r \in tracked /\ r \notin tracked'
    BY <1>1, Zenon
  <2>3. r \notin due => (r \in tracked' <=> r \in tracked)
    BY <1>1, Zenon
  <2>4. r \in tracked => reads[r].left[1] \in Int /\ reads[r].left[1] > -SWEEP_MS
    BY <1>2, <2>1 DEF Kept, LeftType
  <2>5. r \in tracked' => reads[r].left[1] > 0 /\ interval'[1] = SWEEP_MS
    BY <1>1, <2>4
  <2>6. r \in tracked' => /\ reads[r].pc = "wait" /\ reads[r].left # <<>>
                          /\ reads[r].left[1] > interval'[1] - SWEEP_MS
    BY <1>1, <2>1, <2>4, <2>5 DEF Kept
  <2> QED BY <1>1, <1>3, <2>1, <2>2, <2>3, <2>4, <2>6, Zenon DEF Kept
<1>7. tracked' \subseteq Readers
  BY <1>1 DEF BodyInv
<1> QED BY <1>4, <1>5, <1>6, <1>7 DEF BodyInv

\* Time passes alike for the interval and for every deadline it watches.
LEMMA TickStep == ASSUME BodyInv, BodyTick PROVE BodyInv'
<1> DEFINE left(r) == IF r \in tracked THEN <<reads[r].left[1] - 1>> ELSE reads[r].left
           s(r) == [reads[r] EXCEPT !.left = left(r)]
<1>1. /\ interval # <<>> /\ interval[1] > 0 /\ interval' = <<interval[1] - 1>>
      /\ reads' = [r \in Readers |-> s(r)]
      /\ UNCHANGED <<tracked, listeners>>
  BY DEF BodyTick
<1>2. interval[1] \in 1..SWEEP_MS /\ interval'[1] = interval[1] - 1
  BY <1>1 DEF BodyInv, IntervalType
<1>3. interval' \in IntervalType /\ interval' # <<>>
  BY <1>1, <1>2 DEF IntervalType
<1>4. ASSUME NEW r \in Readers
      PROVE  /\ reads[r] \in ReadType /\ Kept(r)
             /\ r \in tracked => reads[r].left[1] \in Int
             /\ left(r) \in LeftType
  BY DEF BodyInv, ReadType, LeftType, Kept
<1>5. ASSUME NEW r \in Readers
      PROVE  /\ s(r) \in ReadType /\ s(r).pc = reads[r].pc /\ s(r).race = reads[r].race
             /\ s(r).left = left(r)
  <2>1. reads[r] \in ReadType /\ left(r) \in LeftType
    BY <1>4
  <2> HIDE DEF left
  <2> QED BY <2>1 DEF ReadType
<1> HIDE DEF s
<1>6. reads' \in [Readers -> ReadType]
  BY <1>1, <1>5, Zenon
<1>7. ASSUME NEW r \in Readers PROVE Kept(r)'
  <2>1. reads'[r] = s(r)
    BY <1>1
  <2>2. r \in tracked => left(r) # <<>> /\ left(r)[1] = reads[r].left[1] - 1
    OBVIOUS
  <2>3. r \notin tracked => left(r) = reads[r].left
    OBVIOUS
  <2> HIDE DEF left
  <2> QED BY <1>1, <1>2, <1>4, <1>5, <2>1, <2>2, <2>3, SMTT(30) DEF Kept
<1> QED BY <1>1, <1>3, <1>6, <1>7 DEF BodyInv

\* Every step keeps the watchdog's invariant.
LEMMA BodyStepKeeps == ASSUME BodyInv, [BodyNext]_bodyVars PROVE BodyInv'
<1>1. CASE BodyNext
  BY <1>1, StartStep, ResumeStep, LeaveRaceStep, ClientStep, SweepStep, TickStep DEF BodyNext
<1>2. CASE UNCHANGED bodyVars
  BY <1>2 DEF bodyVars, BodyInv, Kept
<1> QED BY <1>1, <1>2

\* For any requests, uploads, deadlines and sweep period: no read outlives its
\* deadline by a period, the interval runs exactly while a read is tracked, and
\* nothing of a read that has left its race is kept (bodyWatchdog, body.ts).
THEOREM DeadlineAlwaysKept == BodySpec => []DeadlineKept
<1>1. BodyInv => DeadlineKept
  <2> SUFFICES ASSUME BodyInv PROVE DeadlineKept
    OBVIOUS
  <2>1. ASSUME NEW r \in tracked PROVE reads[r].left[1] > -SWEEP_MS
    <3>1. r \in Readers /\ interval # <<>> /\ reads[r] \in ReadType /\ Kept(r)
      BY Zenon DEF BodyInv
    <3>2. interval[1] \in Nat /\ reads[r].left[1] \in Int
      BY <3>1 DEF BodyInv, IntervalType, ReadType, LeftType, Kept
    <3> QED BY <3>1, <3>2 DEF Kept
  <2>2. ASSUME NEW r \in Readers, r \notin tracked, reads[r].pc = "wait",
               reads[r].left # <<>>
        PROVE  reads[r].race # "none" /\ reads[r].left[1] > -SWEEP_MS
    BY <2>2 DEF BodyInv, Kept
  <2>3. ASSUME NEW r \in Readers, reads[r].pc # "wait" PROVE r \notin tracked \union listeners
    BY <2>3 DEF BodyInv, Kept
  <2> QED BY <2>1, <2>2, <2>3 DEF BodyInv, DeadlineKept
<1> QED BY <1>1, BodyInitially, BodyStepKeeps, PTL DEF BodySpec

-----------------------------------------------------------------------------
(***************************************************************************)
(* The sizes of bodies.  An induction over the chunks is an argument about *)
(* the least number of chunks for which a claim fails.                     *)
(***************************************************************************)
\* A set of naturals that is not empty has a least element.
LEMMA Least ==
    ASSUME NEW S, S \subseteq Nat, S # {}
    PROVE  \E m \in S : \A y \in S : m <= y
<1> DEFINE R == OpToRel(<, Nat)
<1>1. IsWellFoundedOn(R, Nat)
  BY NatLessThanWellFounded, Zenon
<1>2. \A a, b \in Nat : a < b => <<a, b>> \in R
  BY DEF OpToRel
<1> HIDE DEF R
<1>3. PICK m \in S : \A y \in S : ~(<<y, m>> \in R)
  BY <1>1, WFMin, Zenon
<1>4. ASSUME NEW y \in S PROVE m <= y
  <2>1. m \in Nat /\ y \in Nat /\ ~(<<y, m>> \in R)
    BY <1>3
  <2>2. ~(y < m)
    BY <1>2, <2>1
  <2> QED BY <2>1, <2>2
<1> QED BY <1>3, <1>4, Zenon

\* g[n] is the size of the first n chunks, for n up to k.
Sums(g, chunks, k) ==
    /\ g \in [0 .. k -> Nat]
    /\ g[0] = 0
    /\ \A i \in 1 .. k : g[i] = g[i - 1] + chunks[i]

\* The chunks can be summed up, one after the other.
LEMMA SumsExist ==
    ASSUME NEW chunks \in Seq(Nat)
    PROVE  \A k \in 0 .. Len(chunks) : \E g : Sums(g, chunks, k)
<1> DEFINE S == {k \in 0 .. Len(chunks) : ~\E g : Sums(g, chunks, k)}
<1> SUFFICES ASSUME S # {} PROVE FALSE
  OBVIOUS
<1>0. S \subseteq Nat
  OBVIOUS
<1>1. PICK k \in S : \A y \in S : k <= y
  BY <1>0, Least, Zenon
<1>2. CASE k = 0
  <2>1. Sums([n \in 0 .. 0 |-> 0], chunks, 0)
    BY DEF Sums
  <2> QED BY <1>1, <1>2, <2>1, Zenon
<1>3. CASE k # 0
  <2>1. k \in 1 .. Len(chunks) /\ k - 1 \in 0 .. Len(chunks) /\ ~(k <= k - 1)
    BY <1>3
  <2>2. k - 1 \notin S
    BY <1>1, <2>1, Zenon
  <2>3. PICK g : Sums(g, chunks, k - 1)
    BY <2>1, <2>2, Zenon
  <2> DEFINE h == [n \in 0 .. k |-> IF n = k THEN g[k - 1] + chunks[k] ELSE g[n]]
  <2>4. chunks[k] \in Nat /\ g[k - 1] \in Nat
    BY <2>1, <2>3 DEF Sums
  <2>5. h \in [0 .. k -> Nat]
    BY <2>1, <2>3, <2>4, SMTT(30) DEF Sums
  <2>6. h[0] = 0
    BY <2>1, <2>3 DEF Sums
  <2>7. ASSUME NEW i \in 1 .. k PROVE h[i] = h[i - 1] + chunks[i]
    <3>1. i - 1 \in 0 .. k - 1 /\ i \in 0 .. k /\ k \in Nat
      BY <2>1
    <3>2. h[i - 1] = g[i - 1]
      BY <3>1
    <3>3. CASE i = k
      BY <3>1, <3>2, <3>3, Zenon
    <3>4. CASE i # k
      <4>1. i \in 1 .. k - 1 /\ h[i] = g[i]
        BY <3>1, <3>4
      <4> QED BY <2>3, <3>2, <4>1, Zenon DEF Sums
    <3> QED BY <3>3, <3>4, Zenon
  <2>8. Sums(h, chunks, k)
    BY <2>5, <2>6, <2>7, Zenon DEF Sums
  <2> QED BY <1>1, <2>8
<1> QED BY <1>2, <1>3, Zenon

\* The definition of total in SizeOf.
Unrolled(g, chunks) ==
    g = [n \in 0 .. Len(chunks) |-> IF n = 0 THEN 0 ELSE g[n - 1] + chunks[n]]

\* The sums of chunks are unique, and the function of SizeOf is one.
LEMMA SizeIs ==
    ASSUME NEW chunks \in Seq(Nat), NEW g, Sums(g, chunks, Len(chunks))
    PROVE  SizeOf(chunks) = g[Len(chunks)]
<1> DEFINE f == CHOOSE h : Unrolled(h, chunks)
           S == {n \in 0 .. Len(chunks) : f[n] # g[n]}
<1>1. SizeOf(chunks) = f[Len(chunks)]
  BY Zenon DEF SizeOf, Unrolled
<1>2. Unrolled(f, chunks)
  <2>1. g = [n \in 0 .. Len(chunks) |-> IF n = 0 THEN 0 ELSE g[n - 1] + chunks[n]]
    BY DEF Sums
  <2>2. Unrolled(g, chunks)
    BY <2>1, Zenon DEF Unrolled
  <2> QED BY <2>2, Zenon
<1> HIDE DEF f
<1>3. \A n \in 0 .. Len(chunks) : f[n] = IF n = 0 THEN 0 ELSE f[n - 1] + chunks[n]
  BY <1>2, Zenon DEF Unrolled
<1>4. S = {}
  <2> SUFFICES ASSUME S # {} PROVE FALSE
    OBVIOUS
  <2>0. S \subseteq Nat
    OBVIOUS
  <2>1. PICK n \in S : \A y \in S : n <= y
    BY <2>0, Least, Zenon
  <2>2. n # 0
    BY <1>3, <2>1, Zenon DEF Sums
  <2>3. n \in 1 .. Len(chunks) /\ n - 1 \in 0 .. Len(chunks) /\ ~(n <= n - 1)
    BY <2>2
  <2>4. f[n - 1] = g[n - 1]
    BY <2>1, <2>3, Zenon
  <2>5. g[n] = g[n - 1] + chunks[n] /\ f[n] = f[n - 1] + chunks[n]
    BY <1>3, <2>2, <2>3, Zenon DEF Sums
  <2> QED BY <2>4, <2>5, Zenon
<1> QED BY <1>1, <1>4

\* An empty body has no bytes, and no prefix of a body is larger than the body.
LEMMA PrefixSize ==
    ASSUME NEW chunks \in Seq(Nat), NEW k \in 0 .. Len(chunks)
    PROVE  /\ SizeOf(SubSeq(chunks, 1, k)) <= SizeOf(chunks)
           /\ k = 0 => SizeOf(SubSeq(chunks, 1, k)) = 0
           /\ SizeOf(SubSeq(chunks, 1, k)) \in Nat /\ SizeOf(chunks) \in Nat
<1> DEFINE front == SubSeq(chunks, 1, k)
           n == Len(chunks)
<1>1. front \in Seq(Nat) /\ Len(front) = k /\ \A i \in 1 .. k : front[i] = chunks[i]
  OBVIOUS
<1>2. PICK g : Sums(g, chunks, n)
  BY SumsExist
<1>3. SizeOf(chunks) = g[n]
  BY <1>2, SizeIs
<1>0. /\ g[0] = 0 /\ \A i \in 0 .. n : g[i] \in Nat
      /\ \A i \in 1 .. n : g[i] = g[i - 1] + chunks[i] /\ chunks[i] \in Nat
  <2>1. /\ g \in [0 .. n -> Nat] /\ g[0] = 0
        /\ \A i \in 1 .. n : g[i] = g[i - 1] + chunks[i]
    BY <1>2 DEF Sums
  <2>2. \A i \in 1 .. n : chunks[i] \in Nat
    OBVIOUS
  <2> QED BY <2>1, <2>2, Zenon
<1> DEFINE h == [i \in 0 .. k |-> g[i]]
<1> HIDE DEF front
<1>4. Sums(h, front, Len(front))
  <2>1. h \in [0 .. k -> Nat] /\ h[0] = 0
    <3>1. \A i \in 0 .. k : i \in 0 .. n
      OBVIOUS
    <3> QED BY <1>0, <3>1
  <2>2. ASSUME NEW i \in 1 .. k PROVE h[i] = h[i - 1] + front[i]
    <3>1. i \in 1 .. n /\ i \in 0 .. k /\ i - 1 \in 0 .. k
      OBVIOUS
    <3>2. h[i] = g[i] /\ h[i - 1] = g[i - 1]
      BY <3>1, Zenon
    <3> QED BY <1>0, <1>1, <3>1, <3>2, Zenon
  <2> HIDE DEF h
  <2> QED BY <1>1, <2>1, <2>2, Zenon DEF Sums
<1>5. SizeOf(front) = h[k] /\ h[k] = g[k]
  BY <1>1, <1>4, SizeIs
<1> DEFINE S == {i \in k .. n : g[i] < g[k]}
<1>6. S = {}
  <2> SUFFICES ASSUME S # {} PROVE FALSE
    OBVIOUS
  <2>0. S \subseteq Nat
    OBVIOUS
  <2>1. PICK i \in S : \A y \in S : i <= y
    BY <2>0, Least, Zenon
  <2>2. i \in k .. n /\ g[i] < g[k] /\ g[k] \in Nat
    BY <1>2, <2>1, Zenon DEF Sums
  <2>3. i # k
    BY <2>2
  <2>4. i \in 1 .. n /\ i - 1 \in k .. n /\ ~(i <= i - 1)
    BY <2>2, <2>3
  <2>5. ~(g[i - 1] < g[k])
    BY <2>1, <2>4, Zenon
  <2>6. g[i] = g[i - 1] + chunks[i] /\ chunks[i] \in Nat /\ g[i - 1] \in Nat
    <3>1. i - 1 \in 0 .. n
      BY <2>4
    <3> QED BY <1>0, <2>4, <3>1, Zenon
  <2> QED BY <2>2, <2>5, <2>6
<1>7. g[n] \in Nat /\ g[k] \in Nat /\ g[0] = 0
  BY <1>2 DEF Sums
<1>8. g[k] <= g[n]
  <2>1. n \notin S
    BY <1>6
  <2> QED BY <1>7, <2>1
<1> QED BY <1>3, <1>5, <1>7, <1>8 DEF front
-----------------------------------------------------------------------------
(***************************************************************************)
(* The answers to the reads: BodyHonest.                                   *)
(***************************************************************************)
Overdue(read) == read.left # <<>> /\ read.left[1] <= 0

Oversized(read) ==
    \/ SizeOf(read.upload.chunks) > BodyLimit
    \/ IsWhole(read) /\ read.upload.declared[1] > BodyLimit

Complete(read) ==
    /\ read.upload.ends /\ read.arrived = Len(read.upload.chunks)
    /\ IsWhole(read) \/ read.taken = read.arrived
    /\ SizeOf(read.upload.chunks) <= BodyLimit

\* The read may end with this result.
Deserved(read, result) ==
    /\ result = "ok" => Complete(read)
    /\ result = "abort" => read.gone
    /\ result = "timeout" => Overdue(read)
    /\ result = "too_large" => Oversized(read)

\* What is true of a read at any moment: the race was settled by what did
\* happen, and the result and the status follow from it.
Truthful(read) ==
    /\ read.arrived \in 0 .. Len(read.upload.chunks) /\ read.taken \in 0 .. read.arrived
    /\ read.ended => read.upload.ends /\ read.arrived = Len(read.upload.chunks)
    /\ SizeOf(SubSeq(read.upload.chunks, 1, read.taken)) <= BodyLimit
    /\ read.race = "read" => BytesThere(read)
    /\ read.race = "timeout" => Overdue(read)
    /\ read.race = "abort" => read.gone
    /\ read.pc # "done" => read.status = 0 /\ read.result # "ok"
    /\ Deserved(read, read.result)
    /\ read.status = 200 => Complete(read) /\ ~read.gone
    /\ read.status = 499 => read.gone

HonestInv == BodyInv /\ \A r \in Readers : Truthful(reads[r])

\* What it takes for a read that is not answered yet.
LEMMA RunningTruthful ==
    ASSUME NEW read,
           read.arrived \in 0 .. Len(read.upload.chunks), read.taken \in 0 .. read.arrived,
           read.ended => read.upload.ends /\ read.arrived = Len(read.upload.chunks),
           SizeOf(SubSeq(read.upload.chunks, 1, read.taken)) <= BodyLimit,
           read.race = "read" => BytesThere(read),
           read.race = "timeout" => Overdue(read),
           read.race = "abort" => read.gone,
           read.status = 0, read.result # "ok", Deserved(read, read.result)
    PROVE  Truthful(read)
<1>1. read.status # 200 /\ read.status # 499
  OBVIOUS
<1> QED BY <1>1, Zenon DEF Truthful

\* The bytes of a read are those of another.
SameBytes(read, old) ==
    /\ read.upload = old.upload /\ read.arrived = old.arrived
    /\ read.ended = old.ended /\ read.taken = old.taken

\* The same for a read whose bytes are those of a truthful one.
LEMMA StaysTruthful ==
    ASSUME NEW old, Truthful(old), NEW read, SameBytes(read, old),
           read.race = "read" => BytesThere(read),
           read.race = "timeout" => Overdue(read),
           read.race = "abort" => read.gone,
           read.status = 0, read.result # "ok", Deserved(read, read.result)
    PROVE  Truthful(read)
<1>1. /\ read.arrived \in 0 .. Len(read.upload.chunks) /\ read.taken \in 0 .. read.arrived
      /\ read.ended => read.upload.ends /\ read.arrived = Len(read.upload.chunks)
      /\ SizeOf(SubSeq(read.upload.chunks, 1, read.taken)) <= BodyLimit
  BY ZenonT(30) DEF Truthful, SameBytes
<1> QED BY <1>1, RunningTruthful, Zenon

\* An answer with a deserved result is truthful.
LEMMA TruthfulAnswer ==
    ASSUME NEW r \in Readers, NEW read \in ReadType, Truthful(read), read.pc # "done",
           NEW result \in {"none", "ok", "timeout", "abort", "error", "too_large"},
           Deserved(read, result), reads \in [Readers -> ReadType],
           Answers(r, read, result)
    PROVE  Truthful(reads'[r]) /\ \A d \in Readers \ {r} : reads'[d] = reads[d]
<1>1. PICK route \in RouteKinds : \E status \in StatusesFor(route, result, read.gone) :
         reads' = [reads EXCEPT ![r] = [read EXCEPT !.pc = "done", !.race = "none",
                                                    !.result = result, !.status = status]]
  BY Zenon DEF Answers
<1>2. PICK status \in StatusesFor(route, result, read.gone) :
         reads' = [reads EXCEPT ![r] = [read EXCEPT !.pc = "done", !.race = "none",
                                                    !.result = result, !.status = status]]
  BY <1>1, Zenon
<1>3. /\ status = 200 => result = "ok" /\ ~read.gone
      /\ status = 499 => result = "abort" \/ read.gone
  BY DEF StatusesFor, ReadType
<1> DEFINE next == [read EXCEPT !.pc = "done", !.race = "none",
                                !.result = result, !.status = status]
<1>4. /\ next.pc = "done" /\ next.race = "none" /\ next.result = result /\ next.status = status
      /\ next.upload = read.upload /\ next.arrived = read.arrived /\ next.ended = read.ended
      /\ next.gone = read.gone /\ next.taken = read.taken /\ next.left = read.left
  BY Zenon DEF ReadType
<1>5. reads'[r] = next /\ \A d \in Readers \ {r} : reads'[d] = reads[d]
  BY <1>2, Zenon
<1> HIDE DEF next
<1>6. /\ IsWhole(next) <=> IsWhole(read)
      /\ Complete(next) <=> Complete(read) 
      /\ Overdue(next) <=> Overdue(read)
      /\ Oversized(next) <=> Oversized(read)
  BY <1>4, Zenon DEF IsWhole, Complete, Overdue, Oversized
<1>7. Deserved(next, result)
  BY <1>4, <1>6, Zenon DEF Deserved
<1>8. /\ next.arrived \in 0 .. Len(next.upload.chunks) /\ next.taken \in 0 .. next.arrived
      /\ next.ended => next.upload.ends /\ next.arrived = Len(next.upload.chunks)
      /\ SizeOf(SubSeq(next.upload.chunks, 1, next.taken)) <= BodyLimit
  BY <1>4, ZenonT(30) DEF Truthful
<1>9. /\ status = 200 => Complete(next) /\ ~next.gone
      /\ status = 499 => next.gone
  BY <1>3, <1>4, <1>6, SMT DEF Deserved
<1>10. Truthful(next)
  BY <1>4, <1>7, <1>8, <1>9, Zenon DEF Truthful
<1> QED BY <1>5, <1>10, Zenon

\* A read whose bytes are there in full has the result WholeResult finds.
LEMMA WholeDeserved ==
    ASSUME NEW read \in ReadType, Truthful(read), IsWhole(read), read.ended
    PROVE  Deserved(read, WholeResult(read))
<1>1. SizeOf(read.upload.chunks) \in Nat
  <2>1. read.upload.chunks \in Seq(Nat)
    BY DEF ReadType, UploadType
  <2>2. Len(read.upload.chunks) \in 0 .. Len(read.upload.chunks)
    BY <2>1
  <2> QED BY <2>1, <2>2, PrefixSize, Zenon
<1> QED BY <1>1 DEF Truthful, Deserved, WholeResult, Complete, Oversized

\* Another request's read, untouched by the step.
LEMMA OthersHonest ==
    ASSUME HonestInv, BodyInv', NEW r \in Readers, Truthful(reads'[r]),
           \A d \in Readers \ {r} : reads'[d] = reads[d]
    PROVE  HonestInv'
BY Zenon DEF HonestInv

\* A slot without a request.
LEMMA NotStartedTruthful == Truthful(NotStarted)
<1>1. SizeOf(SubSeq(<<>>, 1, 0)) = 0
  <2>1. <<>> \in Seq(Nat) /\ 0 \in 0 .. Len(<<>>)
    OBVIOUS
  <2> QED BY <2>1, PrefixSize, Zenon
<1> QED BY <1>1 DEF NotStarted, Truthful, Deserved, BytesThere, IsWhole, Overdue, Oversized, Complete

\* A route calls readBodyWithLimit.
LEMMA StartHonest ==
    ASSUME HonestInv, NEW r \in Readers, NEW upload \in Uploads, NEW gone \in BOOLEAN,
           NEW runtime \in Runtimes, NEW timeout \in BodyTimeouts,
           NEW arrived \in 0..Len(upload.chunks),
           Start(r, upload, arrived, gone, runtime, timeout)
    PROVE  HonestInv'
<1> DEFINE ended == upload.ends /\ arrived = Len(upload.chunks)
           read == [NotStarted EXCEPT !.upload = upload, !.arrived = arrived,
                                      !.gone = gone, !.ended = ended]
<1>1. BodyInv' /\ reads \in [Readers -> ReadType]
  BY StartStep, Zenon DEF HonestInv, BodyInv
<1>2. upload \in UploadType /\ arrived \in Nat /\ ended \in BOOLEAN /\ upload.chunks \in Seq(Nat)
  BY DEF UploadType
<1>3. /\ read \in ReadType /\ read.upload = upload /\ read.arrived = arrived
      /\ read.gone = gone /\ read.ended = ended /\ read.taken = 0 /\ read.pc = "out"
      /\ read.race = "none" /\ read.result = "none" /\ read.status = 0
  <2> HIDE DEF ended
  <2> QED BY <1>2, NotStartedType, Zenon DEF ReadType, NotStarted
<1>4. /\ \/ gone /\ Answers(r, read, "abort")
         \/ /\ IsWhole(read) /\ upload.declared[1] > BodyLimit
            /\ Answers(r, read, "too_large")
         \/ IsWhole(read) /\ read.ended /\ Answers(r, read, WholeResult(read))
         \/ Races(r, read, timeout)
  BY DEF Start
<1>5. SizeOf(SubSeq(upload.chunks, 1, 0)) = 0
  <2>1. 0 \in 0 .. Len(upload.chunks)
    BY <1>2
  <2> QED BY <1>2, <2>1, PrefixSize, Zenon
<1>6. Truthful(read)
  <2>1. /\ read.arrived \in 0 .. Len(read.upload.chunks) /\ read.taken \in 0 .. read.arrived
        /\ read.ended => read.upload.ends /\ read.arrived = Len(read.upload.chunks)
    <3>1. 0 \in 0 .. arrived /\ (ended => upload.ends /\ arrived = Len(upload.chunks))
      BY <1>2
    <3> HIDE DEF read, ended
    <3> QED BY <1>3, <3>1, Zenon
  <2>2. SizeOf(SubSeq(read.upload.chunks, 1, read.taken)) <= BodyLimit
    <3>1. SizeOf(SubSeq(read.upload.chunks, 1, read.taken)) = 0
      BY <1>3, <1>5, Zenon
    <3> QED BY <3>1
  <2> HIDE DEF read
  <2> QED BY <1>3, <2>1, <2>2 DEF Truthful, Deserved
<1> HIDE DEF read, ended
<1>7. Truthful(reads'[r]) /\ \A d \in Readers \ {r} : reads'[d] = reads[d]
  <2>1. CASE gone /\ Answers(r, read, "abort")
    <3>1. Deserved(read, "abort")
      BY <1>3, <2>1, Zenon DEF Deserved
    <3> QED BY <1>1, <1>3, <1>6, <2>1, <3>1, TruthfulAnswer, Zenon
  <2>2. CASE IsWhole(read) /\ upload.declared[1] > BodyLimit /\ Answers(r, read, "too_large")
    <3>1. Deserved(read, "too_large")
      BY <1>3, <2>2, Zenon DEF Deserved, Oversized
    <3> QED BY <1>1, <1>3, <1>6, <2>2, <3>1, TruthfulAnswer, Zenon
  <2>3. CASE IsWhole(read) /\ read.ended /\ Answers(r, read, WholeResult(read))
    <3>1. Deserved(read, WholeResult(read))
      BY <1>3, <1>6, <2>3, WholeDeserved
    <3> QED BY <1>1, <1>3, <1>6, <2>3, <3>1, TruthfulAnswer, WholeResults, Zenon
  <2>4. CASE Races(r, read, timeout)
    <3> DEFINE left == IF timeout = 0 THEN <<>> ELSE <<timeout>>
               race == IF BytesThere(read) THEN "read" ELSE "none"
               next == [read EXCEPT !.pc = "wait", !.left = left, !.race = race]
    <3>1. reads'[r] = next /\ \A d \in Readers \ {r} : reads'[d] = reads[d]
      BY <1>1, <2>4, Zenon DEF Races
    <3>2. /\ next.pc = "wait" /\ next.race = race /\ next.result = "none" /\ next.status = 0
          /\ next.upload = read.upload /\ next.arrived = read.arrived
          /\ next.ended = read.ended /\ next.taken = read.taken
      <4> HIDE DEF left, race
      <4> QED BY <1>3, Zenon DEF ReadType
    <3>3. race = "read" => BytesThere(next)
      BY <3>2, Zenon DEF BytesThere, IsWhole
    <3>4. race # "timeout" /\ race # "abort"
      BY Zenon
    <3> HIDE DEF next, race
    <3>5. Truthful(next)
      BY <1>6, <3>2, <3>3, <3>4 DEF Truthful, Deserved
    <3> QED BY <3>1, <3>5, Zenon
  <2> QED BY <1>4, <2>1, <2>2, <2>3, <2>4, Zenon
<1> QED BY <1>1, <1>7, OthersHonest, Zenon

\* The race of a read has settled.
LEMMA ResumeHonest ==
    ASSUME HonestInv, NEW r \in Readers, ResumeWhole(r) \/ ResumeStream(r)
    PROVE  HonestInv'
<1> DEFINE read == reads[r]
<1>1. BodyInv' /\ reads \in [Readers -> ReadType]
  BY ResumeStep, Zenon DEF HonestInv, BodyInv
<1>2. read \in ReadType /\ Truthful(read) /\ read.pc = "wait" /\ read.race # "none"
  BY Zenon DEF HonestInv, BodyInv, ResumeWhole, ResumeStream
<1>3. /\ read.upload.chunks \in Seq(Nat) /\ read.arrived \in Nat /\ read.taken \in Nat
      /\ read.race \in {"none", "read", "timeout", "abort", "error"}
  BY <1>2, Zenon DEF ReadType, UploadType
<1>4. read.race # "read" => Deserved(read, read.race)
  <2>1. /\ read.race = "timeout" => Overdue(read)
        /\ read.race = "abort" => read.gone
    BY <1>2, Zenon DEF Truthful
  <2>2. read.race # "ok" /\ read.race # "too_large"
    BY <1>3, Zenon
  <2> QED BY <2>1, <2>2, Zenon DEF Deserved
<1>5. CASE ResumeWhole(r)
  <2>1. IsWhole(read) /\ Answers(r, read, IF read.race = "read" THEN WholeResult(read) ELSE read.race)
    BY <1>5 DEF ResumeWhole
  <2>2. CASE read.race = "read"
    <3>1. read.ended
      BY <1>2, <2>1, <2>2, Zenon DEF Truthful, BytesThere
    <3>2. Deserved(read, WholeResult(read))
      BY <1>2, <2>1, <3>1, WholeDeserved, Zenon
    <3>3. Answers(r, read, WholeResult(read)) /\ read.pc # "done"
      BY <1>2, <2>1, <2>2, Zenon
    <3>4. Truthful(reads'[r]) /\ \A d \in Readers \ {r} : reads'[d] = reads[d]
      BY <1>1, <1>2, <3>2, <3>3, TruthfulAnswer, WholeResults, Zenon
    <3> QED BY <1>1, <3>4, OthersHonest, Zenon
  <2>3. CASE read.race # "read"
    <3>1. Answers(r, read, read.race) /\ read.pc # "done"
          /\ read.race \in {"none", "ok", "timeout", "abort", "error", "too_large"}
      BY <1>2, <1>3, <2>1, <2>3, Zenon
    <3>2. Truthful(reads'[r]) /\ \A d \in Readers \ {r} : reads'[d] = reads[d]
      BY <1>1, <1>2, <1>4, <2>3, <3>1, TruthfulAnswer, Zenon
    <3> QED BY <1>1, <3>2, OthersHonest, Zenon
  <2> QED BY <2>2, <2>3, Zenon
<1>6. CASE ResumeStream(r)
  <2> DEFINE chunk == read.race = "read" /\ read.arrived > read.taken
             total == SizeOf(SubSeq(read.upload.chunks, 1, read.taken + 1))
             next == [read EXCEPT !.taken = @ + 1]
             race == IF BytesThere(next) THEN "read" ELSE "none"
             counted == [next EXCEPT !.race = race]
             result == IF chunk THEN "too_large" ELSE read.race
             left == [read EXCEPT !.pc = "cancel", !.race = "none", !.result = result]
  <2>1. /\ ~IsWhole(read)
        /\ \/ chunk /\ total <= BodyLimit /\ reads' = [reads EXCEPT ![r] = counted]
           \/ read.race = "read" /\ ~chunk /\ Answers(r, read, "ok")
           \/ /\ read.race # "read" \/ (chunk /\ total > BodyLimit)
              /\ reads' = [reads EXCEPT ![r] = left]
    BY <1>6, Zenon DEF ResumeStream
  <2>2. CASE chunk /\ total <= BodyLimit /\ reads' = [reads EXCEPT ![r] = counted]
    <3> DEFINE k == read.taken + 1
    <3>1. k \in Nat /\ k \in 0 .. read.arrived
      BY <1>3, <2>2
    <3>2. /\ next \in ReadType /\ next.taken = k /\ next.upload = read.upload
          /\ next.arrived = read.arrived /\ next.ended = read.ended /\ next.pc = read.pc
          /\ next.result = read.result /\ next.status = read.status /\ next.gone = read.gone
          /\ next.left = read.left
      <4>1. next = [read EXCEPT !.taken = k]
        OBVIOUS
      <4> HIDE DEF k, next
      <4> QED BY <1>2, <3>1, <4>1, Zenon DEF ReadType
    <3> HIDE DEF next
    <3>3. /\ counted.taken = next.taken /\ counted.upload = next.upload
          /\ counted.arrived = next.arrived /\ counted.ended = next.ended /\ counted.pc = next.pc
          /\ counted.result = next.result /\ counted.status = next.status
          /\ counted.gone = next.gone /\ counted.left = next.left /\ counted.race = race
      <4> HIDE DEF race
      <4> QED BY <3>2, Zenon DEF ReadType
    <3>4. race = "read" => BytesThere(counted)
      BY <3>3, Zenon DEF BytesThere, IsWhole
    <3>5. race # "timeout" /\ race # "abort"
      OBVIOUS
    <3> HIDE DEF counted, race
    <3>6. SizeOf(SubSeq(counted.upload.chunks, 1, counted.taken)) <= BodyLimit
      BY <2>2, <3>2, <3>3, Zenon
    <3>7. counted.taken \in 0 .. counted.arrived
      BY <3>1, <3>2, <3>3, Zenon
    <3>8. Deserved(counted, counted.result)
      <4>1. Deserved(read, read.result)
        BY <1>2, Zenon DEF Truthful
      <4>2. read.result # "ok"
        <5>1. read.pc # "done"
          BY <1>2
        <5> QED BY <1>2, <5>1, Zenon DEF Truthful
      <4> QED BY <3>2, <3>3, <4>1, <4>2, Zenon DEF Deserved, Overdue, Oversized, IsWhole
    <3>9. Truthful(counted)
      <4>1. /\ read.arrived \in 0 .. Len(read.upload.chunks)
            /\ read.ended => read.upload.ends /\ read.arrived = Len(read.upload.chunks)
            /\ read.status = 0 /\ read.result # "ok"
        <5>1. read.pc # "done"
          BY <1>2
        <5> QED BY <1>2, <5>1, Zenon DEF Truthful
      <4>2. /\ counted.arrived \in 0 .. Len(counted.upload.chunks)
            /\ counted.ended => counted.upload.ends /\ counted.arrived = Len(counted.upload.chunks)
            /\ counted.status = 0 /\ counted.result # "ok"
        BY <3>2, <3>3, <4>1, Zenon
      <4>3. counted.race # "timeout" /\ counted.race # "abort" /\ (counted.race = "read" => BytesThere(counted))
        BY <3>3, <3>4, <3>5, Zenon
      <4> QED BY <3>6, <3>7, <3>8, <4>2, <4>3, RunningTruthful, Zenon
    <3>10. reads'[r] = counted /\ \A d \in Readers \ {r} : reads'[d] = reads[d]
      BY <1>1, <2>2, Zenon
    <3> QED BY <1>1, <3>9, <3>10, OthersHonest, Zenon
  <2>3. CASE read.race = "read" /\ ~chunk /\ Answers(r, read, "ok")
    <3>1. read.ended /\ read.taken = read.arrived
      BY <1>2, <1>3, <2>1, <2>3 DEF Truthful, BytesThere
    <3>2. SubSeq(read.upload.chunks, 1, Len(read.upload.chunks)) = read.upload.chunks
      BY <1>3
    <3>3. Complete(read)
      <4>1. /\ read.upload.ends /\ read.arrived = Len(read.upload.chunks)
            /\ SizeOf(SubSeq(read.upload.chunks, 1, read.taken)) <= BodyLimit
        BY <1>2, <3>1, Zenon DEF Truthful
      <4>2. SizeOf(read.upload.chunks) <= BodyLimit
        BY <3>1, <3>2, <4>1, Zenon
      <4> QED BY <3>1, <4>1, <4>2, Zenon DEF Complete
    <3>4. Deserved(read, "ok") /\ read.pc # "done"
      BY <1>2, <3>3, Zenon DEF Deserved
    <3>5. Truthful(reads'[r]) /\ \A d \in Readers \ {r} : reads'[d] = reads[d]
      BY <1>1, <1>2, <2>3, <3>4, TruthfulAnswer, Zenon
    <3> QED BY <1>1, <3>5, OthersHonest, Zenon
  <2>4. CASE /\ read.race # "read" \/ (chunk /\ total > BodyLimit)
             /\ reads' = [reads EXCEPT ![r] = left]
    <3>1. Deserved(read, result) /\ result # "ok"
      <4>1. CASE chunk /\ total > BodyLimit
        <5>1. read.taken + 1 \in 0 .. Len(read.upload.chunks)
          <6>1. read.arrived \in 0 .. Len(read.upload.chunks)
            BY <1>2, Zenon DEF Truthful
          <6>2. read.arrived > read.taken /\ Len(read.upload.chunks) \in Nat
            BY <1>3, <4>1
          <6> HIDE DEF read, total
          <6> QED BY <1>3, <6>1, <6>2
        <5>2. total <= SizeOf(read.upload.chunks) /\ total \in Nat
              /\ SizeOf(read.upload.chunks) \in Nat
          BY <1>3, <5>1, PrefixSize, Zenon
        <5> HIDE DEF total
        <5>3. SizeOf(read.upload.chunks) > BodyLimit
          BY <4>1, <5>2
        <5> QED BY <4>1, <5>3, Zenon DEF Deserved, Oversized
      <4>2. CASE read.race # "read"
        BY <1>3, <1>4, <4>2, Zenon
      <4> QED BY <2>4, <4>1, <4>2, Zenon
    <3>2. /\ left.pc = "cancel" /\ left.race = "none" /\ left.result = result
          /\ left.status = read.status /\ left.upload = read.upload
          /\ left.arrived = read.arrived /\ left.ended = read.ended /\ left.gone = read.gone
          /\ left.taken = read.taken /\ left.left = read.left
      <4> HIDE DEF result
      <4> QED BY <1>2, Zenon DEF ReadType
    <3> HIDE DEF left, result
    <3>3. Deserved(left, result)
      BY <3>1, <3>2, Zenon DEF Deserved, Overdue, Oversized, IsWhole
    <3>4. Truthful(left)
      <4>1. read.status = 0
        BY <1>2, Zenon DEF Truthful
      <4>2. /\ SameBytes(left, read) /\ left.status = 0 /\ left.result # "ok"
            /\ Deserved(left, left.result)
        BY <3>1, <3>2, <3>3, <4>1, Zenon DEF SameBytes
      <4> QED BY <1>2, <3>2, <4>2, StaysTruthful, Zenon
    <3>5. reads'[r] = left /\ \A d \in Readers \ {r} : reads'[d] = reads[d]
      BY <1>1, <2>4, Zenon
    <3> QED BY <1>1, <3>4, <3>5, OthersHonest, Zenon
  <2> QED BY <2>1, <2>2, <2>3, <2>4, Zenon
<1> QED BY <1>5, <1>6

\* The cancelled reader is answered for, and an answer returned.
LEMMA LeaveHonest ==
    ASSUME HonestInv, NEW r \in Readers, Cancelled(r) \/ Returned(r) PROVE HonestInv'
<1>1. BodyInv' /\ reads \in [Readers -> ReadType]
  BY LeaveRaceStep, Zenon DEF HonestInv, BodyInv
<1>2. reads[r] \in ReadType /\ Truthful(reads[r])
  BY Zenon DEF HonestInv, BodyInv
<1>3. Truthful(reads'[r]) /\ \A d \in Readers \ {r} : reads'[d] = reads[d]
  <2>1. CASE Cancelled(r)
    <3>1. /\ Answers(r, reads[r], reads[r].result) /\ reads[r].pc # "done"
          /\ reads[r].result \in {"none", "ok", "timeout", "abort", "error", "too_large"}
      BY <1>2, <2>1, Zenon DEF Cancelled, ReadType
    <3>2. Deserved(reads[r], reads[r].result)
      BY <1>2, Zenon DEF Truthful
    <3> QED BY <1>1, <1>2, <3>1, <3>2, TruthfulAnswer, Zenon
  <2>2. CASE Returned(r)
    BY <1>1, <2>2, NotStartedTruthful, Zenon DEF Returned
  <2> QED BY <2>1, <2>2
<1> QED BY <1>1, <1>3, OthersHonest, Zenon

\* A race that is open and settles with what has happened.
LEMMA SettledTruthful ==
    ASSUME NEW read \in ReadType, Truthful(read), read.race = "none",
           NEW outcome \in {"read", "abort", "error"},
           outcome = "read" => BytesThere(read), outcome = "abort" => read.gone
    PROVE  Truthful(Settled(read, outcome))
<1> DEFINE next == Settled(read, outcome)
<1>1. /\ next.pc = read.pc /\ next.result = read.result
      /\ next.status = read.status /\ next.upload = read.upload
      /\ next.arrived = read.arrived /\ next.ended = read.ended /\ next.gone = read.gone
      /\ next.taken = read.taken /\ next.left = read.left
      /\ next.race \in {"none", outcome}
  BY DEF Settled, ReadType
<1> HIDE DEF next
<1>2. Deserved(next, next.result)
  <2>1. Deserved(read, read.result)
    BY Zenon DEF Truthful
  <2> QED BY <1>1, <2>1, Zenon DEF Deserved, Complete, Overdue, Oversized, IsWhole
<1>3. next.race = "read" => BytesThere(next)
  BY <1>1, Zenon DEF BytesThere, IsWhole
<1>4. next.race # "timeout" /\ (next.race = "abort" => next.gone)
  BY <1>1, Zenon
<1>5. next.status = 200 => Complete(next) /\ ~next.gone
  <2>1. read.status = 200 => Complete(read) /\ ~read.gone
    BY Zenon DEF Truthful
  <2> QED BY <1>1, <2>1 DEF Complete, IsWhole
<1>6. Truthful(next)
  BY <1>1, <1>2, <1>3, <1>4, <1>5 DEF Truthful
<1> QED BY <1>6 DEF next

\* Chunks arrive, the body fails, the client leaves.
LEMMA ClientHonest ==
    ASSUME HonestInv, NEW r \in Readers, Arrives(r) \/ Disconnects(r) \/ BodyFails(r)
    PROVE  HonestInv'
<1>1. BodyInv' /\ reads \in [Readers -> ReadType]
  BY ClientStep, Zenon DEF HonestInv, BodyInv
<1>2. /\ reads[r] \in ReadType /\ Truthful(reads[r]) /\ reads[r].race = "none"
      /\ reads[r].pc \in {"wait", "cancel"}
  BY SMTT(30) DEF HonestInv, BodyInv, Arrives, Disconnects, BodyFails, Quiet
<1>3. reads[r].status = 0 /\ reads[r].result # "ok"
  BY <1>2 DEF Truthful
<1>4. CASE Arrives(r)
  <2> DEFINE arrived == reads[r].arrived + 1
             ended == /\ reads[r].upload.ends
                      /\ reads[r].arrived + 1 = Len(reads[r].upload.chunks)
             read == [reads[r] EXCEPT !.arrived = arrived, !.ended = ended]
             next == IF BytesThere(read) THEN Settled(read, "read") ELSE read
  <2>1. reads'[r] = next /\ \A d \in Readers \ {r} : reads'[d] = reads[d]
    BY <1>1, <1>4, Zenon DEF Arrives
  <2>2. arrived \in Nat /\ ended \in BOOLEAN /\ arrived \in 0 .. Len(reads[r].upload.chunks)
        /\ reads[r].taken \in 0 .. arrived
        /\ (ended => reads[r].upload.ends /\ arrived = Len(reads[r].upload.chunks))
    <3>1. /\ reads[r].arrived \in Nat /\ reads[r].taken \in Nat /\ reads[r].upload.ends \in BOOLEAN
          /\ Len(reads[r].upload.chunks) \in Nat
      BY <1>2, SMTT(30) DEF ReadType, UploadType
    <3>2. reads[r].taken \in 0 .. reads[r].arrived
      BY <1>2 DEF Truthful
    <3>3. reads[r].arrived < Len(reads[r].upload.chunks)
      BY <1>4 DEF Arrives
    <3> QED BY <3>1, <3>2, <3>3, SMTT(30)
  <2>3. /\ read \in ReadType /\ read.arrived = arrived /\ read.ended = ended
        /\ read.pc = reads[r].pc /\ read.left = reads[r].left /\ read.race = "none"
        /\ read.upload = reads[r].upload /\ read.gone = reads[r].gone
        /\ read.taken = reads[r].taken /\ read.result = reads[r].result
        /\ read.status = reads[r].status
    <3> HIDE DEF arrived, ended
    <3> QED BY <1>2, <2>2, Zenon DEF ReadType
  <2> HIDE DEF read, arrived, ended
  <2>4. Deserved(read, read.result)
    <3>1. Deserved(reads[r], reads[r].result)
      BY <1>2, Zenon DEF Truthful
    <3> QED BY <1>3, <2>3, <3>1, Zenon DEF Deserved, Overdue, Oversized, IsWhole
  <2>5. /\ read.arrived \in 0 .. Len(read.upload.chunks) /\ read.taken \in 0 .. read.arrived
        /\ read.ended => read.upload.ends /\ read.arrived = Len(read.upload.chunks)
    BY <2>2, <2>3, Zenon
  <2>6. SizeOf(SubSeq(read.upload.chunks, 1, read.taken)) <= BodyLimit
    BY <1>2, <2>3, Zenon DEF Truthful
  <2>7. Truthful(read)
    BY <1>3, <2>3, <2>4, <2>5, <2>6 DEF Truthful
  <2>8. Truthful(next)
    BY <2>3, <2>7, SettledTruthful, Zenon
  <2> HIDE DEF next
  <2> QED BY <1>1, <2>1, <2>8, OthersHonest, Zenon
<1>5. CASE Disconnects(r)
  <2> DEFINE read == [reads[r] EXCEPT !.gone = TRUE]
             next == IF r \in listeners THEN Settled(read, "abort") ELSE read
  <2>1. reads'[r] = next /\ \A d \in Readers \ {r} : reads'[d] = reads[d]
    BY <1>1, <1>5, Zenon DEF Disconnects
  <2>2. /\ read \in ReadType /\ read.gone = TRUE
        /\ read.pc = reads[r].pc /\ read.left = reads[r].left /\ read.race = "none"
        /\ read.upload = reads[r].upload /\ read.arrived = reads[r].arrived
        /\ read.ended = reads[r].ended
        /\ read.taken = reads[r].taken /\ read.result = reads[r].result
        /\ read.status = reads[r].status
    BY <1>2, Zenon DEF ReadType
  <2> HIDE DEF read
  <2>3. Deserved(read, read.result)
    <3>1. Deserved(reads[r], reads[r].result)
      BY <1>2, Zenon DEF Truthful
    <3> QED BY <1>3, <2>2, <3>1, ZenonT(30) DEF Deserved, Overdue, Oversized, IsWhole
  <2>4. Truthful(read)
    <3>1. SameBytes(read, reads[r]) /\ read.status = 0 /\ read.result # "ok"
      BY <1>3, <2>2, Zenon DEF SameBytes
    <3> QED BY <1>2, <2>2, <2>3, <3>1, StaysTruthful, Zenon
  <2>5. Truthful(next)
    BY <2>2, <2>4, SettledTruthful
  <2> HIDE DEF next
  <2> QED BY <1>1, <2>1, <2>5, OthersHonest, Zenon
<1>6. CASE BodyFails(r)
  <2>1. /\ reads'[r] = Settled(reads[r], "error")
        /\ \A d \in Readers \ {r} : reads'[d] = reads[d]
    BY <1>1, <1>6, Zenon DEF BodyFails
  <2>2. Truthful(reads'[r])
    BY <1>2, <2>1, SettledTruthful, Zenon
  <2> QED BY <1>1, <2>1, <2>2, OthersHonest, Zenon
<1> QED BY <1>4, <1>5, <1>6, Zenon

\* The sweep rejects only reads whose deadline has passed.
LEMMA SweepHonest == ASSUME HonestInv, Sweep PROVE HonestInv'
<1> DEFINE due == {r \in tracked : reads[r].left[1] <= 0}
<1>1. BodyInv'
  BY SweepStep, Zenon DEF HonestInv
<1>2. ASSUME NEW r \in Readers PROVE Truthful(reads'[r])
  <2> DEFINE late == [reads[r] EXCEPT !.race = "timeout"]
  <2>1. /\ reads[r] \in ReadType /\ Truthful(reads[r]) /\ reads[r].race = "none"
        /\ reads[r].pc # "done"
    BY DEF HonestInv, BodyInv, Sweep, Quiet
  <2>2. reads'[r] = IF r \in due THEN late ELSE reads[r]
    BY DEF Sweep
  <2>3. CASE r \notin due
    <3> HIDE DEF due
    <3> QED BY <2>1, <2>2, <2>3, Zenon
  <2>4. CASE r \in due
    <3>1. Overdue(reads[r])
      BY <2>4 DEF HonestInv, BodyInv, Kept, Overdue
    <3>2. /\ late.race = "timeout" /\ late.pc = reads[r].pc /\ late.left = reads[r].left
          /\ late.upload = reads[r].upload /\ late.arrived = reads[r].arrived
          /\ late.ended = reads[r].ended /\ late.gone = reads[r].gone
          /\ late.taken = reads[r].taken /\ late.result = reads[r].result
          /\ late.status = reads[r].status
      BY <2>1, Zenon DEF ReadType
    <3>3. reads'[r] = late
      BY <2>2, <2>4, Zenon
    <3> HIDE DEF late, due
    <3>4. Deserved(late, late.result) /\ late.status = 0 /\ late.result # "ok"
      <4>1. Deserved(reads[r], reads[r].result) /\ reads[r].status = 0 /\ reads[r].result # "ok"
        BY <2>1, Zenon DEF Truthful
      <4> QED BY <3>2, <4>1, Zenon DEF Deserved, Complete, Overdue, Oversized, IsWhole
    <3>5. Overdue(late)
      BY <3>1, <3>2, Zenon DEF Overdue
    <3>6. Truthful(late)
      <4>1. SameBytes(late, reads[r])
        BY <3>2, Zenon DEF SameBytes
      <4> QED BY <2>1, <3>2, <3>4, <3>5, <4>1, StaysTruthful, Zenon
    <3> QED BY <3>3, <3>6, Zenon
  <2> QED BY <2>3, <2>4
<1> QED BY <1>1, <1>2, Zenon DEF HonestInv

\* Time passes: what was overdue stays so.
LEMMA TickHonest == ASSUME HonestInv, BodyTick PROVE HonestInv'
<1>1. BodyInv'
  BY TickStep, Zenon DEF HonestInv
<1>2. ASSUME NEW r \in Readers PROVE Truthful(reads'[r])
  <2> DEFINE left == IF r \in tracked THEN <<reads[r].left[1] - 1>> ELSE reads[r].left
             next == [reads[r] EXCEPT !.left = left]
  <2>1. /\ reads[r] \in ReadType /\ Truthful(reads[r]) /\ reads[r].race = "none"
        /\ reads[r].pc # "done" /\ Kept(r)
    BY DEF HonestInv, BodyInv, BodyTick, Quiet
  <2>2. reads'[r] = next
    BY DEF BodyTick
  <2>3. /\ next.race = "none" /\ next.pc = reads[r].pc /\ next.left = left
        /\ next.upload = reads[r].upload /\ next.arrived = reads[r].arrived
        /\ next.ended = reads[r].ended /\ next.gone = reads[r].gone
        /\ next.taken = reads[r].taken /\ next.result = reads[r].result
        /\ next.status = reads[r].status
    <3> HIDE DEF left
    <3> QED BY <2>1, Zenon DEF ReadType
  <2>4. Overdue(reads[r]) => left # <<>> /\ left[1] <= 0
    BY <2>1 DEF Overdue, ReadType, LeftType
  <2> HIDE DEF next, left
  <2>5. Deserved(next, next.result) /\ next.status = 0 /\ next.result # "ok"
    <3>1. Deserved(reads[r], reads[r].result) /\ reads[r].status = 0 /\ reads[r].result # "ok"
      BY <2>1, Zenon DEF Truthful
    <3>2. Overdue(reads[r]) => Overdue(next)
      BY <2>3, <2>4, Zenon DEF Overdue
    <3> QED BY <2>3, <3>1, <3>2, Zenon DEF Deserved, Complete, Oversized, IsWhole
  <2>6. Truthful(next)
    <3>1. SameBytes(next, reads[r])
      BY <2>3, Zenon DEF SameBytes
    <3> QED BY <2>1, <2>3, <2>5, <3>1, StaysTruthful, Zenon
  <2> QED BY <2>2, <2>6, Zenon
<1> QED BY <1>1, <1>2, Zenon DEF HonestInv

\* Every step leaves every read truthful.
LEMMA HonestStep == ASSUME HonestInv, [BodyNext]_bodyVars PROVE HonestInv'
<1>1. CASE BodyNext
  BY <1>1, StartHonest, ResumeHonest, LeaveHonest, ClientHonest, SweepHonest, TickHonest, Zenon
     DEF BodyNext
<1>2. CASE UNCHANGED bodyVars
  <2>1. BodyInv'
    BY <1>2, BodyStepKeeps, Zenon DEF HonestInv
  <2> QED BY <1>2, <2>1, Zenon DEF bodyVars, HonestInv
<1> QED BY <1>1, <1>2, Zenon

\* For any requests, uploads, limits and deadlines, every answer tells the truth
\* about the upload: a 200 was given the whole body, within the limit, of a
\* client still there; a timeout, 413 or 499 was deserved; and no streamed body
\* is kept beyond the limit (readBodyWithLimit, body.ts).
THEOREM BodyAlwaysHonest == BodySpec => []BodyHonest
<1>1. BodyInit => HonestInv
  BY BodyInitially, NotStartedTruthful, Zenon DEF BodyInit, HonestInv
<1>2. HonestInv => BodyHonest
  <2> SUFFICES ASSUME HonestInv PROVE BodyHonest
    BY Zenon
  <2>1. ASSUME NEW r \in Readers
        PROVE  /\ reads[r].status = 200 => Complete(reads[r]) /\ ~reads[r].gone
               /\ reads[r].status = 499 => reads[r].gone
               /\ reads[r].result = "timeout" => Overdue(reads[r])
               /\ reads[r].result = "too_large" => Oversized(reads[r])
               /\ SizeOf(SubSeq(reads[r].upload.chunks, 1, reads[r].taken)) <= BodyLimit
    <3>1. Truthful(reads[r])
      BY Zenon DEF HonestInv
    <3> QED BY <3>1, SMT DEF Truthful, Deserved
  <2> QED BY <2>1, SMT DEF BodyHonest, Complete, Overdue, Oversized
<1> QED BY <1>1, <1>2, HonestStep, PTL DEF BodySpec

=============================================================================
