---------------------------- MODULE NodeServer ----------------------------
(***************************************************************************)
(* The node:http server of src/ingress/server-node.ts: the request         *)
(* listener, writeResponse, the shared masked-500 responder of             *)
(* server-error.ts, static route values, WebSocket upgrades, and the       *)
(* shutdown of src/ingress/server.ts (gracefulShutdown).                   *)
(*                                                                         *)
(* A response is the Content-Length its headers state, if any, the number  *)
(* of its body's chunks and, where the body stream fails, the number of    *)
(* chunks before the failure.  Sockets and the parser are node's.          *)
(***************************************************************************)
EXTENDS Integers, Sequences

CONSTANTS
    Connections,
    Responses,      \* records [length, chunks, fails]: what handlers answer
    StaticChunks,   \* chunks of the static route value's body
    MaxRequests     \* requests on one connection (maxRequestsPerSocket)

VARIABLES
    sockets,        \* per connection, the socket and its request
    static,         \* the static route value: its entry in
                    \* STATIC_RESPONSE_CACHE, and whether its body was used
    stopping        \* "no", "soft" (draining) or "forced"

serverVars == <<sockets, static, stopping>>

ResponseType == [length : Seq(Nat), chunks : Nat, fails : Seq(Nat)]

ASSUME ServerAssumption ==
    /\ Responses \subseteq ResponseType
    /\ StaticChunks \in Nat
    /\ MaxRequests \in Nat

NoResponse == [length |-> <<>>, chunks |-> 0, fails |-> <<>>]
MaskedBody == [length |-> <<>>, chunks |-> 1, fails |-> <<>>]

\* pc: "new" (not connected), "idle", "handle", "static" (awaiting the cached
\* body), "write" (awaiting reader.read), "drain" (awaiting 'drain'),
\* "stuck" (the same on a socket that is gone), "upgraded" or "closed".
NewSocket ==
    [pc |-> "new", served |-> 0, kind |-> "none", unread |-> FALSE, rest |-> FALSE,
     keep |-> TRUE, length |-> <<>>, flushed |-> FALSE, response |-> NoResponse,
     read |-> 0, sent |-> 0, failures |-> 0, reported |-> 0, status |-> 0, gone |-> FALSE]

ServerInit ==
    /\ sockets = [c \in Connections |-> NewSocket]
    /\ static = [cache |-> "none", used |-> FALSE]
    /\ stopping = "no"

Puts(c, socket) == sockets' = [sockets EXCEPT ![c] = socket]

(***************************************************************************)
(* Writing a response.                                                     *)
(***************************************************************************)
\* res.end(): the socket is reused when it may be, and then what was not read
\* of the request is left in front of the next one.
Ended(socket) ==
    [socket EXCEPT !.pc = IF socket.keep /\ ~socket.gone THEN "idle" ELSE "closed",
                   !.flushed = TRUE, !.rest = socket.unread]

\* drainUnreadBody: an unread body forces the connection to close.
DrainUnreadBody(socket) ==
    [socket EXCEPT !.keep = @ /\ ~socket.unread]

\* writeResponse up to its first await: headers are set over those already
\* there, and a HEAD request ends at once.
WriteResponse(socket, status, response) ==
    LET head == [DrainUnreadBody(socket) EXCEPT
                    !.status = status, !.response = response, !.read = 0,
                    !.length = IF response.length # <<>> THEN response.length ELSE @]
    IN  IF socket.kind = "HEAD" THEN Ended(head) ELSE [head EXCEPT !.pc = "write"]

\* createServerErrorHandler: the hooks see the failure, then the masked 500.
Masked(socket) ==
    WriteResponse([socket EXCEPT !.reported = @ + 1], 500, MaskedBody)

\* The listener's catch: the masked 500 when nothing was flushed, otherwise
\* the hooks and res.destroy().
Caught(socket) ==
    LET failed == [socket EXCEPT !.failures = @ + 1]
    IN  IF socket.flushed
        THEN [failed EXCEPT !.reported = @ + 1, !.pc = "closed"]
        ELSE Masked(failed)

(***************************************************************************)
(* The request listener.                                                   *)
(***************************************************************************)
\* Mutant: the bytes are cached once they are read, not the read itself.
MaterializedLate ==
    IF static.cache # "none" THEN static
    ELSE [cache |-> IF static.used THEN "failed" ELSE "none", used |-> TRUE]

\* materializeStaticResponse: the first request reads the one-shot body, the
\* others share its promise.
Materialized ==
    IF static.cache # "none" THEN static
    ELSE [cache |-> IF static.used THEN "failed" ELSE "reading", used |-> TRUE]

Connect(c) ==
    /\ stopping = "no"
    /\ sockets[c].pc = "new"
    /\ Puts(c, [NewSocket EXCEPT !.pc = "idle"])
    /\ UNCHANGED <<static, stopping>>

\* A parsed request: "large" when its declared length is over
\* maxRequestBodySize (a 413 that closes), "static" for a bare Response value,
\* "HEAD" or "plain" for a handler.  The last request a socket may carry
\* closes it.  body: whether part of its body is still to come.
Request(c, kind, body) ==
    LET socket == [NewSocket EXCEPT !.served = sockets[c].served + 1, !.kind = kind,
                                    !.unread = body,
                                    !.keep = sockets[c].served + 1 < MaxRequests]
    IN  /\ sockets[c].pc = "idle"
        /\ sockets[c].served < MaxRequests
        /\ \/ /\ kind = "large"
              /\ Puts(c, Ended([socket EXCEPT !.keep = FALSE, !.status = 413]))
              /\ UNCHANGED static
           \/ /\ kind = "static"
              /\ Puts(c, [socket EXCEPT !.pc = "static"])
              /\ static' = Materialized
           \/ /\ kind \in {"plain", "HEAD"}
              /\ Puts(c, [socket EXCEPT !.pc = "handle"])
              /\ UNCHANGED static
        /\ UNCHANGED stopping

\* The rest of a request body arrives and is read (req.complete).
BodyComplete(c) ==
    /\ sockets[c].pc \in {"handle", "write", "drain"}
    /\ sockets[c].unread
    /\ Puts(c, [sockets[c] EXCEPT !.unread = FALSE])
    /\ UNCHANGED <<static, stopping>>

\* The handler returns its response, whether or not it read the body.
HandlerReturns(c, response) ==
    /\ sockets[c].pc = "handle"
    /\ Puts(c, WriteResponse(sockets[c], 200, response))
    /\ UNCHANGED <<static, stopping>>

\* The handler throws: guardRouteHandler answers for the handlers it wraps, a
\* built-in factory's error reaches the listener.  Either way one masked 500.
HandlerThrows(c, guarded) ==
    /\ sockets[c].pc = "handle"
    /\ Puts(c, IF guarded THEN Masked([sockets[c] EXCEPT !.failures = @ + 1])
               ELSE Caught(sockets[c]))
    /\ UNCHANGED <<static, stopping>>

\* The static body has been read; and a request that awaited it goes on.
StaticRead ==
    /\ static.used /\ static.cache \notin {"ready", "failed"}
    /\ static' = [static EXCEPT !.cache = "ready"]
    /\ UNCHANGED <<sockets, stopping>>

StaticResumes(c) ==
    /\ sockets[c].pc = "static"
    /\ static.cache \in {"ready", "failed"}
    /\ Puts(c, IF static.cache = "ready"
               THEN WriteResponse(sockets[c], 200, [NoResponse EXCEPT !.chunks = StaticChunks])
               ELSE Caught(sockets[c]))
    /\ UNCHANGED <<static, stopping>>

\* reader.read() gives a chunk; full: res.write returned false.  On a socket
\* that is gone it always does, and no 'drain' follows.
WriteChunk(c, full) ==
    LET socket == sockets[c]
    IN  /\ socket.pc = "write"
        /\ socket.read < socket.response.chunks
        /\ socket.response.fails # <<>> => socket.read < socket.response.fails[1]
        /\ Puts(c, [socket EXCEPT !.read = @ + 1, !.flushed = TRUE, !.sent = @ + 1,
                                  !.pc = IF socket.gone THEN "stuck"
                                         ELSE IF full THEN "drain" ELSE "write"])
        /\ UNCHANGED <<static, stopping>>

WriteEnds(c) ==
    LET socket == sockets[c]
    IN  /\ socket.pc = "write"
        /\ socket.response.fails = <<>> /\ socket.read = socket.response.chunks
        /\ Puts(c, Ended(socket))
        /\ UNCHANGED <<static, stopping>>

\* The response's stream fails before or between chunks.
WriteFails(c) ==
    LET socket == sockets[c]
    IN  /\ socket.pc = "write"
        /\ socket.response.fails = <<socket.read>>
        /\ Puts(c, Caught(socket))
        /\ UNCHANGED <<static, stopping>>

Drains(c) ==
    /\ sockets[c].pc = "drain"
    /\ Puts(c, [sockets[c] EXCEPT !.pc = "write"])
    /\ UNCHANGED <<static, stopping>>

(***************************************************************************)
(* Sockets and shutdown.                                                   *)
(***************************************************************************)
\* The upgrade listener: a declined handshake destroys the socket.
Upgrade(c, accepted) ==
    /\ sockets[c].pc = "idle"
    /\ Puts(c, [sockets[c] EXCEPT !.pc = IF accepted THEN "upgraded" ELSE "closed"])
    /\ UNCHANGED <<static, stopping>>

\* A socket is lost under its request; a writer waiting for 'drain' stays.
Lost(socket) ==
    [socket EXCEPT !.gone = TRUE,
                   !.pc = IF @ = "idle" THEN "closed" ELSE IF @ = "drain" THEN "stuck" ELSE @]

\* The client closes, a request is malformed (clientError) or the keep-alive
\* time is over.
SocketCloses(c) ==
    /\ sockets[c].pc \in {"idle", "handle", "static", "write", "drain"}
    /\ ~sockets[c].gone
    /\ Puts(c, Lost(sockets[c]))
    /\ UNCHANGED <<static, stopping>>

\* A signal: stop(false) stops listening and closes idle sockets, and the
\* timer of the grace period starts.  Later signals are ignored.
Signal ==
    /\ stopping = "no"
    /\ stopping' = "soft"
    /\ sockets' = [c \in Connections |->
                      IF sockets[c].pc = "idle" THEN [sockets[c] EXCEPT !.pc = "closed"]
                      ELSE sockets[c]]
    /\ UNCHANGED static

\* The grace period is over: stop(true) destroys every connection of the
\* server; an upgraded socket is no longer one.
ForceStop ==
    /\ stopping = "soft"
    /\ stopping' = "forced"
    /\ sockets' = [c \in Connections |->
                      IF sockets[c].pc \in {"idle", "handle", "static", "write", "drain"}
                      THEN Lost(sockets[c]) ELSE sockets[c]]
    /\ UNCHANGED static

ServerNext ==
    \/ \E c \in Connections :
          \/ Connect(c)
          \/ \E kind \in {"plain", "HEAD", "static", "large"}, body \in BOOLEAN :
                Request(c, kind, body)
          \/ BodyComplete(c)
          \/ \E response \in Responses : HandlerReturns(c, response)
          \/ \E guarded \in BOOLEAN : HandlerThrows(c, guarded)
          \/ StaticResumes(c)
          \/ \E full \in BOOLEAN : WriteChunk(c, full)
          \/ WriteEnds(c) \/ WriteFails(c) \/ Drains(c)
          \/ \E accepted \in BOOLEAN : Upgrade(c, accepted)
          \/ SocketCloses(c)
    \/ StaticRead \/ Signal \/ ForceStop

ServerSpec == ServerInit /\ [][ServerNext]_serverVars

(***************************************************************************)
(* Properties.                                                             *)
(***************************************************************************)
\* Every failure reaches the hooks exactly once; a socket takes another request
\* only when nothing of the last one is left on it; a static route value is
\* served whole to every request, the concurrent first ones too; and after the
\* grace period no connection of the server still has a client.
\* (makeRequestListener, drainUnreadBody, materializeStaticResponse,
\* server-error.ts, gracefulShutdown)
ServerAnswers ==
    \A c \in Connections :
        LET socket == sockets[c]
        IN  /\ socket.reported = socket.failures
            /\ socket.pc = "idle" => ~socket.rest
            /\ socket.kind = "static" => socket.failures = 0
            /\ (socket.kind = "static" /\ socket.pc = "idle") => socket.sent = StaticChunks
            /\ stopping = "forced" => socket.gone \/ socket.pc \in {"new", "closed", "stuck", "upgraded"}

\* A response that ended on a socket kept alive carries as many bytes as its
\* Content-Length states, so that no client is left waiting for more.
\* (the catch of makeRequestListener, server-node.ts)
NoClientHangs ==
    \A c \in Connections :
        (sockets[c].pc = "idle" /\ sockets[c].kind # "HEAD" /\ sockets[c].length # <<>>) =>
            sockets[c].sent = sockets[c].length[1]
=============================================================================
