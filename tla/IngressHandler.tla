--------------------------- MODULE IngressHandler ---------------------------
(***************************************************************************)
(* run() of the pre-baked ingress handler (src/ingress/handlers.ts), with  *)
(* its buffer pool, its FFI circuit breaker, the hooks of createIngress-   *)
(* Metrics and the zero-copy responses of src/shared/response.ts.          *)
(*                                                                         *)
(* run() is synchronous: jpc is its place, and only at "idle" does the     *)
(* event loop deliver anything else, that is another request or a call of  *)
(* the streams behind earlier responses.  A request is known by its id.    *)
(* The data of a response body is the request that wrote it.               *)
(***************************************************************************)
EXTENDS BufferPool

CONSTANTS
    Requests,        \* request ids
    NoRequest,       \* no request
    UseFFI,          \* bun:ffi is bound
    MaxFfiFailures,  \* MAX_FFI_FAILURES
    ZeroCopyTimeout  \* zeroCopyTimeoutMs > 0

ASSUME HandlerAssumption ==
    /\ NoRequest \notin Requests
    /\ UseFFI \in BOOLEAN
    /\ MaxFfiFailures \in Nat \ {0}
    /\ ZeroCopyTimeout \in BOOLEAN
    /\ Prefill < MaxCreated

VARIABLES
    jpc,          \* place of run(), or "idle"
    req,          \* the request of run(), else NoRequest
    asked,      \* requests that have been seen
    handle,       \* `handle` of run(), 0 for null
    borrows,      \* responseState.responseBorrowsBuffer
    result,       \* what the shared result decodes to: "body", "terminal",
                  \* "internal", or "none" once it is invalidated
    ffiFailures, ffiDisabled,
    content,      \* per buffer: the request whose response it holds
    active,       \* request ids in the map `active` of the metrics
    gauge,        \* castrum_http_in_flight_requests
    stream,       \* [Requests -> state of the response's stream]
    shandle,      \* [Requests -> handle captured by the stream, else 0]
    sbuffer,      \* [Requests -> buffer the stream's bytes are a view of]
    sreleased,    \* [Requests -> `released` of pooledBodyResponse]
    timer,        \* [Requests -> its abandonment timer is set]
    lost,         \* history: requests whose response never left run()
    holder,       \* history, per handle object: request of its last checkout
    stale         \* history: a stream released a checkout of another request

runVars == <<jpc, req, asked, handle, borrows, result>>
breakerVars == <<ffiFailures, ffiDisabled>>
metricVars == <<active, gauge>>
streamVars == <<stream, shandle, sbuffer, sreleased, timer, lost>>
historyVars == <<holder, stale>>
handlerVars == <<bufferVars, runVars, breakerVars, content, metricVars, streamVars, historyVars>>

HandlerInit ==
    /\ BufferInit
    /\ jpc = "idle" /\ req = NoRequest /\ asked = {}
    /\ handle = 0 /\ borrows = FALSE /\ result = "none"
    /\ ffiFailures = 0 /\ ffiDisabled = FALSE
    /\ content = [b \in 1..MaxCreated |-> NoRequest]
    /\ active = {} /\ gauge = 0
    /\ stream = [r \in Requests |-> "none"]
    /\ shandle = [r \in Requests |-> 0]
    /\ sbuffer = [r \in Requests |-> 0]
    /\ sreleased = [r \in Requests |-> FALSE]
    /\ timer = [r \in Requests |-> FALSE]
    /\ lost = {}
    /\ holder = [h \in 1..MaxObjects |-> NoRequest]
    /\ stale = FALSE

-----------------------------------------------------------------------------
(***************************************************************************)
(* The hooks of createIngressMetrics.                                      *)
(***************************************************************************)
OnRequest(r) == active' = active \cup {r} /\ gauge' = gauge + 1

\* Mutant of EndAccounting: the gauge goes down whenever a hook is called.
EndAccountingTwice(r) == active' = active \ {r} /\ gauge' = gauge - 1

\* The part of onResponse and onError that ends the accounting of a request.
EndAccounting(r) ==
    /\ active' = active \ {r}
    /\ gauge' = IF r \in active THEN gauge - 1 ELSE gauge

-----------------------------------------------------------------------------
(***************************************************************************)
(* run().                                                                  *)
(***************************************************************************)
RunStart(r) ==
    /\ jpc = "idle" /\ r \notin asked
    /\ jpc' = "pack" /\ req' = r /\ asked' = asked \cup {r}
    /\ handle' = 0 /\ borrows' = FALSE
    /\ OnRequest(r)
    /\ UNCHANGED <<bufferVars, result, breakerVars, content, streamVars, historyVars>>

Goto(pc) == jpc' = pc /\ UNCHANGED <<req, asked, handle, borrows>>

\* gatherRawHeadersPacked throws.
PackFails ==
    /\ jpc = "pack" /\ Goto("escape")
    /\ UNCHANGED <<bufferVars, result, breakerVars, content, metricVars, streamVars, historyVars>>

\* The inner catch: acquire() or the last native call threw.
InternalError ==
    /\ result' = "internal"
    /\ EndAccounting(req)
    /\ Goto("callback")

\* outputPool.acquire throws at maxInFlight.
AcquireFails ==
    /\ jpc = "pack" /\ Exhausted
    /\ InternalError
    /\ UNCHANGED <<bufferVars, breakerVars, content, streamVars, historyVars>>

AcquireBuffer ==
    /\ jpc = "pack" /\ Acquire(InitialSize)
    /\ jpc' = "native"
    /\ handle' = NextHandle
    /\ holder' = [holder EXCEPT ![NextHandle] = req]
    /\ UNCHANGED <<req, asked, borrows, result, breakerVars, content, metricVars,
                   streamVars, stale>>

FfiUsable == UseFFI /\ ~ffiDisabled

\* A native call returned: the buffer holds this request's response.
NativeReturns ==
    /\ content' = [content EXCEPT ![handles[handle].buffer] = req]
    /\ result' \in {"body", "terminal"}
    /\ Goto("callback")
    /\ UNCHANGED <<bufferVars, metricVars, streamVars, historyVars>>

FfiReturns ==
    /\ jpc = "native" /\ FfiUsable
    /\ ffiFailures' = 0 /\ UNCHANGED ffiDisabled
    /\ NativeReturns

\* noteFfiFailure; the call may have written a part of its output.
FfiFails ==
    /\ jpc = "native" /\ FfiUsable
    /\ ffiFailures' = ffiFailures + 1
    /\ ffiDisabled' = (ffiFailures' >= MaxFfiFailures)
    /\ \E c \in {req, content[handles[handle].buffer]} :
           content' = [content EXCEPT ![handles[handle].buffer] = c]
    /\ Goto("napi")
    /\ UNCHANGED <<bufferVars, result, metricVars, streamVars, historyVars>>

\* handleRequestPacked, after a failure or with FFI out of use.
AtNapi == jpc = "napi" \/ (jpc = "native" /\ ~FfiUsable)

NapiReturns == AtNapi /\ NativeReturns /\ UNCHANGED breakerVars

NapiFails ==
    /\ AtNapi /\ InternalError
    /\ UNCHANGED <<bufferVars, breakerVars, content, streamVars, historyVars>>


(***************************************************************************)
(* The route's callback, and the end of run().                             *)
(***************************************************************************)
\* A response that copies what it needs: a copied body, a terminal answer,
\* an error.
CallbackAnswers ==
    /\ jpc = "callback" /\ Goto("observe")
    /\ UNCHANGED <<bufferVars, result, breakerVars, content, metricVars, streamVars, historyVars>>

\* zeroCopyResponse and pooledBodyResponse with an empty body: the buffer is
\* released at once.
BorrowEmpty ==
    /\ jpc = "callback" /\ handle # 0
    /\ borrows' = TRUE
    /\ Release(handle)
    /\ jpc' = "observe"
    /\ UNCHANGED <<req, asked, handle, result, breakerVars, content, metricVars,
                   streamVars, historyVars>>

\* The same with a body: a stream over a view of the buffer.
BorrowBody ==
    /\ jpc = "callback" /\ handle # 0 /\ result = "body"
    /\ borrows' = TRUE
    /\ stream' = [stream EXCEPT ![req] = "open"]
    /\ shandle' = [shandle EXCEPT ![req] = handle]
    /\ sbuffer' = [sbuffer EXCEPT ![req] = handles[handle].buffer]
    /\ timer' = [timer EXCEPT ![req] = ZeroCopyTimeout]
    /\ jpc' = "observe"
    /\ UNCHANGED <<bufferVars, req, asked, handle, result, breakerVars, content,
                   metricVars, sreleased, lost, historyVars>>

\* The callback throws or is asynchronous, the constructor of Response
\* rejects its arguments, or a hook throws.
CallbackThrows ==
    /\ jpc \in {"callback", "observe"}
    /\ Goto("escape")
    /\ UNCHANGED <<bufferVars, result, breakerVars, content, metricVars, streamVars, historyVars>>

ToIdle == jpc' = "idle" /\ req' = NoRequest /\ handle' = 0 /\ result' = "none"

\* Mutant of RunReturns: the buffer goes back although a response borrows it.
RunReturnsReleases ==
    /\ jpc = "observe" /\ ToIdle
    /\ EndAccounting(req)
    /\ IF handle # 0 THEN Release(handle) ELSE UNCHANGED bufferVars
    /\ UNCHANGED <<asked, borrows, breakerVars, content, streamVars, historyVars>>

\* onResponse, then the finally blocks.
RunReturns ==
    /\ jpc = "observe" /\ ToIdle
    /\ EndAccounting(req)
    /\ IF handle # 0 /\ ~borrows THEN Release(handle) ELSE UNCHANGED bufferVars
    /\ UNCHANGED <<asked, borrows, breakerVars, content, streamVars, historyVars>>

\* Mutant of RunEscapes: a buffer that was borrowed is left to the response.
RunEscapesLeaks ==
    /\ jpc = "escape" /\ ToIdle
    /\ EndAccounting(req)
    /\ IF handle # 0 /\ ~borrows THEN Release(handle) ELSE UNCHANGED bufferVars
    /\ lost' = lost \cup {req}
    /\ UNCHANGED <<asked, borrows, breakerVars, content, stream, shandle, sbuffer,
                   sreleased, timer, historyVars>>

\* The outer catch and finally: the catch releases a borrowed buffer, the
\* finally one that is not borrowed.
RunEscapes ==
    /\ jpc = "escape" /\ ToIdle
    /\ EndAccounting(req)
    /\ IF handle # 0 THEN Release(handle) ELSE UNCHANGED bufferVars
    /\ borrows' = FALSE
    /\ lost' = lost \cup {req}
    /\ UNCHANGED <<asked, breakerVars, content, stream, shandle, sbuffer,
                   sreleased, timer, historyVars>>

-----------------------------------------------------------------------------
(***************************************************************************)
(* The stream behind a zero-copy response.  The engine may pull before     *)
(* anyone reads; the consumer of a lost response does not exist.           *)
(***************************************************************************)
\* The stream's release().
StreamRelease(r) ==
    /\ sreleased' = [sreleased EXCEPT ![r] = TRUE]
    /\ timer' = [timer EXCEPT ![r] = FALSE]
    /\ Release(shandle[r])
    /\ stale' = (stale \/ (~handles[shandle[r]].released /\ holder[shandle[r]] # r))

StreamStep(r, state) ==
    /\ jpc = "idle"
    /\ stream' = [stream EXCEPT ![r] = state]
    /\ UNCHANGED <<runVars, breakerVars, content, metricVars, shandle, sbuffer, lost, holder>>

\* pull(): the view is enqueued, the stream closed and the buffer released.
Pull(r) ==
    /\ stream[r] = "open"
    /\ StreamStep(r, "chunk")
    /\ StreamRelease(r)

Cancel(r) ==
    /\ stream[r] = "open" /\ r \notin lost
    /\ StreamStep(r, "closed")
    /\ StreamRelease(r)

\* Mutant of TimerFires: the stream is closed and the buffer kept.
TimerFiresKeeps(r) ==
    /\ timer[r]
    /\ StreamStep(r, "closed")
    /\ timer' = [timer EXCEPT ![r] = FALSE]
    /\ UNCHANGED <<bufferVars, sreleased, stale>>

TimerFires(r) ==
    /\ timer[r]
    /\ StreamStep(r, "closed")
    /\ StreamRelease(r)

\* The consumer is done with the bytes.
Consume(r) ==
    /\ stream[r] = "chunk" /\ r \notin lost
    /\ StreamStep(r, "closed")
    /\ UNCHANGED <<bufferVars, sreleased, timer, stale>>

-----------------------------------------------------------------------------
RunStep ==
    \/ PackFails \/ AcquireFails \/ AcquireBuffer
    \/ FfiReturns \/ FfiFails \/ NapiReturns \/ NapiFails
    \/ CallbackAnswers \/ BorrowEmpty \/ BorrowBody \/ CallbackThrows
    \/ RunReturns \/ RunEscapes

HandlerNext ==
    \/ RunStep
    \/ \E r \in Requests :
           RunStart(r) \/ Pull(r) \/ Cancel(r) \/ TimerFires(r) \/ Consume(r)

\* run() goes on to its end, and a timer that is set fires.  A consumer need
\* not read or cancel anything, and the engine need not pull.
HandlerFairness ==
    /\ WF_handlerVars(RunStep)
    /\ \A r \in Requests : WF_handlerVars(TimerFires(r))

HandlerSpec == HandlerInit /\ [][HandlerNext]_handlerVars /\ HandlerFairness

-----------------------------------------------------------------------------
\* Responses that left run() and whose body nobody has been given yet.
Unread == {r \in Requests \ lost : stream[r] = "open"}

\* Until a body is pulled or cancelled, its buffer is checked out to its own
\* request and holds that request's bytes, whatever other requests do
\* (zeroCopyResponse, run's finally).  Stale releases are the exception that
\* UnreadBodyIntact is about.
UnreadBodyHeld ==
    ~stale => \A r \in Unread :
        /\ ~handles[shandle[r]].released
        /\ holder[shandle[r]] = r
        /\ handles[shandle[r]].buffer = sbuffer[r]
        /\ content[sbuffer[r]] = r

\* Between requests, what is borrowed is exactly the buffers of the unread
\* responses, and the pool's count agrees: no path through run(), with
\* refused checkouts, failing calls and throwing callbacks, leaks a buffer.
NothingLeaks ==
    jpc = "idle" /\ ~stale =>
        /\ Borrowed = {shandle[r] : r \in Unread}
        /\ inFlight = Cardinality(Unread)

\* The gauge of requests in flight counts a request once although a failing
\* request calls onError and onResponse, or onError twice.
GaugeExact ==
    /\ gauge = Cardinality(active)
    /\ active = IF jpc = "idle" THEN {} ELSE active \cap {req}

\* With zeroCopyTimeoutMs set, all buffers come back in the end even when
\* nobody reads or cancels a response.
AbandonedComeBack == <>[](stale \/ inFlight = 0)

\* "a buffer is never handed to a second request while a previous response
\* may still alias it": the bytes of an unread response are its own.
UnreadBodyIntact == \A r \in Unread : content[sbuffer[r]] = r

\* The same for a consumer that has been given the bytes and is not done.
ChunkIntact ==
    \A r \in Requests \ lost : stream[r] = "chunk" => content[sbuffer[r]] = r

=============================================================================
