----------------------------- MODULE BodyReads -----------------------------
(***************************************************************************)
(* readBodyWithLimit of src/ingress/body.ts with its shared watchdog, and  *)
(* what the write, responder, native and echo routes answer to it.         *)
(*                                                                         *)
(* An upload is the sizes of its chunks, the Content-Length it declares,   *)
(* if any, and whether the client ends it.  The event loop handles one     *)
(* event at a time together with the microtasks it leads to: while the     *)
(* race of some read is settled (~Quiet), only its continuation runs.      *)
(* Times are kept as what is left of them, so that no bound on the clock   *)
(* is needed.                                                              *)
(***************************************************************************)
EXTENDS Integers, Sequences

CONSTANTS
    Readers,      \* the requests whose bodies are read
    Uploads,      \* records [declared, chunks, ends]
    Runtimes,     \* "bun": a buffered req.bytes() is seen at once; "node"
    RouteKinds,   \* subset of {"write", "responder", "native", "echo"}
    BodyLimit,    \* maxBodyBytes
    BodyTimeouts, \* values of bodyTimeoutMs; 0 disables the deadline
    SWEEP_MS

VARIABLES
    reads,        \* per request, the state of its read
    tracked,      \* bodyWatchdog: inflight
    interval,     \* bodyWatchdog: the time until timer fires, if it is set
    listeners     \* requests with an abort listener on req.signal

UploadType == [declared : Seq(Nat), chunks : Seq(Nat), ends : BOOLEAN]

ASSUME BodyAssumption ==
    /\ Uploads \subseteq UploadType
    /\ BodyTimeouts \subseteq Nat
    /\ BodyLimit \in Nat
    /\ SWEEP_MS \in Nat \ {0}

bodyVars == <<reads, tracked, interval, listeners>>

\* The bytes of the chunks, counted as they come.
SizeOf(chunks) ==
    LET total[n \in 0 .. Len(chunks)] == IF n = 0 THEN 0 ELSE total[n - 1] + chunks[n]
    IN  total[Len(chunks)]

NotStarted ==
    [pc |-> "out", upload |-> [declared |-> <<>>, chunks |-> <<>>, ends |-> TRUE],
     arrived |-> 0, ended |-> FALSE, gone |-> FALSE, taken |-> 0,
     left |-> <<>>, race |-> "none", result |-> "none", status |-> 0]

BodyInit ==
    /\ reads = [r \in Readers |-> NotStarted]
    /\ tracked = {}
    /\ interval = <<>>
    /\ listeners = {}

\* Every read is waiting for an event: no continuation is due, and every
\* answer has been returned.
Quiet == \A r \in Readers : reads[r].race = "none" /\ reads[r].pc # "done"

(***************************************************************************)
(* The watchdog.                                                           *)
(***************************************************************************)
Track(r) ==
    /\ tracked' = tracked \union {r}
    /\ interval' = IF interval = <<>> THEN <<SWEEP_MS>> ELSE interval

\* Mutant: the interval is stopped although other reads are tracked.
UntrackStops(r) ==
    /\ tracked' = tracked \ {r}
    /\ interval' = <<>>

Untrack(r) ==
    /\ tracked' = tracked \ {r}
    /\ interval' = IF tracked' = {} THEN <<>> ELSE interval

\* Mutant: the reader is cancelled before the promise is rejected, so that the
\* pending read() settles first, as done.
SweepCancels ==
    LET due == {r \in tracked : reads[r].left[1] <= 0}
    IN  /\ Quiet
        /\ interval = <<0>>
        /\ reads' = [r \in Readers |->
                        IF r \in due THEN [reads[r] EXCEPT !.race = "read", !.ended = TRUE]
                        ELSE reads[r]]
        /\ tracked' = tracked \ due
        /\ interval' = IF tracked' = {} THEN <<>> ELSE <<SWEEP_MS>>
        /\ UNCHANGED listeners

\* Date.now() >= deadlineWall: the entry is settled, removed and its promise
\* rejected; the race of the read settles with it.
Sweep ==
    LET due == {r \in tracked : reads[r].left[1] <= 0}
    IN  /\ Quiet
        /\ interval = <<0>>
        /\ reads' = [r \in Readers |->
                        IF r \in due THEN [reads[r] EXCEPT !.race = "timeout"] ELSE reads[r]]
        /\ tracked' = tracked \ due
        /\ interval' = IF tracked' = {} THEN <<>> ELSE <<SWEEP_MS>>
        /\ UNCHANGED listeners

(***************************************************************************)
(* One read.                                                               *)
(***************************************************************************)
\* The status each route answers with when its read ended with "result".
\* The write route runs the pipeline without a body first, and a terminal
\* decision of it (0 here) replaces the 413 or 408.
StatusesFor(route, result, gone) ==
    IF result = "abort" \/ (result = "ok" /\ gone) THEN {499}
    ELSE IF result = "ok" THEN {200}
    ELSE IF result = "too_large" THEN {413} \union (IF route = "write" THEN {0} ELSE {})
    ELSE IF route = "write" THEN {408, 0}
    ELSE IF result = "timeout" THEN {408} ELSE {400}

\* Whether the promise the read awaits has settled: all of the body on the
\* declared-length path, the next chunk or the end on the streaming path.
IsWhole(read) == read.upload.declared # <<>>
BytesThere(read) ==
    read.ended \/ (~IsWhole(read) /\ read.arrived > read.taken)

\* The request of r is answered; "read" is r's record at that moment.  Which
\* route reads the body matters only here; the echo route reads an undeclared
\* body alone (a declared one is refused, or its stream handed back unread).
Answers(r, read, result) ==
    \E route \in RouteKinds : \E status \in StatusesFor(route, result, read.gone) :
        /\ route = "echo" => ~IsWhole(read)
        /\ reads' = [reads EXCEPT ![r] = [read EXCEPT !.pc = "done", !.race = "none",
                                                      !.result = result, !.status = status]]

\* What a whole-body read of "read" gives once its bytes are there.
WholeResult(read) ==
    IF read.gone THEN "abort"
    ELSE IF SizeOf(read.upload.chunks) > BodyLimit THEN "too_large" ELSE "ok"

\* The race begins: deadline and abort listener are set up before the await.
Races(r, read, timeout) ==
    /\ reads' = [reads EXCEPT ![r] =
                    [read EXCEPT !.pc = "wait",
                                 !.left = IF timeout = 0 THEN <<>> ELSE <<timeout>>,
                                 !.race = IF BytesThere(read) THEN "read" ELSE "none"]]
    /\ IF timeout = 0 THEN UNCHANGED <<tracked, interval>> ELSE Track(r)
    /\ listeners' = listeners \union {r}

\* A route calls readBodyWithLimit.  "arrived" chunks are there already.
Start(r, upload, arrived, gone, runtime, timeout) ==
    LET read == [NotStarted EXCEPT !.upload = upload, !.arrived = arrived,
                                   !.gone = gone,
                                   !.ended = upload.ends /\ arrived = Len(upload.chunks)]
    IN  /\ Quiet
        /\ reads[r].pc = "out"
        /\ \/ /\ gone
              /\ Answers(r, read, "abort")
              /\ UNCHANGED <<tracked, interval, listeners>>
           \/ /\ ~gone /\ IsWhole(read) /\ upload.declared[1] > BodyLimit
              /\ Answers(r, read, "too_large")
              /\ UNCHANGED <<tracked, interval, listeners>>
           \/ /\ ~gone /\ IsWhole(read) /\ upload.declared[1] <= BodyLimit
              /\ runtime = "bun" /\ read.ended
              /\ Answers(r, read, WholeResult(read))
              /\ UNCHANGED <<tracked, interval, listeners>>
           \/ /\ ~gone /\ IsWhole(read) /\ upload.declared[1] <= BodyLimit
              /\ ~(runtime = "bun" /\ read.ended)
              /\ Races(r, read, timeout)
           \/ /\ ~gone /\ ~IsWhole(read)
              /\ Races(r, read, timeout)

\* The finally of every path: the deadline is untracked (a no-op when there
\* is none) and the listener removed.
Cleanup(r) ==
    /\ IF reads[r].left = <<>> THEN UNCHANGED <<tracked, interval>> ELSE Untrack(r)
    /\ listeners' = listeners \ {r}

\* The awaited race of the declared-length path has settled.
ResumeWhole(r) ==
    LET read == reads[r]
    IN  /\ read.pc = "wait" /\ IsWhole(read) /\ read.race # "none"
        /\ Answers(r, read, IF read.race = "read" THEN WholeResult(read) ELSE read.race)
        /\ Cleanup(r)

\* One turn of the streaming loop: a chunk is counted and kept, the end
\* returns the chunks, anything else leaves through finally, which awaits
\* reader.cancel() before the rejection is seen.
ResumeStream(r) ==
    LET read  == reads[r]
        chunk == read.race = "read" /\ read.arrived > read.taken
        total == SizeOf(SubSeq(read.upload.chunks, 1, read.taken + 1))
        next  == [read EXCEPT !.taken = @ + 1]
    IN  /\ read.pc = "wait" /\ ~IsWhole(read) /\ read.race # "none"
        /\ \/ /\ chunk /\ total <= BodyLimit
              /\ reads' = [reads EXCEPT ![r] =
                              [next EXCEPT !.race = IF BytesThere(next) THEN "read" ELSE "none"]]
              /\ UNCHANGED <<tracked, interval, listeners>>
           \/ /\ read.race = "read" /\ ~chunk
              /\ Answers(r, read, "ok")
              /\ Cleanup(r)
           \/ /\ read.race # "read" \/ (chunk /\ total > BodyLimit)
              /\ reads' = [reads EXCEPT ![r] =
                              [read EXCEPT !.pc = "cancel", !.race = "none",
                                           !.result = IF chunk THEN "too_large" ELSE read.race]]
              /\ Cleanup(r)

\* reader.cancel() has settled, well or not.
Cancelled(r) ==
    /\ Quiet
    /\ reads[r].pc = "cancel"
    /\ Answers(r, reads[r], reads[r].result)
    /\ UNCHANGED <<tracked, interval, listeners>>

\* The response is returned to the server; the slot takes another request.
Returned(r) ==
    /\ reads[r].pc = "done"
    /\ reads' = [reads EXCEPT ![r] = NotStarted]
    /\ UNCHANGED <<tracked, interval, listeners>>

(***************************************************************************)
(* The client and the time.                                                *)
(***************************************************************************)
\* The race of r, if it is still open, settles with "outcome".
Settled(read, outcome) == [read EXCEPT !.race = IF read.pc = "wait" THEN outcome ELSE @]

\* The next chunk arrives, and with the last one the end, if it comes at all.
Arrives(r) ==
    LET read == [reads[r] EXCEPT !.arrived = @ + 1,
                                 !.ended = reads[r].upload.ends
                                           /\ reads[r].arrived + 1 = Len(reads[r].upload.chunks)]
    IN  /\ Quiet
        /\ reads[r].pc = "wait"
        /\ reads[r].arrived < Len(reads[r].upload.chunks)
        /\ reads' = [reads EXCEPT ![r] = IF BytesThere(read) THEN Settled(read, "read") ELSE read]
        /\ UNCHANGED <<tracked, interval, listeners>>

\* The client disconnects: req.signal aborts and a listener on it fires once.
Disconnects(r) ==
    LET read == [reads[r] EXCEPT !.gone = TRUE]
    IN  /\ Quiet
        /\ read.pc \in {"wait", "cancel"}
        /\ ~reads[r].gone
        /\ reads' = [reads EXCEPT ![r] =
                        IF r \in listeners THEN Settled(read, "abort") ELSE read]
        /\ listeners' = listeners \ {r}
        /\ UNCHANGED <<tracked, interval>>

\* The body stream fails.
BodyFails(r) ==
    /\ Quiet
    /\ reads[r].pc = "wait"
    /\ reads' = [reads EXCEPT ![r] = Settled(@, "error")]
    /\ UNCHANGED <<tracked, interval, listeners>>

\* Time passes; a sweep that is due is not overtaken by it.  Without a timer
\* set, no deadline is running and time makes no difference.
BodyTick ==
    /\ Quiet
    /\ interval # <<>>
    /\ interval[1] > 0
    /\ interval' = <<interval[1] - 1>>
    /\ reads' = [r \in Readers |->
                    [reads[r] EXCEPT !.left = IF r \in tracked THEN <<@[1] - 1>> ELSE @]]
    /\ UNCHANGED <<tracked, listeners>>

BodyNext ==
    \/ \E r \in Readers :
          \/ \E upload \in Uploads, gone \in BOOLEAN,
                runtime \in Runtimes, timeout \in BodyTimeouts :
                \E arrived \in 0..Len(upload.chunks) :
                    Start(r, upload, arrived, gone, runtime, timeout)
          \/ ResumeWhole(r) \/ ResumeStream(r) \/ Cancelled(r) \/ Returned(r)
          \/ Arrives(r) \/ Disconnects(r) \/ BodyFails(r)
    \/ Sweep
    \/ BodyTick

BodySpec == BodyInit /\ [][BodyNext]_bodyVars

(***************************************************************************)
(* Properties.                                                             *)
(***************************************************************************)
\* Every answer tells the truth about the upload: a 200 was given the whole
\* body, within the limit, of a client still there; a read that timed out had
\* reached its deadline; too_large and 499 mean what they say.  A streamed
\* body is never kept beyond the limit.  (readBodyWithLimit, body.ts)
BodyHonest ==
    \A r \in Readers :
        LET read == reads[r]
            all  == SizeOf(read.upload.chunks)
        IN  /\ read.status = 200 =>
                  /\ read.upload.ends /\ read.arrived = Len(read.upload.chunks)
                  /\ IsWhole(read) \/ read.taken = read.arrived
                  /\ all <= BodyLimit
                  /\ ~read.gone
            /\ read.status = 499 => read.gone
            /\ read.result = "timeout" => read.left # <<>> /\ read.left[1] <= 0
            /\ read.result = "too_large" =>
                  all > BodyLimit \/ (IsWhole(read) /\ read.upload.declared[1] > BodyLimit)
            /\ SizeOf(SubSeq(read.upload.chunks, 1, read.taken)) <= BodyLimit

\* No read outlives its deadline by a sweep period, the interval runs exactly
\* while a read is tracked, and a read that has left its race leaves neither
\* an entry nor a listener behind.  (bodyWatchdog, body.ts)
DeadlineKept ==
    /\ (interval # <<>>) <=> (tracked # {})
    /\ \A r \in Readers :
          IF reads[r].pc = "wait"
          THEN reads[r].left # <<>> => (r \in tracked \/ reads[r].race # "none") /\ reads[r].left[1] > -SWEEP_MS
          ELSE r \notin tracked \union listeners
=============================================================================
