------------------------ MODULE IngressHandlerProofs ------------------------
(***************************************************************************)
(* Proofs about IngressHandler, for any number of requests, on top of the  *)
(* proofs about BufferPool.                                                *)
(***************************************************************************)
EXTENDS IngressHandler, BufferPoolProofs

Places == {"idle", "pack", "native", "napi", "callback", "observe", "escape"}
StreamStates == {"none", "open", "chunk", "closed"}

\* Where run() is, and what it has.
RunTypes ==
    /\ jpc \in Places
    /\ req \in IF jpc = "idle" THEN {NoRequest} ELSE Requests
    /\ handle \in {0} \cup 1..Len(handles)

\* The bounds of an instance hold, and every variable has its type.
HandlerTypes ==
    /\ Len(sizes) <= MaxCreated /\ Len(handles) <= MaxObjects
    /\ borrows \in BOOLEAN /\ stale \in BOOLEAN
    /\ DOMAIN content = 1..MaxCreated /\ DOMAIN holder = 1..MaxObjects
    /\ stream \in [Requests -> StreamStates]
    /\ DOMAIN shandle = Requests /\ DOMAIN sbuffer = Requests
    /\ timer \in [Requests -> BOOLEAN]

\* The gauge counts the request of run() until one of the hooks ends it.
Accounted ==
    /\ active \subseteq {req} /\ (jpc = "idle" => active = {})
    /\ gauge = IF active = {} THEN 0 ELSE 1

\* Handle h is checked out by request r and its buffer holds r's response
\* when written is TRUE.
HeldBy(h, r, written) ==
    /\ h \in Borrowed /\ holder[h] = r
    /\ written => content[handles[h].buffer] = r

\* What run() holds, at each of its places.
RunHolds ==
    /\ jpc \in {"idle", "pack"} => handle = 0
    /\ jpc \in {"native", "napi"} => handle # 0
    /\ jpc \in {"pack", "native", "napi", "callback"} =>
           ~borrows /\ stream[req] = "none"
    /\ jpc = "callback" /\ result = "body" => handle # 0
    /\ handle # 0 /\ ~borrows => stream[req] = "none" /\ HeldBy(handle, req, FALSE)
    /\ jpc = "callback" /\ result = "body" => content[handles[handle].buffer] = req
    /\ jpc \in {"observe", "escape"} /\ borrows /\ stream[req] = "none" =>
           handle \notin Borrowed
    /\ jpc \in {"observe", "escape"} /\ stream[req] # "none" =>
           borrows /\ stream[req] = "open" /\ handle # 0 /\ shandle[req] = handle

\* The stream of request r: it belongs to a request that was seen, its timer
\* runs only while it is open, and until it is read it has its buffer.
StreamKept(r) ==
    /\ stream[r] # "none" => r \in asked /\ shandle[r] \in 1..Len(handles)
    /\ timer[r] => stream[r] = "open"
    /\ r \in lost => r \in asked /\ r # req
    /\ r \in Unread /\ ~stale =>
           HeldBy(shandle[r], r, TRUE) /\ handles[shandle[r]].buffer = sbuffer[r]

\* Every borrowed handle is held by run() or by an unread response.
NoOrphan ==
    ~stale => \A h \in Borrowed : h = handle \/ \E r \in Unread : h = shandle[r]

\* The inductive invariant of the handler.
HandlerInv ==
    /\ BufferInv
    /\ RunTypes
    /\ HandlerTypes
    /\ Accounted
    /\ RunHolds
    /\ \A r \in Requests : StreamKept(r)
    /\ NoOrphan
    /\ jpc # "idle" => req \in asked

-----------------------------------------------------------------------------
(***************************************************************************)
(* What acquire() and release() do, as the handler sees it.                *)
(***************************************************************************)
\* A handle object and its buffer are within the bounds of the histories.
LEMMA HandleBounds ==
  ASSUME HandlerInv
  PROVE  /\ Len(handles) \in Nat
         /\ \A h \in 1..Len(handles) :
               /\ h \in DOMAIN holder
               /\ handles[h].buffer \in DOMAIN content
               /\ h # 0
<1>1. /\ Len(handles) \in Nat /\ Len(sizes) \in Nat
      /\ \A h \in 1..Len(handles) : handles[h].buffer \in 1..Len(sizes)
  BY HandleTypes, SizeTypes, Zenon DEF HandlerInv, BufferInv
<1>2. /\ Len(sizes) <= MaxCreated /\ Len(handles) <= MaxObjects
      /\ DOMAIN content = 1..MaxCreated /\ DOMAIN holder = 1..MaxObjects
  BY Zenon DEF HandlerInv, HandlerTypes
<1>3. \A i \in 1..Len(sizes) : i \in 1..MaxCreated
  BY <1>1, <1>2, BufferAssumption
<1>4. \A i \in 1..Len(handles) : i \in 1..MaxObjects /\ i # 0
  BY <1>1, <1>2, BufferAssumption
<1> QED BY <1>1, <1>2, <1>3, <1>4, Zenon

\* acquire() adds one handle to the borrowed ones, which nobody holds.
LEMMA Acquired ==
  ASSUME HandlerInv, NEW n \in Nat, Acquire(n)
  PROVE  /\ BufferInv'
         /\ Len(sizes') <= MaxCreated /\ Len(handles') <= MaxObjects
         /\ NextHandle \in 1..Len(handles') /\ NextHandle \in DOMAIN holder
         /\ NextHandle # 0
         /\ NextHandle \notin Borrowed
         /\ Borrowed' = Borrowed \cup {NextHandle}
         /\ 1..Len(handles) \subseteq 1..Len(handles')
         /\ \A k \in 1..Len(handles) : k # NextHandle => handles'[k] = handles[k]
<1>0. BufferInv /\ BufferTypeOK
  BY Zenon DEF HandlerInv, BufferInv
<1>1. BufferInv'
  BY <1>0, AcquireStep
<1>2. /\ NextHandle \in 1..Len(handles') /\ NextHandle \notin Borrowed
      /\ handles'[NextHandle] = [buffer |-> Taken(n), released |-> FALSE, asked |-> n]
      /\ Len(handles') \in Nat
      /\ 1..Len(handles') = 1..Len(handles) \cup {NextHandle}
      /\ \A k \in 1..Len(handles) : k # NextHandle => handles'[k] = handles[k]
  BY <1>0, HandleStep, Zenon
<1>3. ~handles'[NextHandle].released
  BY <1>2
<1>4. Borrowed' = Borrowed \cup {NextHandle}
  BY <1>2, <1>3, Zenon DEF Borrowed
<1>5. Len(handles') <= MaxObjects
  <2>1. CASE freeHandles = <<>>
    <3>1. /\ Len(handles) < MaxObjects
          /\ handles' = Append(handles, [buffer |-> Taken(n), released |-> FALSE, asked |-> n])
      BY <2>1, Zenon DEF Acquire
    <3>2. Len(handles') = Len(handles) + 1 /\ Len(handles) \in Nat
      BY <1>0, <3>1 DEF BufferTypeOK
    <3> QED BY <3>1, <3>2, BufferAssumption
  <2>2. CASE freeHandles # <<>>
    <3>1. handles' = [handles EXCEPT ![NextHandle] =
                         [buffer |-> Taken(n), released |-> FALSE, asked |-> n]]
      BY <2>2, Zenon DEF Acquire
    <3>2. Len(handles') = Len(handles)
      BY <1>0, <3>1 DEF BufferTypeOK
    <3> QED BY <3>2 DEF HandlerInv, HandlerTypes
  <2> QED BY <2>1, <2>2, Zenon
<1>6. Len(sizes') <= MaxCreated
  <2>1. sizes \in Seq(Nat) /\ Len(sizes) <= MaxCreated
    BY <1>0 DEF BufferTypeOK, HandlerInv, HandlerTypes
  <2>2. CASE TakeReused(n)
    BY <2>1, <2>2 DEF TakeReused
  <2>3. CASE \E e \in Estimates : TakeNew(n, e)
    <3>1. PICK e \in Estimates : TakeNew(n, e)
      BY <2>3
    <3>2. Len(sizes) < MaxCreated /\ sizes' = Append(sizes, Maximum(e, n))
      BY <3>1 DEF TakeNew
    <3>3. Len(sizes') = Len(sizes) + 1 /\ Len(sizes) \in Nat
      BY <2>1, <3>2
    <3> QED BY <3>2, <3>3, BufferAssumption
  <2> QED BY <2>2, <2>3, Zenon DEF Acquire
<1>7. NextHandle # 0 /\ NextHandle \in DOMAIN holder
  BY <1>2, <1>5, BufferAssumption DEF HandlerInv, HandlerTypes
<1> QED BY <1>1, <1>2, <1>4, <1>5, <1>6, <1>7, Zenon

\* release() takes one handle out of the borrowed ones, if it is there.
LEMMA Released ==
  ASSUME BufferInv, NEW h \in 1..Len(handles), Release(h)
  PROVE  /\ BufferInv'
         /\ sizes' = sizes /\ Len(handles') = Len(handles)
         /\ Borrowed' = Borrowed \ {h}
         /\ \A k \in 1..Len(handles) : handles'[k].buffer = handles[k].buffer
<1>1. CASE handles[h].released
  <2>1. UNCHANGED bufferVars
    BY <1>1, Zenon DEF Release
  <2>2. BufferInv'
    BY <2>1, BufferStutter
  <2>3. sizes' = sizes /\ handles' = handles
    BY <2>1, Zenon DEF bufferVars
  <2> QED BY <1>1, <2>2, <2>3, Zenon DEF Borrowed
<1>2. CASE ~handles[h].released
  <2>1. BufferInv'
    BY <1>2, ReleaseStep
  <2>2. /\ handles' = [handles EXCEPT ![h].released = TRUE, ![h].asked = 0]
        /\ sizes' = sizes
    BY <1>2, Zenon DEF Release
  <2>3. handles \in Seq([buffer : 1..Len(sizes), released : BOOLEAN, asked : Nat])
    BY DEF BufferInv, BufferTypeOK
  <2> DEFINE R == [buffer : 1..Len(sizes), released : BOOLEAN, asked : Nat]
             r == [handles[h] EXCEPT !.released = TRUE, !.asked = 0]
  <2>4. r \in R /\ r.released /\ r.buffer = handles[h].buffer
    <3>1. handles[h] \in [buffer : 1..Len(sizes), released : BOOLEAN, asked : Nat]
      BY <2>3, ElementIn, Zenon
    <3>2. r \in R /\ r.released
      BY <3>1, Zenon
    <3>3. r.buffer = handles[h].buffer
      BY <3>1, SMT
    <3> QED BY <3>2, <3>3, Zenon
  <2>5. handles' = [handles EXCEPT ![h] = r]
    BY <2>2, <2>3, Zenon
  <2> HIDE DEF R, r
  <2>6. /\ Len(handles') = Len(handles)
        /\ \A k \in 1..Len(handles) : handles'[k] = IF k = h THEN r ELSE handles[k]
    BY <2>3, <2>4, <2>5, Replaced, SMTT(30) DEF R
  <2>7. Borrowed' = Borrowed \ {h}
    BY <2>4, <2>6, Zenon DEF Borrowed
  <2> QED BY <2>1, <2>2, <2>4, <2>6, <2>7, Zenon
<1> QED BY <1>1, <1>2, Zenon

-----------------------------------------------------------------------------
\* A hook that ends the accounting of the request of run() leaves nothing.
LEMMA Ended ==
  ASSUME HandlerInv, EndAccounting(req)
  PROVE  active' = {} /\ gauge' = 0
<1>1. active \subseteq {req} /\ gauge = IF active = {} THEN 0 ELSE 1
  BY Zenon DEF HandlerInv, Accounted
<1>2. active' = active \ {req} /\ gauge' = IF req \in active THEN gauge - 1 ELSE gauge
  BY Zenon DEF EndAccounting
<1>3. CASE active = {}
  BY <1>1, <1>2, <1>3
<1>4. CASE active # {}
  BY <1>1, <1>2, <1>4
<1> QED BY <1>3, <1>4, Zenon

\* Nothing happens to handle h: its checkout, its buffer or the data in it.
StaysWith(h) ==
    /\ h \in Borrowed' /\ holder'[h] = holder[h]
    /\ handles'[h].buffer = handles[h].buffer
    /\ content'[handles[h].buffer] = content[handles[h].buffer]

\* The stream of a request whose response a step does not touch.
LEMMA StreamFrame ==
  ASSUME HandlerInv, NEW r \in Requests,
         stream'[r] = stream[r], timer'[r] = timer[r],
         shandle'[r] = shandle[r], sbuffer'[r] = sbuffer[r],
         r \in lost' <=> r \in lost,
         r \in lost => r # req',
         asked \subseteq asked', 1..Len(handles) \subseteq 1..Len(handles'),
         ~stale' => ~stale,
         r \in Unread /\ ~stale' => StaysWith(shandle[r])
  PROVE  StreamKept(r)'
<1>1. StreamKept(r)
  BY Zenon DEF HandlerInv
<1>2. r \in Unread' <=> r \in Unread
  BY Zenon DEF Unread
<1>3. stream'[r] # "none" => r \in asked' /\ shandle'[r] \in 1..Len(handles')
  BY <1>1, Zenon DEF StreamKept
<1>4. timer'[r] => stream'[r] = "open"
  BY <1>1, Zenon DEF StreamKept
<1>5. r \in lost' => r \in asked' /\ r # req'
  BY <1>1, Zenon DEF StreamKept
<1>6. ASSUME r \in Unread', ~stale'
      PROVE  /\ HeldBy(shandle[r], r, TRUE)'
             /\ handles'[shandle'[r]].buffer = sbuffer'[r]
  <2>1. HeldBy(shandle[r], r, TRUE) /\ handles[shandle[r]].buffer = sbuffer[r]
    BY <1>1, <1>2, <1>6, Zenon DEF StreamKept
  <2>2. StaysWith(shandle[r])
    BY <1>2, <1>6, Zenon
  <2> QED BY <2>1, <2>2, Zenon DEF HeldBy, StaysWith
<1> QED BY <1>3, <1>4, <1>5, <1>6, Zenon DEF StreamKept

\* Steps of run() that touch neither the pool nor a stream nor a history.
Quiet == UNCHANGED <<bufferVars, req, asked, handle, borrows, content, streamVars, historyVars>>

LEMMA QuietStep ==
  ASSUME HandlerInv, Quiet, jpc # "idle", jpc' \in Places \ {"idle"},
         Accounted', RunHolds'
  PROVE  HandlerInv'
<1>1. /\ UNCHANGED <<sizes, free, handles, freeHandles, inFlight>>
      /\ UNCHANGED <<req, asked, handle, borrows, content, holder, stale>>
      /\ UNCHANGED <<stream, shandle, sbuffer, sreleased, timer, lost>>
  BY Zenon DEF Quiet, bufferVars, streamVars, historyVars
<1>2. BufferInv' /\ Borrowed' = Borrowed /\ Unread' = Unread
  <2>1. UNCHANGED bufferVars
    BY Zenon DEF Quiet
  <2>2. BufferInv'
    BY <2>1, BufferStutter, Zenon DEF HandlerInv
  <2> QED BY <1>1, <2>2, Zenon DEF Borrowed, Unread
<1>3. RunTypes' /\ HandlerTypes'
  BY <1>1, Zenon DEF HandlerInv, RunTypes, HandlerTypes
<1>4. ASSUME NEW r \in Requests PROVE StreamKept(r)'
  <2>1. StreamKept(r)
    BY Zenon DEF HandlerInv
  <2>2. r \in Unread /\ ~stale' => StaysWith(shandle[r])
    BY <1>1, <1>2, <2>1, Zenon DEF StaysWith, StreamKept, HeldBy
  <2>3. r \in lost => r # req'
    BY <1>1, <2>1, Zenon DEF StreamKept
  <2> QED BY <1>1, <2>2, <2>3, StreamFrame, Zenon
<1>5. NoOrphan'
  BY <1>1, <1>2, Zenon DEF HandlerInv, NoOrphan
<1>6. req' \in asked'
  BY <1>1, Zenon DEF HandlerInv
<1> QED BY <1>2, <1>3, <1>4, <1>5, <1>6, Zenon DEF HandlerInv

\* What run() holds does not depend on where it is between the callback and
\* its end, once nothing is borrowed by the response.
LEMMA QuietHolds ==
  ASSUME HandlerInv, Quiet, jpc' \in {"callback", "observe", "escape"},
         \/ jpc \in {"pack", "native", "napi", "callback"}
         \/ jpc = "observe" /\ jpc' = "escape",
         jpc' = "callback" => jpc # "callback" /\ result' = "internal"
  PROVE  RunHolds'
<1>1. UNCHANGED <<handles, req, handle, borrows, content, holder, stream, shandle>>
  BY Zenon DEF Quiet, bufferVars, streamVars, historyVars
<1>2. Borrowed' = Borrowed
  BY <1>1, Zenon DEF Borrowed
<1>4. handle # 0 /\ ~borrows => stream[req] = "none" /\ HeldBy(handle, req, FALSE)
  BY Zenon DEF HandlerInv, RunHolds
<1>5. CASE jpc \in {"pack", "native", "napi", "callback"}
  <2>1. ~borrows /\ stream[req] = "none"
    BY <1>5 DEF HandlerInv, RunHolds
  <2> QED BY <1>1, <1>2, <1>4, <2>1 DEF RunHolds, HeldBy
<1>6. CASE jpc = "observe" /\ jpc' = "escape"
  <2>1. /\ borrows /\ stream[req] = "none" => handle \notin Borrowed
        /\ stream[req] # "none" =>
               borrows /\ stream[req] = "open" /\ handle # 0 /\ shandle[req] = handle
    BY <1>6 DEF HandlerInv, RunHolds
  <2> QED BY <1>1, <1>2, <1>4, <1>6, <2>1 DEF RunHolds, HeldBy
<1> QED BY <1>5, <1>6, Zenon

\* The failures and the answers that leave the buffer alone.
LEMMA QuietActions ==
  ASSUME HandlerInv,
         PackFails \/ AcquireFails \/ NapiFails \/ CallbackAnswers \/ CallbackThrows
  PROVE  HandlerInv'
<1>1. Accounted
  BY Zenon DEF HandlerInv
<1>2. CASE PackFails \/ CallbackAnswers \/ CallbackThrows
  <2>1. Quiet /\ UNCHANGED metricVars
    BY <1>2, Zenon DEF PackFails, CallbackAnswers, CallbackThrows, Goto, Quiet
  <2>2. /\ jpc \in {"pack", "callback"} \/ (jpc = "observe" /\ jpc' = "escape")
        /\ jpc' \in {"observe", "escape"}
    BY <1>2 DEF PackFails, CallbackAnswers, CallbackThrows, Goto
  <2>3. Accounted'
    BY <1>1, <2>1, <2>2 DEF Accounted, metricVars, Quiet
  <2>4. RunHolds'
    BY <2>1, <2>2, QuietHolds
  <2> QED BY <2>1, <2>2, <2>3, <2>4, QuietStep DEF Places
<1>3. CASE AcquireFails \/ NapiFails
  <2>1. Quiet /\ EndAccounting(req)
    BY <1>3, Zenon DEF AcquireFails, NapiFails, InternalError, Goto, Quiet
  <2>2. jpc \in {"pack", "native", "napi"} /\ jpc' = "callback" /\ result' = "internal"
    BY <1>3 DEF AcquireFails, NapiFails, InternalError, Goto, AtNapi
  <2>3. Accounted'
    BY <2>1, <2>2, Ended DEF Accounted
  <2>4. RunHolds'
    BY <2>1, <2>2, QuietHolds
  <2> QED BY <2>1, <2>2, <2>3, <2>4, QuietStep DEF Places
<1> QED BY <1>2, <1>3, Zenon

\* A request arrives.
LEMMA RunStartStep ==
  ASSUME HandlerInv, NEW r \in Requests, RunStart(r)
  PROVE  HandlerInv'
<1>1. /\ jpc = "idle" /\ r \notin asked
      /\ jpc' = "pack" /\ req' = r /\ asked' = asked \cup {r}
      /\ handle' = 0 /\ borrows' = FALSE
      /\ active' = active \cup {r} /\ gauge' = gauge + 1
      /\ UNCHANGED bufferVars /\ UNCHANGED <<content, holder, stale>>
      /\ UNCHANGED <<stream, shandle, sbuffer, timer, lost>>
  BY Zenon DEF RunStart, OnRequest, streamVars, historyVars
<1>2. BufferInv' /\ Borrowed' = Borrowed /\ Unread' = Unread /\ handles' = handles /\ sizes' = sizes
  <2>1. BufferInv'
    BY <1>1, BufferStutter, Zenon DEF HandlerInv
  <2> QED BY <1>1, <2>1, Zenon DEF Borrowed, Unread, bufferVars
<1>3. active = {} /\ gauge = 0 /\ handle = 0
  BY <1>1 DEF HandlerInv, Accounted, RunHolds
<1>4. RunTypes' /\ HandlerTypes'
  <2>1. RunTypes'
    BY <1>1, <1>2 DEF RunTypes, Places
  <2> QED BY <1>1, <1>2, <2>1, Zenon DEF HandlerInv, HandlerTypes
<1>5. Accounted'
  BY <1>1, <1>3 DEF Accounted
<1>6. stream[r] = "none"
  BY <1>1, Zenon DEF HandlerInv, StreamKept
<1>7. RunHolds'
  BY <1>1, <1>6 DEF RunHolds
<1>8. ASSUME NEW q \in Requests PROVE StreamKept(q)'
  <2>1. StreamKept(q)
    BY Zenon DEF HandlerInv
  <2>2. q \in Unread /\ ~stale' => StaysWith(shandle[q])
    BY <1>1, <1>2, <2>1, Zenon DEF StaysWith, StreamKept, HeldBy
  <2>3. q \in lost => q # req'
    BY <1>1, <2>1, Zenon DEF StreamKept
  <2> QED BY <1>1, <1>2, <2>2, <2>3, StreamFrame, Zenon
<1>9. \A h \in Borrowed : h # 0
  BY HandleBounds, Zenon DEF Borrowed
<1>10. NoOrphan'
  BY <1>1, <1>2, <1>3, <1>9, Zenon DEF HandlerInv, NoOrphan
<1> QED BY <1>1, <1>2, <1>4, <1>5, <1>7, <1>8, <1>10, Zenon DEF HandlerInv

\* run() checks a buffer out: the handle is nobody else's.
LEMMA AcquireBufferStep ==
  ASSUME HandlerInv, AcquireBuffer
  PROVE  HandlerInv'
<1> DEFINE h == NextHandle
<1>1. /\ jpc = "pack" /\ Acquire(InitialSize) /\ jpc' = "native"
      /\ handle' = h /\ holder' = [holder EXCEPT ![h] = req]
      /\ UNCHANGED <<req, asked, borrows, content, active, gauge, stale>>
      /\ UNCHANGED <<stream, shandle, sbuffer, timer, lost>>
  BY Zenon DEF AcquireBuffer, metricVars, streamVars
<1>2. InitialSize \in Nat
  BY BufferAssumption
<1>3. /\ BufferInv'
      /\ Len(sizes') <= MaxCreated /\ Len(handles') <= MaxObjects
      /\ h \in 1..Len(handles') /\ h \in DOMAIN holder /\ h # 0
      /\ h \notin Borrowed /\ Borrowed' = Borrowed \cup {h}
      /\ 1..Len(handles) \subseteq 1..Len(handles')
      /\ \A k \in 1..Len(handles) : k # h => handles'[k] = handles[k]
  BY <1>1, <1>2, Acquired, Zenon
<1> HIDE DEF h
<1>4. req \in Requests /\ req \in asked /\ handle = 0 /\ ~borrows /\ stream[req] = "none"
  BY <1>1 DEF HandlerInv, RunTypes, RunHolds
<1>5. RunTypes' /\ HandlerTypes'
  <2>1. RunTypes'
    BY <1>1, <1>3, <1>4 DEF RunTypes, Places
  <2>2. DOMAIN holder' = DOMAIN holder
    BY <1>1, Zenon
  <2> QED BY <1>1, <1>3, <2>1, <2>2, Zenon DEF HandlerInv, HandlerTypes
<1>6. Accounted'
  BY <1>1 DEF HandlerInv, Accounted
<1>7. RunHolds'
  <2>1. h \in Borrowed' /\ holder'[h] = req
    BY <1>1, <1>3, Zenon
  <2> QED BY <1>1, <1>3, <1>4, <2>1 DEF RunHolds, HeldBy
<1>8. ASSUME NEW q \in Requests PROVE StreamKept(q)'
  <2>1. StreamKept(q)
    BY Zenon DEF HandlerInv
  <2>2. q \in Unread /\ ~stale => shandle[q] \in Borrowed
    BY <2>1, Zenon DEF StreamKept, HeldBy
  <2>3. \A k \in Borrowed : k \in 1..Len(handles) /\ k # h
    BY <1>3, Zenon DEF Borrowed
  <2>4. \A k \in Borrowed : StaysWith(k)
    <3>1. \A k \in Borrowed : k \in DOMAIN holder
      BY <2>3, HandleBounds, Zenon
    <3>2. \A k \in Borrowed : holder'[k] = holder[k]
      BY <1>1, <2>3, <3>1, Zenon
    <3> QED BY <1>1, <1>3, <2>3, <3>2, Zenon DEF StaysWith
  <2>5. q \in lost => q # req'
    BY <1>1, <2>1, Zenon DEF StreamKept
  <2> QED BY <1>1, <1>3, <2>2, <2>4, <2>5, StreamFrame, Zenon
<1>9. Unread' = Unread
  BY <1>1, Zenon DEF Unread
<1>10. \A k \in Borrowed : k # 0
  BY HandleBounds, Zenon DEF Borrowed
<1>11. NoOrphan'
  BY <1>1, <1>3, <1>4, <1>9, <1>10, Zenon DEF HandlerInv, NoOrphan
<1> QED BY <1>1, <1>3, <1>4, <1>5, <1>6, <1>7, <1>8, <1>11, Zenon DEF HandlerInv

\* A native call writes into the buffer that run() holds, and into no other.
LEMMA NativeWrites ==
  ASSUME HandlerInv, jpc \in {"native", "napi"},
         NEW c, content' = [content EXCEPT ![handles[handle].buffer] = c],
         UNCHANGED <<bufferVars, req, asked, handle, borrows, metricVars, streamVars, historyVars>>,
         \/ jpc' = "napi"
         \/ jpc' = "callback" /\ c = req
  PROVE  HandlerInv'
<1>1. /\ UNCHANGED <<sizes, free, handles, freeHandles, inFlight>>
      /\ UNCHANGED <<req, asked, handle, borrows, holder, stale, active, gauge>>
      /\ UNCHANGED <<stream, shandle, sbuffer, sreleased, timer, lost>>
  BY Zenon DEF bufferVars, metricVars, streamVars, historyVars
<1>2. BufferInv' /\ Borrowed' = Borrowed /\ Unread' = Unread
  <2>1. BufferInv'
    BY BufferStutter, Zenon DEF HandlerInv
  <2> QED BY <1>1, <2>1, Zenon DEF Borrowed, Unread
<1>3. /\ req \in Requests /\ req \in asked /\ handle # 0 /\ ~borrows
      /\ stream[req] = "none" /\ HeldBy(handle, req, FALSE)
  <2>1. req \in Requests /\ req \in asked
    BY DEF HandlerInv, RunTypes
  <2>2. handle # 0 /\ ~borrows
    BY DEF HandlerInv, RunHolds
  <2> QED BY <2>1, <2>2, Zenon DEF HandlerInv, RunHolds
<1>4. handle \in Borrowed /\ holder[handle] = req /\ handle \in 1..Len(handles)
  BY <1>3, Zenon DEF HeldBy, Borrowed
<1>5. handles[handle].buffer \in DOMAIN content
  BY <1>4, HandleBounds, Zenon
<1>6. RunTypes' /\ HandlerTypes'
  <2>1. RunTypes'
    BY <1>1, <1>3, <1>4 DEF RunTypes, Places
  <2>2. DOMAIN content' = DOMAIN content
    BY Zenon
  <2> QED BY <1>1, <2>1, <2>2, Zenon DEF HandlerInv, HandlerTypes
<1>7. Accounted'
  BY <1>1 DEF HandlerInv, Accounted
<1>8. RunHolds'
  <2>1. jpc' = "callback" => content'[handles[handle].buffer] = req
    BY <1>5, Zenon
  <2> QED BY <1>1, <1>2, <1>3, <1>4, <2>1 DEF RunHolds, HeldBy
<1>9. ASSUME NEW q \in Requests PROVE StreamKept(q)'
  <2>1. StreamKept(q)
    BY Zenon DEF HandlerInv
  <2>2. ASSUME q \in Unread, ~stale PROVE StaysWith(shandle[q])
    <3>1. stream[q] = "open" /\ shandle[q] \in Borrowed /\ holder[shandle[q]] = q
      BY <2>1, <2>2, Zenon DEF StreamKept, HeldBy, Unread
    <3>2. q # req
      BY <1>3, <3>1
    <3>3. shandle[q] # handle
      BY <1>4, <3>1, <3>2, Zenon
    <3>4. handles[shandle[q]].buffer # handles[handle].buffer
      BY <1>4, <3>1, <3>3, Zenon DEF HandlerInv, BufferInv, OneHolder
    <3>5. content'[handles[shandle[q]].buffer] = content[handles[shandle[q]].buffer]
      <4>1. handles[shandle[q]].buffer \in DOMAIN content
        BY <3>1, HandleBounds, Zenon DEF Borrowed
      <4> QED BY <3>4, <4>1, Zenon
    <3> QED BY <1>1, <1>2, <3>1, <3>5, Zenon DEF StaysWith
  <2>3. q \in lost => q # req'
    BY <1>1, <2>1, Zenon DEF StreamKept
  <2> QED BY <1>1, <2>2, <2>3, StreamFrame, Zenon
<1>10. NoOrphan'
  BY <1>1, <1>2, Zenon DEF HandlerInv, NoOrphan
<1> QED BY <1>1, <1>2, <1>3, <1>6, <1>7, <1>8, <1>9, <1>10, Zenon DEF HandlerInv

\* The native calls.
LEMMA NativeActions ==
  ASSUME HandlerInv, FfiReturns \/ NapiReturns \/ FfiFails
  PROVE  HandlerInv'
<1>1. CASE FfiReturns \/ NapiReturns
  <2>1. jpc \in {"native", "napi"} /\ NativeReturns
    BY <1>1, Zenon DEF FfiReturns, NapiReturns, AtNapi
  <2> QED BY <2>1, NativeWrites, Zenon DEF NativeReturns, Goto
<1>2. CASE FfiFails
  <2>1. PICK c \in {req, content[handles[handle].buffer]} :
           content' = [content EXCEPT ![handles[handle].buffer] = c]
    BY <1>2, Zenon DEF FfiFails
  <2>2. jpc = "native"
    BY <1>2, Zenon DEF FfiFails
  <2> QED BY <1>2, <2>1, <2>2, NativeWrites, Zenon DEF FfiFails, Goto
<1> QED BY <1>1, <1>2, Zenon

\* Releasing one handle does nothing to another that is borrowed.
LEMMA ReleasedStays ==
  ASSUME HandlerInv, NEW h \in 1..Len(handles), Release(h),
         UNCHANGED <<content, holder>>, NEW k \in Borrowed, k # h
  PROVE  StaysWith(k)
<1>1. /\ Borrowed' = Borrowed \ {h}
      /\ \A i \in 1..Len(handles) : handles'[i].buffer = handles[i].buffer
  BY Released, Zenon DEF HandlerInv
<1>2. k \in 1..Len(handles)
  BY Zenon DEF Borrowed
<1> QED BY <1>1, <1>2, Zenon DEF StaysWith

\* An unread response of another request is not behind run()'s own handle
\* while that is checked out to the request of run().
LEMMA OthersHandle ==
  ASSUME HandlerInv, ~stale, NEW q \in Unread, q # req, holder[handle] = req
  PROVE  shandle[q] \in Borrowed /\ shandle[q] # handle
<1>1. StreamKept(q)
  BY Zenon DEF HandlerInv, Unread
<1> QED BY <1>1, Zenon DEF StreamKept, HeldBy

\* An empty body: the buffer goes back at once.
LEMMA BorrowEmptyStep ==
  ASSUME HandlerInv, BorrowEmpty
  PROVE  HandlerInv'
<1>1. /\ jpc = "callback" /\ handle # 0 /\ borrows' = TRUE /\ Release(handle) /\ jpc' = "observe"
      /\ UNCHANGED <<req, asked, handle, content, holder, stale, active, gauge>>
      /\ UNCHANGED <<stream, shandle, sbuffer, timer, lost>>
  BY Zenon DEF BorrowEmpty, metricVars, streamVars, historyVars
<1>2. req \in Requests /\ req \in asked /\ ~borrows /\ stream[req] = "none"
  BY <1>1 DEF HandlerInv, RunTypes, RunHolds
<1>3. handle \in Borrowed /\ holder[handle] = req /\ handle \in 1..Len(handles)
  BY <1>1, <1>2, Zenon DEF HandlerInv, RunHolds, HeldBy, Borrowed
<1>4. /\ BufferInv' /\ sizes' = sizes /\ Len(handles') = Len(handles)
      /\ Borrowed' = Borrowed \ {handle}
  BY <1>1, <1>3, Released, Zenon DEF HandlerInv
<1>5. RunTypes' /\ HandlerTypes'
  <2>1. RunTypes'
    BY <1>1, <1>2, <1>3, <1>4 DEF RunTypes, Places
  <2> QED BY <1>1, <1>4, <2>1, Zenon DEF HandlerInv, HandlerTypes
<1>6. Accounted'
  BY <1>1 DEF HandlerInv, Accounted
<1>7. RunHolds'
  BY <1>1, <1>2, <1>4 DEF RunHolds
<1>8. ASSUME NEW q \in Requests PROVE StreamKept(q)'
  <2>1. StreamKept(q)
    BY Zenon DEF HandlerInv
  <2>2. ASSUME q \in Unread, ~stale PROVE StaysWith(shandle[q])
    <3>1. q # req
      BY <1>2, <2>2 DEF Unread
    <3> QED BY <1>1, <1>3, <2>2, <3>1, OthersHandle, ReleasedStays, Zenon
  <2>3. q \in lost => q # req'
    BY <1>1, <2>1, Zenon DEF StreamKept
  <2> QED BY <1>1, <1>4, <2>2, <2>3, StreamFrame, Zenon
<1>9. Unread' = Unread
  BY <1>1, Zenon DEF Unread
<1>10. NoOrphan'
  BY <1>1, <1>4, <1>9, Zenon DEF HandlerInv, NoOrphan
<1> QED BY <1>1, <1>2, <1>4, <1>5, <1>6, <1>7, <1>8, <1>10, Zenon DEF HandlerInv

\* A body: the stream takes the checkout over from run().
LEMMA BorrowBodyStep ==
  ASSUME HandlerInv, BorrowBody
  PROVE  HandlerInv'
<1>1. /\ jpc = "callback" /\ handle # 0 /\ result = "body" /\ borrows' = TRUE /\ jpc' = "observe"
      /\ stream' = [stream EXCEPT ![req] = "open"]
      /\ shandle' = [shandle EXCEPT ![req] = handle]
      /\ sbuffer' = [sbuffer EXCEPT ![req] = handles[handle].buffer]
      /\ timer' = [timer EXCEPT ![req] = ZeroCopyTimeout]
      /\ UNCHANGED bufferVars
      /\ UNCHANGED <<req, asked, handle, content, holder, stale, active, gauge, lost>>
  BY Zenon DEF BorrowBody, metricVars, historyVars
<1>2. /\ req \in Requests /\ req \in asked /\ ~borrows /\ stream[req] = "none"
      /\ content[handles[handle].buffer] = req
  BY <1>1 DEF HandlerInv, RunTypes, RunHolds
<1>3. handle \in Borrowed /\ holder[handle] = req /\ handle \in 1..Len(handles)
  BY <1>1, <1>2, Zenon DEF HandlerInv, RunHolds, HeldBy, Borrowed
<1>4. /\ BufferInv' /\ sizes' = sizes /\ handles' = handles /\ Borrowed' = Borrowed
  <2>1. BufferInv'
    BY <1>1, BufferStutter, Zenon DEF HandlerInv
  <2> QED BY <1>1, <2>1, Zenon DEF bufferVars, Borrowed
<1>5. RunTypes' /\ HandlerTypes'
  <2>1. RunTypes'
    BY <1>1, <1>2, <1>3, <1>4 DEF RunTypes, Places
  <2>2. /\ stream \in [Requests -> StreamStates] /\ timer \in [Requests -> BOOLEAN]
        /\ DOMAIN shandle = Requests /\ DOMAIN sbuffer = Requests
    BY Zenon DEF HandlerInv, HandlerTypes
  <2>3. "open" \in StreamStates /\ ZeroCopyTimeout \in BOOLEAN
    BY HandlerAssumption, Zenon DEF StreamStates
  <2>4. stream' \in [Requests -> StreamStates] /\ timer' \in [Requests -> BOOLEAN]
    BY <1>1, <2>2, <2>3, Zenon
  <2>5. DOMAIN shandle' = Requests /\ DOMAIN sbuffer' = Requests
    BY <1>1, <2>2, Zenon
  <2> QED BY <1>1, <1>4, <2>1, <2>4, <2>5, Zenon DEF HandlerInv, HandlerTypes
<1>6. Accounted'
  BY <1>1 DEF HandlerInv, Accounted
<1>7. /\ stream'[req] = "open" /\ shandle'[req] = handle
      /\ sbuffer'[req] = handles[handle].buffer
      /\ \A q \in Requests \ {req} :
            /\ stream'[q] = stream[q] /\ shandle'[q] = shandle[q]
            /\ sbuffer'[q] = sbuffer[q] /\ timer'[q] = timer[q]
  BY <1>1, <1>2, Zenon DEF HandlerInv, HandlerTypes
<1>8. RunHolds'
  BY <1>1, <1>7 DEF RunHolds
<1>9. ASSUME NEW q \in Requests PROVE StreamKept(q)'
  <2>1. StreamKept(q)
    BY Zenon DEF HandlerInv
  <2>2. q \in lost => q # req'
    BY <1>1, <2>1, Zenon DEF StreamKept
  <2>3. CASE q # req
    <3>1. q \in Unread /\ ~stale => StaysWith(shandle[q])
      BY <1>1, <1>4, <2>1, Zenon DEF StaysWith, StreamKept, HeldBy
    <3> QED BY <1>1, <1>4, <1>7, <2>2, <2>3, <3>1, StreamFrame, Zenon
  <2>4. CASE q = req
    <3>1. /\ stream'[q] = "open" /\ q \in asked'
          /\ shandle'[q] = handle /\ handle \in 1..Len(handles')
      BY <1>1, <1>2, <1>3, <1>4, <1>7, <2>4, Zenon
    <3>2. /\ shandle'[q] \in Borrowed' /\ holder'[shandle'[q]] = q
          /\ content'[handles'[shandle'[q]].buffer] = q
          /\ handles'[shandle'[q]].buffer = sbuffer'[q]
      BY <1>1, <1>2, <1>3, <1>4, <1>7, <2>4, <3>1
    <3>3. HeldBy(shandle[q], q, TRUE)'
      BY <3>2, Zenon DEF HeldBy
    <3> QED BY <1>1, <2>2, <3>1, <3>2, <3>3, Zenon DEF StreamKept
  <2> QED BY <2>3, <2>4, Zenon
<1>10. \A q \in Unread : q \in Unread' /\ shandle'[q] = shandle[q]
  <2> TAKE q \in Unread
  <2>1. q \in Requests /\ q \notin lost /\ stream[q] = "open"
    BY Zenon DEF Unread
  <2>2. q # req
    BY <1>2, <2>1
  <2> QED BY <1>1, <1>7, <2>1, <2>2, Zenon DEF Unread
<1>11. NoOrphan'
  BY <1>1, <1>4, <1>10, Zenon DEF HandlerInv, NoOrphan
<1> QED BY <1>1, <1>2, <1>4, <1>5, <1>6, <1>8, <1>9, <1>11, Zenon DEF HandlerInv

\* At the end of run() no unread response of another request is behind its
\* handle, released or not.
LEMMA OthersKeep ==
  ASSUME HandlerInv, jpc \in {"observe", "escape"}, ~stale, NEW q \in Unread, q # req
  PROVE  shandle[q] \in Borrowed /\ shandle[q] # handle
<1>1. shandle[q] \in Borrowed /\ holder[shandle[q]] = q /\ q \in Requests
  <2>1. StreamKept(q) /\ q \in Requests
    BY Zenon DEF HandlerInv, Unread
  <2> QED BY <2>1, Zenon DEF StreamKept, HeldBy
<1>2. shandle[q] # 0
  BY <1>1, HandleBounds, Zenon DEF Borrowed
<1>3. CASE handle = 0
  BY <1>1, <1>2, <1>3
<1>4. CASE handle # 0 /\ ~borrows
  BY <1>1, <1>4, Zenon DEF HandlerInv, RunHolds, HeldBy
<1>5. CASE borrows /\ stream[req] = "none"
  BY <1>1, <1>5, Zenon DEF HandlerInv, RunHolds
<1>6. CASE stream[req] # "none"
  <2>1. stream[req] = "open" /\ shandle[req] = handle
    BY <1>6, Zenon DEF HandlerInv, RunHolds
  <2>2. req \in Requests
    BY DEF HandlerInv, RunTypes
  <2>3. StreamKept(req)
    BY <2>2, Zenon DEF HandlerInv
  <2>4. req \in Unread
    BY <2>1, <2>2, <2>3, Zenon DEF StreamKept, Unread
  <2> QED BY <1>1, <2>1, <2>3, <2>4, Zenon DEF StreamKept, HeldBy
<1> QED BY <1>3, <1>4, <1>5, <1>6, Zenon

\* run() is over: nothing of it is left but the streams.
LEMMA OverTypes ==
  ASSUME HandlerInv, ToIdle, EndAccounting(req), BufferInv',
         sizes' = sizes, Len(handles') = Len(handles),
         UNCHANGED <<content, holder, stale, stream, shandle, sbuffer, timer>>, borrows' \in BOOLEAN
  PROVE  /\ RunTypes' /\ HandlerTypes' /\ Accounted' /\ RunHolds'
         /\ jpc' = "idle" /\ req' = NoRequest /\ handle' = 0 /\ NoRequest \notin Requests
<1>1. jpc' = "idle" /\ req' = NoRequest /\ handle' = 0 /\ NoRequest \notin Requests
  BY HandlerAssumption, Zenon DEF ToIdle
<1>2. active' = {} /\ gauge' = 0
  BY Ended
<1>3. RunTypes'
  BY <1>1 DEF RunTypes, Places
<1>4. HandlerTypes'
  BY Zenon DEF HandlerInv, HandlerTypes
<1>5. Accounted'
  BY <1>2 DEF Accounted
<1>6. RunHolds'
  BY <1>1 DEF RunHolds
<1> QED BY <1>1, <1>3, <1>4, <1>5, <1>6, Zenon

\* The ordinary end of run().
LEMMA RunReturnsStep ==
  ASSUME HandlerInv, RunReturns
  PROVE  HandlerInv'
<1>1. /\ jpc = "observe" /\ ToIdle /\ EndAccounting(req)
      /\ IF handle # 0 /\ ~borrows THEN Release(handle) ELSE UNCHANGED bufferVars
      /\ UNCHANGED <<asked, borrows, content, holder, stale>>
      /\ UNCHANGED <<stream, shandle, sbuffer, timer, lost>>
  BY Zenon DEF RunReturns, streamVars, historyVars
<1>2. req \in Requests
  BY <1>1 DEF HandlerInv, RunTypes
<1>3. /\ BufferInv' /\ sizes' = sizes /\ Len(handles') = Len(handles)
      /\ Borrowed' = Borrowed \ IF handle # 0 /\ ~borrows THEN {handle} ELSE {}
      /\ \A q \in Unread : ~stale => StaysWith(shandle[q])
  <2>1. CASE handle # 0 /\ ~borrows
    <3>1. Release(handle)
      BY <1>1, <2>1, Zenon
    <3>2. /\ handle \in Borrowed /\ holder[handle] = req /\ handle \in 1..Len(handles)
          /\ stream[req] = "none"
      BY <2>1, Zenon DEF HandlerInv, RunHolds, HeldBy, Borrowed
    <3>3. /\ BufferInv' /\ sizes' = sizes /\ Len(handles') = Len(handles)
          /\ Borrowed' = Borrowed \ {handle}
      BY <3>1, <3>2, Released, Zenon DEF HandlerInv
    <3>4. ASSUME NEW q \in Unread, ~stale PROVE StaysWith(shandle[q])
      <4>1. q # req
        BY <3>2 DEF Unread
      <4>2. shandle[q] \in Borrowed /\ shandle[q] # handle
        BY <3>2, <3>4, <4>1, OthersHandle
      <4> QED BY <1>1, <3>1, <3>2, <4>2, ReleasedStays, Zenon
    <3> QED BY <2>1, <3>3, <3>4, Zenon
  <2>2. CASE ~(handle # 0 /\ ~borrows)
    <3>1. UNCHANGED bufferVars
      BY <1>1, <2>2, Zenon
    <3>2. BufferInv'
      BY <3>1, BufferStutter, Zenon DEF HandlerInv
    <3>3. sizes' = sizes /\ handles' = handles /\ Borrowed' = Borrowed
      BY <3>1, Zenon DEF bufferVars, Borrowed
    <3>4. ASSUME NEW q \in Unread, ~stale PROVE StaysWith(shandle[q])
      <4>1. shandle[q] \in Borrowed
        BY <3>4, Zenon DEF HandlerInv, StreamKept, HeldBy, Unread
      <4> QED BY <1>1, <3>3, <4>1, Zenon DEF StaysWith
    <3>5. Borrowed' = Borrowed \ IF handle # 0 /\ ~borrows THEN {handle} ELSE {}
      BY <2>2, <3>3
    <3> QED BY <3>2, <3>3, <3>4, <3>5, Zenon
  <2> QED BY <2>1, <2>2, Zenon
<1>4. borrows' \in BOOLEAN
  BY <1>1, Zenon DEF HandlerInv, HandlerTypes
<1>5. /\ RunTypes' /\ HandlerTypes' /\ Accounted' /\ RunHolds'
      /\ jpc' = "idle" /\ req' = NoRequest /\ handle' = 0 /\ NoRequest \notin Requests
  BY <1>1, <1>3, <1>4, OverTypes, Zenon
<1>6. ASSUME NEW q \in Requests PROVE StreamKept(q)'
  BY <1>1, <1>3, <1>5, StreamFrame, Zenon
<1>7. Unread' = Unread
  BY <1>1, Zenon DEF Unread
<1>8. ASSUME ~stale', NEW h \in Borrowed' PROVE \E r \in Unread' : h = shandle'[r]
  <2>1. h \in Borrowed /\ ~stale
    BY <1>1, <1>3, <1>8, Zenon
  <2>2. CASE h # handle
    BY <1>1, <1>7, <2>1, <2>2, Zenon DEF HandlerInv, NoOrphan
  <2>3. CASE h = handle
    <3>1. handle # 0 /\ handle \in Borrowed
      BY <2>1, <2>3, HandleBounds, Zenon DEF Borrowed
    <3>2. borrows
      BY <1>3, <1>8, <2>3, <3>1
    <3>3. stream[req] = "open" /\ shandle[req] = handle
      BY <1>1, <3>1, <3>2, Zenon DEF HandlerInv, RunHolds
    <3>4. req \in Unread
      BY <1>2, <3>3, Zenon DEF HandlerInv, StreamKept, Unread
    <3> QED BY <1>1, <1>7, <2>3, <3>3, <3>4, Zenon
  <2> QED BY <2>2, <2>3, Zenon
<1>9. NoOrphan'
  BY <1>8, Zenon DEF NoOrphan
<1> QED BY <1>3, <1>5, <1>6, <1>9, Zenon DEF HandlerInv

\* run() ends with an exception: its buffer goes back, borrowed or not, and
\* the response is lost.
LEMMA RunEscapesStep ==
  ASSUME HandlerInv, RunEscapes
  PROVE  HandlerInv'
<1>1. /\ jpc = "escape" /\ ToIdle /\ EndAccounting(req)
      /\ IF handle # 0 THEN Release(handle) ELSE UNCHANGED bufferVars
      /\ borrows' = FALSE /\ lost' = lost \cup {req}
      /\ UNCHANGED <<asked, content, holder, stale>>
      /\ UNCHANGED <<stream, shandle, sbuffer, timer>>
  BY Zenon DEF RunEscapes, historyVars
<1>2. req \in Requests /\ req \in asked /\ handle \in {0} \cup 1..Len(handles)
  BY <1>1 DEF HandlerInv, RunTypes
<1>3. /\ BufferInv' /\ sizes' = sizes /\ Len(handles') = Len(handles)
      /\ Borrowed' = Borrowed \ {handle}
      /\ \A q \in Unread : q # req /\ ~stale => StaysWith(shandle[q])
  <2>1. \A q \in Unread : q # req /\ ~stale => shandle[q] \in Borrowed /\ shandle[q] # handle
    BY <1>1, OthersKeep, Zenon
  <2>2. CASE handle # 0
    <3>1. Release(handle) /\ handle \in 1..Len(handles)
      BY <1>1, <1>2, <2>2, Zenon
    <3>2. /\ BufferInv' /\ sizes' = sizes /\ Len(handles') = Len(handles)
          /\ Borrowed' = Borrowed \ {handle}
      BY <3>1, Released, Zenon DEF HandlerInv
    <3> QED BY <1>1, <2>1, <3>1, <3>2, ReleasedStays, Zenon
  <2>3. CASE handle = 0
    <3>1. UNCHANGED bufferVars
      BY <1>1, <2>3, Zenon
    <3>2. BufferInv'
      BY <3>1, BufferStutter, Zenon DEF HandlerInv
    <3>3. sizes' = sizes /\ handles' = handles /\ Borrowed' = Borrowed
      BY <3>1, Zenon DEF bufferVars, Borrowed
    <3>4. Borrowed' = Borrowed \ {handle}
      BY <2>3, <3>3, HandleBounds, Zenon DEF Borrowed
    <3> QED BY <1>1, <2>1, <3>2, <3>3, <3>4, Zenon DEF StaysWith
  <2> QED BY <2>2, <2>3, Zenon
<1>4. borrows' \in BOOLEAN
  BY <1>1, Zenon
<1>5. /\ RunTypes' /\ HandlerTypes' /\ Accounted' /\ RunHolds'
      /\ jpc' = "idle" /\ req' = NoRequest /\ handle' = 0 /\ NoRequest \notin Requests
  BY <1>1, <1>3, <1>4, OverTypes, Zenon
<1>6. ASSUME NEW q \in Requests PROVE StreamKept(q)'
  <2>1. CASE q # req
    BY <1>1, <1>3, <1>5, <2>1, StreamFrame, Zenon
  <2>2. CASE q = req
    <3>1. StreamKept(q)
      BY Zenon DEF HandlerInv
    <3>2. q \notin Unread' /\ q # req'
      BY <1>1, <1>5, <2>2, Zenon DEF Unread
    <3> QED BY <1>1, <1>2, <1>3, <2>2, <3>1, <3>2, Zenon DEF StreamKept
  <2> QED BY <2>1, <2>2, Zenon
<1>7. ASSUME ~stale', NEW h \in Borrowed' PROVE \E r \in Unread' : h = shandle'[r]
  <2>1. h \in Borrowed /\ ~stale /\ h # handle
    BY <1>1, <1>3, <1>7, Zenon
  <2>2. PICK q \in Unread : h = shandle[q]
    BY <2>1, Zenon DEF HandlerInv, NoOrphan
  <2>3. q # req
    <3>1. CASE q = req
      <4>1. stream[req] = "open"
        BY <3>1, Zenon DEF Unread
      <4>2. shandle[req] = handle
        BY <1>1, <4>1 DEF HandlerInv, RunHolds
      <4> QED BY <2>1, <2>2, <3>1, <4>2, Zenon
    <3> QED BY <3>1, Zenon
  <2>4. q \in Unread'
    BY <1>1, <2>3, Zenon DEF Unread
  <2> QED BY <1>1, <2>2, <2>4, Zenon
<1>8. NoOrphan'
  BY <1>7, Zenon DEF NoOrphan
<1> QED BY <1>3, <1>5, <1>6, <1>8, Zenon DEF HandlerInv

\* A stream releases its handle once: Pull, Cancel and TimerFires.
LEMMA StreamReleaseStep ==
  ASSUME HandlerInv, NEW r \in Requests, NEW state \in {"chunk", "closed"},
         stream[r] = "open", StreamStep(r, state), StreamRelease(r)
  PROVE  HandlerInv'
<1>1. /\ jpc = "idle" /\ stream' = [stream EXCEPT ![r] = state]
      /\ UNCHANGED <<jpc, req, asked, handle, borrows, content, active, gauge>>
      /\ UNCHANGED <<shandle, sbuffer, lost, holder>>
      /\ timer' = [timer EXCEPT ![r] = FALSE]
      /\ Release(shandle[r])
      /\ stale' = (stale \/ (~handles[shandle[r]].released /\ holder[shandle[r]] # r))
  BY Zenon DEF StreamStep, StreamRelease, runVars, metricVars
<1>2. StreamKept(r)
  BY Zenon DEF HandlerInv
<1>3. r \in asked /\ shandle[r] \in 1..Len(handles)
  BY <1>2, Zenon DEF StreamKept
<1>4. /\ BufferInv' /\ sizes' = sizes /\ Len(handles') = Len(handles)
      /\ Borrowed' = Borrowed \ {shandle[r]}
  BY <1>1, <1>3, Released, Zenon DEF HandlerInv
<1>5. handle = 0
  BY <1>1 DEF HandlerInv, RunHolds
<1>6. /\ stream \in [Requests -> StreamStates] /\ timer \in [Requests -> BOOLEAN]
      /\ stream' \in [Requests -> StreamStates] /\ timer' \in [Requests -> BOOLEAN]
  <2>1. stream \in [Requests -> StreamStates] /\ timer \in [Requests -> BOOLEAN]
    BY Zenon DEF HandlerInv, HandlerTypes
  <2>2. state \in StreamStates
    BY Zenon DEF StreamStates
  <2> QED BY <1>1, <2>1, <2>2, Zenon
<1>7. /\ stream'[r] = state /\ ~timer'[r]
      /\ \A q \in Requests \ {r} : stream'[q] = stream[q] /\ timer'[q] = timer[q]
  BY <1>1, <1>6, Zenon
<1>8. RunTypes' /\ HandlerTypes'
  <2>1. RunTypes'
    BY <1>1, <1>4, Zenon DEF HandlerInv, RunTypes
  <2>2. stale' \in BOOLEAN
    BY <1>1, Zenon
  <2> QED BY <1>1, <1>4, <1>6, <2>1, <2>2, Zenon DEF HandlerInv, HandlerTypes
<1>9. Accounted'
  BY <1>1 DEF HandlerInv, Accounted
<1>10. RunHolds'
  BY <1>1, <1>5 DEF RunHolds
<1>11. ~stale' => ~stale /\ (shandle[r] \in Borrowed => holder[shandle[r]] = r)
  BY <1>1, Zenon DEF Borrowed
<1>12. ASSUME NEW q \in Requests PROVE StreamKept(q)'
  <2>1. StreamKept(q)
    BY Zenon DEF HandlerInv
  <2>2. CASE q # r
    <3>1. ASSUME q \in Unread, ~stale' PROVE StaysWith(shandle[q])
      <4>1. shandle[q] \in Borrowed /\ holder[shandle[q]] = q
        BY <1>11, <2>1, <3>1, Zenon DEF StreamKept, HeldBy
      <4>2. shandle[q] # shandle[r]
        BY <1>11, <2>2, <3>1, <4>1, Zenon
      <4> QED BY <1>1, <1>3, <4>1, <4>2, ReleasedStays, Zenon
    <3>2. q \in lost => q # req'
      BY <1>1, <2>1, Zenon DEF StreamKept
    <3> QED BY <1>1, <1>4, <1>7, <1>11, <2>2, <3>1, <3>2, StreamFrame, Zenon
  <2>3. CASE q = r
    <3>1. stream'[q] # "open"
      BY <1>7, <2>3
    <3>2. q \notin Unread'
      BY <3>1, Zenon DEF Unread
    <3> QED BY <1>1, <1>3, <1>4, <1>7, <2>1, <2>3, <3>2, Zenon DEF StreamKept
  <2> QED BY <2>2, <2>3, Zenon
<1>13. ASSUME ~stale', NEW h \in Borrowed' PROVE \E q \in Unread' : h = shandle'[q]
  <2>1. h \in Borrowed /\ ~stale /\ h # shandle[r] /\ h # handle
    BY <1>4, <1>5, <1>11, <1>13, HandleBounds, Zenon DEF Borrowed
  <2>2. PICK q \in Unread : h = shandle[q]
    BY <2>1, Zenon DEF HandlerInv, NoOrphan
  <2>3. q \in Unread'
    BY <1>1, <1>7, <2>1, <2>2, Zenon DEF Unread
  <2> QED BY <1>1, <2>2, <2>3, Zenon
<1>14. NoOrphan'
  BY <1>13, Zenon DEF NoOrphan
<1> QED BY <1>1, <1>4, <1>8, <1>9, <1>10, <1>12, <1>14, Zenon DEF HandlerInv

\* The consumer is done with a body that was released before.
LEMMA ConsumeStep ==
  ASSUME HandlerInv, NEW r \in Requests, Consume(r)
  PROVE  HandlerInv'
<1>1. /\ jpc = "idle" /\ stream[r] = "chunk" /\ stream' = [stream EXCEPT ![r] = "closed"]
      /\ UNCHANGED bufferVars
      /\ UNCHANGED <<jpc, req, asked, handle, borrows, content, active, gauge>>
      /\ UNCHANGED <<shandle, sbuffer, lost, timer, holder, stale>>
  BY Zenon DEF Consume, StreamStep, runVars, metricVars
<1>2. StreamKept(r)
  BY Zenon DEF HandlerInv
<1>3. /\ BufferInv' /\ sizes' = sizes /\ handles' = handles /\ Borrowed' = Borrowed
  <2>1. BufferInv'
    BY <1>1, BufferStutter, Zenon DEF HandlerInv
  <2> QED BY <1>1, <2>1, Zenon DEF bufferVars, Borrowed
<1>4. stream \in [Requests -> StreamStates] /\ stream' \in [Requests -> StreamStates]
  <2>1. stream \in [Requests -> StreamStates]
    BY Zenon DEF HandlerInv, HandlerTypes
  <2> QED BY <1>1, <2>1, Zenon DEF StreamStates
<1>5. stream'[r] = "closed" /\ \A q \in Requests \ {r} : stream'[q] = stream[q]
  BY <1>1, <1>4, Zenon
<1>6. RunTypes' /\ HandlerTypes'
  <2>1. RunTypes'
    BY <1>1, <1>3, Zenon DEF HandlerInv, RunTypes
  <2> QED BY <1>1, <1>3, <1>4, <2>1, Zenon DEF HandlerInv, HandlerTypes
<1>7. Accounted'
  BY <1>1 DEF HandlerInv, Accounted
<1>8. RunHolds'
  BY <1>1 DEF HandlerInv, RunHolds
<1>9. Unread' = Unread
  <2>1. \A q \in Requests : stream'[q] = "open" <=> stream[q] = "open"
    BY <1>1, <1>5
  <2> QED BY <1>1, <2>1, Zenon DEF Unread
<1>10. ASSUME NEW q \in Requests PROVE StreamKept(q)'
  <2>1. StreamKept(q)
    BY Zenon DEF HandlerInv
  <2>2. CASE q # r
    <3>1. q \in Unread /\ ~stale => StaysWith(shandle[q])
      BY <1>1, <1>3, <2>1, Zenon DEF StaysWith, StreamKept, HeldBy
    <3>2. q \in lost => q # req'
      BY <1>1, <2>1, Zenon DEF StreamKept
    <3> QED BY <1>1, <1>3, <1>5, <2>2, <3>1, <3>2, StreamFrame, Zenon
  <2>3. CASE q = r
    <3>1. ~timer[q] /\ q \in asked /\ shandle[q] \in 1..Len(handles)
      BY <1>1, <1>2, <2>3 DEF StreamKept
    <3>2. q \notin Unread'
      BY <1>5, <2>3 DEF Unread
    <3> QED BY <1>1, <1>3, <2>1, <3>1, <3>2, Zenon DEF StreamKept
  <2> QED BY <2>2, <2>3, Zenon
<1>11. NoOrphan'
  BY <1>1, <1>3, <1>9, Zenon DEF HandlerInv, NoOrphan
<1> QED BY <1>1, <1>3, <1>6, <1>7, <1>8, <1>10, <1>11, Zenon DEF HandlerInv

\* The handler starts with nothing borrowed, read or counted.
LEMMA HandlerInitInv == ASSUME HandlerInit PROVE HandlerInv
<1>1. /\ BufferInit /\ jpc = "idle" /\ req = NoRequest /\ handle = 0
      /\ borrows = FALSE /\ stale = FALSE /\ active = {} /\ gauge = 0 /\ lost = {}
      /\ DOMAIN content = 1..MaxCreated /\ DOMAIN holder = 1..MaxObjects
      /\ stream = [r \in Requests |-> "none"]
      /\ DOMAIN shandle = Requests /\ DOMAIN sbuffer = Requests
      /\ timer = [r \in Requests |-> FALSE]
  BY Zenon DEF HandlerInit
<1>2. BufferInv
  BY <1>1, BufferInitInv
<1>3. Len(sizes) <= MaxCreated /\ Len(handles) <= MaxObjects /\ Borrowed = {}
  <2>1. Len(sizes) = Prefill + 1 /\ Len(handles) = 0
    BY <1>1, BufferAssumption DEF BufferInit
  <2> QED BY <2>1, BufferAssumption, HandlerAssumption DEF Borrowed
<1>4. /\ stream \in [Requests -> StreamStates] /\ timer \in [Requests -> BOOLEAN]
      /\ \A r \in Requests : stream[r] = "none" /\ ~timer[r]
  BY <1>1, Zenon DEF StreamStates
<1>5. RunTypes /\ HandlerTypes
  <2>1. RunTypes
    BY <1>1 DEF RunTypes, Places
  <2> QED BY <1>1, <1>3, <1>4, <2>1, Zenon DEF HandlerTypes
<1>6. Accounted
  BY <1>1 DEF Accounted
<1>7. RunHolds
  BY <1>1 DEF RunHolds
<1>8. \A r \in Requests : StreamKept(r)
  BY <1>1, <1>4 DEF StreamKept, Unread
<1>9. NoOrphan
  BY <1>3, Zenon DEF NoOrphan
<1> QED BY <1>1, <1>2, <1>5, <1>6, <1>7, <1>8, <1>9, Zenon DEF HandlerInv

\* Every step of the handler keeps the invariant.
LEMMA HandlerStepKeeps ==
  ASSUME HandlerInv, [HandlerNext]_handlerVars
  PROVE  HandlerInv'
<1>1. CASE RunStep
  BY <1>1, QuietActions, AcquireBufferStep, NativeActions, BorrowEmptyStep,
     BorrowBodyStep, RunReturnsStep, RunEscapesStep, Zenon DEF RunStep
<1>2. ASSUME NEW r \in Requests,
             RunStart(r) \/ Pull(r) \/ Cancel(r) \/ TimerFires(r) \/ Consume(r)
      PROVE  HandlerInv'
  <2>1. CASE RunStart(r)
    BY <2>1, RunStartStep
  <2>2. CASE Pull(r)
    BY <2>2, StreamReleaseStep, Zenon DEF Pull
  <2>3. CASE Cancel(r)
    BY <2>3, StreamReleaseStep, Zenon DEF Cancel
  <2>4. CASE TimerFires(r)
    <3>1. stream[r] = "open"
      BY <2>4, Zenon DEF TimerFires, HandlerInv, StreamKept
    <3> QED BY <2>4, <3>1, StreamReleaseStep, Zenon DEF TimerFires
  <2>5. CASE Consume(r)
    BY <2>5, ConsumeStep
  <2> QED BY <1>2, <2>1, <2>2, <2>3, <2>4, <2>5, Zenon
<1>3. CASE UNCHANGED handlerVars
  <2>1. /\ UNCHANGED bufferVars /\ UNCHANGED <<sizes, handles>>
        /\ UNCHANGED <<jpc, req, asked, handle, borrows, result, content, active, gauge>>
        /\ UNCHANGED <<stream, shandle, sbuffer, timer, lost, holder, stale>>
    BY <1>3, Zenon DEF handlerVars, bufferVars, runVars, metricVars, streamVars, historyVars
  <2>2. BufferInv' /\ Borrowed' = Borrowed /\ Unread' = Unread
    <3>1. BufferInv'
      BY <2>1, BufferStutter, Zenon DEF HandlerInv
    <3> QED BY <2>1, <3>1, Zenon DEF Borrowed, Unread
  <2>3. RunTypes' /\ HandlerTypes' /\ Accounted'
    BY <2>1, Zenon DEF HandlerInv, RunTypes, HandlerTypes, Accounted
  <2>4. RunHolds'
    BY <2>1, <2>2, Zenon DEF HandlerInv, RunHolds, HeldBy
  <2>5. ASSUME NEW q \in Requests PROVE StreamKept(q)'
    BY <2>1, <2>2, Zenon DEF HandlerInv, StreamKept, HeldBy
  <2>6. NoOrphan'
    BY <2>1, <2>2, Zenon DEF HandlerInv, NoOrphan
  <2> QED BY <2>1, <2>2, <2>3, <2>4, <2>5, <2>6, Zenon DEF HandlerInv
<1> QED BY <1>1, <1>2, <1>3, Zenon DEF HandlerNext

\* The invariant holds throughout the life of a handler.
THEOREM HandlerInvariant == HandlerSpec => []HandlerInv
<1>1. HandlerInit => HandlerInv
  BY HandlerInitInv
<1>2. HandlerInv /\ [HandlerNext]_handlerVars => HandlerInv'
  BY HandlerStepKeeps
<1> QED BY <1>1, <1>2, PTL DEF HandlerSpec

\* Whatever other requests do, the buffer of a body nobody has been given yet
\* stays checked out to its own request and holds that request's bytes.
THEOREM UnreadBodyHeldCorrect == HandlerSpec => []UnreadBodyHeld
<1>1. HandlerInv => UnreadBodyHeld
  <2> SUFFICES ASSUME HandlerInv, ~stale, NEW r \in Unread
               PROVE  /\ ~handles[shandle[r]].released
                      /\ holder[shandle[r]] = r
                      /\ handles[shandle[r]].buffer = sbuffer[r]
                      /\ content[sbuffer[r]] = r
    BY Zenon DEF UnreadBodyHeld
  <2>1. HeldBy(shandle[r], r, TRUE) /\ handles[shandle[r]].buffer = sbuffer[r]
    BY Zenon DEF HandlerInv, StreamKept, Unread
  <2> QED BY <2>1, Zenon DEF HeldBy, Borrowed
<1> QED BY <1>1, HandlerInvariant, PTL

\* Between requests the borrowed buffers are those of the unread responses,
\* one each, and the pool counts them: no path through run() leaks one.
THEOREM NothingLeaksCorrect == HandlerSpec => []NothingLeaks
<1>1. HandlerInv => NothingLeaks
  <2> SUFFICES ASSUME HandlerInv, jpc = "idle", ~stale
               PROVE  /\ Borrowed = {shandle[r] : r \in Unread}
                      /\ inFlight = Cardinality(Unread)
    BY Zenon DEF NothingLeaks
  <2>1. \A r \in Unread : shandle[r] \in Borrowed /\ holder[shandle[r]] = r
    BY Zenon DEF HandlerInv, StreamKept, Unread, HeldBy
  <2>2. handle = 0
    BY DEF HandlerInv, RunHolds
  <2>3. \A h \in Borrowed : \E r \in Unread : h = shandle[r]
    BY <2>2, HandleBounds, Zenon DEF HandlerInv, NoOrphan, Borrowed
  <2>4. Borrowed = {shandle[r] : r \in Unread}
    BY <2>1, <2>3, Zenon
  <2> DEFINE f == [h \in Borrowed |-> holder[h]]
  <2>5. f \in Bijection(Borrowed, Unread)
    <3>1. \A h \in Borrowed : holder[h] \in Unread /\ shandle[holder[h]] = h
      BY <2>1, <2>3, Zenon
    <3>2. f \in [Borrowed -> Unread]
      BY <3>1, Zenon
    <3>3. \A h, k \in Borrowed : f[h] = f[k] => h = k
      BY <3>1, Zenon
    <3>4. \A r \in Unread : \E h \in Borrowed : f[h] = r
      BY <2>1, Zenon
    <3> QED BY <3>2, <3>3, <3>4, Zenon DEF Bijection, Injection, IsInjective, Surjection
  <2>6. IsFiniteSet(Borrowed) /\ inFlight = Cardinality(Borrowed)
    BY BorrowedFinite, Zenon DEF HandlerInv, BufferInv, InFlightExact
  <2>7. ExistsBijection(Borrowed, Unread)
    BY <2>5, Zenon DEF ExistsBijection
  <2>8. Cardinality(Unread) = Cardinality(Borrowed)
    BY <2>6, <2>7, FS_Bijection, Zenon
  <2> QED BY <2>4, <2>6, <2>8, Zenon
<1> QED BY <1>1, HandlerInvariant, PTL

\* The gauge of requests in flight counts the request of run() once, though
\* a failing request calls more than one hook.
THEOREM GaugeExactCorrect == HandlerSpec => []GaugeExact
<1>1. HandlerInv => GaugeExact
  <2> SUFFICES ASSUME HandlerInv PROVE GaugeExact
    OBVIOUS
  <2>1. /\ active \subseteq {req} /\ (jpc = "idle" => active = {})
        /\ gauge = IF active = {} THEN 0 ELSE 1
    BY Zenon DEF HandlerInv, Accounted
  <2>2. active = {} \/ active = {req}
    BY <2>1, Zenon
  <2>3. Cardinality({}) = 0 /\ Cardinality({req}) = 1
    BY FS_EmptySet, FS_Singleton, Zenon
  <2>4. gauge = Cardinality(active)
    BY <2>1, <2>2, <2>3
  <2>5. active = IF jpc = "idle" THEN {} ELSE active \cap {req}
    BY <2>1, Zenon
  <2> QED BY <2>4, <2>5, Zenon DEF GaugeExact
<1> QED BY <1>1, HandlerInvariant, PTL

=============================================================================
