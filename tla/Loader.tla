------------------------------- MODULE Loader -------------------------------
(***************************************************************************)
(* src/loader: load() gathers the calls of one tick into a packed native   *)
(* call per op, or dispatches singly under low load, behind an LRU cache.  *)
(* The loader runs on one JS thread: an action is a call or a microtask,   *)
(* and calls happen between microtasks.  The tick's microtask flushes the  *)
(* buffered ops one after the other, and no call comes in between.  The    *)
(* native result for an input is <<op, input>>; any native call may throw. *)
(* The counters of stats() are left out.                                   *)
(***************************************************************************)
EXTENDS Collections, FiniteSets

CONSTANTS
    Ops,            \* op names
    FastOps,        \* ops with a zero-alloc packed variant
    Inputs,
    Memoized,       \* ops whose specialised function loader(op) was taken, in order
    NoKey,          \* a request without a cache key
    SingleAfter,    \* SINGLE_AFTER
    KeyWarmup,      \* KEY_WARMUP
    KeyProbeEvery,  \* KEY_PROBE_EVERY
    MinBatchMin, MaxBatchMin,
    MaxLoads,       \* bound on the calls of load()
    MaxOthers       \* bound on the other calls and on the faults, together

ASSUME LoaderAssumption ==
    /\ Memoized \in Seq(Ops)
    /\ {SingleAfter, KeyWarmup, MinBatchMin, MaxBatchMin} \subseteq Nat
    /\ KeyProbeEvery \in Nat \ {0}

VARIABLES
    options,    \* caching, maxCacheKeys, loadStrategy
    ctxs,       \* every OpDispatchCtx made so far
    current,    \* state.ctxs: op -> index into ctxs, 0 when absent
    lcache,     \* state.cache
    buffer,     \* the coalescer's Map: ops in insertion order, with their requests
    micro,      \* the microtask queue
    flushing,   \* what is left of the snapshot the running microtask flushes
    requests,   \* every promise made by load()
    uncaught,   \* an exception left a microtask
    others      \* calls of run, configure and clear, and faults, so far

loaderVars == <<options, ctxs, current, lcache, buffer, micro, flushing, requests,
                uncaught, others>>

NewCtx(opts) ==
    [mode |-> IF opts.loadStrategy = "single" THEN "single" ELSE "coalesce",
     streak |-> 0, pending |-> 0, attempts |-> 0, hits |-> 0, probe |-> 0,
     batchMin |-> opts.batchMin]

LoaderInit ==
    /\ options \in [caching : {TRUE}, maxCacheKeys : {2}, batchMin : {MinBatchMin},
                    loadStrategy : {"auto", "single"}]
    /\ ctxs = <<>> /\ current = [op \in Ops |-> 0]
    /\ lcache = <<>> /\ buffer = <<>> /\ micro = <<>> /\ flushing = <<>>
    /\ requests = <<>>
    /\ uncaught = FALSE /\ others = 0

\* createLruCache: a cache of no keys keeps nothing.
CacheSet(map, key, value, max) ==
    IF max <= 0 THEN map ELSE LruPut(map, key, value, max)

DefaultKey(op, input) == <<op, "hash", input>>
GivenKey(op, input) == <<op, "given", input>>
NativeValue(op, input) == <<op, input>>

\* ctxFor
CtxAfter(op) == IF current[op] = 0 THEN Append(ctxs, NewCtx(options)) ELSE ctxs
CtxId(op) == IF current[op] = 0 THEN Len(ctxs) + 1 ELSE current[op]

\* shouldComputeDefaultKey: the answer, and the probe counter after it.
ComputesKey(c) ==
    \/ c.attempts < KeyWarmup
    \/ c.hits > 0
    \/ (c.probe + 1) % KeyProbeEvery = 0
Probed(c) ==
    IF c.attempts < KeyWarmup \/ c.hits > 0 THEN c
    ELSE [c EXCEPT !.probe = (@ + 1) % KeyProbeEvery]

(***************************************************************************)
(* The cost model only sees sampled timings, so a sample may or may not    *)
(* move the threshold by one.                                              *)
(***************************************************************************)
ClampBatchMin(v) == IF v < MinBatchMin THEN MinBatchMin
                    ELSE IF v > MaxBatchMin THEN MaxBatchMin ELSE v

RecordScalar(min, n) == IF n >= 2 THEN {min, ClampBatchMin(min + 1)} ELSE {min}
RecordBatch(min) == {min, ClampBatchMin(min + 1), ClampBatchMin(min - 1)}

Decide(c, n) == n > 1 /\ n >= c.batchMin

\* dispatchBulk and scalarLoopBulk: the thresholds the timed call may leave.
BulkThresholds(c, n) ==
    IF Decide(c, n) THEN RecordBatch(c.batchMin) ELSE RecordScalar(c.batchMin, n)

(***************************************************************************)
(* load()                                                                  *)
(***************************************************************************)

Enqueued(buf, op, id) ==
    IF op \in {buf[i].op : i \in DOMAIN buf}
      THEN [i \in DOMAIN buf |-> IF buf[i].op = op THEN [buf[i] EXCEPT !.ids = Append(@, id)]
                                                   ELSE buf[i]]
      ELSE Append(buf, [op |-> op, ids |-> <<id>>])

\* schedule(): one flush microtask for everything that is buffered.
Scheduled(queue) ==
    IF \E i \in DOMAIN queue : queue[i].kind = "flush" THEN queue
    ELSE Append(queue, [kind |-> "flush", ctx |-> 0, op |-> CHOOSE op \in Ops : TRUE])

Request(op, input, key, deferred, status, value) ==
    [op |-> op, input |-> input, key |-> key, deferred |-> deferred,
     status |-> status, value |-> value]

\* A new promise joins a single dispatch, turns a second one of the tick into a
\* batch, or joins the buffer.
Dispatch(op, id, c) ==
    LET me == CtxId(op)
    IN  \/ /\ c.mode = "single" /\ c.pending = 0
           /\ ctxs' = [CtxAfter(op) EXCEPT ![me] = [c EXCEPT !.pending = id]]
           /\ micro' = Append(micro, [kind |-> "single", ctx |-> me, op |-> op])
           /\ UNCHANGED buffer
        \/ /\ c.mode = "single" /\ c.pending # 0
           /\ ctxs' = [CtxAfter(op) EXCEPT ![me] = [c EXCEPT !.mode = "coalesce", !.pending = 0]]
           /\ buffer' = Enqueued(Enqueued(buffer, op, c.pending), op, id)
           /\ micro' = Scheduled(micro)
        \/ /\ c.mode = "coalesce"
           /\ ctxs' = [CtxAfter(op) EXCEPT ![me] = c]
           /\ buffer' = Enqueued(buffer, op, id)
           /\ micro' = Scheduled(micro)

\* loadOne.  `given` is the caller's own key, `cache` the caller's cache flag.
Load(op, input, given, cache) ==
    LET me       == CtxId(op)
        c        == CtxAfter(op)[me]
        id       == Len(requests) + 1
        caching  == options.caching /\ options.maxCacheKeys > 0 /\ cache
        deferred == /\ caching /\ ~given /\ c.mode = "coalesce" /\ op \in FastOps
                    /\ buffer # <<>>
        eager    == caching /\ ~given /\ ~deferred /\ ComputesKey(c)
        key      == IF caching /\ given THEN GivenKey(op, input)
                    ELSE IF eager THEN DefaultKey(op, input) ELSE NoKey
        hit      == key # NoKey /\ LruHas(lcache, key)
        asked    == IF caching /\ ~given /\ ~deferred THEN Probed(c) ELSE c
        counted  == [asked EXCEPT !.attempts = @ + (IF eager THEN 1 ELSE 0),
                                  !.hits = @ + (IF eager /\ hit THEN 1 ELSE 0)]
    IN  /\ flushing = <<>>
        /\ Len(requests) < MaxLoads
        /\ current' = [current EXCEPT ![op] = me]
        /\ lcache' = IF key = NoKey THEN lcache ELSE LruGet(lcache, key)
        /\ requests' = Append(requests,
               Request(op, input, key, deferred, IF hit THEN "value" ELSE "pending",
                       IF hit THEN LruPeek(lcache, key) ELSE <<>>))
        /\ IF hit THEN ctxs' = [CtxAfter(op) EXCEPT ![me] = counted] /\ UNCHANGED <<buffer, micro>>
           ELSE Dispatch(op, id, counted)
        /\ UNCHANGED <<options, flushing, uncaught, others>>

(***************************************************************************)
(* Microtasks                                                              *)
(***************************************************************************)

Other == others < MaxOthers /\ others' = others + 1

\* A native call either returns or, while the budget lasts, throws.
Outcome(ok) == IF ok THEN UNCHANGED others ELSE Other

\* state.cache.set for each answered request in turn (maybeCache).
CacheAll(map, ids, reqs, results) ==
    LET f[i \in 0 .. Len(ids)] ==
            IF i = 0 THEN map
            ELSE IF reqs[ids[i]].key = NoKey THEN f[i - 1]
            ELSE CacheSet(f[i - 1], reqs[ids[i]].key, results[i], options.maxCacheKeys)
    IN  f[Len(ids)]

\* state.cache.get for each request that has a key.
TouchAll(map, ids, reqs) ==
    LET f[i \in 0 .. Len(ids)] ==
            IF i = 0 THEN map
            ELSE IF reqs[ids[i]].key = NoKey THEN f[i - 1] ELSE LruGet(f[i - 1], reqs[ids[i]].key)
    IN  f[Len(ids)]

Elements(ids) == {ids[i] : i \in DOMAIN ids}

\* The requests the cache does not answer, in their order.
Missed(ids, hits) ==
    LET f[i \in 0 .. Len(ids)] ==
            IF i = 0 THEN <<>>
            ELSE IF ids[i] \in hits THEN f[i - 1] ELSE Append(f[i - 1], ids[i])
    IN  f[Len(ids)]

\* What the native call returns for the packed inputs, position by position.
PackedResult(ids, reqs) == [i \in DOMAIN ids |-> NativeValue(reqs[ids[i]].op, reqs[ids[i]].input)]

\* The i-th request of `ids` is answered with the i-th result, or all are rejected.
Answered(reqs, ids, results, ok) ==
    [r \in DOMAIN reqs |->
        IF r \notin Elements(ids) THEN reqs[r]
        ELSE IF ok THEN [reqs[r] EXCEPT !.status = "value",
                                        !.value = results[CHOOSE i \in DOMAIN ids : ids[i] = r]]
        ELSE [reqs[r] EXCEPT !.status = "error"]]

\* flushSingle; the second load of the tick may have taken the request away.
FlushSingle(ok) ==
    LET m == Head(micro)
        c == ctxs[m.ctx]
        results == PackedResult(<<c.pending>>, requests)
    IN  /\ flushing = <<>> /\ micro # <<>> /\ m.kind = "single"
        /\ micro' = Tail(micro)
        /\ \/ c.pending = 0 /\ ok /\ UNCHANGED <<ctxs, lcache, requests, others>>
           \/ /\ c.pending # 0
              /\ Outcome(ok)
              /\ ctxs' = [ctxs EXCEPT ![m.ctx] = [c EXCEPT !.pending = 0]]
              /\ requests' = Answered(requests, <<c.pending>>, results, ok)
              /\ lcache' = IF ok THEN CacheAll(lcache, <<c.pending>>, requests, results) ELSE lcache
        /\ UNCHANGED <<options, current, buffer, flushing, uncaught>>

\* The tick's microtask takes a snapshot of the buffer.
FlushTick ==
    /\ flushing = <<>> /\ micro # <<>> /\ Head(micro).kind = "flush"
    /\ micro' = Tail(micro)
    /\ flushing' = buffer
    /\ buffer' = <<>>
    /\ UNCHANGED <<options, ctxs, current, lcache, requests, uncaught, others>>

FlushedOp == Head(flushing).op
FlushedIds == Head(flushing).ids

\* The bookkeeping of handleFlush that all its paths share.
FlushFrame ==
    /\ flushing' = Tail(flushing)
    /\ current' = [current EXCEPT ![FlushedOp] = CtxId(FlushedOp)]
    /\ UNCHANGED <<options, buffer, micro, uncaught>>

\* handleFlush for a lone request: low load, after a few of which the op goes single.
FlushOne(ok) ==
    LET me   == CtxId(FlushedOp)
        c    == CtxAfter(FlushedOp)[me]
        id   == FlushedIds[1]
        r    == requests[id]
        low  == c.mode = "coalesce" /\ options.loadStrategy = "auto"
        calm == IF low THEN [c EXCEPT !.streak = @ + 1,
                                      !.mode = IF c.streak + 1 >= SingleAfter THEN "single" ELSE @]
                ELSE c
        keyed == r.deferred /\ ComputesKey(calm)
        asked == IF r.deferred THEN Probed(calm) ELSE calm
        key  == IF keyed THEN DefaultKey(r.op, r.input) ELSE r.key
        hit  == keyed /\ LruHas(lcache, key)
        c2   == [asked EXCEPT !.attempts = @ + (IF keyed THEN 1 ELSE 0),
                              !.hits = @ + (IF hit THEN 1 ELSE 0)]
        reqs == [requests EXCEPT ![id].key = key, ![id].deferred = FALSE]
    IN  /\ flushing # <<>> /\ Len(FlushedIds) = 1
        /\ \/ /\ hit /\ ok /\ UNCHANGED others
              /\ requests' = [reqs EXCEPT ![id].status = "value", ![id].value = LruPeek(lcache, key)]
              /\ lcache' = LruGet(lcache, key)
              /\ ctxs' = [CtxAfter(FlushedOp) EXCEPT ![me] = c2]
           \/ /\ ~hit
              /\ Outcome(ok)
              /\ requests' = Answered(reqs, <<id>>, PackedResult(<<id>>, reqs), ok)
              /\ lcache' = IF ok THEN CacheAll(lcache, <<id>>, reqs, PackedResult(<<id>>, reqs)) ELSE lcache
              /\ ctxs' = [CtxAfter(FlushedOp) EXCEPT ![me] = c2]
        /\ FlushFrame

\* The keyed requests of a fast flush: deferred default keys are computed in one
\* native call if the adaptive rule says so.
Keyed(ids, compute) ==
    [r \in DOMAIN requests |->
        IF r \in Elements(ids) /\ requests[r].key = NoKey /\ requests[r].deferred /\ compute
          THEN [requests[r] EXCEPT !.key = DefaultKey(requests[r].op, requests[r].input)]
          ELSE requests[r]]

\* With hits, the pack built for the whole burst is rebuilt for the misses alone.
RepackedAll(ids, missed) == ids
Repacked(ids, missed) == missed

\* handleFlush for a burst on a fast op: hits are answered from the cache and the
\* misses are packed again.
FlushFast(ok) ==
    LET me      == CtxId(FlushedOp)
        c       == [CtxAfter(FlushedOp)[me] EXCEPT !.streak = 0]
        ids     == FlushedIds
        need    == \E i \in DOMAIN ids : requests[ids[i]].deferred
        compute == need /\ ComputesKey(c)
        asked   == IF need THEN Probed(c) ELSE c
        reqs    == Keyed(ids, compute)
        IsHit(id) == reqs[id].key # NoKey /\ LruHas(lcache, reqs[id].key)
        hits    == {id \in Elements(ids) : IsHit(id)}
        missed  == Missed(ids, hits)
        fromCache == [r \in DOMAIN reqs |->
                         IF r \in hits THEN [reqs[r] EXCEPT !.status = "value",
                                                            !.value = LruPeek(lcache, reqs[r].key)]
                         ELSE reqs[r]]
        touched == TouchAll(lcache, ids, reqs)
        results == PackedResult(Repacked(ids, missed), reqs)
    IN  /\ flushing # <<>> /\ Len(FlushedIds) > 1 /\ FlushedOp \in FastOps
        /\ IF missed = <<>> THEN ok /\ UNCHANGED others ELSE Outcome(ok)
        /\ requests' = Answered(fromCache, missed, results, ok)
        /\ lcache' = IF ok THEN CacheAll(touched, missed, reqs, results) ELSE touched
        /\ ctxs' = [CtxAfter(FlushedOp) EXCEPT ![me] =
                      [asked EXCEPT !.attempts = @ + (IF compute THEN Len(ids) ELSE 0),
                                    !.hits = @ + Cardinality({id \in hits : reqs[id].deferred})]]
        /\ FlushFrame

\* The packed key call stands outside the try: if it throws, the exception
\* leaves the microtask and the rest of the snapshot is not flushed.
FlushKeysThrow ==
    LET me == CtxId(FlushedOp)
        c  == CtxAfter(FlushedOp)[me]
    IN  /\ flushing # <<>> /\ Len(FlushedIds) > 1 /\ FlushedOp \in FastOps
        /\ \E i \in DOMAIN FlushedIds : requests[FlushedIds[i]].deferred
        /\ ComputesKey(c)
        /\ Other
        /\ uncaught' = TRUE
        /\ flushing' = <<>>
        /\ ctxs' = [CtxAfter(FlushedOp) EXCEPT ![me] =
                      [Probed(c) EXCEPT !.streak = 0,
                                        !.attempts = @ + Len(FlushedIds)]]
        /\ current' = [current EXCEPT ![FlushedOp] = me]
        /\ UNCHANGED <<options, lcache, buffer, micro, requests>>

\* handleFlush for a burst on any other op: one batch call or a scalar loop.
FlushBulk(ok) ==
    LET me == CtxId(FlushedOp)
        c  == [CtxAfter(FlushedOp)[me] EXCEPT !.streak = 0]
        n  == Len(FlushedIds)
    IN  /\ flushing # <<>> /\ n > 1 /\ FlushedOp \notin FastOps
        /\ Outcome(ok)
        /\ \E min \in IF ok THEN BulkThresholds(c, n) ELSE {c.batchMin} :
              ctxs' = [CtxAfter(FlushedOp) EXCEPT ![me] = [c EXCEPT !.batchMin = min]]
        /\ requests' = Answered(requests, FlushedIds, PackedResult(FlushedIds, requests), ok)
        /\ lcache' = IF ok THEN CacheAll(lcache, FlushedIds, requests, PackedResult(FlushedIds, requests)) ELSE lcache
        /\ FlushFrame

\* loader.run(op, items): the synchronous bulk call.
Run(op, n) ==
    LET me == CtxId(op)
        c  == CtxAfter(op)[me]
    IN  /\ flushing = <<>> /\ Other
        /\ current' = [current EXCEPT ![op] = me]
        /\ \E min \in BulkThresholds(c, n) :
              ctxs' = [CtxAfter(op) EXCEPT ![me] = [c EXCEPT !.batchMin = min]]
        /\ UNCHANGED <<options, lcache, buffer, micro, flushing, requests, uncaught>>

\* configure(): new contexts, memoized functions rebound, a new cache if its size changed.
Configure(next) ==
    LET fresh == Memoized
    IN  /\ flushing = <<>> /\ Other
        /\ options' = next
        /\ ctxs' = ctxs \o [i \in DOMAIN fresh |-> NewCtx(next)]
        /\ current' = [op \in Ops |->
                         IF op \in Elements(Memoized)
                           THEN Len(ctxs) + (CHOOSE i \in DOMAIN fresh : fresh[i] = op) ELSE 0]
        /\ lcache' = IF next.maxCacheKeys # options.maxCacheKeys THEN <<>> ELSE lcache
        /\ UNCHANGED <<buffer, micro, flushing, requests, uncaught>>

\* clear()
ClearCache ==
    /\ flushing = <<>> /\ Other
    /\ lcache' = <<>>
    /\ UNCHANGED <<options, ctxs, current, buffer, micro, flushing, requests, uncaught>>

LoaderNext ==
    \/ \E op \in Ops, i \in Inputs, g, c \in BOOLEAN : Load(op, i, g, c)
    \/ FlushTick
    \/ FlushKeysThrow
    \/ \E ok \in BOOLEAN : FlushSingle(ok) \/ FlushOne(ok) \/ FlushFast(ok) \/ FlushBulk(ok)
    \/ \E op \in Ops : Run(op, 2)
    \/ \E k \in {0, 1}, s \in {"auto", "single"} :
          Configure([options EXCEPT !.maxCacheKeys = k, !.loadStrategy = s])
    \/ ClearCache

LoaderSpec == LoaderInit /\ [][LoaderNext]_loaderVars

(***************************************************************************)
(* Properties                                                              *)
(***************************************************************************)

\* Every load() is answered, and with the result of its own op and input: when
\* the microtasks have run and no exception left one, no promise is pending,
\* whatever mode changes, repacked misses, cache hits, reconfigurations and
\* native errors came between, and what is cached is what a caller of that key
\* is owed (loader/index.ts:215-515).
LoadsAnswered ==
    /\ \A r \in DOMAIN requests :
          requests[r].status = "value" =>
             requests[r].value = NativeValue(requests[r].op, requests[r].input)
    /\ micro = <<>> /\ flushing = <<>> /\ ~uncaught =>
          \A r \in DOMAIN requests : requests[r].status # "pending"
    /\ \A i \in DOMAIN lcache : lcache[i].val = NativeValue(lcache[i].key[1], lcache[i].key[3])
    /\ Len(lcache) <= options.maxCacheKeys

=============================================================================
