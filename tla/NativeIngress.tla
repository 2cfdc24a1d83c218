--------------------------- MODULE NativeIngress ---------------------------
(***************************************************************************)
(* The native ingress of one process: workers construct Ingress instances  *)
(* (rust/ingress/api.rs) that share compiled schemas and limiters, and run *)
(* requests through the pipeline.  A request enters as raw components over *)
(* the C ABI or as a packed frame over napi; a C-ABI call that fails       *)
(* reports 0 and the handler runs the request once more over napi          *)
(* (src/ingress/handlers.ts).  The pipeline takes no lock but the shard's, *)
(* so workers interleave between the stages before the limiter, the clock  *)
(* read, the check, and the stages after it.                               *)
(***************************************************************************)
EXTENDS Decision, RateLimiter, SchemaCache

CONSTANTS
    Workloads,    \* what may happen in one behaviour: see Workload below
    FastSchemas,  \* schemas the streaming validator can run
    RateKey(_)    \* hash of a client address

ASSUME WorkloadAssumption ==
    \A l \in Workloads :
        /\ l.workers \subseteq Builders
        /\ \A o \in l.options :
              /\ Present(o.schema) => o.schema[1] \in Schemas
              /\ {o.maxBody, o.metaBytes} \subseteq Nat
              /\ Present(o.rate) => /\ {o.rate[1].limit, o.rate[1].window} \subseteq Nat
                                    /\ o.rate[1].entries \in Nat \cup {NoEntries}
        /\ \A r \in l.requests : WellFormed(r)
        /\ \A c \in l.caps : c \in Nat /\ DataStart <= c    \* smaller buffers are refused
        /\ \A k \in Workloads : \A o \in l.options, r \in k.requests :
              RateKey(ResolveClientIp(TrustOf(o), r.ip, r.h)) \in Keys

(***************************************************************************)
(* A workload bounds one behaviour: `workers` construct instances from     *)
(* `options` (at most `builds` of them) and serve at most `serves` of      *)
(* `requests` into buffers of the sizes `caps`, over at most `time` ticks  *)
(* with at most `panics` contained panics and `clears` cache flushes.      *)
(***************************************************************************)
VARIABLES
    load,       \* the workload
    clock,      \* rate_now_ms
    ctor,       \* per worker: the options of the constructor it is in
    inst,       \* per worker: the instance it constructed, if any
    work,       \* per worker: the request in the pipeline
    admitted,   \* per limiter and resident key: the clock readings of its admissions
                \* that no earlier one overtook (history)
    used        \* how much of the workload's bounds is used up

ingressVars == <<load, clock, ctor, inst, work, admitted, used>>
requestVars == <<limiterVars, schemaVars, ingressVars>>

NoWork == [pc |-> "idle", req |-> None, via |-> "packed", cap |-> DataStart, now |-> 0,
           rate |-> NoRate, charges |-> 0, decision |-> None]

Left(bound) == used[bound] < load[bound]
Use(bound) == used' = [used EXCEPT ![bound] = @ + 1]

IngressInit ==
    /\ LimiterInit /\ SchemaInit
    /\ load \in Workloads
    /\ used = [b \in {"builds", "serves", "panics", "clears"} |-> 0]
    /\ clock = 0
    /\ ctor = [w \in Builders |-> None]
    /\ inst = [w \in Builders |-> None]
    /\ work = [w \in Builders |-> NoWork]
    /\ admitted = <<>>

(***************************************************************************)
(* Construction: the schema comes first, then CORS, then the limiter.      *)
(***************************************************************************)

\* Whether an Ingress built from these options has a limiter at all.
WantsLimiter(opts) ==
    Present(opts.rate) /\ opts.rate[1].limit \notin {0, Unlimited}

\* The fields of IngressInner; `limiter` is 0 when rate limiting is disabled.
Instance(opts, schema, limiter) ==
    [opts |-> opts, https |-> opts.https, trust |-> TrustOf(opts),
     cors |-> IF Present(opts.cors) THEN Some(CorsEngine(opts.cors[1])) ELSE None,
     schema |-> schema, limiter |-> limiter,
     requireJson |-> opts.requireJson, guard |-> opts.guard, maxBody |-> opts.maxBody,
     parseCookies |-> opts.parseCookies, parseQuery |-> opts.parseQuery,
     metadata |-> opts.metadata, metaBytes |-> opts.metaBytes,
     maxUrl |-> opts.maxUrl, maxHeaders |-> opts.maxHeaders, maxQuery |-> opts.maxQuery,
     maxHeaderCount |-> opts.maxHeaderCount, maxCookie |-> opts.maxCookie]

MayBuild(w) == ~Present(ctor[w]) /\ ~Present(inst[w]) /\ Left("builds")

\* A constructor with a schema starts in the schema cache.
StartBuild(w, opts) ==
    /\ MayBuild(w)
    /\ Present(opts.schema)
    /\ Lookup(w, opts.schema[1])
    /\ ctor' = [ctor EXCEPT ![w] = Some(opts)]
    /\ Use("builds")
    /\ UNCHANGED <<limiterVars, load, clock, inst, work, admitted>>

CompileStep(w) == Compile(w) /\ UNCHANGED <<limiterVars, ingressVars>>

InsertStep(w) == Insert(w) /\ UNCHANGED <<limiterVars, ingressVars>>

ClearStep ==
    /\ Left("clears") /\ Use("clears")
    /\ ClearSchemaCache
    /\ UNCHANGED <<limiterVars, load, clock, ctor, inst, work, admitted>>

Throws(opts) ==
    \/ Present(opts.cors) /\ CorsRefused(opts.cors[1])
    \/ /\ WantsLimiter(opts)
       /\ RegistryFull(opts.rate[1].limit, opts.rate[1].window, opts.rate[1].entries)

\* The rest of the constructor; a bad CORS combination or a full registry makes
\* it throw.
FinishWith(w, opts, schema) ==
    \/ Throws(opts) /\ UNCHANGED <<limiterVars, inst>>
    \/ /\ ~Throws(opts) /\ ~WantsLimiter(opts)
       /\ inst' = [inst EXCEPT ![w] = Some(Instance(opts, schema, 0))]
       /\ UNCHANGED limiterVars
    \/ /\ ~Throws(opts) /\ WantsLimiter(opts)
       /\ \E id \in 1 .. Len(limiters) + 1 :
             /\ SharedLimiter(opts.rate[1].limit, opts.rate[1].window,
                              opts.rate[1].entries, id)
             /\ inst' = [inst EXCEPT ![w] = Some(Instance(opts, schema, id))]

\* get_or_compile returned: its error is thrown, or the rest runs.
FinishBuild(w) ==
    /\ Present(ctor[w])
    /\ build[w].pc \in {"have", "failed"}
    /\ build' = [build EXCEPT ![w] = Idle]
    /\ ctor' = [ctor EXCEPT ![w] = None]
    /\ \/ build[w].pc = "failed" /\ UNCHANGED <<limiterVars, inst>>
       \/ /\ build[w].pc = "have"
          /\ FinishWith(w, ctor[w][1],
                        Some([bytes |-> compiled[build[w].arc],
                              fast |-> compiled[build[w].arc] \in FastSchemas]))
    /\ UNCHANGED <<cache, compiled, era, load, clock, work, admitted, used>>

BuildPlain(w, opts) ==
    /\ MayBuild(w)
    /\ ~Present(opts.schema)
    /\ FinishWith(w, opts, None)
    /\ Use("builds")
    /\ UNCHANGED <<schemaVars, load, clock, ctor, work, admitted>>

(***************************************************************************)
(* A request                                                               *)
(***************************************************************************)

\* The answer stays readable until the worker's next request.
Answer(w, decision) ==
    work' = [work EXCEPT ![w] = [@ EXCEPT !.pc = "idle", !.decision = Some(decision)]]

\* Stages 1 to 3 of an entry: an early answer, or on to the limiter.
EarlyStages(w) ==
    LET r == work[w]
        early == EarlyAnswer(inst[w][1], r.req[1], r.via = "packed")
    IN  /\ r.pc = "early"
        /\ \/ Present(early) /\ Answer(w, early[1])
           \/ /\ ~Present(early)
              /\ work' = [work EXCEPT ![w].pc = IF RateActive(inst[w][1]) THEN "clock" ELSE "late"]
        /\ UNCHANGED <<limiterVars, schemaVars, load, clock, ctor, inst, admitted, used>>

\* The handler calls one of the entries with a pooled buffer of `cap` bytes.
Enter(w, req, via, cap) ==
    /\ Present(inst[w])
    /\ work[w].pc = "idle"
    /\ Left("serves") /\ Use("serves")
    /\ work' = [work EXCEPT ![w] = [NoWork EXCEPT !.pc = "early", !.req = Some(req),
                                                  !.via = via, !.cap = cap]]
    /\ UNCHANGED <<limiterVars, schemaVars, load, clock, ctor, inst, admitted>>

\* `let now = rate_now_ms()`, before the shard is locked.
ReadClock(w) ==
    /\ work[w].pc = "clock"
    /\ work' = [work EXCEPT ![w].pc = "check", ![w].now = clock]
    /\ UNCHANGED <<limiterVars, schemaVars, load, clock, ctor, inst, admitted, used>>

Readings(id, key) == IF <<id, key>> \in DOMAIN admitted THEN admitted[<<id, key>>] ELSE <<>>

\* What the history keeps of a check; the history of an evicted key ends.
Recorded(id, key, now, allowed, evicted) ==
    LET old == Readings(id, key)
        new == IF allowed /\ \A i \in DOMAIN old : old[i] <= now THEN Append(old, now) ELSE old
    IN  [p \in (DOMAIN admitted \ {<<id, k>> : k \in evicted}) \cup {<<id, key>>} |->
            IF p = <<id, key>> THEN new ELSE admitted[p]]

\* Stage 4: check_key under the shard's lock.
Check(w) ==
    LET r    == work[w]
        id   == inst[w][1].limiter
        l    == limiters[id]
        key  == RateKey(ClientOf(inst[w][1], r.req[1]))
        c    == CheckKey(l, key, r.now)
        rate == [limit |-> l.limit, remaining |-> c.outcome.remaining,
                 reset |-> c.outcome.reset,
                 retry |-> IF c.outcome.allowed THEN 0 ELSE Minus(c.outcome.reset, r.now)]
    IN  /\ r.pc = "check"
        /\ limiters' = [limiters EXCEPT ![id] = c.limiter]
        /\ admitted' = Recorded(id, key, r.now, c.outcome.allowed, Evicted(l, key, r.now))
        /\ \/ /\ c.outcome.allowed
              /\ work' = [work EXCEPT ![w] = [r EXCEPT !.pc = "late", !.rate = rate,
                                                       !.charges = @ + 1]]
           \/ /\ ~c.outcome.allowed
              /\ Answer(w, RateLimitedAnswer(inst[w][1], r.req[1], rate))
        /\ UNCHANGED <<registry, schemaVars, load, clock, ctor, inst, used>>

\* Stages 5 to 8.
LateStages(w) ==
    /\ work[w].pc = "late"
    /\ Answer(w, LateAnswer(inst[w][1], work[w].req[1], work[w].rate, work[w].cap))
    /\ UNCHANGED <<limiterVars, schemaVars, load, clock, ctor, inst, admitted, used>>

\* A panic inside the C-ABI entry is contained and reported as 0; the handler
\* packs the frame and runs the request again over napi.
PanicAndRetry(w) ==
    /\ work[w].via = "components"
    /\ work[w].pc \in {"early", "clock", "check", "late"}
    /\ Left("panics") /\ Use("panics")
    /\ work' = [work EXCEPT ![w] = [NoWork EXCEPT !.pc = "early", !.req = work[w].req,
                                      !.via = "packed", !.cap = work[w].cap,
                                      !.charges = work[w].charges]]
    /\ UNCHANGED <<limiterVars, schemaVars, load, clock, ctor, inst, admitted>>

Tick ==
    /\ clock < load.time
    /\ clock' = clock + 1
    /\ UNCHANGED <<limiterVars, schemaVars, load, ctor, inst, work, admitted, used>>

IngressNext ==
    \/ Tick \/ ClearStep
    \/ \E w \in load.workers :
          \/ \E o \in load.options : StartBuild(w, o) \/ BuildPlain(w, o)
          \/ CompileStep(w) \/ InsertStep(w) \/ FinishBuild(w)
          \/ \E r \in load.requests, v \in {"components", "packed"}, c \in load.caps : Enter(w, r, v, c)
          \/ EarlyStages(w) \/ ReadClock(w) \/ Check(w) \/ LateStages(w) \/ PanicAndRetry(w)

IngressSpec == IngressInit /\ [][IngressNext]_requestVars

(***************************************************************************)
(* Properties                                                              *)
(***************************************************************************)

Answered(w) == Present(inst[w]) /\ Present(work[w].decision)

\* A request that is answered 200 had a body within the size guard and, when the
\* instance asks for it, valid JSON that conforms to the schema the instance was
\* constructed with, however the schema cache was shared, flushed or collided
\* meanwhile (pipeline.rs:311-383).
AcceptedBodiesConform ==
    \A w \in Builders : Answered(w) =>
        LET opts == inst[w][1].opts
            body == work[w].req[1].body
        IN  work[w].decision[1].status = 200 =>
              /\ opts.guard => body.len <= opts.maxBody
              /\ EnforceJson(inst[w][1], work[w].req[1]) => body.json
              /\ Present(opts.schema) /\ body.len > 0 => opts.schema[1] \in body.conforms

\* No interval as long as the window admits more of a resident key's requests
\* than the weighting of the previous window allows (twice the limit, less the
\* part of it that still weighs at the end of the interval), although workers
\* read the clock before they take the shard's lock; the readings that were
\* overtaken by a later one are not counted, but do not make room for others
\* either (rate_limit.rs:101-176, pipeline.rs:296).
WindowBound ==
    \A p \in DOMAIN admitted :
        LET l  == limiters[p[1]]
            at == admitted[p]
        IN  \A i \in DOMAIN at :
                Cardinality({j \in DOMAIN at : at[j] \in at[i] .. at[i] + l.window - 1})
                  <= Larger(l.limit, 2 * l.limit - (2 * l.limit) \div l.window)

\* How many checks of a key in a row are admitted at one instant.
Room(l, key, now) ==
    LET f[n \in 0 .. l.limit] ==
            IF n = 0 THEN [l |-> l, k |-> 0]
            ELSE LET c == CheckKey(f[n - 1].l, key, now)
                 IN  [l |-> c.limiter, k |-> f[n - 1].k + (IF c.outcome.allowed THEN 1 ELSE 0)]
    IN  f[l.limit].k

\* The remaining count an admitted request reports (the ratelimit-remaining
\* header) is exactly the number of further requests of that client that would
\* be admitted at the same instant, also across a window change and the weight
\* of the previous window (rate_limit.rs:126-146).
RemainingExact ==
    [][\A w \in Builders :
          work[w].pc = "check" /\ work'[w].pc = "late" =>
             Room(limiters'[inst[w][1].limiter],
                  RateKey(ClientOf(inst[w][1], work[w].req[1])), work[w].now)
             = work'[w].rate.remaining]_requestVars

RateConfig(opts) ==
    <<opts.rate[1].limit, opts.rate[1].window, ResolvedEntries(opts.rate[1].entries)>>

\* Instances with the same rate configuration share one limiter and so one
\* budget, instances with another do not, and the registry stays within its
\* bound ("Rate limiting must be shared across all ingress instances", rate_limit.rs:178-252).
OneBudget ==
    /\ Len(registry) <= MaxLimiters
    /\ \A v, w \in Builders :
          /\ Present(inst[v]) /\ Present(inst[w])
          /\ WantsLimiter(inst[v][1].opts) /\ WantsLimiter(inst[w][1].opts)
          => (inst[v][1].limiter = inst[w][1].limiter
                <=> RateConfig(inst[v][1].opts) = RateConfig(inst[w][1].opts))

\* What a decision says of itself is true: it fits the buffer; a section that
\* was asked for and is missing is reported as truncated (unless the cookies
\* filled the buffer to the last byte, when pipeline.rs:482 skips the query and
\* says nothing); CORS headers go only to allowed requests; 429, its flag and
\* its header variant come together (pipeline.rs:264-434, output.rs).
DecisionHonest ==
    \A w \in Builders : Answered(w) =>
        LET d == work[w].decision[1]
            q == work[w].req[1].query
        IN  /\ d.written <= work[w].cap
            /\ d.status = 429 <=> "rate_limited" \in d.flags
            /\ d.status = 429 <=> "rate_limited" \in d.hv
            /\ d.hv \cap {"cors_simple", "cors_preflight"} # {} => "cors_allowed" \in d.flags
            /\ d.status = 200 /\ inst[w][1].parseQuery /\ q.len > 0
               /\ "body_truncated" \notin d.flags
               /\ DataStart + d.cookies # work[w].cap
               => d.query = q.json

\* A preflight that is answered 204 is not contradicted: the announced request
\* of the same origin gets its CORS headers (cors.rs:97-157).
PreflightHonest ==
    \A w \in Builders :
        Answered(w) /\ work[w].decision[1].status = 204 =>
            CorsResult(inst[w][1], Announced(work[w].req[1])).allowed

\* The client is decided by the hops nearest to the server: what stands in
\* X-Forwarded-For to the left of the first untrusted hop, seen from the right,
\* never changes which client is charged (ip_trust.rs:148-210).
NearestHopDecides ==
    \A w \in Builders : Answered(w) /\ Present(work[w].req[1].h.xff) =>
        LET req  == work[w].req[1]
            cfg  == inst[w][1]
            stop == ForwardedStop(cfg.trust, req.h.xff[1])
        IN  stop # {} /\ SocketIsTrusted(cfg.trust, req.ip) /\ Parses(req.h.xff[1][Max(stop)]) =>
              \A x \in Addresses \cup {"", "junk"} :
                 ClientOf(cfg, [req EXCEPT !.h.xff = Some(<<x>> \o req.h.xff[1])])
                   = ClientOf(cfg, req)

\* Both entries answer alike ("Same wire format + semantics as the packed
\* entry", rust/ffi/ingress.rs:86): what the packed entry refuses in stage 1,
\* the components entry refuses too.
TransportsAgree ==
    \A w \in Builders : Answered(w) /\ work[w].via = "components" =>
        LET packed == EarlyAnswer(inst[w][1], work[w].req[1], TRUE)
        IN  Present(packed) => work[w].decision = packed

=============================================================================
