------------------------ MODULE NativeIngressProofs ------------------------
(***************************************************************************)
(* The safety of NativeIngress for any workers, schemas, hash function,    *)
(* capacities and workloads: what the two process-wide LRU maps of the     *)
(* native ingress promise (SharedWhileCached, OneBudget), what is true of  *)
(* every answer (AcceptedBodiesConform, DecisionHonest, PreflightHonest,   *)
(* NearestHopDecides).  What the limiters admit and report is in           *)
(* RateLimitProofs.                                                        *)
(***************************************************************************)
EXTENDS NativeIngress, IngressLemmas

\* Of the pipeline's steps only those of a constructor and the flush touch the
\* cache; the workload never changes.
LEMMA SchemaStep ==
    ASSUME SchemaInv, load \in Workloads, [IngressNext]_requestVars
    PROVE  SchemaInv' /\ load' \in Workloads
<1>1. CASE UNCHANGED requestVars
  BY <1>1, SchemaStutters DEF requestVars, ingressVars
<1>2. CASE Tick
  BY <1>2, SchemaStutters DEF Tick
<1>3. CASE ClearStep
  BY <1>3, ClearKeeps DEF ClearStep
<1>4. ASSUME NEW w \in Builders, NEW o \in load.options, StartBuild(w, o)
      PROVE  SchemaInv' /\ load' \in Workloads
  <2>1. PICK bytes \in Schemas : bytes = o.schema[1] /\ Lookup(w, bytes)
    BY <1>4, WorkloadAssumption DEF StartBuild
  <2> QED BY <1>4, <2>1, LookupKeeps DEF StartBuild
<1>5. ASSUME NEW w \in Builders, NEW o \in load.options, BuildPlain(w, o)
      PROVE  SchemaInv' /\ load' \in Workloads
  BY <1>5, SchemaStutters DEF BuildPlain
<1>6. ASSUME NEW w \in Builders, CompileStep(w) PROVE SchemaInv' /\ load' \in Workloads
  BY <1>6, CompileKeeps DEF CompileStep, ingressVars
<1>7. ASSUME NEW w \in Builders, InsertStep(w) PROVE SchemaInv' /\ load' \in Workloads
  BY <1>7, InsertKeeps DEF InsertStep, ingressVars
<1>8. ASSUME NEW w \in Builders, FinishBuild(w) PROVE SchemaInv' /\ load' \in Workloads
  BY <1>8, FinishKeeps, Zenon DEF FinishBuild
<1>9. ASSUME NEW w, NEW r, NEW via, NEW c, Enter(w, r, via, c)
      PROVE  SchemaInv' /\ load' \in Workloads
  BY <1>9, SchemaStutters DEF Enter
<1>10. ASSUME NEW w, EarlyStages(w) \/ ReadClock(w) \/ LateStages(w) \/ PanicAndRetry(w)
       PROVE  SchemaInv' /\ load' \in Workloads
  BY <1>10, SchemaStutters DEF EarlyStages, ReadClock, LateStages, PanicAndRetry
<1>11. ASSUME NEW w, Check(w) PROVE SchemaInv' /\ load' \in Workloads
  BY <1>11, SchemaStutters, Zenon DEF Check
<1>12. load.workers \subseteq Builders
  BY WorkloadAssumption
<1> QED BY <1>1, <1>2, <1>3, <1>4, <1>5, <1>6, <1>7, <1>8, <1>9, <1>10, <1>11, <1>12, Zenon
        DEF IngressNext

\* Whatever builders interleave, whatever hashes collide and whatever is evicted
\* or flushed: nobody is handed a schema compiled from other bytes, and an entry
\* that stays in the cache is one instance for everybody (schema_cache.rs).
THEOREM SchemasShared == IngressSpec => []SharedWhileCached
<1> DEFINE Inv == SchemaInv /\ load \in Workloads
<1>1. IngressInit => Inv
  BY SchemaInitially DEF IngressInit
<1>2. Inv /\ [IngressNext]_requestVars => Inv'
  BY SchemaStep
<1>3. Inv => SharedWhileCached
  BY DEF SchemaInv, SharedWhileCached, Holders, From
<1> HIDE DEF Inv
<1> QED BY <1>1, <1>2, <1>3, PTL DEF IngressSpec

-----------------------------------------------------------------------------
(***************************************************************************)
(* The registry of shared limiters.                                        *)
(***************************************************************************)
AllOptions == UNION {l.options : l \in Workloads}

KeyOf(opts) == LimiterKey(opts.rate[1].limit, opts.rate[1].window, opts.rate[1].entries)

LimiterIds == Nat

RateKeys == {KeyOf(opts) : opts \in AllOptions}

\* Every instance that wants a limiter has the one the registry files under its
\* configuration; the registry refuses instead of evicting, and a new limiter
\* has an index nobody has.
RegistryInv ==
    /\ registry \in LruMaps(RateKeys, LimiterIds)
    /\ Len(registry) <= MaxLimiters
    /\ \E S : limiters \in Seq(S)
    /\ \A e \in Entries(registry) : e.val \in 1 .. Len(limiters)
    /\ \A e, f \in Entries(registry) : e.val = f.val => e = f
    /\ ctor \in [Builders -> {None} \union {Some(o) : o \in AllOptions}]
    /\ DOMAIN inst = Builders
    /\ \A w \in Builders :
          (Present(inst[w]) /\ WantsLimiter(inst[w][1].opts)) =>
              [key |-> KeyOf(inst[w][1].opts), val |-> inst[w][1].limiter] \in Entries(registry)

\* Initially there is no limiter and no instance.
LEMMA RegistryInitially == IngressInit => RegistryInv
<1> SUFFICES ASSUME IngressInit PROVE RegistryInv
  OBVIOUS
<1>1. registry = <<>> /\ limiters = <<>> /\ inst = [w \in Builders |-> None]
      /\ ctor = [w \in Builders |-> None]
  BY DEF IngressInit, LimiterInit
<1>2. registry \in LruMaps(RateKeys, LimiterIds) /\ Entries(registry) = {} /\ Len(registry) = 0
  BY <1>1 DEF LruMaps, Entries
<1>3. limiters \in Seq({})
  BY <1>1
<1>4. DOMAIN inst = Builders /\ \A w \in Builders : ~Present(inst[w])
  BY <1>1 DEF Present
<1>5. ctor \in [Builders -> {None} \union {Some(o) : o \in AllOptions}]
  BY <1>1, Zenon
<1>6. Len(registry) <= MaxLimiters
  BY <1>2, LimiterConstants
<1> QED BY <1>2, <1>3, <1>4, <1>5, <1>6 DEF RegistryInv

\* shared_limiter hands out the limiter filed under the configuration, or a new
\* one that it files.
LEMMA LimiterShared ==
    ASSUME RegistryInv, NEW o \in AllOptions, NEW id,
           SharedLimiter(o.rate[1].limit, o.rate[1].window, o.rate[1].entries, id)
    PROVE  /\ registry' \in LruMaps(RateKeys, LimiterIds) /\ Len(registry') <= MaxLimiters
           /\ \E S : limiters' \in Seq(S)
           /\ \A e \in Entries(registry') : e.val \in 1 .. Len(limiters')
           /\ \A e, f \in Entries(registry') : e.val = f.val => e = f
           /\ Entries(registry) \subseteq Entries(registry')
           /\ [key |-> KeyOf(o), val |-> id] \in Entries(registry')
<1> DEFINE k == KeyOf(o)
<1>1. /\ k \in RateKeys /\ registry \in LruMaps(RateKeys, LimiterIds)
      /\ k = LimiterKey(o.rate[1].limit, o.rate[1].window, o.rate[1].entries)
  BY DEF RateKeys, RegistryInv, KeyOf
<1>2. PICK S : limiters \in Seq(S)
  BY DEF RegistryInv
<1> HIDE DEF k
<1>3. CASE LruHas(registry, k)
  <2>1. id = LruPeek(registry, k) /\ registry' = LruGet(registry, k) /\ limiters' = limiters
    BY <1>1, <1>3, ZenonT(30) DEF SharedLimiter
  <2>2. [key |-> k, val |-> id] \in Entries(registry)
    <3>1. [key |-> k, val |-> LruPeek(registry, k)] \in Entries(registry)
      BY <1>1, <1>3, Peeked, SMTT(30)
    <3> QED BY <2>1, <3>1, Zenon
  <2>3. /\ registry' \in LruMaps(RateKeys, LimiterIds) /\ Entries(registry') = Entries(registry)
        /\ Len(registry') = Len(registry)
    BY <1>1, <2>1, Gotten
  <2> QED BY <2>1, <2>2, <2>3 DEF RegistryInv, k
<1>4. CASE ~LruHas(registry, k)
  <2>1. PICK new : /\ id = Len(limiters) + 1 /\ limiters' = Append(limiters, new)
                   /\ Len(registry) < MaxLimiters
                   /\ registry' = LruPut(registry, k, id, MaxLimiters)
    BY <1>1, <1>4 DEF SharedLimiter
  <2>2. limiters \in Seq(S \union {new})
    BY <1>2
  <2>3. /\ limiters' \in Seq(S \union {new}) /\ Len(limiters') = Len(limiters) + 1
        /\ Len(limiters) \in Nat /\ id \in Nat
    BY <2>1, <2>2, SMTT(30)
  <2>4. /\ registry' \in LruMaps(RateKeys, LimiterIds)
        /\ Entries(registry') = {[key |-> k, val |-> id]} \union Entries(registry)
        /\ Len(registry') = Len(registry) + 1
    <3>1. MaxLimiters \in Nat /\ id \in LimiterIds
      BY <2>3, LimiterConstants, Zenon DEF LimiterIds
    <3> QED BY <1>1, <1>4, <2>1, <3>1, PutNew, SMTT(30)
  <2>5. Len(registry) \in Nat
    BY <1>1, Indexed, Zenon
  <2>6. \A e \in Entries(registry) : e.val \in 1 .. Len(limiters) /\ e.val # id
    BY <2>1, <2>3 DEF RegistryInv
  <2>7. Len(registry') <= MaxLimiters
    BY <2>1, <2>4, <2>5, LimiterConstants
  <2>8. \A e \in Entries(registry') : e.val \in 1 .. Len(limiters')
    <3>1. id \in 1 .. Len(limiters')
      BY <2>1, <2>3
    <3>2. \A e \in Entries(registry) : e.val \in 1 .. Len(limiters')
      BY <2>3, <2>6
    <3> QED BY <2>4, <3>1, <3>2, SMTT(30)
  <2>9. \A e, f \in Entries(registry') : e.val = f.val => e = f
    BY <2>4, <2>6 DEF RegistryInv
  <2> QED BY <2>3, <2>4, <2>7, <2>8, <2>9, Zenon DEF k
<1> QED BY <1>3, <1>4, Zenon

\* A step that leaves the registry and the instances alone; a check changes a
\* limiter in its place.
LEMMA RegistryStays ==
    ASSUME RegistryInv, UNCHANGED <<registry, inst>>,
           ctor' \in [Builders -> {None} \union {Some(o) : o \in AllOptions}],
           limiters' = limiters \/ \E id, l : limiters' = [limiters EXCEPT ![id] = l]
    PROVE  RegistryInv'
<1>1. (\E S : limiters' \in Seq(S)) /\ Len(limiters') = Len(limiters)
  <2>1. PICK S : limiters \in Seq(S)
    BY DEF RegistryInv
  <2>2. ASSUME NEW id, NEW l, limiters' = [limiters EXCEPT ![id] = l]
        PROVE  limiters' \in Seq(S \union {l}) /\ Len(limiters') = Len(limiters)
    <3> DEFINE T == S \union {l}
    <3>1. limiters \in Seq(T) /\ l \in T
      BY <2>1
    <3> HIDE DEF T
    <3>2. limiters \in [1 .. Len(limiters) -> T] /\ Len(limiters) \in Nat
      BY <3>1
    <3>3. limiters' \in [1 .. Len(limiters) -> T]
      BY <2>2, <3>1, <3>2, Zenon
    <3>4. limiters' \in Seq(T) /\ Len(limiters') = Len(limiters)
      BY <3>2, <3>3
    <3> QED BY <3>4 DEF T
  <2> QED BY <2>1, <2>2, Zenon
<1>2. Entries(registry)' = Entries(registry)
  BY DEF Entries
<1> QED BY <1>1, <1>2 DEF RegistryInv

\* The end of a constructor: the instance has the limiter of its options.
LEMMA RegistryFinish ==
    ASSUME RegistryInv, NEW w \in Builders, NEW o \in AllOptions, NEW schema,
           FinishWith(w, o, schema),
           ctor' \in [Builders -> {None} \union {Some(p) : p \in AllOptions}]
    PROVE  RegistryInv'
<1>1. CASE UNCHANGED <<limiterVars, inst>>
  BY <1>1, RegistryStays, Zenon DEF limiterVars
<1>2. CASE /\ ~WantsLimiter(o)
           /\ inst' = [inst EXCEPT ![w] = Some(Instance(o, schema, 0))]
           /\ UNCHANGED limiterVars
  <2>1. /\ inst'[w][1].opts = o /\ DOMAIN inst' = Builders
        /\ \A v \in Builders : v # w => inst'[v] = inst[v]
    BY <1>2 DEF RegistryInv, Some, Instance
  <2>2. registry' = registry /\ limiters' = limiters
    BY <1>2 DEF limiterVars
  <2>3. Entries(registry)' = Entries(registry)
    BY <2>2 DEF Entries
  <2>4. ASSUME NEW v \in Builders, Present(inst'[v]), WantsLimiter(inst'[v][1].opts)
        PROVE  [key |-> KeyOf(inst'[v][1].opts), val |-> inst'[v][1].limiter]
                  \in Entries(registry)
    BY <1>2, <2>1, <2>4, ZenonT(30) DEF RegistryInv
  <2> QED BY <2>1, <2>2, <2>3, <2>4, ZenonT(30) DEF RegistryInv
<1>3. ASSUME NEW id,
             SharedLimiter(o.rate[1].limit, o.rate[1].window, o.rate[1].entries, id),
             inst' = [inst EXCEPT ![w] = Some(Instance(o, schema, id))]
      PROVE  RegistryInv'
  <2>1. /\ inst'[w][1].opts = o /\ inst'[w][1].limiter = id /\ DOMAIN inst' = Builders
        /\ \A v \in Builders : v # w => inst'[v] = inst[v]
    BY <1>3, Zenon DEF RegistryInv, Some, Instance
  <2>2. /\ registry' \in LruMaps(RateKeys, LimiterIds) /\ Len(registry') <= MaxLimiters
        /\ \E S : limiters' \in Seq(S)
        /\ \A e \in Entries(registry') : e.val \in 1 .. Len(limiters')
        /\ \A e, f \in Entries(registry') : e.val = f.val => e = f
        /\ Entries(registry) \subseteq Entries(registry')
        /\ [key |-> KeyOf(o), val |-> id] \in Entries(registry')
    BY <1>3, LimiterShared
  <2>3. Entries(registry)' = Entries(registry')
    BY DEF Entries
  <2>4. ASSUME NEW v \in Builders, Present(inst'[v]), WantsLimiter(inst'[v][1].opts)
        PROVE  [key |-> KeyOf(inst'[v][1].opts), val |-> inst'[v][1].limiter]
                  \in Entries(registry')
    BY <2>1, <2>2, <2>4, ZenonT(30) DEF RegistryInv
  <2> QED BY <2>1, <2>2, <2>3, <2>4, Zenon DEF RegistryInv
<1> QED BY <1>1, <1>2, <1>3 DEF FinishWith

\* Every step keeps the registry's invariant.
LEMMA RegistryStep ==
    ASSUME RegistryInv, load \in Workloads, [IngressNext]_requestVars
    PROVE  RegistryInv'
<1> DEFINE Ctors == [Builders -> {None} \union {Some(p) : p \in AllOptions}]
<1>1. load.workers \subseteq Builders /\ load.options \subseteq AllOptions /\ ctor \in Ctors
  BY WorkloadAssumption, ZenonT(30) DEF AllOptions, RegistryInv
<1>2. CASE UNCHANGED requestVars
  <2>1. UNCHANGED <<limiters, registry, ctor, inst>>
    BY <1>2, ZenonT(30) DEF requestVars, ingressVars, limiterVars
  <2> QED BY <1>1, <2>1, RegistryStays, Zenon
<1>3. CASE UNCHANGED <<limiterVars, ctor, inst>>
  BY <1>3, RegistryStays DEF limiterVars, RegistryInv
<1>4. ASSUME NEW w \in Builders, NEW o \in AllOptions, StartBuild(w, o) PROVE RegistryInv'
  <2>1. UNCHANGED <<limiters, registry, inst>> /\ ctor' = [ctor EXCEPT ![w] = Some(o)]
    BY <1>4 DEF StartBuild, limiterVars
  <2>2. ctor' \in Ctors
    BY <1>1, <2>1
  <2> QED BY <2>1, <2>2, RegistryStays
<1>5. ASSUME NEW w \in Builders, NEW o \in AllOptions, BuildPlain(w, o) PROVE RegistryInv'
  <2>1. FinishWith(w, o, None) /\ ctor' = ctor
    BY <1>5 DEF BuildPlain
  <2> QED BY <1>1, <2>1, RegistryFinish
<1>6. ASSUME NEW w \in Builders, FinishBuild(w) PROVE RegistryInv'
  <2>1. Present(ctor[w]) /\ ctor' = [ctor EXCEPT ![w] = None]
    BY <1>6 DEF FinishBuild
  <2>2. ctor' \in Ctors
    BY <1>1, <2>1
  <2>3. PICK o \in AllOptions : ctor[w] = Some(o) /\ ctor[w][1] = o
    BY <1>1, <2>1 DEF Present, Some
  <2>4. CASE UNCHANGED <<limiterVars, inst>>
    BY <2>2, <2>4, RegistryStays DEF limiterVars
  <2>5. CASE \E schema : FinishWith(w, o, schema)
    BY <2>2, <2>5, RegistryFinish
  <2>6. UNCHANGED <<limiterVars, inst>> \/ \E schema : FinishWith(w, o, schema)
    BY <1>6, <2>3, Zenon DEF FinishBuild
  <2> QED BY <2>4, <2>5, <2>6, Zenon
<1>7. ASSUME NEW w, Check(w) PROVE RegistryInv'
  <2>1. /\ UNCHANGED <<registry, ctor, inst>>
        /\ \E id, l : limiters' = [limiters EXCEPT ![id] = l]
    BY <1>7, Zenon DEF Check
  <2> QED BY <1>1, <2>1, RegistryStays, Zenon
<1>8. ASSUME NEW w, NEW r, NEW via, NEW c, Enter(w, r, via, c) PROVE RegistryInv'
  BY <1>3, <1>8 DEF Enter
<1>9. CASE Tick \/ ClearStep
  BY <1>3, <1>9 DEF Tick, ClearStep
<1>10. ASSUME NEW w, CompileStep(w) \/ InsertStep(w) PROVE RegistryInv'
  BY <1>3, <1>10, Zenon DEF CompileStep, InsertStep, ingressVars
<1>11. ASSUME NEW w, EarlyStages(w) \/ ReadClock(w) \/ LateStages(w) \/ PanicAndRetry(w)
       PROVE  RegistryInv'
  BY <1>3, <1>11 DEF EarlyStages, ReadClock, LateStages, PanicAndRetry
<1> QED BY <1>1, <1>2, <1>4, <1>5, <1>6, <1>7, <1>8, <1>9, <1>10, <1>11, Zenon DEF IngressNext

\* Instances have one limiter exactly when they have one rate configuration, and
\* the registry keeps its bound (shared_limiter, rate_limit.rs).
THEOREM BudgetsShared == IngressSpec => []OneBudget
<1> DEFINE Inv == SchemaInv /\ load \in Workloads /\ RegistryInv
<1>1. IngressInit => Inv
  BY SchemaInitially, RegistryInitially DEF IngressInit
<1>2. Inv /\ [IngressNext]_requestVars => Inv'
  BY SchemaStep, RegistryStep, Zenon
<1>3. Inv => OneBudget
  <2> SUFFICES ASSUME RegistryInv PROVE OneBudget
    OBVIOUS
  <2>1. ASSUME NEW v \in Builders, NEW w \in Builders,
               Present(inst[v]), Present(inst[w]),
               WantsLimiter(inst[v][1].opts), WantsLimiter(inst[w][1].opts)
        PROVE  inst[v][1].limiter = inst[w][1].limiter
                 <=> RateConfig(inst[v][1].opts) = RateConfig(inst[w][1].opts)
    <3> DEFINE e == [key |-> KeyOf(inst[v][1].opts), val |-> inst[v][1].limiter]
               f == [key |-> KeyOf(inst[w][1].opts), val |-> inst[w][1].limiter]
    <3>1. e \in Entries(registry) /\ f \in Entries(registry)
      BY <2>1, Zenon DEF RegistryInv
    <3>2. e.val = f.val => e = f
      BY <3>1 DEF RegistryInv
    <3>3. e.key = f.key => e = f
      <4>1. registry \in LruMaps(RateKeys, LimiterIds)
        BY DEF RegistryInv
      <4> HIDE DEF e, f
      <4> QED BY <3>1, <4>1, OneEntry, Zenon
    <3>4. KeyOf(inst[v][1].opts) = KeyOf(inst[w][1].opts)
            <=> RateConfig(inst[v][1].opts) = RateConfig(inst[w][1].opts)
      BY Zenon DEF KeyOf, LimiterKey, RateConfig
    <3>5. /\ e.key = KeyOf(inst[v][1].opts) /\ e.val = inst[v][1].limiter
          /\ f.key = KeyOf(inst[w][1].opts) /\ f.val = inst[w][1].limiter
      OBVIOUS
    <3> HIDE DEF e, f
    <3> QED BY <3>2, <3>3, <3>4, <3>5, Zenon
  <2> QED BY <2>1 DEF OneBudget, RegistryInv
<1> HIDE DEF Inv
<1> QED BY <1>1, <1>2, <1>3, PTL DEF IngressSpec

-----------------------------------------------------------------------------
(***************************************************************************)
(* The requests in the pipeline.                                           *)
(***************************************************************************)
AllRequests == UNION {l.requests : l \in Workloads}
AllCaps == UNION {l.caps : l \in Workloads}

\* An instance has the fields of its options and, when they name a schema, one
\* compiled from the bytes they name.
BuiltFrom(cfg) ==
    /\ cfg = Instance(cfg.opts, cfg.schema, cfg.limiter)
    /\ cfg.opts \in AllOptions
    /\ Present(cfg.schema) <=> Present(cfg.opts.schema)
    /\ Present(cfg.schema) => cfg.schema[1].bytes = cfg.opts.schema[1]

\* A constructor that waits for its schema asked for the bytes of its options
\* and has no instance to replace; a worker without an instance serves nothing;
\* a request in the pipeline is one of the workload's, and its answer is one the
\* pipeline gives to it.
Serving(w) ==
    /\ Present(ctor[w]) => /\ ~Present(inst[w]) /\ Present(ctor[w][1].schema)
                           /\ build[w].bytes = ctor[w][1].schema[1]
    /\ DOMAIN work[w] = DOMAIN NoWork
    /\ ~Present(inst[w]) => work[w] = NoWork
    /\ Present(inst[w]) => BuiltFrom(inst[w][1])
    /\ work[w].pc # "idle" \/ Present(work[w].decision) =>
          /\ work[w].req[1] \in AllRequests /\ work[w].cap \in AllCaps
    /\ Present(work[w].decision) =>
          Produced(inst[w][1], work[w].req[1], work[w].cap, work[w].decision[1])

ServingInv ==
    /\ DOMAIN ctor = Builders /\ DOMAIN inst = Builders /\ DOMAIN work = Builders
    /\ \A w \in Builders : Serving(w)

\* At first nobody is constructed and nothing is served.
LEMMA ServingInitially == IngressInit => ServingInv
<1> SUFFICES ASSUME IngressInit PROVE ServingInv
  OBVIOUS
<1>1. /\ ctor = [w \in Builders |-> None] /\ inst = [w \in Builders |-> None]
      /\ work = [w \in Builders |-> NoWork]
  BY DEF IngressInit
<1>2. NoWork.pc = "idle" /\ NoWork.decision = None
  BY DEF NoWork
<1> QED BY <1>1, <1>2, Zenon DEF ServingInv, Serving, Present

\* A worker whose constructor, instance and request a step leaves alone.
LEMMA LeftAlone ==
    ASSUME NEW w, Serving(w), ctor'[w] = ctor[w], inst'[w] = inst[w], work'[w] = work[w],
           Present(ctor[w]) => build'[w].bytes = build[w].bytes
    PROVE  Serving(w)'
BY Zenon DEF Serving

\* A step of one request.
LEMMA RequestStep ==
    ASSUME ServingInv, NEW w \in Builders, NEW r, UNCHANGED <<ctor, inst, build>>,
           work' = [work EXCEPT ![w] = r], Present(inst[w]), DOMAIN r = DOMAIN NoWork,
           r.req[1] \in AllRequests, r.cap \in AllCaps,
           Present(r.decision) => Produced(inst[w][1], r.req[1], r.cap, r.decision[1])
    PROVE  ServingInv'
<1>1. DOMAIN work' = Builders /\ work'[w] = r /\ \A v \in Builders : v # w => work'[v] = work[v]
  BY Zenon DEF ServingInv
<1>2. ASSUME NEW v \in Builders, v # w PROVE Serving(v)'
  BY <1>1, <1>2, LeftAlone, Zenon DEF ServingInv
<1>3. Serving(w)'
  <2>1. Serving(w)
    BY DEF ServingInv
  <2> QED BY <1>1, <2>1, ZenonT(30) DEF Serving
<1> QED BY <1>1, <1>2, <1>3, Zenon DEF ServingInv

\* Whoever is in the pipeline has an instance and a request of the workload's.
LEMMA InPipeline ==
    ASSUME ServingInv, NEW w \in Builders, work[w].pc # "idle"
    PROVE  /\ Present(inst[w]) /\ DOMAIN work[w] = DOMAIN NoWork
           /\ work[w].req[1] \in AllRequests /\ work[w].cap \in AllCaps
<1>1. Serving(w) /\ NoWork.pc = "idle"
  BY DEF ServingInv, NoWork
<1> QED BY <1>1, Zenon DEF Serving

\* An answer that one of the stages gives.
LEMMA AnswerStep ==
    ASSUME ServingInv, NEW w \in Builders, work[w].pc # "idle", NEW d, Answer(w, d),
           UNCHANGED <<ctor, inst, build>>, Produced(inst[w][1], work[w].req[1], work[w].cap, d)
    PROVE  ServingInv'
<1> DEFINE r == [work[w] EXCEPT !.pc = "idle", !.decision = Some(d)]
<1>1. /\ Present(inst[w]) /\ DOMAIN work[w] = DOMAIN NoWork
      /\ work[w].req[1] \in AllRequests /\ work[w].cap \in AllCaps
  BY InPipeline, SMTT(30)
<1>2. DOMAIN NoWork = {"pc", "req", "via", "cap", "now", "rate", "charges", "decision"}
  BY DEF NoWork
<1>3. /\ DOMAIN r = DOMAIN NoWork /\ r.req = work[w].req /\ r.cap = work[w].cap
      /\ r.decision = Some(d)
  BY <1>1, <1>2, Zenon
<1>4. r.decision[1] = d
  BY <1>3 DEF Some
<1>5. work' = [work EXCEPT ![w] = r]
  BY DEF Answer, ServingInv
<1> HIDE DEF r
<1> QED BY <1>1, <1>3, <1>4, <1>5, RequestStep, ZenonT(30)

\* A step on to the next stage.
LEMMA StageStep ==
    ASSUME ServingInv, NEW w \in Builders, work[w].pc # "idle", NEW r,
           UNCHANGED <<ctor, inst, build>>, work' = [work EXCEPT ![w] = r],
           DOMAIN r = DOMAIN NoWork, r.req = work[w].req, r.cap = work[w].cap,
           r.decision \in {None, work[w].decision}
    PROVE  ServingInv'
<1>1. /\ Present(inst[w])
      /\ work[w].req[1] \in AllRequests /\ work[w].cap \in AllCaps
  BY InPipeline
<1>2. Present(r.decision) => Produced(inst[w][1], r.req[1], r.cap, r.decision[1])
  BY Zenon DEF ServingInv, Serving, Present
<1> QED BY <1>1, <1>2, RequestStep, ZenonT(30)

\* The steps of a request.
LEMMA RequestServed ==
    ASSUME ServingInv, load \in Workloads, NEW w \in Builders,
           \/ EarlyStages(w) \/ ReadClock(w) \/ Check(w) \/ LateStages(w) \/ PanicAndRetry(w)
           \/ \E r \in load.requests, v \in {"components", "packed"}, c \in load.caps :
                 Enter(w, r, v, c)
    PROVE  ServingInv'
<1>1. DOMAIN NoWork = {"pc", "req", "via", "cap", "now", "rate", "charges", "decision"}
      /\ NoWork.decision = None
  BY DEF NoWork
<1>2. work[w].pc # "idle" => DOMAIN work[w] = DOMAIN NoWork
  BY InPipeline, Zenon
<1>3. CASE EarlyStages(w)
  <2> DEFINE early == EarlyAnswer(inst[w][1], work[w].req[1], work[w].via = "packed")
             next == IF RateActive(inst[w][1]) THEN "clock" ELSE "late"
  <2>1. /\ work[w].pc # "idle" /\ UNCHANGED <<ctor, inst, build>>
        /\ \/ Present(early) /\ Answer(w, early[1])
           \/ work' = [work EXCEPT ![w] = [work[w] EXCEPT !.pc = next]]
    BY <1>3 DEF EarlyStages, schemaVars, ServingInv
  <2>2. Present(early) => Produced(inst[w][1], work[w].req[1], work[w].cap, early[1])
    BY Zenon DEF Produced
  <2> HIDE DEF early, next
  <2>3. CASE Present(early) /\ Answer(w, early[1])
    BY <2>1, <2>2, <2>3, AnswerStep, Zenon
  <2>4. CASE work' = [work EXCEPT ![w] = [work[w] EXCEPT !.pc = next]]
    <3> DEFINE r == [work[w] EXCEPT !.pc = next]
    <3>1. /\ DOMAIN r = DOMAIN NoWork /\ r.req = work[w].req /\ r.cap = work[w].cap
          /\ r.decision = work[w].decision
      BY <1>1, <1>2, <2>1, Zenon
    <3> HIDE DEF r
    <3> QED BY <2>1, <2>4, <3>1, StageStep, Zenon DEF r
  <2> QED BY <2>1, <2>3, <2>4, Zenon
<1>4. CASE ReadClock(w)
  <2> DEFINE r == [work[w] EXCEPT !.pc = "check", !.now = clock]
  <2>1. /\ work[w].pc # "idle" /\ UNCHANGED <<ctor, inst, build>>
        /\ work' = [work EXCEPT ![w] = r]
    BY <1>4, Zenon DEF ReadClock, schemaVars, ServingInv
  <2>2. /\ DOMAIN r = DOMAIN NoWork /\ r.req = work[w].req /\ r.cap = work[w].cap
        /\ r.decision = work[w].decision
    BY <1>1, <1>2, <2>1, Zenon
  <2> HIDE DEF r
  <2> QED BY <2>1, <2>2, StageStep, Zenon
<1>5. CASE Check(w)
  <2>1. /\ work[w].pc # "idle" /\ UNCHANGED <<ctor, inst, build>>
        /\ \/ \E rate : Answer(w, RateLimitedAnswer(inst[w][1], work[w].req[1], rate))
           \/ \E rate, n : work' = [work EXCEPT ![w] = [work[w] EXCEPT !.pc = "late",
                                                      !.rate = rate, !.charges = n]]
    <3>1. work[w].pc = "check" /\ UNCHANGED <<ctor, inst, build>>
      BY <1>5, Zenon DEF Check, schemaVars
    <3>2. \/ \E rate : Answer(w, RateLimitedAnswer(inst[w][1], work[w].req[1], rate))
          \/ \E rate, n : work' = [work EXCEPT ![w] = [work[w] EXCEPT !.pc = "late",
                                                     !.rate = rate, !.charges = n]]
      BY <1>5, Zenon DEF Check
    <3> QED BY <3>1, <3>2, Zenon
  <2>2. ASSUME NEW rate, Answer(w, RateLimitedAnswer(inst[w][1], work[w].req[1], rate))
        PROVE  ServingInv'
    <3>1. PICK d : d = RateLimitedAnswer(inst[w][1], work[w].req[1], rate)
      OBVIOUS
    <3>2. Produced(inst[w][1], work[w].req[1], work[w].cap, d)
      BY <3>1, Zenon DEF Produced
    <3> QED BY <2>1, <2>2, <3>1, <3>2, AnswerStep, ZenonT(30)
  <2>3. ASSUME NEW rate, NEW n,
               work' = [work EXCEPT ![w] = [work[w] EXCEPT !.pc = "late", !.rate = rate,
                                                           !.charges = n]]
        PROVE  ServingInv'
    <3> DEFINE r == [work[w] EXCEPT !.pc = "late", !.rate = rate, !.charges = n]
    <3>1. /\ DOMAIN r = DOMAIN NoWork /\ r.req = work[w].req /\ r.cap = work[w].cap
          /\ r.decision = work[w].decision
      BY <1>1, <1>2, <2>1, Zenon
    <3> HIDE DEF r
    <3> QED BY <2>1, <2>3, <3>1, StageStep, Zenon DEF r
  <2> QED BY <2>1, <2>2, <2>3, Zenon
<1>6. CASE LateStages(w)
  <2>1. PICK d : d = LateAnswer(inst[w][1], work[w].req[1], work[w].rate, work[w].cap)
    BY SMTT(30)
  <2>2. work[w].pc # "idle" /\ UNCHANGED <<ctor, inst, build>> /\ Answer(w, d)
    BY <1>6, <2>1, Zenon DEF LateStages, schemaVars
  <2>3. Produced(inst[w][1], work[w].req[1], work[w].cap, d)
    BY <2>1, Zenon DEF Produced
  <2> QED BY <2>2, <2>3, AnswerStep, ZenonT(30)
<1>7. CASE PanicAndRetry(w)
  <2> DEFINE r == [NoWork EXCEPT !.pc = "early", !.req = work[w].req, !.via = "packed",
                                 !.cap = work[w].cap, !.charges = work[w].charges]
  <2>1. /\ work[w].pc # "idle" /\ UNCHANGED <<ctor, inst, build>>
        /\ work' = [work EXCEPT ![w] = r]
    BY <1>7 DEF PanicAndRetry, schemaVars
  <2>2. /\ DOMAIN r = DOMAIN NoWork /\ r.req = work[w].req /\ r.cap = work[w].cap
        /\ r.decision = None
    BY <1>1, Zenon
  <2> HIDE DEF r
  <2> QED BY <2>1, <2>2, StageStep, Zenon
<1>8. ASSUME NEW q \in load.requests, NEW via, NEW c \in load.caps, Enter(w, q, via, c)
      PROVE  ServingInv'
  <2> DEFINE r == [NoWork EXCEPT !.pc = "early", !.req = Some(q), !.via = via, !.cap = c]
  <2>1. /\ Present(inst[w]) /\ UNCHANGED <<ctor, inst, build>>
        /\ work' = [work EXCEPT ![w] = r]
    BY <1>8, Zenon DEF Enter, schemaVars
  <2>2. DOMAIN r = DOMAIN NoWork /\ r.req = Some(q) /\ r.cap = c /\ r.decision = None
    BY <1>1, Zenon
  <2>3. r.req[1] = q
    BY <2>2 DEF Some
  <2>4. q \in AllRequests /\ c \in AllCaps /\ ~Present(None)
    BY Zenon DEF AllRequests, AllCaps, Present
  <2> HIDE DEF r
  <2> QED BY <2>1, <2>2, <2>3, <2>4, RequestStep, ZenonT(30)
<1> QED BY <1>3, <1>4, <1>5, <1>6, <1>7, <1>8, Zenon

\* What the constructor hands over as the schema of its options.
SchemaFor(o, schema) ==
    \/ ~Present(o.schema) /\ schema = None
    \/ Present(o.schema) /\ \E fast : schema = Some([bytes |-> o.schema[1], fast |-> fast])

\* A new instance has the schema its options name.
LEMMA InstanceBuilt ==
    ASSUME NEW o \in AllOptions, NEW limiter, NEW schema, SchemaFor(o, schema)
    PROVE  BuiltFrom(Instance(o, schema, limiter))
<1> DEFINE cfg == Instance(o, schema, limiter)
<1>1. cfg.opts = o /\ cfg.schema = schema /\ cfg.limiter = limiter
  BY ZenonT(30) DEF Instance
<1>2. /\ Present(schema) <=> Present(o.schema)
      /\ Present(schema) => schema[1].bytes = o.schema[1]
  BY DEF SchemaFor, Present, Some, None
<1> HIDE DEF cfg
<1>3. cfg = Instance(cfg.opts, cfg.schema, cfg.limiter)
  BY <1>1, Zenon DEF cfg
<1> QED BY <1>1, <1>2, <1>3, Zenon DEF BuiltFrom, cfg

\* The end of a constructor whose schema is the one its options name.
LEMMA FinishServes ==
    ASSUME ServingInv, NEW w \in Builders, NEW o \in AllOptions, NEW schema,
           FinishWith(w, o, schema), ~Present(inst[w]), ~Present(ctor'[w]),
           DOMAIN ctor' = Builders, UNCHANGED work,
           \A v \in Builders : v # w => ctor'[v] = ctor[v] /\ build'[v] = build[v],
           SchemaFor(o, schema)
    PROVE  ServingInv'
<1>1. Serving(w) /\ DOMAIN inst = Builders
  BY DEF ServingInv
<1>2. inst' = inst \/ \E id : inst' = [inst EXCEPT ![w] = Some(Instance(o, schema, id))]
  BY Zenon DEF FinishWith
<1>3. /\ DOMAIN inst' = Builders
      /\ \A v \in Builders : v # w => inst'[v] = inst[v]
      /\ inst'[w] = inst[w] \/ \E id : inst'[w] = Some(Instance(o, schema, id))
  BY <1>1, <1>2, Zenon
<1>4. ASSUME NEW v \in Builders, v # w PROVE Serving(v)'
  BY <1>3, <1>4, LeftAlone, ZenonT(30) DEF ServingInv
<1>5. \A x : Some(x)[1] = x /\ Present(Some(x))
  BY SMTT(30) DEF Some, Present, None
<1>6. NoWork.pc = "idle" /\ ~Present(NoWork.decision)
  BY DEF NoWork, Present
<1>7. Serving(w)'
  <2>1. work'[w] = NoWork
    BY <1>1, Zenon DEF Serving
  <2>2. Present(inst'[w]) => BuiltFrom(inst'[w][1])
    <3>1. \A id : BuiltFrom(Instance(o, schema, id))
      BY InstanceBuilt, Zenon
    <3>2. CASE inst'[w] = inst[w]
      BY <3>2, Zenon
    <3>3. ASSUME NEW id, inst'[w] = Some(Instance(o, schema, id)) PROVE BuiltFrom(inst'[w][1])
      <4>1. inst'[w][1] = Instance(o, schema, id)
        BY <1>5, <3>3, Zenon
      <4> QED BY <3>1, <4>1, Zenon
    <3> QED BY <1>3, <3>2, <3>3, Zenon
  <2> QED BY <1>6, <2>1, <2>2, Zenon DEF Serving
<1> QED BY <1>3, <1>4, <1>7, ZenonT(30) DEF ServingInv

\* A step of one builder that is about these bytes.
About(b, bytes) == \E r : build' = [build EXCEPT ![b] = r] /\ r.bytes = bytes

\* A builder that finds its schema keeps the bytes it asked for.
LEMMA TakenBytes == ASSUME NEW b, NEW bytes, Take(b, bytes) PROVE About(b, bytes)
<1> DEFINE r == [pc |-> "have", bytes |-> bytes, era |-> era[bytes],
                 arc |-> LruPeek(cache, SchemaHash(bytes)).arc]
<1>1. build' = [build EXCEPT ![b] = r] /\ r.bytes = bytes
  BY DEF Take
<1> HIDE DEF r
<1> QED BY <1>1, ZenonT(30) DEF About

\* The steps of the constructors.
LEMMA ConstructionServes ==
    ASSUME ServingInv, SchemaInv, RegistryInv, load \in Workloads, NEW w \in Builders,
           \/ \E o \in load.options : StartBuild(w, o) \/ BuildPlain(w, o)
           \/ CompileStep(w) \/ InsertStep(w) \/ FinishBuild(w)
    PROVE  ServingInv'
<1>1. /\ build \in [Builders -> BuildType] /\ load.options \subseteq AllOptions
      /\ DOMAIN ctor = Builders /\ DOMAIN inst = Builders /\ DOMAIN work = Builders
      /\ \A v \in Builders : Serving(v)
  BY ZenonT(30) DEF SchemaInv, AllOptions, ServingInv
<1>2. \A x : Some(x)[1] = x /\ Present(Some(x))
  BY DEF Some, Present, None
<1>3. ASSUME NEW o \in load.options, StartBuild(w, o) PROVE ServingInv'
  <2>1. /\ ~Present(ctor[w]) /\ ~Present(inst[w]) /\ Present(o.schema)
        /\ Lookup(w, o.schema[1]) /\ ctor' = [ctor EXCEPT ![w] = Some(o)]
        /\ UNCHANGED <<inst, work>>
    BY <1>3, Zenon DEF StartBuild, MayBuild
  <2>2. build'[w].bytes = o.schema[1] /\ \A v \in Builders : v # w => build'[v] = build[v]
    <3>1. About(w, o.schema[1])
      <4> DEFINE miss == [build[w] EXCEPT !.pc = "compile", !.bytes = o.schema[1]]
      <4>1. miss.bytes = o.schema[1]
        BY <1>1 DEF BuildType
      <4>2. Take(w, o.schema[1]) \/ build' = [build EXCEPT ![w] = miss]
        BY <1>1, <2>1, Zenon DEF Lookup
      <4> HIDE DEF miss
      <4>3. CASE Take(w, o.schema[1])
        BY <4>3, TakenBytes, Zenon
      <4>4. CASE build' = [build EXCEPT ![w] = miss]
        BY <4>1, <4>4, Zenon DEF About
      <4> QED BY <4>2, <4>3, <4>4, Zenon
    <3> QED BY <1>1, <3>1, Zenon DEF About
  <2>3. /\ DOMAIN ctor' = Builders /\ ctor'[w] = Some(o)
        /\ \A v \in Builders : v # w => ctor'[v] = ctor[v]
    BY <1>1, <2>1, Zenon
  <2>4. ASSUME NEW v \in Builders, v # w PROVE Serving(v)'
    BY <1>1, <2>1, <2>2, <2>3, <2>4, LeftAlone, ZenonT(30)
  <2>5. Serving(w)'
    BY <1>1, <1>2, <2>1, <2>2, <2>3, Zenon DEF Serving
  <2> QED BY <1>1, <2>1, <2>3, <2>4, <2>5, ZenonT(30) DEF ServingInv
<1>4. ASSUME NEW o \in load.options, BuildPlain(w, o) PROVE ServingInv'
  <2>1. /\ ~Present(ctor[w]) /\ ~Present(inst[w]) /\ ~Present(o.schema)
        /\ FinishWith(w, o, None) /\ UNCHANGED <<ctor, work, build>>
    BY <1>4, Zenon DEF BuildPlain, MayBuild, schemaVars
  <2>2. o \in AllOptions /\ SchemaFor(o, None)
    BY <1>1, <2>1, Zenon DEF SchemaFor
  <2>3. ~Present(ctor'[w]) /\ DOMAIN ctor' = Builders
    BY <1>1, <2>1, Zenon
  <2> QED BY <2>1, <2>2, <2>3, FinishServes, Zenon
<1>5. CASE CompileStep(w) \/ InsertStep(w)
  <2>1. UNCHANGED <<ctor, inst, work>> /\ (Compile(w) \/ Insert(w))
    BY <1>5, Zenon DEF CompileStep, InsertStep, ingressVars
  <2>2. \A v \in Builders : build'[v].bytes = build[v].bytes
    <3>1. About(w, build[w].bytes)
      <4>2. "bytes" \in DOMAIN build[w]
        BY <1>1 DEF BuildType
      <4>3. CASE Compile(w)
        BY <1>1, <4>2, <4>3, ZenonT(30) DEF Compile, About
      <4>4. CASE Insert(w)
        <5>1. \/ Take(w, build[w].bytes)
              \/ build' = [build EXCEPT ![w] = [build[w] EXCEPT !.pc = "have",
                                                  !.era = era[build[w].bytes]]]
          BY <1>1, <4>4, Zenon DEF Insert
        <5>2. CASE Take(w, build[w].bytes)
          BY <5>2, TakenBytes, Zenon
        <5> QED BY <4>2, <5>1, <5>2, Zenon DEF About
      <4> QED BY <2>1, <4>3, <4>4, ZenonT(30)
    <3> QED BY <1>1, <3>1, Zenon DEF About
  <2> QED BY <1>1, <2>1, <2>2, LeftAlone, Zenon DEF ServingInv
<1>6. CASE FinishBuild(w)
  <2> DEFINE schema == Some([bytes |-> compiled[build[w].arc],
                             fast |-> compiled[build[w].arc] \in FastSchemas])
  <2>1. /\ Present(ctor[w]) /\ build' = [build EXCEPT ![w] = Idle]
        /\ ctor' = [ctor EXCEPT ![w] = None] /\ UNCHANGED work
        /\ UNCHANGED inst \/ (build[w].pc = "have" /\ FinishWith(w, ctor[w][1], schema))
    BY <1>6, Zenon DEF FinishBuild
  <2>2. /\ DOMAIN ctor' = Builders /\ ctor'[w] = None
        /\ \A v \in Builders : v # w => ctor'[v] = ctor[v] /\ build'[v] = build[v]
    BY <1>1, <2>1, Zenon
  <2>3. ~Present(ctor'[w])
    BY <2>2, Zenon DEF Present
  <2>4. /\ ~Present(inst[w]) /\ Present(ctor[w][1].schema)
        /\ build[w].bytes = ctor[w][1].schema[1]
    BY <1>1, <2>1, Zenon DEF Serving
  <2>5. CASE UNCHANGED inst
    <3>1. ASSUME NEW v \in Builders, v # w PROVE Serving(v)'
      BY <1>1, <2>1, <2>2, <2>5, <3>1, LeftAlone, ZenonT(30)
    <3>2. Serving(w)'
      BY <1>1, <2>1, <2>3, <2>5, Zenon DEF Serving
    <3> QED BY <1>1, <2>1, <2>2, <2>5, <3>1, <3>2, ZenonT(30) DEF ServingInv
  <2>6. CASE build[w].pc = "have" /\ FinishWith(w, ctor[w][1], schema)
    <3>1. PICK o \in AllOptions : ctor[w][1] = o
      <4>1. ctor[w] \in {None} \union {Some(p) : p \in AllOptions} /\ ctor[w] # None
        BY <2>1, ZenonT(30) DEF RegistryInv, Present
      <4> QED BY <1>2, <4>1, ZenonT(30)
    <3>2. compiled[build[w].arc] = build[w].bytes
      BY <2>6, Zenon DEF SchemaInv, From
    <3>3. SchemaFor(o, schema)
      BY <2>4, <3>1, <3>2, Zenon DEF SchemaFor
    <3> HIDE DEF schema
    <3>4. FinishWith(w, o, schema)
      BY <2>6, <3>1, Zenon
    <3> QED BY <2>1, <2>2, <2>3, <2>4, <3>3, <3>4, FinishServes, ZenonT(30)
  <2> QED BY <2>1, <2>5, <2>6, Zenon
<1> QED BY <1>3, <1>4, <1>5, <1>6, Zenon

\* Every step keeps the invariant of the pipeline.
LEMMA ServingStep ==
    ASSUME ServingInv, SchemaInv, RegistryInv, load \in Workloads, [IngressNext]_requestVars
    PROVE  ServingInv'
<1>1. CASE UNCHANGED <<ctor, inst, work, build>>
  BY <1>1, LeftAlone, Zenon DEF ServingInv
<1>2. CASE UNCHANGED requestVars \/ Tick \/ ClearStep
  BY <1>1, <1>2, Zenon DEF requestVars, ingressVars, schemaVars, Tick, ClearStep, ClearSchemaCache
<1>3. load.workers \subseteq Builders
  BY WorkloadAssumption, Zenon
<1>4. ASSUME NEW w \in load.workers,
             \/ \E o \in load.options : StartBuild(w, o) \/ BuildPlain(w, o)
             \/ CompileStep(w) \/ InsertStep(w) \/ FinishBuild(w)
      PROVE  ServingInv'
  BY <1>3, <1>4, ConstructionServes, Zenon
<1>5. ASSUME NEW w \in load.workers,
             \/ EarlyStages(w) \/ ReadClock(w) \/ Check(w) \/ LateStages(w) \/ PanicAndRetry(w)
             \/ \E r \in load.requests, v \in {"components", "packed"}, c \in load.caps :
                   Enter(w, r, v, c)
      PROVE  ServingInv'
  BY <1>3, <1>5, RequestServed, Zenon
<1> QED BY <1>2, <1>4, <1>5, Zenon DEF IngressNext

\* The invariants of the cache, the registry and the pipeline hold together.
IngressInv == SchemaInv /\ load \in Workloads /\ RegistryInv /\ ServingInv

LEMMA IngressInvariant == IngressSpec => []IngressInv
<1>1. IngressInit => IngressInv
  BY SchemaInitially, RegistryInitially, ServingInitially, SMTT(30) DEF IngressInit, IngressInv
<1>2. IngressInv /\ [IngressNext]_requestVars => IngressInv'
  BY SchemaStep, RegistryStep, ServingStep, SMTT(30) DEF IngressInv
<1> QED BY <1>1, <1>2, PTL DEF IngressSpec

\* An instance keeps its options.
LEMMA OptionsKept ==
    ASSUME NEW cfg, BuiltFrom(cfg)
    PROVE  /\ cfg.opts \in AllOptions /\ cfg.guard = cfg.opts.guard
           /\ cfg.maxBody = cfg.opts.maxBody /\ cfg.metaBytes = cfg.opts.metaBytes
<1>1. PICK o, s, l : o = cfg.opts /\ s = cfg.schema /\ l = cfg.limiter
  OBVIOUS
<1>2. cfg = Instance(o, s, l) /\ o \in AllOptions
  BY <1>1, ZenonT(30) DEF BuiltFrom
<1>3. cfg.guard = o.guard /\ cfg.maxBody = o.maxBody /\ cfg.metaBytes = o.metaBytes
  BY <1>2, Zenon DEF Instance
<1> QED BY <1>1, <1>2, <1>3, Zenon

\* What is known of a request that was answered.
LEMMA WhatWasAnswered ==
    ASSUME IngressInv, NEW w \in Builders, Answered(w)
    PROVE  /\ BuiltFrom(inst[w][1])
           /\ inst[w][1].maxBody \in Nat /\ inst[w][1].metaBytes \in Nat
           /\ WellFormed(work[w].req[1]) /\ work[w].cap \in Nat /\ DataStart <= work[w].cap
           /\ Produced(inst[w][1], work[w].req[1], work[w].cap, work[w].decision[1])
<1>1. /\ BuiltFrom(inst[w][1]) /\ work[w].req[1] \in AllRequests /\ work[w].cap \in AllCaps
      /\ Produced(inst[w][1], work[w].req[1], work[w].cap, work[w].decision[1])
  BY Zenon DEF IngressInv, ServingInv, Serving, Answered
<1>2. PICK cfg : cfg = inst[w][1]
  OBVIOUS
<1>3. PICK o \in AllOptions : cfg.maxBody = o.maxBody /\ cfg.metaBytes = o.metaBytes
  BY <1>1, <1>2, OptionsKept, Zenon
<1>4. o.maxBody \in Nat /\ o.metaBytes \in Nat
  BY WorkloadAssumption, Zenon DEF AllOptions
<1>5. WellFormed(work[w].req[1])
  BY <1>1, WorkloadAssumption, Zenon DEF AllRequests
<1>6. work[w].cap \in Nat /\ DataStart <= work[w].cap
  BY <1>1, WorkloadAssumption, Zenon DEF AllCaps
<1> QED BY <1>1, <1>2, <1>3, <1>4, <1>5, <1>6, ZenonT(30)

\* However schemas are shared, collide, are evicted or flushed while requests
\* run, a request is answered 200 only with a body within the guard that conforms
\* to the schema of the options its instance was constructed from
\* (pipeline.rs:311-383).
THEOREM AcceptedConform == IngressSpec => []AcceptedBodiesConform
<1>1. IngressInv => AcceptedBodiesConform
  <2> SUFFICES ASSUME IngressInv, NEW w \in Builders, Answered(w),
                      work[w].decision[1].status = 200
               PROVE  LET opts == inst[w][1].opts
                          body == work[w].req[1].body
                      IN  /\ opts.guard => body.len <= opts.maxBody
                          /\ EnforceJson(inst[w][1], work[w].req[1]) => body.json
                          /\ Present(opts.schema) /\ body.len > 0
                               => opts.schema[1] \in body.conforms
    BY Zenon DEF AcceptedBodiesConform
  <2>1. PICK cfg, req, cap, d :
            cfg = inst[w][1] /\ req = work[w].req[1] /\ cap = work[w].cap
            /\ d = work[w].decision[1]
    OBVIOUS
  <2>2. /\ BuiltFrom(cfg) /\ cfg.maxBody \in Nat /\ cfg.metaBytes \in Nat
        /\ WellFormed(req) /\ cap \in Nat /\ DataStart <= cap /\ Produced(cfg, req, cap, d)
    BY <2>1, WhatWasAnswered, ZenonT(30)
  <2>3. d.status = 200
    BY <2>1, Zenon
  <2>4. BodyFits(cfg, req)
    <3>1. d.status = 200 => BodyFits(cfg, req)
      BY <2>2, AnswersHonest
    <3> QED BY <2>3, <3>1
  <2>5. /\ cfg.guard => req.body.len <= cfg.maxBody
        /\ EnforceJson(cfg, req) => BodyConforms(cfg, req.body)
    BY <2>4, Zenon DEF BodyFits
  <2>6. cfg.guard = cfg.opts.guard /\ cfg.maxBody = cfg.opts.maxBody
    BY <2>2, OptionsKept, Zenon
  <2>7. /\ Present(cfg.schema) <=> Present(cfg.opts.schema)
        /\ Present(cfg.schema) => cfg.schema[1].bytes = cfg.opts.schema[1]
    BY <2>2, Zenon DEF BuiltFrom
  <2>8. /\ EnforceJson(cfg, req) => req.body.json
        /\ Present(cfg.opts.schema) /\ req.body.len > 0
             => cfg.opts.schema[1] \in req.body.conforms
    BY <2>5, <2>7, Zenon DEF EnforceJson, BodyConforms
  <2> QED BY <2>1, <2>5, <2>6, <2>8, ZenonT(30)
<1> QED BY <1>1, IngressInvariant, PTL

\* Every decision fits its buffer and says of itself what is true: truncation is
\* reported, CORS headers go to allowed requests only, and 429 comes with its
\* flag and its header variant (pipeline.rs:264-434, output.rs).
THEOREM DecisionsHonest == IngressSpec => []DecisionHonest
<1>1. IngressInv => DecisionHonest
  <2>1. ASSUME IngressInv, NEW w \in Builders, Answered(w)
        PROVE  Honest(inst[w][1], work[w].req[1], work[w].cap, work[w].decision[1])
    <3>1. PICK cfg, req, cap, d :
              cfg = inst[w][1] /\ req = work[w].req[1] /\ cap = work[w].cap
              /\ d = work[w].decision[1]
      OBVIOUS
    <3>2. /\ cfg.maxBody \in Nat /\ cfg.metaBytes \in Nat /\ WellFormed(req)
          /\ cap \in Nat /\ DataStart <= cap /\ Produced(cfg, req, cap, d)
      BY <2>1, <3>1, WhatWasAnswered, Zenon
    <3>3. Honest(cfg, req, cap, d)
      BY <3>2, AnswersHonest, ZenonT(30)
    <3> QED BY <3>1, <3>3, ZenonT(30)
  <2> QED BY <2>1, Zenon DEF DecisionHonest, Honest
<1> QED BY <1>1, IngressInvariant, PTL

\* A preflight that was answered 204 is not contradicted by the answer to the
\* request it announced, whatever the lists of the instance (cors.rs:97-157).
THEOREM PreflightsHonest == IngressSpec => []PreflightHonest
<1>1. IngressInv => PreflightHonest
  <2> SUFFICES ASSUME IngressInv, NEW w \in Builders, Answered(w),
                      work[w].decision[1].status = 204
               PROVE  CorsResult(inst[w][1], Announced(work[w].req[1])).allowed
    BY Zenon DEF PreflightHonest
  <2>1. PICK cfg, req, cap, d :
            cfg = inst[w][1] /\ req = work[w].req[1] /\ cap = work[w].cap
            /\ d = work[w].decision[1]
    OBVIOUS
  <2>2. /\ cfg.maxBody \in Nat /\ cfg.metaBytes \in Nat /\ WellFormed(req)
        /\ cap \in Nat /\ DataStart <= cap /\ Produced(cfg, req, cap, d)
    BY <2>1, WhatWasAnswered, ZenonT(30)
  <2>3. d.status = 204
    BY <2>1, Zenon
  <2>4. Granted(cfg, req)
    <3>1. d.status = 204 => Granted(cfg, req)
      BY <2>2, AnswersHonest, SMTT(30)
    <3> QED BY <2>3, <3>1, Zenon
  <2>5. Upheld(cfg, req)
    BY <2>2, <2>4, PreflightStands, Zenon
  <2> QED BY <2>1, <2>5, Zenon DEF Upheld
<1> QED BY <1>1, IngressInvariant, PTL

\* Whatever a client writes in front of X-Forwarded-For, the hop nearest to the
\* server that is not a trusted proxy decides which client is charged, for lists
\* of any length (ip_trust.rs:148-210).
THEOREM NearestHop == IngressSpec => []NearestHopDecides
<1>1. IngressInv => NearestHopDecides
  <2>1. ASSUME IngressInv, NEW w \in Builders, Answered(w), NEW x,
               Present(work[w].req[1].h.xff),
               ForwardedStop(inst[w][1].trust, work[w].req[1].h.xff[1]) # {},
               Parses(work[w].req[1].h.xff[1][Max(ForwardedStop(inst[w][1].trust,
                                                                work[w].req[1].h.xff[1]))])
        PROVE  ClientOf(inst[w][1], [work[w].req[1] EXCEPT
                                        !.h.xff = Some(<<x>> \o work[w].req[1].h.xff[1])])
                 = ClientOf(inst[w][1], work[w].req[1])
    <3>1. PICK cfg, req : cfg = inst[w][1] /\ req = work[w].req[1]
      OBVIOUS
    <3>2. WellFormed(req)
      BY <2>1, <3>1, WhatWasAnswered, Zenon
    <3>3. /\ Present(req.h.xff) /\ ForwardedStop(cfg.trust, req.h.xff[1]) # {}
          /\ Parses(req.h.xff[1][Max(ForwardedStop(cfg.trust, req.h.xff[1]))])
      BY <2>1, <3>1, Zenon
    <3>4. ClientOf(cfg, [req EXCEPT !.h.xff = Some(<<x>> \o req.h.xff[1])]) = ClientOf(cfg, req)
      BY <3>2, <3>3, ClientStays, Zenon
    <3> QED BY <3>1, <3>4, Zenon
  <2> QED BY <2>1, Zenon DEF NearestHopDecides
<1> QED BY <1>1, IngressInvariant, PTL

=============================================================================
