-------------------------- MODULE RateLimitProofs ---------------------------
(***************************************************************************)
(* What the limiters of NativeIngress admit and report, for any workloads, *)
(* keys, limits and windows and however the clock readings of the workers  *)
(* interleave with their checks: how many of a key's requests pass in a    *)
(* window of time (WindowBound), and that a reported `remaining` is the    *)
(* number of further checks that would pass (RemainingExact).              *)
(***************************************************************************)
EXTENDS NativeIngressProofs

(* How many checks in a row a key has room for.                            *)

\* The definition of the function in Room.
RoomRun(f, l, key, now) ==
    f = [n \in 0 .. l.limit |->
            IF n = 0 THEN [l |-> l, k |-> 0]
            ELSE LET c == CheckKey(f[n - 1].l, key, now)
                 IN  [l |-> c.limiter, k |-> f[n - 1].k + (IF c.outcome.allowed THEN 1 ELSE 0)]]

\* One check more of the row.
RoomStep(s, key, now) ==
    LET c == CheckKey(s.l, key, now)
    IN  [l |-> c.limiter, k |-> s.k + (IF c.outcome.allowed THEN 1 ELSE 0)]

\* A key whose window weighs v has room for the rest of the limit.
LEMMA RoomLeft ==
    ASSUME NEW l, NEW key \in Keys, NEW now \in Nat, NEW v \in Nat, Weighs(l, key, now, v),
           v <= l.limit
    PROVE  Room(l, key, now) = l.limit - v
<1> DEFINE m == l.limit
           M == {s \in [l : Limiters, k : Nat] :
                    s.l.limit = m /\ v + s.k <= m /\ Weighs(s.l, key, now, v + s.k)}
           start == [l |-> l, k |-> 0]
           step == [i \in 1 .. m |-> [s \in M |-> RoomStep(s, key, now)]]
           f == CHOOSE h : RoomRun(h, l, key, now)
<1>1. Room(l, key, now) = f[m].k
  BY Zenon DEF Room, RoomRun
<1>2. l \in Limiters /\ m \in Nat
  BY LimiterFields, Zenon DEF Weighs
<1>3. ASSUME NEW s \in M
      PROVE  /\ RoomStep(s, key, now) \in M
             /\ RoomStep(s, key, now).k = IF s.k < m - v THEN s.k + 1 ELSE s.k
  <2> DEFINE c == CheckKey(s.l, key, now)
             k2 == s.k + (IF c.outcome.allowed THEN 1 ELSE 0)
             u == v + s.k
  <2>1. /\ s.l \in Limiters /\ s.k \in Nat /\ s.l.limit = m /\ u <= m /\ Weighs(s.l, key, now, u)
    OBVIOUS
  <2> HIDE DEF M, m, u, c
  <2>2. /\ u \in Nat /\ c.outcome.allowed \in BOOLEAN /\ (c.outcome.allowed <=> u < m)
        /\ Weighs(c.limiter, key, now, IF u < m THEN u + 1 ELSE u) /\ c.limiter.limit = m
    <3>1. c = CheckKey(s.l, key, now)
      BY DEF c
    <3>2. /\ u \in Nat /\ c.outcome.allowed \in BOOLEAN /\ (c.outcome.allowed <=> u < s.l.limit)
          /\ Weighs(c.limiter, key, now, IF u < s.l.limit THEN u + 1 ELSE u)
          /\ c.limiter.limit = s.l.limit
      BY <2>1, <3>1, CheckAgain
    <3> QED BY <2>1, <3>2, Zenon
  <2>3. c.limiter \in Limiters
    BY <2>2, Zenon DEF Weighs
  <2>4. RoomStep(s, key, now) = [l |-> c.limiter, k |-> k2]
    BY Zenon DEF RoomStep, c
  <2>5. k2 \in Nat /\ k2 = IF s.k < m - v THEN s.k + 1 ELSE s.k
    BY <1>2, <2>1, <2>2 DEF u
  <2>6. v + k2 = IF u < m THEN u + 1 ELSE u
    BY <1>2, <2>1, <2>2 DEF u
  <2> HIDE DEF k2
  <2>7. v + k2 <= m
    BY <1>2, <2>1, <2>2, <2>6, SMTT(30)
  <2>8. /\ RoomStep(s, key, now) \in [l : Limiters, k : Nat]
        /\ RoomStep(s, key, now).l = c.limiter /\ RoomStep(s, key, now).k = k2
    BY <2>3, <2>4, <2>5
  <2>9. Weighs(c.limiter, key, now, v + k2)
    BY <2>2, <2>6, Zenon
  <2>10. RoomStep(s, key, now) \in M
    BY <2>2, <2>7, <2>8, <2>9, Zenon DEF M
  <2> QED BY <2>5, <2>8, <2>10, Zenon
<1>4. start \in M /\ start.k = 0
  <2>1. v + 0 = v
    OBVIOUS
  <2>2. start \in [l : Limiters, k : Nat] /\ start.l = l /\ start.k = 0
    BY <1>2
  <2> HIDE DEF start
  <2>3. start.l.limit = m /\ v + start.k = v
    BY <2>1, <2>2, Zenon
  <2> QED BY <2>2, <2>3, Zenon
<1> HIDE DEF M, start
<1>5. step \in [1 .. m -> [M -> M]]
  <2>1. [s \in M |-> RoomStep(s, key, now)] \in [M -> M]
    BY <1>3, Zenon
  <2> QED BY <2>1, Zenon
<1>6. PICK g : Iterates(g, M, start, step, m)
  <2> HIDE DEF step, m
  <2> QED BY <1>2, <1>4, <1>5, Iteration, Zenon
<1>7. RoomRun(g, l, key, now)
  <2>1. g \in [0 .. m -> M] /\ g[0] = start /\ \A i \in 1 .. m : g[i] = step[i][g[i - 1]]
    BY <1>6, Zenon DEF Iterates
  <2>2. ASSUME NEW i \in 0 .. m
        PROVE  g[i] = IF i = 0 THEN start ELSE RoomStep(g[i - 1], key, now)
    <3>1. CASE i = 0
      BY <2>1, <3>1, Zenon
    <3>2. CASE i # 0
      <4>1. i \in 1 .. m /\ i - 1 \in 0 .. m
        BY <1>2, <3>2
      <4>2. g[i - 1] \in M /\ g[i] = step[i][g[i - 1]]
        BY <2>1, <4>1, Zenon
      <4>3. step[i][g[i - 1]] = RoomStep(g[i - 1], key, now)
        BY <4>1, <4>2, Zenon
      <4> QED BY <3>2, <4>2, <4>3, Zenon
    <3> QED BY <3>1, <3>2, Zenon
  <2>3. g = [i \in 0 .. m |-> IF i = 0 THEN start ELSE RoomStep(g[i - 1], key, now)]
    <3> HIDE DEF m, step
    <3> QED BY <2>1, <2>2, Zenon
  <2> QED BY <2>3, Zenon DEF RoomRun, RoomStep, start
<1>8. RoomRun(f, l, key, now)
  BY <1>7, Zenon
<1> HIDE DEF f, step
<1>9. \A i \in 0 .. m : f[i] = IF i = 0 THEN start ELSE RoomStep(f[i - 1], key, now)
  BY <1>8, Zenon DEF RoomRun, RoomStep, start
<1> DEFINE P == {i \in 0 .. m : f[i] \in M /\ f[i].k = IF i < m - v THEN i ELSE m - v}
<1> HIDE DEF m
<1>10. v <= m
  BY DEF m
<1>11. 0 \in P
  <2>1. 0 \in 0 .. m /\ 0 = IF 0 < m - v THEN 0 ELSE m - v
    BY <1>2, <1>10
  <2> QED BY <1>4, <1>9, <2>1, Zenon
<1>12. ASSUME NEW i \in 1 .. m, i - 1 \in P PROVE i \in P
  <2>1. i \in 0 .. m /\ i # 0
    BY <1>2
  <2>2. /\ f[i - 1] \in M /\ f[i] = RoomStep(f[i - 1], key, now)
        /\ f[i - 1].k = IF i - 1 < m - v THEN i - 1 ELSE m - v
    BY <1>9, <1>12, <2>1, Zenon
  <2>3. /\ f[i] \in M
        /\ f[i].k = IF f[i - 1].k < m - v THEN f[i - 1].k + 1 ELSE f[i - 1].k
    BY <1>3, <2>2, Zenon
  <2>4. f[i].k = IF i < m - v THEN i ELSE m - v
    BY <1>2, <1>10, <2>2, <2>3, SMTT(30)
  <2> QED BY <2>1, <2>3, <2>4, Zenon
<1>13. m \in P
  <2> HIDE DEF P
  <2>1. \A i \in 0 .. m : i \in P
    BY <1>2, <1>11, <1>12, UpTo, Zenon
  <2>2. m \in 0 .. m
    BY <1>2
  <2> QED BY <2>1, <2>2, Zenon
<1>14. f[m].k = IF m < m - v THEN m ELSE m - v
  BY <1>13, Zenon
<1>15. f[m].k = m - v
  BY <1>2, <1>10, <1>14
<1> QED BY <1>1, <1>15, Zenon DEF m

-----------------------------------------------------------------------------
(***************************************************************************)
(* The limiters in the pipeline.                                           *)
(***************************************************************************)

\* A request that is about to be checked is one of an instance with a limiter.
Ready(w, r) == r.now \in Nat /\ (r.pc \in {"clock", "check"} => inst[w][1].limiter # 0)

\* A resident key's counter follows the readings of its admissions, and nothing
\* is kept of other keys; an instance's limiter exists.
RateInv ==
    /\ clock \in Nat
    /\ limiters \in Seq(Limiters)
    /\ DOMAIN admitted \subseteq (1 .. Len(limiters)) \X Keys
    /\ \A id \in 1 .. Len(limiters), key \in Keys : Traced(limiters[id], id, key, admitted)
    /\ \A w \in Builders : Present(inst[w]) => inst[w][1].limiter \in 0 .. Len(limiters)
    /\ \A w \in Builders : Ready(w, work[w])

\* Initially there is no limiter.
LEMMA RateInitially == IngressInit => RateInv
<1> SUFFICES ASSUME IngressInit PROVE RateInv
  OBVIOUS
<1>1. /\ limiters = <<>> /\ inst = [w \in Builders |-> None] /\ clock = 0
      /\ work = [w \in Builders |-> NoWork] /\ admitted = <<>>
  BY Zenon DEF IngressInit, LimiterInit
<1>2. limiters \in Seq(Limiters) /\ Len(limiters) = 0 /\ DOMAIN admitted = {} /\ clock \in Nat
  BY <1>1
<1>3. 1 .. 0 = {}
  OBVIOUS
<1>4. \A w \in Builders : ~Present(inst[w])
  BY <1>1 DEF Present
<1>5. NoWork.now = 0 /\ NoWork.pc = "idle"
  BY DEF NoWork
<1>6. \A w \in Builders : Ready(w, work[w])
  BY <1>1, <1>5 DEF Ready
<1>7. DOMAIN admitted \subseteq (1 .. Len(limiters)) \X Keys
  BY <1>2, Zenon
<1>8. \A id \in 1 .. Len(limiters), key \in Keys : Traced(limiters[id], id, key, admitted)
  BY <1>2, <1>3, Zenon
<1> QED BY <1>2, <1>4, <1>6, <1>7, <1>8, Zenon DEF RateInv

\* A step that leaves the limiters, their readings and the instances alone.
LEMMA RateStays ==
    ASSUME RateInv, UNCHANGED <<limiters, admitted, inst>>, clock' \in Nat,
           \A w \in Builders : Ready(w, work'[w])
    PROVE  RateInv'
<1>1. \A w \in Builders : Ready(w, work[w])'
  BY Zenon DEF Ready
<1> QED BY <1>1, Zenon DEF RateInv

\* A step of one request that leaves them alone.
LEMMA RateRequest ==
    ASSUME RateInv, ServingInv, UNCHANGED <<limiters, admitted, inst, clock>>,
           NEW w \in Builders, NEW r, work' = [work EXCEPT ![w] = r], Ready(w, r)
    PROVE  RateInv'
<1>1. \A v \in Builders : Ready(v, work'[v])
  BY Zenon DEF RateInv, ServingInv
<1>2. clock' \in Nat
  BY Zenon DEF RateInv
<1> QED BY <1>1, <1>2, RateStays, Zenon

\* The client of a request has a key.
LEMMA KeyExists ==
    ASSUME NEW cfg, BuiltFrom(cfg), NEW req \in AllRequests
    PROVE  RateKey(ClientOf(cfg, req)) \in Keys
<1>1. PICK o, s, l : o = cfg.opts /\ s = cfg.schema /\ l = cfg.limiter
  OBVIOUS
<1>2. cfg = Instance(o, s, l) /\ o \in AllOptions
  BY <1>1, ZenonT(30) DEF BuiltFrom
<1>3. cfg.trust = TrustOf(o)
  BY <1>2, Zenon DEF Instance
<1>4. PICK x \in Workloads, y \in Workloads : o \in x.options /\ req \in y.requests
  BY <1>2, Zenon DEF AllOptions, AllRequests
<1>5. RateKey(ResolveClientIp(TrustOf(o), req.ip, req.h)) \in Keys
  BY <1>4, WorkloadAssumption, Zenon
<1> QED BY <1>3, <1>5, Zenon DEF ClientOf

\* A constructor gets a limiter that is there, or a new one that knows no key.
LEMMA RateFinish ==
    ASSUME RateInv, RegistryInv, ServingInv, NEW w \in Builders, NEW o \in AllOptions, NEW schema,
           FinishWith(w, o, schema), ~Present(inst[w]), UNCHANGED <<work, admitted, clock>>
    PROVE  RateInv'
<1>1. \A x : Some(x)[1] = x /\ Present(Some(x))
  BY SMTT(30) DEF Some, Present, None
<1>2. /\ DOMAIN inst = Builders /\ work[w] = NoWork
  BY Zenon DEF ServingInv, Serving
<1>3. \A id : Instance(o, schema, id).limiter = id
  BY Zenon DEF Instance
<1>4. /\ clock \in Nat /\ limiters \in Seq(Limiters)
      /\ DOMAIN admitted \subseteq (1 .. Len(limiters)) \X Keys
      /\ \A id \in 1 .. Len(limiters), key \in Keys : Traced(limiters[id], id, key, admitted)
      /\ \A v \in Builders : Present(inst[v]) => inst[v][1].limiter \in 0 .. Len(limiters)
      /\ \A v \in Builders : Ready(v, work[v])
  BY Zenon DEF RateInv
<1>n. Len(limiters) \in Nat
  BY <1>4
<1>5. NoWork.now = 0 /\ NoWork.pc = "idle"
  BY DEF NoWork
<1>6. CASE UNCHANGED <<limiterVars, inst>>
  <2>1. UNCHANGED <<limiters, admitted, inst>> /\ clock' \in Nat
    BY <1>4, <1>6, Zenon DEF limiterVars
  <2> QED BY <1>4, <2>1, RateStays, Zenon
<1>7. ASSUME NEW id, inst' = [inst EXCEPT ![w] = Some(Instance(o, schema, id))],
             limiters' \in Seq(Limiters), id \in 0 .. Len(limiters'), Len(limiters) <= Len(limiters'),
             \A x \in 1 .. Len(limiters'), key \in Keys : Traced(limiters'[x], x, key, admitted)
      PROVE  RateInv'
  <2>1. /\ inst'[w][1].limiter = id
        /\ \A v \in Builders : v # w => inst'[v] = inst[v]
    BY <1>1, <1>2, <1>3, <1>7, Zenon
  <2>n. Len(limiters') \in Nat
    BY <1>7
  <2>2. 0 .. Len(limiters) \subseteq 0 .. Len(limiters') /\ 1 .. Len(limiters) \subseteq 1 .. Len(limiters')
    BY <1>n, <1>7, <2>n
  <2>3. \A v \in Builders : Present(inst'[v]) => inst'[v][1].limiter \in 0 .. Len(limiters')
    BY <1>4, <1>7, <2>1, <2>2, Zenon
  <2>4. ASSUME NEW v \in Builders PROVE Ready(v, work[v])'
    <3>1. CASE v = w
      <4>1. work'[v] = NoWork
        BY <1>2, <3>1, Zenon
      <4>2. 0 \in Nat /\ "idle" \notin {"clock", "check"}
        OBVIOUS
      <4> QED BY <1>5, <4>1, <4>2, Zenon DEF Ready
    <3>2. CASE v # w
      BY <1>4, <2>1, <3>2, Zenon DEF Ready
    <3> QED BY <3>1, <3>2
  <2>5. DOMAIN admitted' \subseteq (1 .. Len(limiters')) \X Keys
    <3> DEFINE A == 1 .. Len(limiters)
               B == 1 .. Len(limiters')
    <3>1. A \subseteq B /\ DOMAIN admitted \subseteq A \X Keys
      BY <1>4, <2>2, Zenon
    <3> HIDE DEF A, B
    <3>2. DOMAIN admitted \subseteq B \X Keys
      BY <3>1, Zenon
    <3> QED BY <3>2, Zenon DEF B
  <2>6. clock' \in Nat /\ limiters' \in Seq(Limiters)
    BY <1>4, <1>7, Zenon
  <2>7. \A x \in 1 .. Len(limiters'), key \in Keys : Traced(limiters'[x], x, key, admitted')
    BY <1>7, Zenon
  <2> QED BY <2>3, <2>4, <2>5, <2>6, <2>7, Zenon DEF RateInv
<1>8. CASE /\ inst' = [inst EXCEPT ![w] = Some(Instance(o, schema, 0))]
           /\ UNCHANGED limiterVars
  <2>1. limiters' = limiters
    BY <1>8, Zenon DEF limiterVars
  <2>2. 0 \in 0 .. Len(limiters) /\ Len(limiters) <= Len(limiters)
    BY <1>n
  <2> QED BY <1>4, <1>7, <1>8, <2>1, <2>2, Zenon
<1>9. ASSUME WantsLimiter(o), NEW id,
             SharedLimiter(o.rate[1].limit, o.rate[1].window, o.rate[1].entries, id),
             inst' = [inst EXCEPT ![w] = Some(Instance(o, schema, id))]
      PROVE  RateInv'
  <2> DEFINE limit == o.rate[1].limit
             window == o.rate[1].window
             entries == ResolvedEntries(o.rate[1].entries)
             k == LimiterKey(o.rate[1].limit, o.rate[1].window, o.rate[1].entries)
  <2>1. CASE LruHas(registry, k)
    <3>1. id = LruPeek(registry, k) /\ limiters' = limiters
      BY <1>9, <2>1, ZenonT(30) DEF SharedLimiter
    <3> HIDE DEF k
    <3>2. [key |-> k, val |-> id] \in Entries(registry)
      BY <2>1, <3>1, Peeked, Zenon DEF RegistryInv
    <3>3. id \in 1 .. Len(limiters)
      <4> DEFINE e == [key |-> k, val |-> id]
      <4>1. e.val = id
        OBVIOUS
      <4> HIDE DEF e
      <4>2. e.val \in 1 .. Len(limiters)
        BY <3>2, Zenon DEF RegistryInv, e
      <4> QED BY <4>1, <4>2, Zenon
    <3>4. id \in 0 .. Len(limiters) /\ Len(limiters) <= Len(limiters)
      BY <1>n, <3>3
    <3> QED BY <1>4, <1>7, <1>9, <3>1, <3>4, Zenon
  <2>2. CASE ~LruHas(registry, k)
    <3> DEFINE new == NewLimiter(limit, window, entries)
               n == Len(limiters)
    <3>1. id = Len(limiters) + 1 /\ limiters' = Append(limiters, new)
      <4>1. k.entries = entries
        BY DEF LimiterKey
      <4>2. id = Len(limiters) + 1 /\ limiters' = Append(limiters, NewLimiter(limit, window, k.entries))
        BY <1>9, <2>2, ZenonT(30) DEF SharedLimiter
      <4> QED BY <4>1, <4>2, Zenon
    <3>2. /\ limit \in Nat \ {0, Unlimited} /\ window \in Nat /\ entries \in Nat
      <4>1. Present(o.rate) /\ limit \notin {0, Unlimited}
        BY <1>9, Zenon DEF WantsLimiter
      <4>2. {limit, window} \subseteq Nat /\ o.rate[1].entries \in Nat \cup {NoEntries}
        BY <4>1, WorkloadAssumption, Zenon DEF AllOptions
      <4>3. DefaultEntries \in Nat /\ EntriesCap \in Nat
        BY LimiterConstants
      <4>4. entries \in Nat
        <5> HIDE DEF limit, window
        <5> QED BY <4>2, <4>3 DEF ResolvedEntries, Smaller
      <4> QED BY <4>1, <4>2, <4>4, Zenon
    <3> HIDE DEF limit, window, entries, k
    <3>3. new \in Limiters /\ \A key \in Keys : ~Resident(new, key)
      <4>1. entries \in Nat \cup {NoEntries}
        BY <3>2
      <4> QED BY <3>2, <4>1, NewLimiterFields, Zenon
    <3> HIDE DEF new
    <3>4. /\ limiters' \in Seq(Limiters) /\ Len(limiters') = n + 1
          /\ limiters'[n + 1] = new /\ \A x \in 1 .. n : limiters'[x] = limiters[x]
      BY <1>4, <3>1, <3>3
    <3>5. ASSUME NEW x \in 1 .. n + 1, NEW key \in Keys
          PROVE  Traced(limiters'[x], x, key, admitted)
      <4>1. CASE x \in 1 .. n
        BY <1>4, <3>4, <4>1, Zenon
      <4>2. CASE x = n + 1
        <5>1. n + 1 \notin 1 .. n
          BY <1>n
        <5>2. <<x, key>> \notin DOMAIN admitted
          BY <1>4, <4>2, <5>1, Zenon
        <5> QED BY <3>3, <3>4, <4>2, <5>2, Zenon DEF Traced
      <4>3. x \in 1 .. n \/ x = n + 1
        BY <1>n
      <4> QED BY <4>1, <4>2, <4>3, Zenon
    <3>6. id \in 0 .. Len(limiters') /\ Len(limiters) <= Len(limiters')
      BY <1>n, <3>1, <3>4
    <3> QED BY <1>7, <1>9, <3>4, <3>5, <3>6, Zenon
  <2> QED BY <2>1, <2>2
<1> QED BY <1>6, <1>8, <1>9, Zenon DEF FinishWith

\* What is known of a request whose key is about to be checked.
LEMMA AboutToCheck ==
    ASSUME RateInv, ServingInv, NEW w \in Builders, work[w].pc = "check",
           NEW id, id = inst[w][1].limiter,
           NEW key, key = RateKey(ClientOf(inst[w][1], work[w].req[1]))
    PROVE  /\ id \in 1 .. Len(limiters) /\ limiters[id] \in Limiters /\ key \in Keys
           /\ work[w].now \in Nat
           /\ \A k \in Keys : Traced(limiters[id], id, k, admitted)
<1>1. /\ limiters \in Seq(Limiters) /\ Ready(w, work[w])
      /\ \A x \in 1 .. Len(limiters), k \in Keys : Traced(limiters[x], x, k, admitted)
  BY Zenon DEF RateInv
<1>2. Present(inst[w]) /\ work[w].req[1] \in AllRequests
  <2>1. work[w].pc # "idle"
    OBVIOUS
  <2> QED BY <2>1, InPipeline, Zenon
<1>3. BuiltFrom(inst[w][1]) /\ id \in 0 .. Len(limiters)
  BY <1>2, Zenon DEF ServingInv, Serving, RateInv
<1>4. id # 0 /\ work[w].now \in Nat
  BY <1>1, Zenon DEF Ready
<1>5. id \in 1 .. Len(limiters)
  BY <1>1, <1>3, <1>4
<1>6. limiters[id] \in Limiters
  BY <1>1, <1>5
<1>7. key \in Keys
  BY <1>2, <1>3, KeyExists, Zenon
<1> QED BY <1>1, <1>4, <1>5, <1>6, <1>7, Zenon

\* A check keeps every limiter's counters and readings together.
LEMMA RateCheck ==
    ASSUME RateInv, ServingInv, NEW w \in Builders, Check(w)
    PROVE  RateInv'
<1> DEFINE id == inst[w][1].limiter
           l == limiters[id]
           key == RateKey(ClientOf(inst[w][1], work[w].req[1]))
           now == work[w].now
           c == CheckKey(l, key, now)
           evicted == Evicted(l, key, now)
<1>1. /\ work[w].pc = "check" /\ limiters' = [limiters EXCEPT ![id] = c.limiter]
      /\ admitted' = Recorded(id, key, now, c.outcome.allowed, evicted)
      /\ UNCHANGED <<inst, clock>>
  BY Zenon DEF Check
<1>2. \/ \E d : Answer(w, d)
      \/ \E rate, n : work' = [work EXCEPT ![w] = [work[w] EXCEPT !.pc = "late",
                                                 !.rate = rate, !.charges = n]]
  BY Zenon DEF Check
<1>3. admitted' = Kept(admitted, id, key, now, c.outcome.allowed, evicted)
  BY <1>1, Zenon DEF Recorded, Readings, Kept, Noted
<1>4. /\ id \in 1 .. Len(limiters) /\ l \in Limiters /\ key \in Keys /\ now \in Nat
      /\ \A k \in Keys : Traced(l, id, k, admitted)
  <2> HIDE DEF id, key
  <2>1. id = inst[w][1].limiter /\ key = RateKey(ClientOf(inst[w][1], work[w].req[1]))
    BY DEF id, key
  <2> QED BY <1>1, <2>1, AboutToCheck, Zenon
<1> HIDE DEF id, l, key, now, evicted
<1>5. c.limiter \in Limiters /\ \A k \in Keys : Traced(c.limiter, id, k, admitted')
  <2> HIDE DEF c
  <2>1. c = CheckKey(l, key, now)
    BY DEF c
  <2>2. admitted' = Kept(admitted, id, key, now, c.outcome.allowed, Evicted(l, key, now))
    BY <1>3, Zenon DEF evicted
  <2> QED BY <1>4, <2>1, <2>2, CheckTraced, Zenon
<1> HIDE DEF c
<1>6. /\ clock \in Nat /\ limiters \in Seq(Limiters)
      /\ DOMAIN admitted \subseteq (1 .. Len(limiters)) \X Keys
      /\ \A x \in 1 .. Len(limiters), k \in Keys : Traced(limiters[x], x, k, admitted)
      /\ \A v \in Builders : Present(inst[v]) => inst[v][1].limiter \in 0 .. Len(limiters)
      /\ \A v \in Builders : Ready(v, work[v])
  BY Zenon DEF RateInv
<1>7. /\ limiters' \in Seq(Limiters) /\ Len(limiters') = Len(limiters)
      /\ limiters'[id] = c.limiter
      /\ \A x \in 1 .. Len(limiters) : x # id => limiters'[x] = limiters[x]
  BY <1>1, <1>4, <1>5, <1>6, SMTT(30)
<1>8. /\ DOMAIN admitted' = (DOMAIN admitted \ {<<id, k>> : k \in evicted}) \cup {<<id, key>>}
      /\ \A p \in DOMAIN admitted' : p # <<id, key>> => admitted'[p] = admitted[p]
  BY <1>3, Zenon DEF Kept
<1>9. DOMAIN admitted' \subseteq (1 .. Len(limiters')) \X Keys
  <2>1. <<id, key>> \in (1 .. Len(limiters)) \X Keys
    BY <1>4, Zenon
  <2> QED BY <1>6, <1>7, <1>8, <2>1, Zenon
<1>10. ASSUME NEW x \in 1 .. Len(limiters), NEW k \in Keys
       PROVE  Traced(limiters'[x], x, k, admitted')
  <2>1. CASE x = id
    BY <1>5, <1>7, <2>1, Zenon
  <2>2. CASE x # id
    <3>1. <<x, k>> # <<id, key>> /\ <<x, k>> \notin {<<id, j>> : j \in evicted}
      BY <2>2
    <3>2. /\ <<x, k>> \in DOMAIN admitted' <=> <<x, k>> \in DOMAIN admitted
          /\ <<x, k>> \in DOMAIN admitted' => admitted'[<<x, k>>] = admitted[<<x, k>>]
      BY <1>8, <3>1, Zenon
    <3>3. limiters'[x] = limiters[x] /\ Traced(limiters[x], x, k, admitted)
      BY <1>6, <1>7, <2>2, Zenon
    <3> QED BY <3>2, <3>3, Zenon DEF Traced
  <2> QED BY <2>1, <2>2
<1>11. DOMAIN NoWork = {"pc", "req", "via", "cap", "now", "rate", "charges", "decision"}
  BY DEF NoWork
<1>12. DOMAIN work[w] = DOMAIN NoWork /\ DOMAIN work = Builders
  BY Zenon DEF ServingInv, Serving
<1>13. /\ work'[w].now = now /\ work'[w].pc \in {"idle", "late"}
       /\ \A v \in Builders : v # w => work'[v] = work[v]
  <2>1. ASSUME NEW d, Answer(w, d)
        PROVE  /\ work'[w].now = now /\ work'[w].pc \in {"idle", "late"}
               /\ \A v \in Builders : v # w => work'[v] = work[v]
    BY <1>11, <1>12, <2>1, Zenon DEF Answer, now
  <2>2. ASSUME NEW rate, NEW n,
               work' = [work EXCEPT ![w] = [work[w] EXCEPT !.pc = "late", !.rate = rate,
                                                           !.charges = n]]
        PROVE  /\ work'[w].now = now /\ work'[w].pc \in {"idle", "late"}
               /\ \A v \in Builders : v # w => work'[v] = work[v]
    BY <1>11, <1>12, <2>2, Zenon DEF now
  <2> QED BY <1>2, <2>1, <2>2, Zenon
<1>14. ASSUME NEW v \in Builders PROVE Ready(v, work[v])'
  <2>1. CASE v = w
    <3>1. work'[w].pc \notin {"clock", "check"}
      BY <1>13
    <3> QED BY <1>4, <1>13, <2>1, <3>1, Zenon DEF Ready
  <2>2. CASE v # w
    BY <1>1, <1>6, <1>13, <2>2, Zenon DEF Ready
  <2> QED BY <2>1, <2>2
<1>15. \A v \in Builders : Present(inst'[v]) => inst'[v][1].limiter \in 0 .. Len(limiters')
  BY <1>1, <1>6, <1>7, Zenon
<1>16. \A x \in 1 .. Len(limiters'), k \in Keys : Traced(limiters'[x], x, k, admitted')
  BY <1>7, <1>10, Zenon
<1>17. clock' \in Nat
  BY <1>1, <1>6, Zenon
<1> QED BY <1>7, <1>9, <1>14, <1>15, <1>16, <1>17, Zenon DEF RateInv

\* Every step keeps them together.
LEMMA RateStep ==
    ASSUME RateInv, ServingInv, RegistryInv, load \in Workloads, [IngressNext]_requestVars
    PROVE  RateInv'
<1>1. clock \in Nat /\ \A w \in Builders : Ready(w, work[w])
  BY Zenon DEF RateInv
<1>2. load.workers \subseteq Builders /\ load.options \subseteq AllOptions
  BY WorkloadAssumption, Zenon DEF AllOptions
<1>3. CASE UNCHANGED <<limiters, admitted, inst, clock, work>>
  BY <1>1, <1>3, RateStays, Zenon
<1>4. CASE UNCHANGED requestVars
  BY <1>3, <1>4, Zenon DEF requestVars, limiterVars, ingressVars
<1>5. CASE Tick
  <2>1. /\ UNCHANGED <<limiters, admitted, inst, work>> /\ clock' = clock + 1
    BY <1>5, Zenon DEF Tick, limiterVars
  <2>2. clock' \in Nat
    BY <1>1, <2>1
  <2> QED BY <1>1, <2>1, <2>2, RateStays, Zenon
<1>6. CASE ClearStep
  BY <1>3, <1>6, Zenon DEF ClearStep, limiterVars
<1>7. ASSUME NEW w \in Builders, NEW o \in AllOptions, StartBuild(w, o) PROVE RateInv'
  BY <1>3, <1>7, Zenon DEF StartBuild, limiterVars
<1>8. ASSUME NEW w \in Builders, NEW o \in AllOptions, BuildPlain(w, o) PROVE RateInv'
  <2>1. FinishWith(w, o, None) /\ ~Present(inst[w]) /\ UNCHANGED <<work, admitted, clock>>
    BY <1>8, Zenon DEF BuildPlain, MayBuild
  <2> QED BY <2>1, RateFinish, Zenon
<1>9. ASSUME NEW w \in Builders, CompileStep(w) \/ InsertStep(w) PROVE RateInv'
  BY <1>3, <1>9, Zenon DEF CompileStep, InsertStep, limiterVars, ingressVars
<1>10. ASSUME NEW w \in Builders, FinishBuild(w) PROVE RateInv'
  <2>1. Present(ctor[w]) /\ UNCHANGED <<work, admitted, clock>>
    BY <1>10, Zenon DEF FinishBuild
  <2>2. PICK o \in AllOptions : ctor[w][1] = o
    <3>1. ctor[w] \in {None} \union {Some(p) : p \in AllOptions} /\ ctor[w] # None
      BY <2>1, ZenonT(30) DEF RegistryInv, Present
    <3>2. \A x : Some(x)[1] = x
      BY DEF Some
    <3> QED BY <3>1, <3>2, ZenonT(30)
  <2>3. ~Present(inst[w])
    BY <2>1, Zenon DEF ServingInv, Serving
  <2>4. UNCHANGED <<limiterVars, inst>> \/ \E schema : FinishWith(w, o, schema)
    BY <1>10, <2>2, Zenon DEF FinishBuild
  <2>5. CASE UNCHANGED <<limiterVars, inst>>
    BY <1>3, <2>1, <2>5, Zenon DEF limiterVars
  <2>6. CASE \E schema : FinishWith(w, o, schema)
    BY <2>1, <2>3, <2>6, RateFinish, Zenon
  <2> QED BY <2>4, <2>5, <2>6
<1>11. DOMAIN NoWork = {"pc", "req", "via", "cap", "now", "rate", "charges", "decision"}
  BY DEF NoWork
<1>12. DOMAIN work = Builders /\ \A w \in Builders : DOMAIN work[w] = DOMAIN NoWork
  BY Zenon DEF ServingInv, Serving
<1>13. NoWork.now = 0 /\ 0 \in Nat
  BY DEF NoWork
<1>14. ASSUME NEW w \in Builders, NEW q, NEW via, NEW cap, Enter(w, q, via, cap) PROVE RateInv'
  <2> DEFINE r == [NoWork EXCEPT !.pc = "early", !.req = Some(q), !.via = via, !.cap = cap]
  <2>1. UNCHANGED <<limiters, admitted, inst, clock>> /\ work' = [work EXCEPT ![w] = r]
    BY <1>14, Zenon DEF Enter, limiterVars
  <2>2. r.now = 0 /\ r.pc = "early" /\ "early" \notin {"clock", "check"}
    BY DEF NoWork
  <2> HIDE DEF r
  <2>3. Ready(w, r)
    BY <1>13, <2>2, Zenon DEF Ready
  <2> QED BY <2>1, <2>3, RateRequest, Zenon
<1>15. ASSUME NEW w \in Builders, NEW d, Answer(w, d), UNCHANGED <<limiters, admitted, inst, clock>>
       PROVE  RateInv'
  <2> DEFINE r == [work[w] EXCEPT !.pc = "idle", !.decision = Some(d)]
  <2>1. work' = [work EXCEPT ![w] = r]
    BY <1>12, <1>15, Zenon DEF Answer
  <2>2. r.now = work[w].now /\ r.pc = "idle"
    BY <1>11, <1>12, Zenon
  <2>3. "idle" \notin {"clock", "check"}
    OBVIOUS
  <2> HIDE DEF r
  <2>4. Ready(w, r)
    BY <1>1, <2>2, <2>3, Zenon DEF Ready
  <2> QED BY <1>15, <2>1, <2>4, RateRequest, Zenon
<1>16. ASSUME NEW w \in Builders, EarlyStages(w) PROVE RateInv'
  <2> DEFINE next == IF RateActive(inst[w][1]) THEN "clock" ELSE "late"
             r == [work[w] EXCEPT !.pc = next]
  <2>1. /\ UNCHANGED <<limiters, admitted, inst, clock>>
        /\ (\E d : Answer(w, d)) \/ work' = [work EXCEPT ![w] = r]
    BY <1>12, <1>16, Zenon DEF EarlyStages, limiterVars
  <2>2. r.now = work[w].now /\ r.pc = next
    BY <1>11, <1>12, Zenon
  <2>3. next \in {"clock", "check"} => inst[w][1].limiter # 0
    BY DEF RateActive
  <2> HIDE DEF r, next
  <2>4. Ready(w, r)
    BY <1>1, <2>2, <2>3, Zenon DEF Ready
  <2> QED BY <1>15, <2>1, <2>4, RateRequest, Zenon
<1>17. ASSUME NEW w \in Builders, ReadClock(w) PROVE RateInv'
  <2> DEFINE r == [work[w] EXCEPT !.pc = "check", !.now = clock]
  <2>1. /\ UNCHANGED <<limiters, admitted, inst, clock>> /\ work[w].pc = "clock"
        /\ work' = [work EXCEPT ![w] = r]
    BY <1>12, <1>17, Zenon DEF ReadClock, limiterVars
  <2>2. r.now = clock
    BY <1>11, <1>12, Zenon
  <2> HIDE DEF r
  <2>3. Ready(w, r)
    BY <1>1, <2>1, <2>2, Zenon DEF Ready
  <2> QED BY <2>1, <2>3, RateRequest, Zenon
<1>18. ASSUME NEW w \in Builders, LateStages(w) PROVE RateInv'
  <2>1. UNCHANGED <<limiters, admitted, inst, clock>> /\ \E d : Answer(w, d)
    BY <1>18, Zenon DEF LateStages, limiterVars
  <2> QED BY <1>15, <2>1, Zenon
<1>19. ASSUME NEW w \in Builders, PanicAndRetry(w) PROVE RateInv'
  <2> DEFINE r == [NoWork EXCEPT !.pc = "early", !.req = work[w].req, !.via = "packed",
                                 !.cap = work[w].cap, !.charges = work[w].charges]
  <2>1. UNCHANGED <<limiters, admitted, inst, clock>> /\ work' = [work EXCEPT ![w] = r]
    BY <1>19, Zenon DEF PanicAndRetry, limiterVars
  <2>2. r.now = 0 /\ r.pc = "early" /\ "early" \notin {"clock", "check"}
    BY DEF NoWork
  <2> HIDE DEF r
  <2>3. Ready(w, r)
    BY <1>13, <2>2, Zenon DEF Ready
  <2> QED BY <2>1, <2>3, RateRequest, Zenon
<1>20. ASSUME NEW w \in Builders, Check(w) PROVE RateInv'
  BY <1>20, RateCheck, Zenon
<1>21. CASE IngressNext
  <2>1. ASSUME NEW w \in load.workers,
               \/ \E o \in load.options : StartBuild(w, o) \/ BuildPlain(w, o)
               \/ CompileStep(w) \/ InsertStep(w) \/ FinishBuild(w)
               \/ \E r \in load.requests, v \in {"components", "packed"}, c \in load.caps :
                     Enter(w, r, v, c)
               \/ EarlyStages(w) \/ ReadClock(w) \/ Check(w) \/ LateStages(w) \/ PanicAndRetry(w)
        PROVE  RateInv'
    <3>1. w \in Builders
      BY <1>2, Zenon
    <3> QED BY <1>2, <1>7, <1>8, <1>9, <1>10, <1>14, <1>16, <1>17, <1>18, <1>19, <1>20, <2>1, <3>1, ZenonT(30)
  <2> QED BY <1>5, <1>6, <1>21, <2>1, Zenon DEF IngressNext
<1> QED BY <1>4, <1>21, Zenon

\* The invariants of the pipeline and of the limiters.
LimitedInv == IngressInv /\ RateInv

\* Both hold throughout.
LEMMA LimitedInvariant == IngressSpec => []LimitedInv
<1>1. IngressInit => LimitedInv
  BY SchemaInitially, RegistryInitially, ServingInitially, RateInitially, Zenon
     DEF IngressInit, IngressInv, LimitedInv
<1>2. LimitedInv /\ [IngressNext]_requestVars => LimitedInv'
  BY SchemaStep, RegistryStep, ServingStep, RateStep, Zenon DEF IngressInv, LimitedInv
<1> QED BY <1>1, <1>2, PTL DEF IngressSpec

\* However workers read the clock, wait for the shard and overtake each other,
\* and whatever is evicted: no interval as long as the window admits more of a
\* resident key's requests than the weighting of the previous window allows, for
\* any limit, window, shard count and capacity (rate_limit.rs:101-176).
THEOREM WindowsBounded == IngressSpec => []WindowBound
<1>1. LimitedInv => WindowBound
  <2> SUFFICES ASSUME RateInv PROVE WindowBound
    BY DEF LimitedInv
  <2>1. ASSUME NEW p \in DOMAIN admitted, NEW l, l = limiters[p[1]], NEW at, at = admitted[p],
               NEW i \in DOMAIN at
        PROVE  Cardinality({j \in DOMAIN at : at[j] \in at[i] .. at[i] + l.window - 1})
                 <= Larger(l.limit, 2 * l.limit - (2 * l.limit) \div l.window)
    <3>1. /\ limiters \in Seq(Limiters) /\ p \in (1 .. Len(limiters)) \X Keys
          /\ \A id \in 1 .. Len(limiters), key \in Keys : Traced(limiters[id], id, key, admitted)
      BY <2>1, Zenon DEF RateInv
    <3>2. PICK id \in 1 .. Len(limiters), key \in Keys : p = <<id, key>> /\ p[1] = id
      BY <3>1
    <3>3. l \in Limiters
      BY <2>1, <3>1, <3>2
    <3>4. Follows(l.limit, l.window, Tally(l, key), at)
      BY <2>1, <3>1, <3>2, Zenon DEF Traced
    <3>5. PICK m, w : m = l.limit /\ w = l.window
      OBVIOUS
    <3>6. m \in Nat \ {0} /\ w \in Nat \ {0}
      BY <3>3, <3>5, LimiterFields, Zenon
    <3>7. at \in Seq(Nat) /\ Spread(m, w, at)
      BY <3>4, <3>5, Zenon DEF Follows
    <3>8. Cardinality({j \in DOMAIN at : at[j] \in at[i] .. at[i] + w - 1}) <= Most(m, w)
      BY <2>1, <3>6, <3>7, SpreadBounds, Zenon
    <3> QED BY <3>5, <3>8, Zenon DEF Most
  <2> QED BY <2>1, Zenon DEF WindowBound
<1> QED BY <1>1, LimitedInvariant, PTL

\* An admitted request is one whose check admitted it.
LEMMA AdmittedByCheck ==
    ASSUME ServingInv, load \in Workloads, [IngressNext]_requestVars,
           NEW w \in Builders, work[w].pc = "check", work'[w].pc = "late"
    PROVE  Check(w)
<1>1. DOMAIN NoWork = {"pc", "req", "via", "cap", "now", "rate", "charges", "decision"}
  BY DEF NoWork
<1>2. DOMAIN work = Builders /\ \A v \in Builders : DOMAIN work[v] = DOMAIN NoWork
  BY Zenon DEF ServingInv, Serving
<1>3. load.workers \subseteq Builders
  BY WorkloadAssumption, Zenon
<1>4. ASSUME work'[w] = work[w] PROVE FALSE
  BY <1>4
<1>5. ASSUME NEW v \in Builders, NEW r, work' = [work EXCEPT ![v] = r]
      PROVE  v = w /\ r.pc = "late"
  <2>1. v = w
    BY <1>2, <1>4, <1>5, Zenon
  <2> QED BY <1>2, <1>5, <2>1, Zenon
<1>6. ASSUME NEW v \in Builders, NEW d, Answer(v, d) PROVE FALSE
  <2> DEFINE r == [work[v] EXCEPT !.pc = "idle", !.decision = Some(d)]
  <2>1. work' = [work EXCEPT ![v] = r]
    BY <1>2, <1>6, Zenon DEF Answer
  <2>2. r.pc = "idle"
    BY <1>1, <1>2, Zenon
  <2> HIDE DEF r
  <2> QED BY <1>5, <2>1, <2>2, Zenon
<1>7. CASE UNCHANGED requestVars
  BY <1>4, <1>7, Zenon DEF requestVars, ingressVars
<1>8. CASE Tick \/ ClearStep
  BY <1>4, <1>8, Zenon DEF Tick, ClearStep
<1>9. ASSUME NEW v \in Builders,
             \/ \E o \in load.options : StartBuild(v, o) \/ BuildPlain(v, o)
             \/ CompileStep(v) \/ InsertStep(v) \/ FinishBuild(v)
      PROVE  FALSE
  BY <1>4, <1>9, Zenon
     DEF StartBuild, BuildPlain, CompileStep, InsertStep, FinishBuild, ingressVars
<1>10. ASSUME NEW v \in Builders, NEW q, NEW via, NEW c, Enter(v, q, via, c) PROVE FALSE
  <2> DEFINE r == [NoWork EXCEPT !.pc = "early", !.req = Some(q), !.via = via, !.cap = c]
  <2>1. work' = [work EXCEPT ![v] = r]
    BY <1>10, Zenon DEF Enter
  <2>2. r.pc = "early"
    BY DEF NoWork
  <2> HIDE DEF r
  <2> QED BY <1>5, <2>1, <2>2, Zenon
<1>11. ASSUME NEW v \in Builders, EarlyStages(v) PROVE FALSE
  <2> DEFINE next == IF RateActive(inst[v][1]) THEN "clock" ELSE "late"
             r == [work[v] EXCEPT !.pc = next]
  <2>1. /\ work[v].pc = "early"
        /\ (\E d : Answer(v, d)) \/ work' = [work EXCEPT ![v] = r]
    BY <1>2, <1>11, Zenon DEF EarlyStages
  <2> HIDE DEF r
  <2>2. v # w
    BY <2>1
  <2> QED BY <1>5, <1>6, <2>1, <2>2, Zenon
<1>12. ASSUME NEW v \in Builders, ReadClock(v) PROVE FALSE
  <2> DEFINE r == [work[v] EXCEPT !.pc = "check", !.now = clock]
  <2>1. work' = [work EXCEPT ![v] = r]
    BY <1>2, <1>12, Zenon DEF ReadClock
  <2>2. r.pc = "check"
    BY <1>1, <1>2, Zenon
  <2> HIDE DEF r
  <2> QED BY <1>5, <2>1, <2>2, Zenon
<1>13. ASSUME NEW v \in Builders, LateStages(v) PROVE FALSE
  BY <1>6, <1>13, Zenon DEF LateStages
<1>14. ASSUME NEW v \in Builders, PanicAndRetry(v) PROVE FALSE
  <2> DEFINE r == [NoWork EXCEPT !.pc = "early", !.req = work[v].req, !.via = "packed",
                                 !.cap = work[v].cap, !.charges = work[v].charges]
  <2>1. work' = [work EXCEPT ![v] = r]
    BY <1>14, Zenon DEF PanicAndRetry
  <2>2. r.pc = "early"
    BY DEF NoWork
  <2> HIDE DEF r
  <2> QED BY <1>5, <2>1, <2>2
<1>15. ASSUME NEW v \in Builders, Check(v) PROVE v = w
  <2>1. \/ \E d : Answer(v, d)
        \/ \E rate, n : work' = [work EXCEPT ![v] = [work[v] EXCEPT !.pc = "late",
                                                   !.rate = rate, !.charges = n]]
    BY <1>15, ZenonT(30) DEF Check
  <2> QED BY <1>5, <1>6, <2>1, Zenon
<1> QED BY <1>3, <1>7, <1>8, <1>9, <1>10, <1>11, <1>12, <1>13, <1>14, <1>15, ZenonT(30) DEF IngressNext

\* Whatever the window, its previous count and the moment of the check, an
\* admitted request reports exactly as many remaining requests as would be
\* admitted at the same instant (rate_limit.rs:126-146).
THEOREM RemainingCorrect == IngressSpec => RemainingExact
<1> DEFINE Exact ==
        \A w \in Builders :
           work[w].pc = "check" /\ work'[w].pc = "late" =>
              Room(limiters'[inst[w][1].limiter],
                   RateKey(ClientOf(inst[w][1], work[w].req[1])), work[w].now)
              = work'[w].rate.remaining
<1>1. ASSUME LimitedInv, [IngressNext]_requestVars PROVE Exact
  <2> SUFFICES ASSUME NEW w \in Builders, work[w].pc = "check", work'[w].pc = "late"
               PROVE  Room(limiters'[inst[w][1].limiter],
                           RateKey(ClientOf(inst[w][1], work[w].req[1])), work[w].now)
                        = work'[w].rate.remaining
    BY Zenon
  <2> DEFINE id == inst[w][1].limiter
             l == limiters[id]
             key == RateKey(ClientOf(inst[w][1], work[w].req[1]))
             now == work[w].now
             c == CheckKey(l, key, now)
             rate == [limit |-> l.limit, remaining |-> c.outcome.remaining,
                      reset |-> c.outcome.reset,
                      retry |-> IF c.outcome.allowed THEN 0 ELSE Minus(c.outcome.reset, now)]
             r == [work[w] EXCEPT !.pc = "late", !.rate = rate, !.charges = @ + 1]
             d == AdvanceWindow(CounterOf(l, key, now), now, l.window)
             v == Weighted(d, now, l.window)
  <2>1. RateInv /\ ServingInv /\ load \in Workloads
    BY <1>1, Zenon DEF LimitedInv, IngressInv
  <2>2. Check(w)
    BY <1>1, <2>1, AdmittedByCheck, Zenon
  <2>3. /\ limiters' = [limiters EXCEPT ![id] = c.limiter]
        /\ \/ c.outcome.allowed /\ work' = [work EXCEPT ![w] = r]
           \/ \E x : Answer(w, x)
    BY <2>2, Zenon DEF Check
  <2>4. /\ DOMAIN work = Builders /\ DOMAIN work[w] = DOMAIN NoWork
        /\ DOMAIN NoWork = {"pc", "req", "via", "cap", "now", "rate", "charges", "decision"}
    <3>1. DOMAIN NoWork = {"pc", "req", "via", "cap", "now", "rate", "charges", "decision"}
      BY DEF NoWork
    <3> QED BY <2>1, <3>1, Zenon DEF ServingInv, Serving
  <2>5. c.outcome.allowed /\ work'[w].rate.remaining = c.outcome.remaining
    <3>1. ASSUME NEW x, Answer(w, x) PROVE FALSE
      <4>1. work'[w].pc = "idle"
        BY <2>4, <3>1, ZenonT(30) DEF Answer
      <4> QED BY <4>1
    <3>2. rate.remaining = c.outcome.remaining
      OBVIOUS
    <3> HIDE DEF rate, c
    <3>3. r.rate = rate
      BY <2>4, Zenon
    <3> HIDE DEF r
    <3> QED BY <2>3, <2>4, <3>1, <3>2, <3>3, Zenon
  <2>6. /\ id \in 1 .. Len(limiters) /\ l \in Limiters /\ key \in Keys /\ now \in Nat
        /\ \A k \in Keys : Traced(l, id, k, admitted)
    <3> HIDE DEF id, key
    <3>1. id = inst[w][1].limiter /\ key = RateKey(ClientOf(inst[w][1], work[w].req[1]))
      BY DEF id, key
    <3> QED BY <2>1, <3>1, AboutToCheck, Zenon
  <2>7. limiters'[id] = c.limiter
    <3>1. limiters \in Seq(Limiters)
      BY <2>1, Zenon DEF RateInv
    <3> HIDE DEF id, c
    <3>2. id \in DOMAIN limiters
      BY <2>6, <3>1
    <3> QED BY <2>3, <3>2, Zenon
  <2> HIDE DEF rate, r, id, l, key, now
  <2>8. CounterOf(l, key, now) \in CounterType
    <3>1. /\ l.shards \in [Shards -> LruMaps(Keys, CounterType)]
      BY <2>6, LimiterFields, Zenon
    <3>2. ShardFor(l, key) \in LruMaps(Keys, CounterType)
      BY <2>6, <3>1, ShardExists DEF ShardFor
    <3>3. CASE Resident(l, key)
      BY <3>2, <3>3, Peeked, Zenon DEF CounterOf, Resident, ShardFor
    <3>4. CASE ~Resident(l, key)
      <4>1. CounterOf(l, key, now) = FreshCounter(now)
        BY <3>4, Zenon DEF CounterOf, Resident, ShardFor
      <4>2. FreshCounter(now) \in CounterType
        BY <2>6, FreshTyped, Zenon
      <4> QED BY <4>1, <4>2, Zenon
    <3> QED BY <3>3, <3>4
  <2>9. /\ v \in Nat /\ v < l.limit /\ c.outcome.remaining = l.limit - (v + 1)
        /\ Weighs(c.limiter, key, now, v + 1) /\ c.limiter.limit = l.limit
    <3> HIDE DEF c, d, v
    <3>1. c = CheckKey(l, key, now) /\ v = Weighted(d, now, l.window)
          /\ d = AdvanceWindow(CounterOf(l, key, now), now, l.window)
      BY Zenon DEF c, d, v
    <3>2. Decides(l, key, now, v, c)
      BY <2>6, <2>8, <3>1, CheckWeighs, Zenon
    <3> QED BY <2>5, <3>2, Zenon DEF Decides
  <2> HIDE DEF c, d, v
  <2>10. l.limit \in Nat
    BY <2>6, LimiterFields, Zenon
  <2>11. v + 1 \in Nat /\ v + 1 <= c.limiter.limit
    BY <2>9, <2>10
  <2>12. Room(c.limiter, key, now) = c.limiter.limit - (v + 1)
    BY <2>6, <2>9, <2>11, RoomLeft, Zenon
  <2>13. Room(limiters'[id], key, now) = work'[w].rate.remaining
    BY <2>5, <2>7, <2>9, <2>12, Zenon
  <2> QED BY <2>13, Zenon DEF id, key, now
<1>2. LimitedInv /\ [IngressNext]_requestVars => [Exact]_requestVars
  BY <1>1, Zenon
<1>3. [][Exact]_requestVars => RemainingExact
  BY DEF RemainingExact
<1> HIDE DEF Exact
<1> QED BY <1>2, <1>3, LimitedInvariant, PTL DEF IngressSpec

=============================================================================
