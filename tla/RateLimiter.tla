---------------------------- MODULE RateLimiter ----------------------------
(***************************************************************************)
(* rust/ingress/rate_limit.rs: the keyed limiter (shards of bounded LRU    *)
(* maps, one counter per key, a window that advances) and the process-wide *)
(* registry that hands instances of one configuration the same limiter.    *)
(* A shard is only touched under its lock, so a check is one step.         *)
(***************************************************************************)
EXTENDS Collections

CONSTANTS
    Keys,           \* rate keys (hashes of client addresses), naturals
    ShardCount,     \* SHARD_COUNT
    MinPerShard,    \* the floor of a shard's capacity (64)
    DefaultEntries, \* DEFAULT_MAX_ENTRIES
    EntriesCap,     \* MAX_ENTRIES_CAP
    MaxLimiters,    \* MAX_SHARED_LIMITERS
    Unlimited,      \* u32::MAX
    NoEntries       \* maxEntries left out

ASSUME LimiterConstants ==
    /\ Keys \subseteq Nat
    /\ {ShardCount, MinPerShard, DefaultEntries, EntriesCap, MaxLimiters,
        Unlimited} \subseteq Nat \ {0}

VARIABLES
    limiters,   \* every KeyedRateLimiter made so far; the index is its identity
    registry    \* SHARED_LIMITERS: LRU map from configuration to limiter index

limiterVars == <<limiters, registry>>

Smaller(a, b) == IF a < b THEN a ELSE b
Larger(a, b) == IF a < b THEN b ELSE a

\* saturating_sub
Minus(a, b) == IF a < b THEN 0 ELSE a - b

ResolvedEntries(entries) ==
    Smaller(IF entries = NoEntries THEN DefaultEntries ELSE entries, EntriesCap)

NewLimiter(limit, window, entries) ==
    [limit  |-> limit,
     window |-> Larger(window, 1),
     cap    |-> Larger(ResolvedEntries(entries) \div ShardCount, MinPerShard),
     shards |-> [s \in 0 .. ShardCount - 1 |-> <<>>]]

FreshCounter(now) == [start |-> now, prev |-> 0, curr |-> 0]

\* Two windows of silence start afresh; one hands its count to `prev`.
AdvanceWindow(c, now, window) ==
    LET elapsed == Minus(now, c.start)
    IN  IF elapsed < window THEN c
        ELSE IF elapsed >= 2 * window THEN FreshCounter(now)
        ELSE [start |-> c.start + window, prev |-> c.curr, curr |-> 0]

\* Mutant: the previous window is forgotten.
WeightedCurrent(c, now, window) == c.curr

\* The previous window counts for the part of it the sliding window still
\* covers, rounded down.
Weighted(c, now, window) ==
    LET elapsed == Minus(now, c.start)
        overlap == Minus(window, Smaller(elapsed, window))
    IN  (c.prev * overlap) \div window + c.curr

\* Mutant: the admitted request itself is not counted in what remains.
CheckCounterGenerous(old, now, limit, window) ==
    LET c == AdvanceWindow(old, now, window)
        w == Weighted(c, now, window)
    IN  [counter |-> IF w < limit THEN [c EXCEPT !.curr = @ + 1] ELSE c,
         outcome |-> [allowed |-> w < limit, remaining |-> Minus(limit, w),
                      reset |-> c.start + window]]

\* The counter after a check at `now`, and the outcome.
CheckCounter(old, now, limit, window) ==
    LET c == AdvanceWindow(old, now, window)
        w == Weighted(c, now, window)
    IN  IF w < limit
          THEN [counter |-> [c EXCEPT !.curr = @ + 1],
                outcome |-> [allowed |-> TRUE, remaining |-> Minus(limit, w + 1),
                             reset |-> c.start + window]]
          ELSE [counter |-> c,
                outcome |-> [allowed |-> FALSE, remaining |-> 0,
                             reset |-> c.start + window]]

ShardOf(key) == key % ShardCount

CounterOf(l, key, now) ==
    LET shard == l.shards[ShardOf(key)]
    IN  IF LruHas(shard, key) THEN LruPeek(shard, key) ELSE FreshCounter(now)

\* check_key: the limiter after it and the outcome.
CheckKey(l, key, now) ==
    LET closed  == [allowed |-> FALSE, remaining |-> 0, reset |-> now + l.window]
        open    == [allowed |-> TRUE, remaining |-> Unlimited, reset |-> now + l.window]
        checked == CheckCounter(CounterOf(l, key, now), now, l.limit, l.window)
    IN  IF l.limit = 0 THEN [limiter |-> l, outcome |-> closed]
        ELSE IF l.limit = Unlimited THEN [limiter |-> l, outcome |-> open]
        ELSE [limiter |-> [l EXCEPT !.shards[ShardOf(key)] =
                              LruPut(@, key, checked.counter, l.cap)],
              outcome |-> checked.outcome]

\* The keys a check of `key` pushes out of the full shard.
Evicted(l, key, now) ==
    LET s == ShardOf(key)
    IN  LruDropped(l.shards[s], CheckKey(l, key, now).limiter.shards[s])

\* Mutant: the window is not part of the key.
LimiterKeyWindowless(limit, window, entries) ==
    [limit |-> limit, entries |-> ResolvedEntries(entries)]

LimiterKey(limit, window, entries) ==
    [limit |-> limit, window |-> window, entries |-> ResolvedEntries(entries)]

RegistryFull(limit, window, entries) ==
    /\ ~LruHas(registry, LimiterKey(limit, window, entries))
    /\ Len(registry) >= MaxLimiters

\* shared_limiter: the limiter of this configuration, made on first use; `id`
\* is the one the caller gets.  A full registry refuses (RegistryFull).
SharedLimiter(limit, window, entries, id) ==
    LET key == LimiterKey(limit, window, entries)
    IN  IF LruHas(registry, key)
          THEN /\ id = LruPeek(registry, key)
               /\ registry' = LruGet(registry, key)
               /\ UNCHANGED limiters
          ELSE /\ Len(registry) < MaxLimiters
               /\ id = Len(limiters) + 1
               /\ limiters' = Append(limiters,
                                     NewLimiter(limit, window, key.entries))
               /\ registry' = LruPut(registry, key, id, MaxLimiters)

\* The napi class RateLimiter: a limiter of its own, not in the registry.
StandaloneLimiter(limit, window, entries) ==
    /\ limiters' = Append(limiters, NewLimiter(limit, window, entries))
    /\ UNCHANGED registry

LimiterInit == limiters = <<>> /\ registry = <<>>

=============================================================================
