---------------------------- MODULE SchemaCache ----------------------------
(***************************************************************************)
(* rust/ingress/schema_cache.rs: the process-wide cache of compiled        *)
(* schemas.  A lookup that misses compiles without the lock and checks     *)
(* again before it inserts; each step between two lock operations is an    *)
(* action, so builders on several threads interleave there.                *)
(***************************************************************************)
EXTENDS Collections, FiniteSets

CONSTANTS
    Builders,         \* threads that construct ingress instances or routes
    Schemas,          \* serialized schemas (the bytes are the identity)
    BadSchemas,       \* the ones that do not compile
    SchemaHash(_),    \* xxh3 of the bytes; may collide
    CacheCap          \* the resolved CASTRUM_SCHEMA_CACHE_MAX

ASSUME CacheAssumption == Schemas # {} /\ CacheCap \in Nat \ {0}

VARIABLES
    cache,      \* LRU map: hash -> [bytes, arc]
    compiled,   \* arc -> the schema it was compiled from, in creation order
    build,      \* each builder: where it is, for which bytes, with which arc
    era         \* per schema: how often its entry left the cache (history)

schemaVars == <<cache, compiled, build, era>>

NoArc == 0

Idle == [pc |-> "idle", bytes |-> CHOOSE s \in Schemas : TRUE, arc |-> NoArc, era |-> 0]

SchemaInit ==
    /\ cache = <<>>
    /\ compiled = <<>>
    /\ build = [b \in Builders |-> Idle]
    /\ era = [s \in Schemas |-> 0]

\* A hash hit counts only when the stored bytes are the requested ones.
Hit(bytes) ==
    /\ LruHas(cache, SchemaHash(bytes))
    /\ LruPeek(cache, SchemaHash(bytes)).bytes = bytes

CachedBytes(map) == {map[i].val.bytes : i \in DOMAIN map}

\* The era of every schema that is in the cache before and not after moves on.
EraAfter(new) ==
    [s \in Schemas |->
        era[s] + (IF s \in CachedBytes(cache) \ CachedBytes(new) THEN 1 ELSE 0)]

Take(b, bytes) ==
    build' = [build EXCEPT ![b] =
                 [pc |-> "have", bytes |-> bytes, era |-> era[bytes],
                  arc |-> LruPeek(cache, SchemaHash(bytes)).arc]]

\* The first lookup (the lock is dropped at the end of it).
Lookup(b, bytes) ==
    /\ build[b].pc = "idle"
    /\ cache' = LruGet(cache, SchemaHash(bytes))
    /\ \/ Hit(bytes) /\ Take(b, bytes)
       \/ ~Hit(bytes) /\ build' = [build EXCEPT ![b] = [@ EXCEPT !.pc = "compile",
                                                               !.bytes = bytes]]
    /\ UNCHANGED <<compiled, era>>

\* IngressSchema::compile, outside the lock; an error is returned, not cached.
Compile(b) ==
    /\ build[b].pc = "compile"
    /\ \/ /\ build[b].bytes \in BadSchemas
          /\ build' = [build EXCEPT ![b].pc = "failed"]
          /\ UNCHANGED compiled
       \/ /\ build[b].bytes \notin BadSchemas
          /\ compiled' = Append(compiled, build[b].bytes)
          /\ build' = [build EXCEPT ![b] = [@ EXCEPT !.pc = "insert",
                                                    !.arc = Len(compiled) + 1]]
    /\ UNCHANGED <<cache, era>>

\* Mutant: the insertion does not look again.
InsertUnchecked(b) ==
    LET bytes == build[b].bytes
        new   == LruPut(cache, SchemaHash(bytes),
                        [bytes |-> bytes, arc |-> build[b].arc], CacheCap)
    IN  /\ build[b].pc = "insert"
        /\ cache' = new
        /\ era' = EraAfter(new)
        /\ build' = [build EXCEPT ![b] = [@ EXCEPT !.pc = "have", !.era = era[bytes]]]
        /\ UNCHANGED compiled

\* The second lookup and the insertion, under one lock.
Insert(b) ==
    LET bytes == build[b].bytes
        new   == LruPut(cache, SchemaHash(bytes),
                        [bytes |-> bytes, arc |-> build[b].arc], CacheCap)
    IN  /\ build[b].pc = "insert"
        /\ \/ Hit(bytes) /\ Take(b, bytes)
              /\ cache' = LruGet(cache, SchemaHash(bytes)) /\ UNCHANGED era
           \/ /\ ~Hit(bytes)
              /\ cache' = new
              /\ era' = EraAfter(new)
              /\ build' = [build EXCEPT ![b] = [@ EXCEPT !.pc = "have",
                                                        !.era = era[bytes]]]
        /\ UNCHANGED compiled

\* clear_schema_cache, the hook of flushMemory().
ClearSchemaCache ==
    /\ cache' = <<>>
    /\ era' = EraAfter(<<>>)
    /\ UNCHANGED <<compiled, build>>

(***************************************************************************)
(* Properties                                                              *)
(***************************************************************************)

\* A builder is never handed a schema compiled from other bytes, whatever
\* hashes collide; and builders that asked for the same bytes hold one shared
\* instance unless the entry left the cache between them: two threads that both
\* miss do not end up with a copy each ("prefer the first inserter's Arc",
\* schema_cache.rs:87-108).
SharedWhileCached ==
    /\ \A b \in Builders :
          build[b].pc = "have" => compiled[build[b].arc] = build[b].bytes
    /\ \A a, b \in Builders :
          /\ build[a].pc = "have" /\ build[b].pc = "have"
          /\ build[a].bytes = build[b].bytes
          /\ build[a].era = build[b].era
          => build[a].arc = build[b].arc

=============================================================================
