---------------------------- MODULE IngressLemmas ---------------------------
(***************************************************************************)
(* Lemmas about the parts of the native ingress.  LRU maps, which the      *)
(* schema cache and the registry of limiters rest on; the schema cache,    *)
(* for any builders, schemas, hash function and capacity, with the         *)
(* invariant that every operation on it keeps; the pipeline, for any       *)
(* instance and request: which answers there are, and what each says; and  *)
(* the limiter, for any limit, window and clock: how a counter follows the *)
(* readings it was charged at, and what a check does to the other keys.    *)
(***************************************************************************)
EXTENDS SchemaCache, RateLimiter, Decision, FiniteSetTheorems, WellFoundedInduction, TLAPS

(***************************************************************************)
(* An LRU map has one entry for a key; the lemmas say what `get` and `put` *)
(* leave in it.                                                            *)
(***************************************************************************)
Entries(map) == {map[i] : i \in DOMAIN map}

LruMaps(K, V) ==
    {map \in Seq([key : K, val : V]) :
        \A i, j \in DOMAIN map : map[i].key = map[j].key => i = j}

\* What an LRU map is, index by index.
LEMMA Indexed ==
    ASSUME NEW K, NEW V, NEW map \in LruMaps(K, V)
    PROVE  /\ map \in Seq([key : K, val : V])
           /\ Len(map) \in Nat /\ DOMAIN map = 1 .. Len(map)
           /\ \A i \in 1 .. Len(map) : map[i] \in [key : K, val : V]
           /\ \A i, j \in 1 .. Len(map) : map[i].key = map[j].key => i = j
<1> DEFINE E == [key : K, val : V]
<1>1. map \in Seq(E) /\ \A i, j \in DOMAIN map : map[i].key = map[j].key => i = j
  BY DEF LruMaps
<1> HIDE DEF E
<1>2. /\ Len(map) \in Nat /\ DOMAIN map = 1 .. Len(map)
      /\ \A i \in 1 .. Len(map) : map[i] \in E
  BY <1>1
<1> QED BY <1>1, <1>2, Zenon DEF E

\* A lookup finds the one entry of its key.
LEMMA Peeked ==
    ASSUME NEW K, NEW V, NEW map \in LruMaps(K, V), NEW k, LruHas(map, k)
    PROVE  /\ LruIndex(map, k) \in DOMAIN map /\ map[LruIndex(map, k)].key = k
           /\ k \in K /\ LruPeek(map, k) \in V
           /\ map[LruIndex(map, k)] = [key |-> k, val |-> LruPeek(map, k)]
           /\ [key |-> k, val |-> LruPeek(map, k)] \in Entries(map)
<1>1. \E i \in DOMAIN map : map[i].key = k
  BY DEF LruHas, LruKeys
<1>2. LruIndex(map, k) \in DOMAIN map /\ map[LruIndex(map, k)].key = k
  BY <1>1 DEF LruIndex
<1>3. map[LruIndex(map, k)] \in [key : K, val : V]
  <2>1. /\ DOMAIN map = 1 .. Len(map)
        /\ \A i \in 1 .. Len(map) : map[i] \in [key : K, val : V]
    BY Indexed, Zenon
  <2> QED BY <1>2, <2>1, Zenon
<1>4. map[LruIndex(map, k)] = [key |-> k, val |-> LruPeek(map, k)]
  BY <1>2, <1>3 DEF LruPeek
<1> QED BY <1>2, <1>3, <1>4 DEF Entries, LruPeek

\* Two entries of one key are one entry.
LEMMA OneEntry ==
    ASSUME NEW K, NEW V, NEW map \in LruMaps(K, V),
           NEW e \in Entries(map), NEW f \in Entries(map), e.key = f.key
    PROVE  e = f
BY DEF Entries, LruMaps

\* Taking a key out leaves the other entries.
LEMMA Without ==
    ASSUME NEW K, NEW V, NEW map \in LruMaps(K, V), NEW k
    PROVE  /\ LruWithout(map, k) \in LruMaps(K, V)
           /\ Entries(LruWithout(map, k)) = {e \in Entries(map) : e.key # k}
           /\ LruHas(map, k) => Len(LruWithout(map, k)) = Len(map) - 1
<1>1. CASE ~LruHas(map, k)
  BY <1>1 DEF LruWithout, LruHas, LruKeys, Entries
<1>2. CASE LruHas(map, k)
  <2> DEFINE n == LruIndex(map, k)
             rest == LruWithout(map, k)
  <2>1. n \in 1 .. Len(map) /\ map[n].key = k
    <3>1. DOMAIN map = 1 .. Len(map)
      BY Indexed
    <3>2. LruIndex(map, k) \in DOMAIN map /\ map[LruIndex(map, k)].key = k
      <4>1. \E i \in DOMAIN map : map[i].key = k
        BY <1>2 DEF LruHas, LruKeys
      <4> QED BY <4>1 DEF LruIndex
    <3> QED BY <3>1, <3>2, Zenon
  <2>2. /\ rest = [i \in 1 .. Len(map) - 1 |-> IF i < n THEN map[i] ELSE map[i + 1]]
        /\ Len(map) \in Nat /\ Len(map) - 1 \in Nat
    BY <1>2, <2>1, Indexed DEF LruWithout
  <2> HIDE DEF n, rest
  <2>3. \A i \in 1 .. Len(map) - 1 : rest[i] \in [key : K, val : V]
    <3>1. \A i \in 1 .. Len(map) - 1 : i \in 1 .. Len(map) /\ i + 1 \in 1 .. Len(map)
      BY <2>2
    <3> QED BY <2>2, <3>1, Indexed, Zenon
  <2>4. rest \in Seq([key : K, val : V]) /\ Len(rest) = Len(map) - 1
    BY <2>2, <2>3
  <2>5. \A i, j \in 1 .. Len(map) - 1 : rest[i].key = rest[j].key => i = j
    <3> DEFINE source(i) == IF i < n THEN i ELSE i + 1
    <3>1. \A i \in 1 .. Len(map) - 1 : source(i) \in 1 .. Len(map) /\ rest[i] = map[source(i)]
      BY <2>1, <2>2
    <3>2. \A i, j \in 1 .. Len(map) - 1 : source(i) = source(j) => i = j
      BY <2>1, <2>2
    <3>3. \A i, j \in 1 .. Len(map) : map[i].key = map[j].key => i = j
      BY Indexed, Zenon
    <3> HIDE DEF source
    <3> QED BY <3>1, <3>2, <3>3, SMTT(30)
  <2>6. ASSUME NEW e \in Entries(rest) PROVE e \in Entries(map) /\ e.key # k
    <3>1. PICK i \in 1 .. Len(map) - 1 : e = rest[i]
      BY <2>2 DEF Entries
    <3>2. PICK j \in 1 .. Len(map) : e = map[j] /\ j # n
      BY <2>1, <2>2, <3>1
    <3>3. e.key # k
      BY <2>1, <3>2, Indexed, Zenon
    <3> QED BY <3>2, <3>3, Indexed DEF Entries
  <2>7. ASSUME NEW e \in Entries(map), e.key # k PROVE e \in Entries(rest)
    <3>1. PICK j \in 1 .. Len(map) : e = map[j]
      BY Indexed DEF Entries
    <3>2. j # n
      BY <2>1, <2>7, <3>1, Zenon
    <3>3. CASE j < n
      <4>1. j \in 1 .. Len(map) - 1 /\ rest[j] = e
        BY <2>1, <2>2, <3>1, <3>3
      <4> QED BY <2>2, <4>1, Zenon DEF Entries
    <3>4. CASE j > n
      <4>1. j - 1 \in 1 .. Len(map) - 1 /\ rest[j - 1] = e
        BY <2>1, <2>2, <3>1, <3>4
      <4> QED BY <2>2, <4>1, Zenon DEF Entries
    <3> QED BY <2>1, <3>2, <3>3, <3>4
  <2>8. rest \in LruMaps(K, V)
    BY <2>2, <2>4, <2>5, ZenonT(30) DEF LruMaps
  <2>9. Entries(rest) = {e \in Entries(map) : e.key # k}
    BY <2>6, <2>7
  <2> QED BY <2>4, <2>8, <2>9, Zenon DEF rest
<1> QED BY <1>1, <1>2

\* An entry of a key that the rest does not have becomes the first one.
LEMMA Pushed ==
    ASSUME NEW K, NEW V, NEW rest \in LruMaps(K, V), NEW k \in K, NEW v \in V,
           \A e \in Entries(rest) : e.key # k
    PROVE  LET map == <<[key |-> k, val |-> v]>> \o rest
           IN  /\ map \in LruMaps(K, V)
               /\ Entries(map) = {[key |-> k, val |-> v]} \union Entries(rest)
               /\ Len(map) = Len(rest) + 1
<1> DEFINE first == [key |-> k, val |-> v]
           map == <<first>> \o rest
<1>1. /\ first \in [key : K, val : V] /\ first.key = k
      /\ rest \in Seq([key : K, val : V])
      /\ Len(rest) \in Nat /\ DOMAIN rest = 1 .. Len(rest)
  BY Indexed
<1> HIDE DEF first
<1>2. /\ map \in Seq([key : K, val : V]) /\ Len(map) = Len(rest) + 1
      /\ DOMAIN map = 1 .. Len(rest) + 1
      /\ map[1] = first /\ \A i \in 1 .. Len(rest) : map[i + 1] = rest[i]
  <2> DEFINE E == [key : K, val : V]
  <2>1. first \in E /\ rest \in Seq(E)
    BY <1>1
  <2> HIDE DEF E
  <2>2. /\ map \in Seq(E) /\ Len(map) = Len(rest) + 1
        /\ map[1] = first /\ \A i \in 1 .. Len(rest) : map[i + 1] = rest[i]
    BY <2>1
  <2> QED BY <1>1, <2>2 DEF E
<1> HIDE DEF map
<1>3. ASSUME NEW i \in DOMAIN map
      PROVE  (i = 1 /\ map[i] = first) \/ (i - 1 \in 1 .. Len(rest) /\ map[i] = rest[i - 1])
  <2>1. i = 1 \/ (i - 1 \in 1 .. Len(rest) /\ (i - 1) + 1 = i)
    BY <1>1, <1>2
  <2> QED BY <1>2, <2>1, Zenon
<1>4. \A i \in 1 .. Len(rest) : rest[i] \in Entries(rest) /\ rest[i].key # k
  BY <1>1 DEF Entries
<1>5. ASSUME NEW i \in DOMAIN map, NEW j \in DOMAIN map, map[i].key = map[j].key
      PROVE  i = j
  <2>1. i \in Int /\ j \in Int
    BY <1>1, <1>2
  <2>2. CASE i = 1 \/ j = 1
    BY <1>1, <1>3, <1>4, <1>5, <2>2
  <2>3. CASE i # 1 /\ j # 1
    <3>1. i - 1 = j - 1
      BY <1>3, <1>5, <2>3, Indexed, ZenonT(30)
    <3> QED BY <2>1, <3>1
  <2> QED BY <2>2, <2>3
<1>6. Entries(map) = {first} \union Entries(rest)
  <2>1. \A i \in DOMAIN map : map[i] \in {first} \union Entries(rest)
    BY <1>3, <1>4
  <2>2. ASSUME NEW i \in 1 .. Len(rest) PROVE rest[i] \in Entries(map)
    <3>1. i + 1 \in DOMAIN map /\ map[i + 1] = rest[i]
      BY <1>1, <1>2
    <3> QED BY <3>1 DEF Entries
  <2>3. first \in Entries(map)
    <3>1. 1 \in DOMAIN map
      BY <1>1, <1>2
    <3> QED BY <1>2, <3>1 DEF Entries
  <2> QED BY <1>1, <2>1, <2>2, <2>3 DEF Entries
<1>7. map \in LruMaps(K, V)
  BY <1>2, <1>5 DEF LruMaps
<1> QED BY <1>2, <1>6, <1>7 DEF map, first

\* A get keeps every entry.
LEMMA Gotten ==
    ASSUME NEW K, NEW V, NEW map \in LruMaps(K, V), NEW k
    PROVE  /\ LruGet(map, k) \in LruMaps(K, V)
           /\ Entries(LruGet(map, k)) = Entries(map)
           /\ Len(LruGet(map, k)) = Len(map)
<1>1. CASE ~LruHas(map, k)
  BY <1>1 DEF LruGet
<1>2. CASE LruHas(map, k)
  <2> DEFINE rest == LruWithout(map, k)
             v == LruPeek(map, k)
             first == [key |-> k, val |-> v]
             new == <<first>> \o rest
  <2>1. k \in K /\ v \in V /\ first \in Entries(map)
    BY <1>2, Peeked
  <2>2. /\ rest \in LruMaps(K, V) /\ Entries(rest) = {e \in Entries(map) : e.key # k}
        /\ Len(rest) = Len(map) - 1
    BY <1>2, Without
  <2>3. Len(map) \in Nat
    BY Indexed, Zenon
  <2> HIDE DEF rest, v
  <2>4. /\ new \in LruMaps(K, V) /\ Entries(new) = {first} \union Entries(rest)
        /\ Len(new) = Len(rest) + 1
    BY <2>1, <2>2, Pushed
  <2>5. \A e \in Entries(map) : e.key = k => e = first
    BY <2>1, OneEntry
  <2>6. LruGet(map, k) = new
    BY <1>2 DEF LruGet, rest, v
  <2> HIDE DEF new, first
  <2>7. Entries(new) = Entries(map)
    BY <2>1, <2>2, <2>4, <2>5
  <2> QED BY <2>2, <2>3, <2>4, <2>6, <2>7
<1> QED BY <1>1, <1>2

\* The front of a map is a map.
LEMMA Front ==
    ASSUME NEW K, NEW V, NEW map \in LruMaps(K, V), NEW n \in Nat, n <= Len(map)
    PROVE  /\ SubSeq(map, 1, n) \in LruMaps(K, V)
           /\ Entries(SubSeq(map, 1, n)) \subseteq Entries(map)
           /\ Len(SubSeq(map, 1, n)) = n
<1> DEFINE E == [key : K, val : V]
           front == SubSeq(map, 1, n)
<1>1. /\ map \in Seq(E) /\ Len(map) \in Nat /\ DOMAIN map = 1 .. Len(map)
      /\ \A i, j \in 1 .. Len(map) : map[i].key = map[j].key => i = j
  BY Indexed, Zenon
<1> HIDE DEF E
<1>2. /\ front \in Seq(E) /\ Len(front) = n /\ DOMAIN front = 1 .. n
      /\ \A i \in 1 .. n : front[i] = map[i]
  BY <1>1
<1>3. 1 .. n \subseteq 1 .. Len(map)
  BY <1>1
<1> HIDE DEF front
<1>4. \A i, j \in DOMAIN front : front[i].key = front[j].key => i = j
  BY <1>1, <1>2, <1>3
<1>5. Entries(front) \subseteq Entries(map)
  BY <1>1, <1>2, <1>3 DEF Entries
<1> QED BY <1>2, <1>4, <1>5, Zenon DEF LruMaps, E, front

\* A put of a new key below the capacity drops nothing.
LEMMA PutNew ==
    ASSUME NEW K, NEW V, NEW map \in LruMaps(K, V), NEW k \in K, NEW v \in V,
           NEW cap \in Nat, ~LruHas(map, k), Len(map) < cap
    PROVE  /\ LruPut(map, k, v, cap) \in LruMaps(K, V)
           /\ Entries(LruPut(map, k, v, cap)) = {[key |-> k, val |-> v]} \union Entries(map)
           /\ Len(LruPut(map, k, v, cap)) = Len(map) + 1
<1> DEFINE new == <<[key |-> k, val |-> v]>> \o map
<1>1. \A e \in Entries(map) : e.key # k
  BY DEF LruHas, LruKeys, Entries
<1>2. /\ new \in LruMaps(K, V) /\ Len(new) = Len(map) + 1
      /\ Entries(new) = {[key |-> k, val |-> v]} \union Entries(map)
  BY <1>1, Pushed
<1>3. LruPut(map, k, v, cap) = new
  <2>1. LruWithout(map, k) = map /\ ~(Len(map) >= cap)
    <3>1. Len(map) \in Nat
      BY Indexed
    <3> QED BY <3>1 DEF LruWithout
  <2> QED BY <2>1 DEF LruPut
<1> HIDE DEF new
<1> QED BY <1>2, <1>3

\* A put has the new entry and none that was not there.
LEMMA PutEntry ==
    ASSUME NEW K, NEW V, NEW map \in LruMaps(K, V), NEW k \in K, NEW v \in V,
           NEW cap \in Nat \ {0}
    PROVE  LET new == LruPut(map, k, v, cap)
           IN  /\ new \in LruMaps(K, V)
               /\ [key |-> k, val |-> v] \in Entries(new)
               /\ \A e \in Entries(new) : e.key # k => e \in Entries(map)
<1> DEFINE rest == LruWithout(map, k)
           kept == IF Len(rest) >= cap THEN SubSeq(rest, 1, cap - 1) ELSE rest
           first == [key |-> k, val |-> v]
           new == <<first>> \o kept
<1>1. rest \in LruMaps(K, V) /\ Entries(rest) = {e \in Entries(map) : e.key # k}
  BY Without
<1>2. Len(rest) \in Nat
  BY <1>1, Indexed, Zenon
<1> HIDE DEF rest
<1>3. kept \in LruMaps(K, V) /\ Entries(kept) \subseteq Entries(rest)
  <2>1. CASE Len(rest) >= cap
    <3>1. cap - 1 \in Nat /\ cap - 1 <= Len(rest)
      BY <1>2, <2>1
    <3> QED BY <1>1, <2>1, <3>1, Front, Zenon
  <2>2. CASE ~(Len(rest) >= cap)
    BY <1>1, <2>2, Zenon
  <2> QED BY <2>1, <2>2, Zenon
<1> HIDE DEF kept
<1>4. new \in LruMaps(K, V) /\ Entries(new) = {first} \union Entries(kept)
  BY <1>1, <1>3, Pushed
<1>5. LruPut(map, k, v, cap) = new
  BY DEF LruPut, rest, kept
<1>6. first.key = k
  BY Zenon
<1> HIDE DEF new
<1> QED BY <1>1, <1>3, <1>4, <1>5, <1>6, Zenon

-----------------------------------------------------------------------------
(***************************************************************************)
(* The schema cache.                                                       *)
(***************************************************************************)
Hashes == {SchemaHash(s) : s \in Schemas}
ValType == [bytes : Schemas, arc : Nat]
BuildType ==
    [pc : {"idle", "compile", "insert", "have", "failed"}, bytes : Schemas, arc : Nat,
     era : Nat]

From(arc, bytes) == arc \in DOMAIN compiled /\ compiled[arc] = bytes

Cached(bytes, arc) == \E e \in Entries(cache) : e.val = [bytes |-> bytes, arc |-> arc]

Holders == {b \in Builders : build[b].pc = "have"}

\* An entry is filed under the hash of its bytes and compiled from them; a
\* builder's instance is the cached one for as long as the entry has not left
\* the cache since it was handed out.
SchemaInv ==
    /\ cache \in LruMaps(Hashes, ValType)
    /\ compiled \in Seq(Schemas)
    /\ era \in [Schemas -> Nat]
    /\ build \in [Builders -> BuildType]
    /\ \A e \in Entries(cache) : e.key = SchemaHash(e.val.bytes) /\ From(e.val.arc, e.val.bytes)
    /\ \A b \in Builders :
          build[b].pc \in {"insert", "have"} => From(build[b].arc, build[b].bytes)
    /\ \A b \in Holders :
          /\ build[b].era <= era[build[b].bytes]
          /\ build[b].era = era[build[b].bytes] => Cached(build[b].bytes, build[b].arc)
    /\ \A a, b \in Holders :
          (build[a].bytes = build[b].bytes /\ build[a].era = build[b].era) =>
              build[a].arc = build[b].arc

\* Initially the cache is empty and nobody builds.
LEMMA SchemaInitially == SchemaInit => SchemaInv
<1> SUFFICES ASSUME SchemaInit PROVE SchemaInv
  OBVIOUS
<1>1. Idle \in BuildType /\ Idle.pc = "idle"
  BY CacheAssumption DEF Idle, BuildType, NoArc
<1>2. cache \in LruMaps(Hashes, ValType) /\ Entries(cache) = {}
  BY DEF SchemaInit, LruMaps, Entries
<1>3. Holders = {}
  BY <1>1 DEF SchemaInit, Holders
<1> QED BY <1>1, <1>2, <1>3 DEF SchemaInit, SchemaInv

\* Whatever hashes collide, some bytes have one entry.
LEMMA CachedOnce ==
    ASSUME SchemaInv, NEW e \in Entries(cache), NEW f \in Entries(cache),
           e.val.bytes = f.val.bytes
    PROVE  e = f
<1>1. e.key = f.key /\ cache \in LruMaps(Hashes, ValType)
  BY DEF SchemaInv
<1> QED BY <1>1, OneEntry, Zenon

\* A hit hands out the entry of its bytes, and a miss means there is none.
LEMMA HitOrMiss ==
    ASSUME SchemaInv, NEW bytes \in Schemas
    PROVE  /\ Hit(bytes) => /\ LruPeek(cache, SchemaHash(bytes)).arc \in Nat
                            /\ Cached(bytes, LruPeek(cache, SchemaHash(bytes)).arc)
                            /\ From(LruPeek(cache, SchemaHash(bytes)).arc, bytes)
           /\ ~Hit(bytes) => \A e \in Entries(cache) : e.val.bytes # bytes
<1> DEFINE k == SchemaHash(bytes)
           v == LruPeek(cache, k)
           e == [key |-> k, val |-> v]
<1>1. cache \in LruMaps(Hashes, ValType)
  BY Zenon DEF SchemaInv
<1>2. ASSUME Hit(bytes)
      PROVE  v.arc \in Nat /\ Cached(bytes, v.arc) /\ From(v.arc, bytes)
  <2>1. LruHas(cache, k) /\ v.bytes = bytes
    BY <1>2, Zenon DEF Hit
  <2>2. v \in ValType /\ e \in Entries(cache) /\ e.val = v
    BY <1>1, <2>1, Peeked, Zenon
  <2> HIDE DEF e, v
  <2>3. v.arc \in Nat /\ v = [bytes |-> bytes, arc |-> v.arc]
    BY <2>1, <2>2 DEF ValType
  <2> QED BY <2>1, <2>2, <2>3, Zenon DEF SchemaInv, Cached
<1>3. ASSUME ~Hit(bytes), NEW f \in Entries(cache), f.val.bytes = bytes PROVE FALSE
  <2>1. f.key = k
    BY <1>3 DEF SchemaInv
  <2>2. LruHas(cache, k)
    BY <2>1, Zenon DEF LruHas, LruKeys, Entries
  <2>3. e \in Entries(cache) /\ e.key = k /\ e.val = v
    BY <1>1, <2>2, Peeked, Zenon
  <2> HIDE DEF e, v
  <2>4. e = f
    BY <1>1, <2>1, <2>3, OneEntry, Zenon
  <2> QED BY <1>3, <2>2, <2>3, <2>4, Zenon DEF Hit, v
<1> QED BY <1>2, <1>3, Zenon

\* A builder's step that leaves the entries as they are.
LEMMA BuilderStep ==
    ASSUME SchemaInv, NEW b \in Builders, NEW r \in BuildType,
           build' = [build EXCEPT ![b] = r],
           cache' \in LruMaps(Hashes, ValType), Entries(cache)' = Entries(cache),
           era' = era, compiled' \in Seq(Schemas),
           \A arc \in DOMAIN compiled :
               arc \in DOMAIN compiled' /\ compiled'[arc] = compiled[arc],
           r.pc \in {"insert", "have"} => From(r.arc, r.bytes)',
           r.pc = "have" => r.era = era[r.bytes] /\ Cached(r.bytes, r.arc)
    PROVE  SchemaInv'
<1>1. /\ build' \in [Builders -> BuildType] /\ build'[b] = r
      /\ \A a \in Builders : a # b => build'[a] = build[a]
  BY Zenon DEF SchemaInv
<1>2. ASSUME NEW arc, NEW bytes, From(arc, bytes) PROVE From(arc, bytes)'
  BY <1>2, Zenon DEF From
<1>3. \A e \in Entries(cache)' : e.key = SchemaHash(e.val.bytes) /\ From(e.val.arc, e.val.bytes)'
  BY <1>2, Zenon DEF SchemaInv
<1>4. ASSUME NEW a \in Builders, build'[a].pc \in {"insert", "have"}
      PROVE  From(build[a].arc, build[a].bytes)'
  <2>1. CASE a = b
    BY <1>1, <1>4, <2>1, Zenon DEF From
  <2>2. CASE a # b
    <3>1. From(build[a].arc, build[a].bytes)
      BY <1>1, <1>4, <2>2, Zenon DEF SchemaInv
    <3> QED BY <1>1, <2>2, <3>1, Zenon DEF From
  <2> QED BY <2>1, <2>2, Zenon
<1>6. ASSUME NEW a \in Holders'
      PROVE  /\ build'[a].era <= era[build'[a].bytes]
             /\ build'[a].era = era[build'[a].bytes] => Cached(build'[a].bytes, build'[a].arc)
  <2>1. CASE a = b
    <3>1. r.pc = "have" /\ r.bytes \in Schemas
      BY <1>1, <2>1, Zenon DEF Holders, BuildType
    <3> QED BY <1>1, <2>1, <3>1 DEF SchemaInv
  <2>2. CASE a # b
    BY <1>1, <2>2, Zenon DEF SchemaInv, Holders
  <2> QED BY <2>1, <2>2, Zenon
<1>7. ASSUME NEW bytes, NEW x, NEW y, Cached(bytes, x), Cached(bytes, y) PROVE x = y
  BY <1>7, CachedOnce DEF Cached
<1>8. ASSUME NEW a \in Holders', NEW c \in Holders',
             build'[a].bytes = build'[c].bytes, build'[a].era = build'[c].era
      PROVE  build'[a].arc = build'[c].arc
  <2>1. CASE a = b \/ c = b
    BY <1>1, <1>6, <1>7, <1>8, <2>1 DEF Holders
  <2>2. CASE a # b /\ c # b
    BY <1>1, <1>8, <2>2 DEF SchemaInv, Holders
  <2> QED BY <2>1, <2>2, Zenon
<1>9. (\A a \in Holders :
          /\ build[a].era <= era[build[a].bytes]
          /\ build[a].era = era[build[a].bytes] => Cached(build[a].bytes, build[a].arc))'
  BY <1>6, Zenon DEF Cached
<1> QED BY <1>1, <1>3, <1>4, <1>8, <1>9 DEF SchemaInv

\* When entries leave the cache, a builder of one of them is of an earlier era,
\* and a builder of another still has the cached instance.
LEMMA EraKeeps ==
    ASSUME SchemaInv, era' = EraAfter(cache'),
           \A e \in Entries(cache)' :
               e \in Entries(cache) \/ \A f \in Entries(cache) : f.val.bytes # e.val.bytes
    PROVE  /\ era' \in [Schemas -> Nat]
           /\ \A bytes \in Schemas : \A arc : \A n \in Nat :
                 (n <= era[bytes] /\ (n = era[bytes] => Cached(bytes, arc))) =>
                 (n <= era'[bytes] /\ (n = era'[bytes] => Cached(bytes, arc)'))
<1>1. /\ \A bytes : bytes \in CachedBytes(cache) <=> \E e \in Entries(cache) : e.val.bytes = bytes
      /\ \A bytes : bytes \in CachedBytes(cache') <=>
                       \E e \in Entries(cache)' : e.val.bytes = bytes
  BY Zenon DEF CachedBytes, Entries
<1>2. /\ era' \in [Schemas -> Nat]
      /\ \A bytes \in Schemas :
            era'[bytes] = IF bytes \in CachedBytes(cache) \ CachedBytes(cache')
                          THEN era[bytes] + 1 ELSE era[bytes]
  BY DEF EraAfter, SchemaInv
<1>3. ASSUME NEW bytes \in Schemas, NEW arc, NEW n \in Nat, n <= era[bytes],
             n = era[bytes] => Cached(bytes, arc)
      PROVE  n <= era'[bytes] /\ (n = era'[bytes] => Cached(bytes, arc)')
  <2>1. era[bytes] \in Nat
    BY DEF SchemaInv
  <2>2. CASE bytes \in CachedBytes(cache) \ CachedBytes(cache')
    BY <1>2, <1>3, <2>1, <2>2
  <2>3. CASE bytes \notin CachedBytes(cache) \ CachedBytes(cache')
    <3>1. era'[bytes] = era[bytes]
      BY <1>2, <2>3, Zenon
    <3>2. ASSUME Cached(bytes, arc) PROVE Cached(bytes, arc)'
      <4>1. PICK e \in Entries(cache) : e.val = [bytes |-> bytes, arc |-> arc]
        BY <3>2, Zenon DEF Cached
      <4>2. e.val.bytes = bytes
        BY <4>1
      <4>3. PICK f \in Entries(cache)' : f.val.bytes = bytes
        BY <1>1, <2>3, <4>2, Zenon
      <4>4. f \in Entries(cache)
        BY <4>2, <4>3
      <4>5. f = e
        BY <4>2, <4>3, <4>4, CachedOnce, Zenon
      <4> QED BY <4>1, <4>3, <4>5, Zenon DEF Cached
    <3> QED BY <1>3, <3>1, <3>2, Zenon
  <2> QED BY <2>2, <2>3, Zenon
<1> QED BY <1>2, <1>3, Zenon

\* clear_schema_cache.
LEMMA ClearKeeps == ASSUME SchemaInv, ClearSchemaCache PROVE SchemaInv'
<1>1. cache' = <<>> /\ era' = EraAfter(cache') /\ compiled' = compiled /\ build' = build
  BY DEF ClearSchemaCache
<1>2. cache' \in LruMaps(Hashes, ValType) /\ Entries(cache)' = {}
  BY <1>1 DEF LruMaps, Entries
<1>3. /\ era' \in [Schemas -> Nat]
      /\ \A bytes \in Schemas : \A arc : \A n \in Nat :
            (n <= era[bytes] /\ (n = era[bytes] => Cached(bytes, arc))) =>
            (n <= era'[bytes] /\ (n = era'[bytes] => Cached(bytes, arc)'))
  BY <1>1, <1>2, EraKeeps, Zenon
<1>4. \A b \in Builders :
         build[b].bytes \in Schemas /\ build[b].era \in Nat /\ build[b].arc \in Nat
  BY Zenon DEF SchemaInv, BuildType
<1>5. ASSUME NEW b \in Holders
      PROVE  /\ build[b].era <= era'[build[b].bytes]
             /\ build[b].era = era'[build[b].bytes] => Cached(build[b].bytes, build[b].arc)'
  <2>1. /\ b \in Builders /\ build[b].era <= era[build[b].bytes]
        /\ build[b].era = era[build[b].bytes] => Cached(build[b].bytes, build[b].arc)
    BY Zenon DEF SchemaInv, Holders
  <2>2. PICK bytes \in Schemas, n \in Nat, arc \in Nat :
            bytes = build[b].bytes /\ n = build[b].era /\ arc = build[b].arc
    BY <1>4, <2>1, Zenon
  <2>3. n <= era'[bytes] /\ (n = era'[bytes] => Cached(bytes, arc)')
    BY <1>3, <2>1, <2>2, Zenon
  <2> QED BY <1>1, <2>2, <2>3, Zenon DEF Cached
<1>6. Holders' = Holders /\ \A arc, bytes : From(arc, bytes)' <=> From(arc, bytes)
  BY <1>1 DEF Holders, From
<1>7. (\A b \in Holders :
          /\ build[b].era <= era[build[b].bytes]
          /\ build[b].era = era[build[b].bytes] => Cached(build[b].bytes, build[b].arc))'
  BY <1>1, <1>5, <1>6, Zenon DEF Cached
<1>8. (\A b \in Builders :
          build[b].pc \in {"insert", "have"} => From(build[b].arc, build[b].bytes))'
  BY <1>1 DEF SchemaInv, From
<1> QED BY <1>1, <1>2, <1>3, <1>6, <1>7, <1>8 DEF SchemaInv

\* A hit, at the first or at the second lookup, hands out the cached instance.
LEMMA TakeKeeps ==
    ASSUME SchemaInv, NEW b \in Builders, NEW bytes \in Schemas, Hit(bytes), Take(b, bytes),
           cache' = LruGet(cache, SchemaHash(bytes)), UNCHANGED <<compiled, era>>
    PROVE  SchemaInv'
<1> DEFINE arc == LruPeek(cache, SchemaHash(bytes)).arc
           r == [pc |-> "have", bytes |-> bytes, era |-> era[bytes], arc |-> arc]
<1>1. arc \in Nat /\ Cached(bytes, arc) /\ From(arc, bytes)
  BY HitOrMiss, Zenon
<1>2. build' = [build EXCEPT ![b] = r]
  BY Zenon DEF Take
<1>3. cache' \in LruMaps(Hashes, ValType) /\ Entries(cache)' = Entries(cache)
  <2>1. cache \in LruMaps(Hashes, ValType)
    BY DEF SchemaInv
  <2>2. /\ LruGet(cache, SchemaHash(bytes)) \in LruMaps(Hashes, ValType)
        /\ Entries(LruGet(cache, SchemaHash(bytes))) = Entries(cache)
    BY <2>1, Gotten, Zenon
  <2> QED BY <2>2, Zenon DEF Entries
<1> HIDE DEF arc
<1>4. r \in BuildType /\ r.bytes = bytes /\ r.arc = arc /\ r.era = era[bytes]
  BY <1>1, Zenon DEF SchemaInv, BuildType
<1>5. PICK q \in BuildType : q = r
  BY <1>4, Zenon
<1> HIDE DEF r
<1>6. From(q.arc, q.bytes)'
  BY <1>1, <1>4, <1>5, Zenon DEF From
<1> QED BY <1>1, <1>2, <1>3, <1>4, <1>5, <1>6, BuilderStep, Zenon DEF SchemaInv

\* The first lookup.
LEMMA LookupKeeps ==
    ASSUME SchemaInv, NEW b \in Builders, NEW bytes \in Schemas, Lookup(b, bytes)
    PROVE  SchemaInv'
<1>1. CASE Hit(bytes) /\ Take(b, bytes)
  BY <1>1, TakeKeeps, Zenon DEF Lookup
<1>2. CASE ~(Hit(bytes) /\ Take(b, bytes))
  <2>1. /\ build' = [build EXCEPT ![b] = [build[b] EXCEPT !.pc = "compile", !.bytes = bytes]]
        /\ cache' = LruGet(cache, SchemaHash(bytes)) /\ UNCHANGED <<compiled, era>>
    BY <1>2, Zenon DEF Lookup
  <2>2. cache' \in LruMaps(Hashes, ValType) /\ Entries(cache)' = Entries(cache)
    <3>1. cache \in LruMaps(Hashes, ValType)
      BY DEF SchemaInv
    <3>2. /\ LruGet(cache, SchemaHash(bytes)) \in LruMaps(Hashes, ValType)
          /\ Entries(LruGet(cache, SchemaHash(bytes))) = Entries(cache)
      BY <3>1, Gotten
    <3> QED BY <2>1, <3>2 DEF Entries
  <2>3. PICK r \in BuildType : /\ r = [build[b] EXCEPT !.pc = "compile", !.bytes = bytes]
                               /\ r.pc = "compile"
    <3> DEFINE s == [build[b] EXCEPT !.pc = "compile", !.bytes = bytes]
    <3>1. build[b] \in BuildType
      BY DEF SchemaInv
    <3>2. s \in BuildType /\ s.pc = "compile"
      BY <3>1, Zenon DEF BuildType
    <3> HIDE DEF s
    <3>3. PICK r \in BuildType : r = s
      BY <3>2
    <3> QED BY <3>2, <3>3, Zenon DEF s
  <2> QED BY <2>1, <2>2, <2>3, BuilderStep, Zenon DEF SchemaInv
<1> QED BY <1>1, <1>2

\* A compilation makes an instance nobody has, or fails.
LEMMA CompileKeeps == ASSUME SchemaInv, NEW b \in Builders, Compile(b) PROVE SchemaInv'
<1>1. build[b] \in BuildType /\ compiled \in Seq(Schemas) /\ build[b].bytes \in Schemas
  BY DEF SchemaInv, BuildType
<1>2. cache' = cache /\ era' = era /\ Entries(cache)' = Entries(cache)
  BY DEF Compile, Entries
<1>3. CASE build' = [build EXCEPT ![b].pc = "failed"] /\ compiled' = compiled
  <2>1. PICK r \in BuildType : r = [build[b] EXCEPT !.pc = "failed"] /\ r.pc = "failed"
    <3> DEFINE s == [build[b] EXCEPT !.pc = "failed"]
    <3>1. s \in BuildType /\ s.pc = "failed"
      BY <1>1, Zenon DEF BuildType
    <3> HIDE DEF s
    <3>2. PICK r \in BuildType : r = s
      BY <3>1, Zenon
    <3> QED BY <3>1, <3>2, Zenon DEF s
  <2>2. build' = [build EXCEPT ![b] = r]
    BY <1>3, <2>1 DEF SchemaInv
  <2> QED BY <1>2, <1>3, <2>1, <2>2, BuilderStep, Zenon DEF SchemaInv
<1>4. CASE /\ compiled' = Append(compiled, build[b].bytes)
           /\ build' = [build EXCEPT ![b] = [build[b] EXCEPT !.pc = "insert",
                                                            !.arc = Len(compiled) + 1]]
  <2>1. PICK n \in Nat : n = Len(compiled) + 1
    BY <1>1
  <2>2. PICK r \in BuildType :
           /\ r = [build[b] EXCEPT !.pc = "insert", !.arc = n]
           /\ r.pc = "insert" /\ r.arc = n /\ r.bytes = build[b].bytes
    <3> DEFINE s == [build[b] EXCEPT !.pc = "insert", !.arc = n]
    <3>1. /\ s \in BuildType
          /\ s.pc = "insert" /\ s.arc = n /\ s.bytes = build[b].bytes
      BY <1>1, <2>1, Zenon DEF BuildType
    <3> HIDE DEF s
    <3>2. PICK r \in BuildType : r = s
      BY <3>1
    <3> QED BY <3>1, <3>2, Zenon DEF s
  <2>3. /\ compiled' \in Seq(Schemas) /\ n \in DOMAIN compiled'
        /\ compiled'[n] = build[b].bytes
        /\ \A arc \in DOMAIN compiled :
              arc \in DOMAIN compiled' /\ compiled'[arc] = compiled[arc]
    BY <1>1, <1>4, <2>1
  <2>4. From(r.arc, r.bytes)'
    BY <2>2, <2>3, Zenon DEF From
  <2>5. build' = [build EXCEPT ![b] = r]
    BY <1>4, <2>1, <2>2, Zenon
  <2> QED BY <1>2, <2>2, <2>3, <2>4, <2>5, BuilderStep, Zenon DEF SchemaInv
<1> QED BY <1>3, <1>4, Zenon DEF Compile

\* The second lookup and the insertion: nobody holds an instance of these bytes
\* of the current era, so the inserted one is the only one.
LEMMA InsertKeeps == ASSUME SchemaInv, NEW b \in Builders, Insert(b) PROVE SchemaInv'
<1>1. PICK bytes \in Schemas : bytes = build[b].bytes
  BY Zenon DEF SchemaInv, BuildType
<1>2. PICK arc \in Nat : arc = build[b].arc
  BY DEF SchemaInv, BuildType
<1>3. CASE Hit(bytes) /\ Take(b, bytes)
  BY <1>1, <1>3, TakeKeeps, Zenon DEF Insert
<1>4. CASE ~(Hit(bytes) /\ Take(b, bytes))
  <2> DEFINE v == [bytes |-> bytes, arc |-> arc]
             k == SchemaHash(bytes)
  <2>1. /\ ~Hit(bytes) /\ cache' = LruPut(cache, k, v, CacheCap)
        /\ era' = EraAfter(cache') /\ compiled' = compiled
        /\ build' = [build EXCEPT ![b] = [build[b] EXCEPT !.pc = "have", !.era = era[bytes]]]
    BY <1>1, <1>2, <1>4, Zenon DEF Insert
  <2>2. k \in Hashes /\ v \in ValType /\ v.bytes = bytes /\ v.arc = arc
        /\ cache \in LruMaps(Hashes, ValType)
    BY DEF Hashes, ValType, SchemaInv
  <2> HIDE DEF v
  <2>3. /\ cache' \in LruMaps(Hashes, ValType)
        /\ [key |-> k, val |-> v] \in Entries(cache')
        /\ \A e \in Entries(cache') : e.key # k => e \in Entries(cache)
    <3>1. CacheCap \in Nat \ {0}
      BY CacheAssumption, Zenon
    <3> QED BY <2>1, <2>2, <3>1, PutEntry, Zenon
  <2>4. ASSUME NEW e \in Entries(cache')
        PROVE  e \in Entries(cache) \/ e = [key |-> k, val |-> v]
    <3>1. CASE e.key = k
      <4>1. [key |-> k, val |-> v].key = e.key
        BY <3>1
      <4> QED BY <2>3, <4>1, OneEntry, Zenon
    <3> QED BY <2>3, <3>1, Zenon
  <2>5. \A e \in Entries(cache) : e.val.bytes # bytes
    BY <2>1, HitOrMiss, Zenon
  <2>6. Entries(cache)' = Entries(cache')
    BY DEF Entries
  <2>7. /\ era' \in [Schemas -> Nat]
        /\ \A s \in Schemas : \A x : \A n \in Nat :
              (n <= era[s] /\ (n = era[s] => Cached(s, x))) =>
              (n <= era'[s] /\ (n = era'[s] => Cached(s, x)'))
    <3>1. \A e \in Entries(cache)' :
             e \in Entries(cache) \/ \A f \in Entries(cache) : f.val.bytes # e.val.bytes
      BY <2>2, <2>4, <2>5, <2>6
    <3> QED BY <2>1, <3>1, EraKeeps, Zenon
  <2>8. From(arc, bytes) /\ \A x, y : From(x, y)' <=> From(x, y)
    <3>1. From(build[b].arc, build[b].bytes)
      BY Zenon DEF Insert, SchemaInv
    <3> QED BY <1>1, <1>2, <2>1, <3>1, Zenon DEF From
  <2>9. Cached(bytes, arc)'
    BY <2>3, <2>6, Zenon DEF Cached, v
  <2>10. era'[bytes] = era[bytes] /\ era[bytes] \in Nat
    <3>1. bytes \notin CachedBytes(cache)
      BY <2>5, Zenon DEF CachedBytes, Entries
    <3> QED BY <2>1, <3>1 DEF EraAfter, SchemaInv
  <2>11. PICK r \in BuildType : /\ build' = [build EXCEPT ![b] = r]
                                /\ r.pc = "have" /\ r.bytes = bytes /\ r.arc = arc
                                /\ r.era = era[bytes]
    <3> DEFINE s == [build[b] EXCEPT !.pc = "have", !.era = era[bytes]]
    <3>1. build[b] \in BuildType
      BY DEF SchemaInv
    <3>2. /\ s \in BuildType /\ s.pc = "have" /\ s.bytes = bytes /\ s.arc = arc
          /\ s.era = era[bytes]
      BY <1>1, <1>2, <2>10, <3>1, Zenon DEF BuildType
    <3>3. build' = [build EXCEPT ![b] = s]
      BY <2>1, Zenon
    <3> HIDE DEF s
    <3>4. PICK r \in BuildType : r = s
      BY <3>2, Zenon
    <3> QED BY <3>2, <3>3, <3>4, Zenon
  <2>12. /\ build' \in [Builders -> BuildType] /\ build'[b] = r
         /\ \A a \in Builders : a # b => build'[a] = build[a]
    BY <2>11 DEF SchemaInv
  <2>13. ASSUME NEW a \in Holders', a # b
         PROVE  /\ a \in Holders
                /\ (build[a].era <= era[build[a].bytes])'
                /\ (build[a].era = era[build[a].bytes] => Cached(build[a].bytes, build[a].arc))'
    <3>1. /\ a \in Builders /\ a \in Holders /\ build'[a] = build[a]
          /\ build[a].era <= era[build[a].bytes]
          /\ build[a].era = era[build[a].bytes] => Cached(build[a].bytes, build[a].arc)
      BY <2>12, <2>13, Zenon DEF SchemaInv, Holders
    <3>2. PICK s \in Schemas, n \in Nat, x \in Nat :
             s = build[a].bytes /\ n = build[a].era /\ x = build[a].arc
      BY <3>1, Zenon DEF SchemaInv, BuildType
    <3>3. n <= era'[s] /\ (n = era'[s] => Cached(s, x)')
      BY <2>7, <3>1, <3>2, Zenon
    <3> QED BY <3>1, <3>2, <3>3, Zenon DEF Cached
  <2>14. (\A a \in Holders :
            /\ build[a].era <= era[build[a].bytes]
            /\ build[a].era = era[build[a].bytes] => Cached(build[a].bytes, build[a].arc))'
    <3>1. ASSUME NEW a \in Holders'
          PROVE  (/\ build[a].era <= era[build[a].bytes]
                  /\ build[a].era = era[build[a].bytes] => Cached(build[a].bytes, build[a].arc))'
      <4>1. CASE a = b
        BY <2>9, <2>10, <2>11, <2>12, <4>1 DEF Cached
      <4>2. CASE a # b
        BY <2>13, <4>2, Zenon
      <4> QED BY <4>1, <4>2, Zenon
    <3> QED BY <3>1, Zenon
  <2>15. ASSUME NEW a \in Holders', a # b, build'[a].bytes = bytes PROVE build'[a].era # r.era
    <3>1. a \in Holders /\ a \in Builders /\ build'[a] = build[a]
      BY <2>12, <2>13, <2>15, Zenon DEF Holders
    <3>2. ~Cached(build[a].bytes, build[a].arc)
      BY <2>5, <2>15, <3>1 DEF Cached
    <3> QED BY <2>11, <2>15, <3>1, <3>2, Zenon DEF SchemaInv
  <2>16. ASSUME NEW a \in Holders', NEW c \in Holders',
                build'[a].bytes = build'[c].bytes, build'[a].era = build'[c].era
         PROVE  build'[a].arc = build'[c].arc
    <3>1. CASE a = b \/ c = b
      BY <2>11, <2>12, <2>15, <2>16, <3>1, ZenonT(30)
    <3>2. CASE a # b /\ c # b
      BY <2>12, <2>13, <2>16, <3>2, ZenonT(30) DEF SchemaInv, Holders
    <3> QED BY <3>1, <3>2
  <2>17. (\A a \in Builders :
            build[a].pc \in {"insert", "have"} => From(build[a].arc, build[a].bytes))'
    BY <2>1, <2>8, <2>11, <2>12, ZenonT(30) DEF SchemaInv, From
  <2>18. \A e \in Entries(cache)' :
            e.key = SchemaHash(e.val.bytes) /\ From(e.val.arc, e.val.bytes)'
    BY <2>2, <2>4, <2>6, <2>8 DEF SchemaInv
  <2> QED BY <2>1, <2>3, <2>7, <2>12, <2>14, <2>16, <2>17, <2>18 DEF SchemaInv
<1> QED BY <1>3, <1>4, Zenon

\* A constructor ends: the builder is idle again.
LEMMA FinishKeeps ==
    ASSUME SchemaInv, NEW b \in Builders, build' = [build EXCEPT ![b] = Idle],
           UNCHANGED <<cache, compiled, era>>
    PROVE  SchemaInv'
<1>1. Idle \in BuildType /\ Idle.pc = "idle"
  BY CacheAssumption, Zenon DEF Idle, BuildType, NoArc
<1>2. PICK r \in BuildType : r = Idle
  BY <1>1
<1>3. Entries(cache)' = Entries(cache)
  BY Zenon DEF Entries
<1> QED BY <1>1, <1>2, <1>3, BuilderStep, Zenon DEF SchemaInv

\* Nothing happens to the cache.
LEMMA SchemaStutters == ASSUME SchemaInv, UNCHANGED schemaVars PROVE SchemaInv'
BY DEF schemaVars, SchemaInv, Holders, Cached, From, Entries

-----------------------------------------------------------------------------
(***************************************************************************)
(* What the pipeline answers, for any instance and request.                *)
(***************************************************************************)

\* The flags set before the limiter is asked say whether CORS allows the request
\* and nothing about the limiter or the sections.
LEMMA EarlyFlags ==
    ASSUME NEW cfg, NEW req
    PROVE  /\ CorsResult(cfg, req).allowed => "cors_allowed" \in FlagsBeforeRate(cfg, req)
           /\ "rate_limited" \notin FlagsBeforeRate(cfg, req)
           /\ "body_truncated" \notin FlagsBeforeRate(cfg, req)
BY DEF FlagsBeforeRate, TrustFlags, If

\* A status within 200 .. 599 is written as it is.
LEMMA StatusKept == \A s \in 200 .. 599 : WrittenStatus(s) = s
BY Zenon DEF WrittenStatus

\* An answer that refuses a request before it is looked into.
Curt(d) ==
    \E code, status : status \in {400, 414, 431} /\ d = TerminalSimple(code, status)

\* Stages 1 to 3 answer curtly, or a preflight.
LEMMA EarlyAnswers ==
    ASSUME NEW cfg, NEW req, NEW packed, Present(EarlyAnswer(cfg, req, packed))
    PROVE  LET d == EarlyAnswer(cfg, req, packed)[1]
           IN  Curt(d) \/ (CorsResult(cfg, req).preflight /\ d = PreflightAnswer(cfg, req))
<1>1. ASSUME Present(FrameRefused(cfg, req)) PROVE Curt(FrameRefused(cfg, req)[1])
  <2>1. \/ FrameRefused(cfg, req) = Some(TerminalSimple("bad_request", 414))
        \/ FrameRefused(cfg, req) = Some(TerminalSimple("bad_request", 400))
        \/ FrameRefused(cfg, req) = Some(TerminalSimple("request_too_large", 431))
    BY <1>1, SMT DEF FrameRefused, Present
  <2>2. PICK code, status : /\ status \in {400, 414, 431}
                            /\ FrameRefused(cfg, req) = Some(TerminalSimple(code, status))
    BY <2>1
  <2> QED BY <2>2 DEF Curt, Some
<1>2. CASE EarlyAnswer(cfg, req, packed) = FrameRefused(cfg, req)
  BY <1>1, <1>2, Zenon
<1>3. CASE EarlyAnswer(cfg, req, packed) = Some(TerminalSimple("request_too_large", 431))
  BY <1>3 DEF Curt, Some
<1>4. CASE /\ CorsResult(cfg, req).preflight
           /\ EarlyAnswer(cfg, req, packed) = Some(PreflightAnswer(cfg, req))
  BY <1>4 DEF Some
<1> QED BY <1>2, <1>3, <1>4, Zenon DEF EarlyAnswer, Present

\* Stages 5 to 8 refuse the body, refuse curtly, or accept a body that passed.
Refused(cfg, req, rate, d) ==
    \E code, status, flags :
        /\ status \in {400, 413, 422}
        /\ FlagsBeforeRate(cfg, req) \subseteq flags
        /\ flags \subseteq FlagsBeforeRate(cfg, req) \cup {"body_valid_json"}
        /\ d = Terminal(1, code, status, flags, rate, SuccessVariant(cfg, req))

Accepted(cfg, req, rate, cap, d) ==
    \E more :
        /\ more \subseteq {"body_valid_json", "schema_valid", "has_cookies", "has_query",
                           "body_truncated"}
        /\ Sections(cfg, req, cap).truncated => "body_truncated" \in more
        /\ d = OkDecision(FlagsBeforeRate(cfg, req) \cup more, rate,
                          SuccessVariant(cfg, req), Sections(cfg, req, cap))

LEMMA LateAnswers ==
    ASSUME NEW cfg, NEW req, NEW rate, NEW cap
    PROVE  LET d == LateAnswer(cfg, req, rate, cap)
           IN  \/ Refused(cfg, req, rate, d)
               \/ Curt(d)
               \/ ~Present(BodyAnswer(cfg, req, rate)) /\ Accepted(cfg, req, rate, cap, d)
<1> DEFINE d == LateAnswer(cfg, req, rate, cap)
           flags == FlagsBeforeRate(cfg, req)
           hv == SuccessVariant(cfg, req)
           s == Sections(cfg, req, cap)
           fast == Present(cfg.schema) /\ cfg.schema[1].fast
           more == (IF EnforceJson(cfg, req) THEN {"body_valid_json", "schema_valid"} ELSE {})
                   \cup If(s.cookies > 2, "has_cookies") \cup If(s.query > 2, "has_query")
                   \cup If(s.truncated \/ (cfg.metadata /\ s.body = 0), "body_truncated")
<1>1. CASE Present(BodyAnswer(cfg, req, rate))
  <2>1. \/ BodyAnswer(cfg, req, rate) = Some(Terminal(1, "body_too_large", 413, flags, rate, hv))
        \/ BodyAnswer(cfg, req, rate) = Some(Terminal(1, "invalid_json", 400, flags, rate, hv))
        \/ BodyAnswer(cfg, req, rate)
             = Some(Terminal(1, "schema_validation", 422,
                             flags \cup If(fast, "body_valid_json"), rate, hv))
    BY <1>1, ZenonT(30) DEF BodyAnswer, Present
  <2>2. d = BodyAnswer(cfg, req, rate)[1]
    BY <1>1, Zenon DEF LateAnswer
  <2>3. /\ flags \subseteq flags \cup If(fast, "body_valid_json")
        /\ flags \cup If(fast, "body_valid_json") \subseteq flags \cup {"body_valid_json"}
    BY DEF If
  <2> HIDE DEF d, flags, hv, fast
  <2>4. ASSUME NEW code, NEW status \in {400, 413, 422}, NEW f,
               flags \subseteq f, f \subseteq flags \cup {"body_valid_json"},
               BodyAnswer(cfg, req, rate) = Some(Terminal(1, code, status, f, rate, hv))
        PROVE  Refused(cfg, req, rate, d)
    <3>1. d = Terminal(1, code, status, f, rate, hv)
      BY <2>2, <2>4 DEF Some
    <3> QED BY <2>4, <3>1 DEF Refused, d, flags, hv
  <2>5. BodyAnswer(cfg, req, rate) = Some(Terminal(1, "body_too_large", 413, flags, rate, hv))
        => Refused(cfg, req, rate, d)
    BY <2>4
  <2>6. BodyAnswer(cfg, req, rate) = Some(Terminal(1, "invalid_json", 400, flags, rate, hv))
        => Refused(cfg, req, rate, d)
    BY <2>4
  <2>7. BodyAnswer(cfg, req, rate)
          = Some(Terminal(1, "schema_validation", 422,
                          flags \cup If(fast, "body_valid_json"), rate, hv))
        => Refused(cfg, req, rate, d)
    BY <2>3, <2>4
  <2> QED BY <2>1, <2>5, <2>6, <2>7, Zenon DEF d
<1>2. CASE d = TerminalSimple("bad_request", 414)
  BY <1>2 DEF Curt
<1>3. CASE /\ ~Present(BodyAnswer(cfg, req, rate)) /\ d # TerminalSimple("bad_request", 414)
  <2>1. d = OkDecision(flags \cup (IF EnforceJson(cfg, req)
                                     THEN {"body_valid_json", "schema_valid"} ELSE {})
                         \cup If(s.cookies > 2, "has_cookies")
                         \cup If(s.query > 2, "has_query")
                         \cup If(s.truncated \/ (cfg.metadata /\ s.body = 0), "body_truncated"),
                       rate, hv, s)
    BY <1>3, Zenon DEF LateAnswer
  <2> HIDE DEF d, flags, hv, s
  <2>2. d = OkDecision(flags \cup more, rate, hv, s)
    <3>1. \A A, B, C, D, E : A \cup B \cup C \cup D \cup E = A \cup (B \cup C \cup D \cup E)
      BY Zenon
    <3> QED BY <2>1, <3>1, Zenon
  <2>3. /\ more \subseteq {"body_valid_json", "schema_valid", "has_cookies", "has_query",
                           "body_truncated"}
        /\ s.truncated => "body_truncated" \in more
    BY Zenon DEF If
  <2> HIDE DEF more
  <2> QED BY <1>3, <2>2, <2>3, Zenon DEF Accepted, d, flags, hv, s
<1> QED BY <1>1, <1>2, <1>3, Zenon

\* A body within the guard and, where one is wanted, valid JSON that conforms.
BodyFits(cfg, req) ==
    /\ cfg.guard => req.body.len <= cfg.maxBody
    /\ EnforceJson(cfg, req) => BodyConforms(cfg, req.body)

\* A body that draws no answer is such a body.
LEMMA BodyPassed ==
    ASSUME NEW cfg, NEW req, WellFormed(req), cfg.maxBody \in Nat,
           NEW rate, ~Present(BodyAnswer(cfg, req, rate))
    PROVE  BodyFits(cfg, req)
<1>0. req.body.len \in Nat
  BY DEF WellFormed
<1>1. \A x : Present(Some(x))
  BY DEF Present, Some, None
<1>2. ~(cfg.guard /\ req.body.len > cfg.maxBody)
  BY <1>1, Zenon DEF BodyAnswer
<1>3. ~EnforceJson(cfg, req) \/ (req.body.len > 0 /\ BodyConforms(cfg, req.body))
  BY <1>1, ZenonT(30) DEF BodyAnswer
<1> QED BY <1>0, <1>2, <1>3 DEF BodyFits

\* The sections fit in the output, and a query that was wanted and not cut is whole.
FitsIn(cfg, req, cap, s) ==
    /\ {s.cookies, s.query, s.body} \subseteq Nat
    /\ DataStart + s.cookies + s.query + s.body <= cap
    /\ cfg.parseQuery /\ req.query.len > 0 /\ ~s.truncated /\ DataStart + s.cookies # cap
         => s.query = req.query.json

\* The sections fit the buffer behind the header, and a query that was asked for
\* is there unless something is reported as truncated or the cookies end the
\* buffer.
LEMMA SectionsFit ==
    ASSUME NEW cfg, NEW req, WellFormed(req), cfg.metaBytes \in Nat,
           NEW cap \in Nat, DataStart <= cap
    PROVE  FitsIn(cfg, req, cap, Sections(cfg, req, cap))
<1> DEFINE wantC   == cfg.parseCookies /\ Present(req.h.cookie)
                      /\ req.h.cookie[1].len <= cfg.maxCookie
           fitsC   == DataStart + req.h.cookie[1].json <= cap
           cookies == IF wantC /\ fitsC THEN req.h.cookie[1].json ELSE 0
           wantQ   == cfg.parseQuery /\ req.query.len > 0 /\ DataStart + cookies < cap
           fitsQ   == DataStart + cookies + req.query.json <= cap
           query   == IF wantQ /\ fitsQ THEN req.query.json ELSE 0
           meta    == cfg.metaBytes + Filled(cookies) + Filled(query)
           fitsM   == DataStart + cookies + query + meta <= cap
           body    == IF cfg.metadata /\ fitsM THEN meta ELSE 0
           cut     == (wantC /\ ~fitsC) \/ (wantQ /\ ~fitsQ)
<1>1. DataStart \in Nat
  BY DecisionAssumption
<1>2. cookies \in Nat /\ DataStart + cookies <= cap
  BY <1>1 DEF WellFormed
<1> HIDE DEF cookies
<1>3. req.query.json \in Nat
  BY Zenon DEF WellFormed
<1>4. query \in Nat /\ DataStart + cookies + query <= cap
  BY <1>1, <1>2, <1>3
<1>5. cfg.parseQuery /\ req.query.len > 0 /\ ~cut /\ DataStart + cookies # cap
        => query = req.query.json
  BY <1>1, <1>2
<1> HIDE DEF query, cut
<1>6. meta \in Nat
  BY <1>2, <1>4 DEF Filled
<1> HIDE DEF meta
<1>7. body \in Nat /\ DataStart + cookies + query + body <= cap
  BY <1>1, <1>2, <1>4, <1>6
<1>8. Sections(cfg, req, cap)
        = [cookies |-> cookies, query |-> query, body |-> body, truncated |-> cut]
  BY Zenon DEF Sections, cookies, query, meta, cut
<1> HIDE DEF body
<1> DEFINE s == [cookies |-> cookies, query |-> query, body |-> body, truncated |-> cut]
<1>9. s.cookies = cookies /\ s.query = query /\ s.body = body /\ s.truncated = cut
  BY Zenon
<1> HIDE DEF s
<1>10. FitsIn(cfg, req, cap, s)
  BY <1>2, <1>4, <1>5, <1>7, <1>9, Zenon DEF FitsIn
<1> QED BY <1>8, <1>10, Zenon DEF s

\* A request that was answered has an answer of one of the stages.
Produced(cfg, req, cap, d) ==
    \/ \E packed : Present(EarlyAnswer(cfg, req, packed)) /\ d = EarlyAnswer(cfg, req, packed)[1]
    \/ \E rate : d = RateLimitedAnswer(cfg, req, rate)
    \/ \E rate : d = LateAnswer(cfg, req, rate, cap)

\* The answers there are.
LEMMA Answers ==
    ASSUME NEW cfg, NEW req, NEW cap, NEW d, Produced(cfg, req, cap, d)
    PROVE  \/ Curt(d)
           \/ CorsResult(cfg, req).preflight /\ d = PreflightAnswer(cfg, req)
           \/ \E rate : d = RateLimitedAnswer(cfg, req, rate)
           \/ \E rate : Refused(cfg, req, rate, d)
           \/ \E rate : ~Present(BodyAnswer(cfg, req, rate)) /\ Accepted(cfg, req, rate, cap, d)
BY EarlyAnswers, LateAnswers, ZenonT(30) DEF Produced

\* What an answer says about itself and the request: the statement of
\* DecisionHonest for one answer.
Honest(cfg, req, cap, d) ==
    /\ d.written <= cap
    /\ d.status = 429 <=> "rate_limited" \in d.flags
    /\ d.status = 429 <=> "rate_limited" \in d.hv
    /\ d.hv \cap {"cors_simple", "cors_preflight"} # {} => "cors_allowed" \in d.flags
    /\ d.status = 200 /\ cfg.parseQuery /\ req.query.len > 0
       /\ "body_truncated" \notin d.flags
       /\ DataStart + d.cookies # cap
       => d.query = req.query.json

\* A preflight that CORS grants.
Granted(cfg, req) == CorsResult(cfg, req).preflight /\ CorsResult(cfg, req).allowed

\* Every kind of answer is honest, and its status tells which kind it is.
LEMMA AnswersHonest ==
    ASSUME NEW cfg, NEW req, WellFormed(req), cfg.maxBody \in Nat, cfg.metaBytes \in Nat,
           NEW cap \in Nat, DataStart <= cap, NEW d, Produced(cfg, req, cap, d)
    PROVE  /\ Honest(cfg, req, cap, d)
           /\ d.status = 200 => BodyFits(cfg, req)
           /\ d.status = 204 => Granted(cfg, req)
<1> DEFINE flags == FlagsBeforeRate(cfg, req)
           ok == CorsResult(cfg, req).allowed
<1>1. /\ ok => "cors_allowed" \in flags
      /\ "rate_limited" \notin flags /\ "body_truncated" \notin flags
  BY EarlyFlags, Zenon
<1>2. DataStart \in Nat
  BY DecisionAssumption, Zenon
<1>3. CASE Curt(d)
  <2>1. PICK code, status : status \in {400, 414, 431} /\ d = TerminalSimple(code, status)
    BY <1>3, Zenon DEF Curt
  <2>2. /\ d.status \in {400, 414, 431} /\ d.written = DataStart /\ d.flags = {}
        /\ d.hv = {"json"}
    BY <2>1, StatusKept DEF TerminalSimple, Terminal
  <2> QED BY <1>2, <2>2 DEF Honest
<1>4. CASE CorsResult(cfg, req).preflight /\ d = PreflightAnswer(cfg, req)
  <2>1. /\ ok => d.status = 204
        /\ ~ok => d.status = 403
        /\ d.written = DataStart /\ d.flags = flags
        /\ d.hv = HeaderVariant(ok, ok, RateActive(cfg), FALSE, ~ok)
    BY <1>4, StatusKept DEF PreflightAnswer, Terminal
  <2> HIDE DEF flags, ok
  <2>2. /\ "rate_limited" \notin d.hv
        /\ "cors_simple" \in d.hv \/ "cors_preflight" \in d.hv => ok
    BY <2>1, Zenon DEF HeaderVariant
  <2>3. d.status \in {204, 403} /\ d.flags = flags /\ d.written = DataStart
    BY <2>1, Zenon
  <2>4. Honest(cfg, req, cap, d)
    BY <1>1, <1>2, <2>2, <2>3 DEF Honest
  <2> QED BY <1>4, <2>1, <2>4, SMTT(30) DEF ok, Granted
<1>5. ASSUME NEW rate, d = RateLimitedAnswer(cfg, req, rate)
      PROVE  Honest(cfg, req, cap, d) /\ d.status = 429
  <2>1. /\ d.status = 429 /\ d.written = DataStart /\ d.flags = flags \cup {"rate_limited"}
        /\ d.hv = HeaderVariant(ok, FALSE, TRUE, TRUE, TRUE)
    BY <1>5, StatusKept DEF RateLimitedAnswer, Terminal
  <2> HIDE DEF flags, ok
  <2>2. "rate_limited" \in d.hv /\ ("cors_simple" \in d.hv \/ "cors_preflight" \in d.hv => ok)
    BY <2>1, Zenon DEF HeaderVariant
  <2>3. /\ d.status = 429 /\ d.written = DataStart
        /\ "rate_limited" \in d.flags /\ (ok => "cors_allowed" \in d.flags)
    BY <1>1, <2>1, Zenon
  <2> QED BY <1>2, <2>2, <2>3 DEF Honest
<1>6. /\ "rate_limited" \notin SuccessVariant(cfg, req)
      /\ ("cors_simple" \in SuccessVariant(cfg, req)
            \/ "cors_preflight" \in SuccessVariant(cfg, req)) => ok
  BY Zenon DEF SuccessVariant, HeaderVariant
<1>7. ASSUME NEW rate, Refused(cfg, req, rate, d)
      PROVE  Honest(cfg, req, cap, d) /\ d.status \in {400, 413, 422}
  <2>1. PICK code, status, f :
            /\ status \in {400, 413, 422}
            /\ flags \subseteq f /\ f \subseteq flags \cup {"body_valid_json"}
            /\ d = Terminal(1, code, status, f, rate, SuccessVariant(cfg, req))
    BY <1>7 DEF Refused
  <2>2. /\ d.status \in {400, 413, 422} /\ d.written = DataStart /\ d.flags = f
        /\ d.hv = SuccessVariant(cfg, req)
    BY <2>1, StatusKept, SMTT(30) DEF Terminal
  <2> HIDE DEF flags, ok
  <2>3. "rate_limited" \notin d.flags /\ (ok => "cors_allowed" \in d.flags)
    BY <1>1, <2>1, <2>2, SMTT(30)
  <2> QED BY <1>2, <1>6, <2>2, <2>3 DEF Honest
<1>8. ASSUME NEW rate, Accepted(cfg, req, rate, cap, d)
      PROVE  Honest(cfg, req, cap, d) /\ d.status = 200
  <2> DEFINE s == Sections(cfg, req, cap)
  <2>1. PICK more :
            /\ more \subseteq {"body_valid_json", "schema_valid", "has_cookies", "has_query",
                               "body_truncated"}
            /\ s.truncated => "body_truncated" \in more
            /\ d = OkDecision(flags \cup more, rate, SuccessVariant(cfg, req), s)
    BY <1>8, ZenonT(30) DEF Accepted
  <2>2. /\ d.status = 200 /\ d.flags = flags \cup more /\ d.hv = SuccessVariant(cfg, req)
        /\ d.cookies = s.cookies /\ d.query = s.query
        /\ d.written = DataStart + s.cookies + s.query + s.body
    BY <2>1, StatusKept, SMTT(30) DEF OkDecision
  <2>3. /\ DataStart + s.cookies + s.query + s.body <= cap
        /\ cfg.parseQuery /\ req.query.len > 0 /\ ~s.truncated /\ DataStart + s.cookies # cap
             => s.query = req.query.json
    <3>1. FitsIn(cfg, req, cap, s)
      BY SectionsFit, Zenon
    <3> HIDE DEF s
    <3> QED BY <3>1, Zenon DEF FitsIn
  <2> HIDE DEF flags, ok, s
  <2>4. /\ "rate_limited" \notin d.flags /\ (ok => "cors_allowed" \in d.flags)
        /\ s.truncated => "body_truncated" \in d.flags
    BY <1>1, <2>1, <2>2, Zenon
  <2> QED BY <1>6, <2>2, <2>3, <2>4 DEF Honest
<1>9. ASSUME NEW rate, ~Present(BodyAnswer(cfg, req, rate)) PROVE BodyFits(cfg, req)
  BY <1>9, BodyPassed, ZenonT(30)
<1> QED BY <1>3, <1>4, <1>5, <1>7, <1>8, <1>9, Answers, SMTT(30)

\* CORS allows the request that a preflight announces.
Upheld(cfg, req) == CorsResult(cfg, Announced(req)).allowed

\* What a preflight is granted, the request it announces gets.
LEMMA PreflightStands ==
    ASSUME NEW cfg, NEW req, WellFormed(req), Granted(cfg, req)
    PROVE  Upheld(cfg, req)
<1> DEFINE a == Announced(req)
           e == cfg.cors[1]
           kind == KindIgnoringCase(req.h.acrm[1])
<1>1. a.kind = kind /\ a.h.origin = req.h.origin /\ a.h.acrm = None
  BY Zenon DEF Announced, WellFormed
<1>2. /\ Present(cfg.cors) /\ Present(req.h.origin)
      /\ Evaluate(e, req.kind, req.h).preflight /\ Evaluate(e, req.kind, req.h).allowed
  BY Zenon DEF CorsResult, Granted
<1>3. OriginAllowed(e, req.h.origin[1]) /\ MethodAllowed(e, kind)
  BY <1>2, ZenonT(30) DEF Evaluate, PreflightMethodAllowed
<1> HIDE DEF a, e, kind
<1>4. Evaluate(e, a.kind, a.h).allowed
  BY <1>1, <1>2, <1>3, Zenon DEF Evaluate, Present
<1> QED BY <1>1, <1>2, <1>4, Zenon DEF Upheld, CorsResult, a, e

\* A set of positive naturals with an upper bound has a greatest element.
LEMMA Greatest ==
    ASSUME NEW n \in Nat, NEW S, S \subseteq 1 .. n, S # {}
    PROVE  Max(S) \in S /\ \A y \in S : Max(S) >= y
<1> DEFINE R == OpToRel(<, Nat)
           T == {n - i : i \in S}
<1>1. IsWellFoundedOn(R, Nat)
  BY NatLessThanWellFounded, Zenon
<1>2. \A a, b \in Nat : a < b => <<a, b>> \in R
  BY DEF OpToRel
<1> HIDE DEF R
<1>3. T \subseteq Nat /\ T # {}
  <2>1. \A i \in 1 .. n : n - i \in Nat
    OBVIOUS
  <2>2. \A i \in S : n - i \in Nat
    BY <2>1
  <2>3. PICK j \in S : TRUE
    BY Zenon
  <2>4. n - j \in T
    OBVIOUS
  <2> QED BY <2>2, <2>4, Zenon
<1> HIDE DEF T
<1>4. PICK m \in T : \A y \in T : ~(<<y, m>> \in R)
  BY <1>1, <1>3, WFMin, Zenon
<1>5. \A y \in T : m <= y
  <2> SUFFICES ASSUME NEW y \in T PROVE m <= y
    OBVIOUS
  <2>1. m \in Nat /\ y \in Nat /\ ~(<<y, m>> \in R)
    BY <1>3, <1>4, Zenon
  <2>2. ~(y < m)
    BY <1>2, <2>1, Zenon
  <2> QED BY <2>1, <2>2
<1>6. PICK x \in S : m = n - x
  BY <1>4, Zenon DEF T
<1>7. \A y \in S : n - y \in T
  BY Zenon DEF T
<1>8. \A y \in S : x >= y
  BY <1>5, <1>6, <1>7
<1> QED BY <1>8, Zenon DEF Max

\* Another hop in front of the list moves the last stop of the walk by one.
LEMMA StopMoves ==
    ASSUME NEW trust, NEW xff \in Seq(STRING), NEW x, ForwardedStop(trust, xff) # {}
    PROVE  LET longer == <<x>> \o xff
           IN  /\ ForwardedStop(trust, longer) # {}
               /\ longer[Max(ForwardedStop(trust, longer))]
                    = xff[Max(ForwardedStop(trust, xff))]
               /\ Max(ForwardedStop(trust, longer)) # 0 /\ Max(ForwardedStop(trust, xff)) # 0
<1> DEFINE longer == <<x>> \o xff
           n == Len(xff)
           stop == ForwardedStop(trust, xff)
           later == ForwardedStop(trust, longer)
<1>1. n \in Nat /\ DOMAIN xff = 1 .. n
  OBVIOUS
<1>2. xff \in Seq(STRING \cup {x}) /\ <<x>> \in Seq(STRING \cup {x})
  OBVIOUS
<1>3. DOMAIN longer = 1 .. n + 1 /\ \A i \in 1 .. n : longer[i + 1] = xff[i]
  BY <1>2
<1> HIDE DEF longer, n
<1>4. stop \subseteq 1 .. n /\ later \subseteq 1 .. n + 1
  BY <1>1, <1>3, Zenon DEF ForwardedStop
<1>5. \A i \in 1 .. n : i \in stop <=> i + 1 \in later
  <2> SUFFICES ASSUME NEW i \in 1 .. n PROVE i \in stop <=> i + 1 \in later
    BY Zenon
  <2>1. i \in DOMAIN xff /\ i + 1 \in DOMAIN longer /\ longer[i + 1] = xff[i]
    BY <1>1, <1>3
  <2> QED BY <2>1, Zenon DEF ForwardedStop
<1> HIDE DEF stop, later
<1>6. Max(stop) \in stop /\ \A y \in stop : Max(stop) >= y
  BY <1>1, <1>4, Greatest, Zenon DEF stop
<1>7. Max(stop) + 1 \in later
  BY <1>4, <1>5, <1>6, Zenon
<1>8. Max(later) \in later /\ \A y \in later : Max(later) >= y
  <2>1. n + 1 \in Nat /\ later # {}
    BY <1>1, <1>7
  <2> QED BY <1>4, <2>1, Greatest, Zenon
<1>9. Max(later) = Max(stop) + 1
  <2>1. PICK j, k : j = Max(stop) /\ k = Max(later)
    OBVIOUS
  <2>2. /\ j \in 1 .. n /\ j \in stop /\ k \in 1 .. n + 1 /\ k \in later
        /\ \A y \in stop : j >= y
        /\ k >= j + 1
    BY <1>4, <1>6, <1>7, <1>8, <2>1, Zenon
  <2>3. ASSUME k > j + 1 PROVE FALSE
    <3>1. k - 1 \in 1 .. n /\ (k - 1) + 1 = k
      BY <1>1, <2>2, <2>3
    <3>2. k - 1 \in stop
      BY <1>5, <2>2, <3>1, Zenon
    <3>3. j >= k - 1
      BY <2>2, <3>2, Zenon
    <3> QED BY <1>1, <2>2, <2>3, <3>3
  <2>4. k = j + 1
    BY <1>1, <2>2, <2>3
  <2> QED BY <2>1, <2>4, Zenon
<1>10. Max(stop) \in 1 .. n
  BY <1>4, <1>6, Zenon
<1>11. later # {} /\ longer[Max(later)] = xff[Max(stop)] /\ Max(later) # 0 /\ Max(stop) # 0
  BY <1>1, <1>3, <1>7, <1>9, <1>10
<1> QED BY <1>11, Zenon DEF longer, stop, later

\* A walk that stops at an address yields it.
LEMMA WalkYields ==
    ASSUME NEW trust, NEW xff, ForwardedStop(trust, xff) # {},
           Max(ForwardedStop(trust, xff)) # 0, Parses(xff[Max(ForwardedStop(trust, xff))])
    PROVE  FromForwarded(trust, xff) = Some(xff[Max(ForwardedStop(trust, xff))])
BY Zenon DEF FromForwarded

\* The client does not depend on what stands in front of the hop the walk
\* stopped at.
LEMMA ClientStays ==
    ASSUME NEW cfg, NEW req, WellFormed(req), Present(req.h.xff), NEW x,
           ForwardedStop(cfg.trust, req.h.xff[1]) # {},
           Parses(req.h.xff[1][Max(ForwardedStop(cfg.trust, req.h.xff[1]))])
    PROVE  ClientOf(cfg, [req EXCEPT !.h.xff = Some(<<x>> \o req.h.xff[1])]) = ClientOf(cfg, req)
<1> DEFINE xff == req.h.xff[1]
           longer == <<x>> \o xff
           other == [req EXCEPT !.h.xff = Some(longer)]
           trust == cfg.trust
           stop == ForwardedStop(trust, xff)
           later == ForwardedStop(trust, longer)
<1>1. xff \in Seq(STRING)
  BY DEF WellFormed
<1>2. other.ip = req.ip /\ other.h.xff = Some(longer) /\ other.h.xri = req.h.xri
  BY Zenon DEF WellFormed
<1>3. later # {} /\ longer[Max(later)] = xff[Max(stop)] /\ Max(later) # 0 /\ Max(stop) # 0
  BY <1>1, StopMoves, Zenon
<1>4. FromForwarded(trust, xff) = Some(xff[Max(stop)])
  BY <1>3, WalkYields, Zenon
<1>5. FromForwarded(trust, longer) = Some(xff[Max(stop)])
  BY <1>3, WalkYields, ZenonT(30)
<1>6. Present(Some(longer)) /\ Some(longer)[1] = longer
  BY Zenon DEF Present, Some, None
<1>7. other.h.xff[1] = longer /\ Present(other.h.xff)
  BY <1>2, <1>6, Zenon
<1>8. FromForwarded(trust, other.h.xff[1]) = FromForwarded(trust, req.h.xff[1])
  BY <1>4, <1>5, <1>7, Zenon
<1> HIDE DEF other
<1>9. ClientOf(cfg, other) = ClientOf(cfg, req)
  BY <1>2, <1>7, <1>8, Zenon DEF ClientOf, ResolveClientIp
<1> QED BY <1>9 DEF other

-----------------------------------------------------------------------------
(***************************************************************************)
(* Induction, and functions defined by it.                                 *)
(***************************************************************************)

\* A set of naturals has a least member.
LEMMA LeastOf ==
    ASSUME NEW S, S \subseteq Nat, S # {}
    PROVE  \E m \in S : \A y \in S : m <= y
<1> DEFINE R == OpToRel(<, Nat)
<1>1. IsWellFoundedOn(R, Nat)
  BY NatLessThanWellFounded, Zenon
<1>2. \A a, b \in Nat : a < b => <<a, b>> \in R
  BY DEF OpToRel
<1> HIDE DEF R
<1>3. PICK m \in S : \A y \in S : ~(<<y, m>> \in R)
  BY <1>1, WFMin, Zenon
<1>4. ASSUME NEW y \in S PROVE m <= y
  <2>1. m \in Nat /\ y \in Nat /\ ~(<<y, m>> \in R)
    BY <1>3, Zenon
  <2>2. ~(y < m)
    BY <1>2, <2>1, Zenon
  <2> QED BY <2>1, <2>2
<1> QED BY <1>3, <1>4, Zenon

\* A set that holds 0 and, with each number below n, its successor.
LEMMA UpTo ==
    ASSUME NEW n \in Nat, NEW P, 0 \in P, \A i \in 1 .. n : i - 1 \in P => i \in P
    PROVE  \A i \in 0 .. n : i \in P
<1> DEFINE S == {i \in 0 .. n : i \notin P}
<1> SUFFICES ASSUME S # {} PROVE FALSE
  OBVIOUS
<1>1. S \subseteq Nat
  OBVIOUS
<1>2. PICK k \in S : \A y \in S : k <= y
  BY <1>1, LeastOf, Zenon
<1>3. k \in 0 .. n /\ k \notin P /\ k # 0
  BY <1>2, Zenon
<1>4. k \in 1 .. n /\ k - 1 \in 0 .. n /\ ~(k <= k - 1)
  BY <1>3
<1>5. k - 1 \notin S
  BY <1>2, <1>4, Zenon
<1> QED BY <1>3, <1>4, <1>5, Zenon

\* g applies step[1], step[2], ... step[k] in turn.
Iterates(g, M, start, step, k) ==
    /\ g \in [0 .. k -> M]
    /\ g[0] = start
    /\ \A i \in 1 .. k : g[i] = step[i][g[i - 1]]

\* Steps that stay in a set can be applied one after the other.
LEMMA Iteration ==
    ASSUME NEW M, NEW n \in Nat, NEW start \in M, NEW step \in [1 .. n -> [M -> M]]
    PROVE  \E g : Iterates(g, M, start, step, n)
<1> DEFINE P == {k \in 0 .. n : \E g : Iterates(g, M, start, step, k)}
<1>1. 0 \in P
  <2>1. Iterates([i \in 0 .. 0 |-> start], M, start, step, 0)
    BY DEF Iterates
  <2> QED BY <2>1
<1>2. ASSUME NEW k \in 1 .. n, k - 1 \in P PROVE k \in P
  <2>1. PICK g : Iterates(g, M, start, step, k - 1)
    BY <1>2, Zenon
  <2> DEFINE h == [i \in 0 .. k |-> IF i = k THEN step[k][g[k - 1]] ELSE g[i]]
  <2>2. /\ g \in [0 .. k - 1 -> M] /\ g[0] = start
        /\ \A i \in 1 .. k - 1 : g[i] = step[i][g[i - 1]]
    BY <2>1, Zenon DEF Iterates
  <2>3. step[k] \in [M -> M] /\ g[k - 1] \in M
    BY <2>2
  <2>4. step[k][g[k - 1]] \in M
    BY <2>3, Zenon
  <2>5. h \in [0 .. k -> M] /\ h[0] = start
    BY <2>2, <2>4, SMTT(30)
  <2>6. ASSUME NEW i \in 1 .. k PROVE h[i] = step[i][h[i - 1]]
    <3>1. i - 1 \in 0 .. k - 1 /\ i \in 0 .. k /\ h[i - 1] = g[i - 1]
      OBVIOUS
    <3>2. CASE i = k
      BY <3>1, <3>2, Zenon
    <3>3. CASE i # k
      <4>1. i \in 1 .. k - 1 /\ h[i] = g[i]
        BY <3>1, <3>3
      <4> QED BY <2>2, <3>1, <4>1, Zenon
    <3> QED BY <3>2, <3>3, Zenon
  <2>7. Iterates(h, M, start, step, k)
    BY <2>5, <2>6, Zenon DEF Iterates
  <2> QED BY <2>7
<1> HIDE DEF P
<1>3. \A i \in 0 .. n : i \in P
  BY <1>1, <1>2, UpTo, Zenon
<1>4. n \in P
  BY <1>3
<1> QED BY <1>4, Zenon DEF P

-----------------------------------------------------------------------------
(***************************************************************************)
(* The limiter.                                                            *)
(***************************************************************************)

\* Integer division.
LEMMA Quotient ==
    ASSUME NEW a \in Nat, NEW w \in Nat \ {0}
    PROVE  a \div w \in Nat /\ w * (a \div w) <= a /\ a < w * (a \div w) + w
OBVIOUS

\* Of two multiples.
LEMMA Multiples ==
    ASSUME NEW a \in Int, NEW b \in Int, NEW w \in Nat \ {0}, w * a < w * b + w
    PROVE  a <= b
<1> SUFFICES ASSUME ~(a <= b) PROVE FALSE
  OBVIOUS
<1>1. a >= b + 1
  OBVIOUS
<1>2. w * a >= w * (b + 1)
  BY <1>1
<1>3. w * (b + 1) = w * b + w
  OBVIOUS
<1> QED BY <1>2, <1>3

\* A larger number has no smaller quotient.
LEMMA QuotientGrows ==
    ASSUME NEW a \in Nat, NEW b \in Nat, NEW w \in Nat \ {0}, a <= b
    PROVE  a \div w <= b \div w
<1>1. /\ a \div w \in Nat /\ w * (a \div w) <= a
      /\ b \div w \in Nat /\ b < w * (b \div w) + w
  BY Quotient, Zenon
<1>2. w * (a \div w) < w * (b \div w) + w
  <2> DEFINE x == w * (a \div w)
             y == w * (b \div w)
  <2>1. x \in Int /\ y \in Int
    BY <1>1
  <2> HIDE DEF x, y
  <2>2. x < y + w
    BY <1>1, <2>1 DEF x, y
  <2> QED BY <2>2, Zenon DEF x, y
<1> QED BY <1>1, <1>2, Multiples

\* More of a smaller count than of a larger one is left beside its weight.
LEMMA LighterPrevious ==
    ASSUME NEW p \in Nat, NEW m \in Nat, NEW w \in Nat \ {0}, p <= m, 2 <= w
    PROVE  p - (2 * p) \div w <= m - (2 * m) \div w
<1> DEFINE a == (2 * p) \div w
           b == (2 * m) \div w
           d == m - p
<1>1. /\ a \in Nat /\ 2 * p < w * a + w
      /\ b \in Nat /\ w * b <= 2 * m
  BY Quotient
<1>2. d \in Nat /\ 2 * m = 2 * p + 2 * d
  OBVIOUS
<1>3. 2 * d <= w * d
  BY <1>2
<1> HIDE DEF a, b, d
<1>4. w * (a + d) = w * a + w * d
  BY <1>1, <1>2
<1>5. w * b < w * (a + d) + w
  <2> DEFINE x == w * a
             y == w * d
             z == w * b
  <2>1. x \in Int /\ y \in Int /\ z \in Int
    BY <1>1, <1>2
  <2>2. 2 * p < x + w /\ z <= 2 * m /\ 2 * d <= y
    BY <1>1, <1>3, Zenon
  <2> HIDE DEF x, y, z
  <2>3. z < x + y + w
    BY <1>2, <2>1, <2>2
  <2> QED BY <1>4, <2>1, <2>3, Zenon DEF x, y, z
<1>6. b <= a + d
  <2>1. a + d \in Int /\ b \in Int
    BY <1>1, <1>2
  <2> QED BY <1>5, <2>1, Multiples, Zenon
<1> QED BY <1>1, <1>6 DEF a, b, d

-----------------------------------------------------------------------------
\* WindowCounter.
CounterType == [start : Nat, prev : Nat, curr : Nat]

\* A fresh counter is one.
LEMMA FreshTyped == ASSUME NEW now \in Nat PROVE FreshCounter(now) \in CounterType
BY Zenon DEF FreshCounter, CounterType

\* What AdvanceWindow leaves: the counter itself, a fresh one, or one whose
\* current count became the previous one.  At `now` its window is not over.
LEMMA Advanced ==
    ASSUME NEW c \in CounterType, NEW now \in Nat, NEW w \in Nat \ {0},
           NEW d, d = AdvanceWindow(c, now, w)
    PROVE  /\ d \in CounterType
           /\ Minus(now, d.start) < w
           /\ \/ d = c /\ Minus(now, c.start) < w
              \/ d.start = now /\ d.prev = 0 /\ d.curr = 0 /\ c.start + 2 * w <= now
              \/ /\ d.start = c.start + w /\ d.prev = c.curr /\ d.curr = 0
                 /\ d.start <= now
<1>1. c.start \in Nat /\ c.prev \in Nat /\ c.curr \in Nat
  BY Zenon DEF CounterType
<1>2. CASE Minus(now, c.start) < w
  BY <1>1, <1>2, Zenon DEF AdvanceWindow
<1>3. CASE Minus(now, c.start) >= 2 * w
  <2>1. d = FreshCounter(now) /\ c.start + 2 * w <= now
    BY <1>1, <1>3 DEF AdvanceWindow, Minus
  <2>2. d.start = now /\ d.prev = 0 /\ d.curr = 0 /\ d \in CounterType
    BY <2>1 DEF FreshCounter, CounterType
  <2>3. Minus(now, now) < w
    BY DEF Minus
  <2> QED BY <2>1, <2>2, <2>3, Zenon
<1>4. CASE Minus(now, c.start) >= w /\ ~(Minus(now, c.start) >= 2 * w)
  <2>1. /\ d = [start |-> c.start + w, prev |-> c.curr, curr |-> 0]
        /\ c.start + w <= now /\ now < c.start + 2 * w
    BY <1>1, <1>4 DEF AdvanceWindow, Minus
  <2>2. d.start = c.start + w /\ d.prev = c.curr /\ d.curr = 0 /\ d \in CounterType
    BY <1>1, <2>1 DEF CounterType
  <2> QED BY <1>1, <2>1, <2>2 DEF Minus
<1>5. Minus(now, c.start) \in Int
  BY <1>1 DEF Minus
<1> QED BY <1>2, <1>3, <1>4, <1>5

\* What a counter weighs before its window is over.
LEMMA WeightIs ==
    ASSUME NEW c \in CounterType, NEW now \in Nat, NEW w \in Nat \ {0}, Minus(now, c.start) < w
    PROVE  /\ Weighted(c, now, w) \in Nat
           /\ c.curr <= Weighted(c, now, w) /\ Weighted(c, now, w) <= c.prev + c.curr
           /\ now <= c.start => Weighted(c, now, w) = c.prev + c.curr
           /\ c.start <= now /\ now - c.start + 2 <= w =>
                 c.curr + (2 * c.prev) \div w <= Weighted(c, now, w)
<1> DEFINE e == Minus(now, c.start)
           x == w - e
           p == c.prev
<1>1. c.start \in Nat /\ p \in Nat /\ c.curr \in Nat
  BY Zenon DEF CounterType
<1>2. e \in Nat /\ e < w
  BY <1>1 DEF Minus
<1>3. x \in Nat /\ Minus(w, Smaller(e, w)) = x
  BY <1>2 DEF Minus, Smaller
<1> HIDE DEF e, x, p
<1>4. Weighted(c, now, w) = (p * x) \div w + c.curr
  BY <1>3, Zenon DEF Weighted, e, p
<1>5. p * x \in Nat
  BY <1>1, <1>3
<1>6. (p * x) \div w \in Nat
  BY <1>5, Quotient, Zenon
<1>7. (w * p) \div w = p /\ w * p \in Nat
  <2> DEFINE q == (w * p) \div w
             y == w * q
             z == w * p
  <2>1. z \in Nat
    BY <1>1
  <2>2. q \in Nat /\ y \in Int /\ y <= z /\ z < y + w
    BY <2>1, Quotient
  <2> HIDE DEF q
  <2>3. w * q < w * p + w
    <3> HIDE DEF y, z
    <3>1. y < z + w
      BY <2>1, <2>2
    <3> QED BY <3>1, Zenon DEF y, z
  <2>4. q <= p /\ p <= q
    BY <1>1, <2>2, <2>3, Multiples
  <2> QED BY <1>1, <2>1, <2>2, <2>4 DEF q
<1>a. (p * x) \div w <= p
  <2>1. p * x <= w * p
    BY <1>1, <1>2, <1>3 DEF x
  <2>2. (p * x) \div w <= (w * p) \div w
    BY <1>5, <1>7, <2>1, QuotientGrows, Zenon
  <2> QED BY <1>7, <2>2, Zenon
<1>b. now <= c.start => (p * x) \div w = p
  <2> SUFFICES ASSUME now <= c.start PROVE (p * x) \div w = p
    BY Zenon
  <2>1. e = 0
    BY <1>1 DEF e, Minus
  <2>2. p * x = w * p
    BY <1>1, <1>2, <2>1 DEF x
  <2> QED BY <1>7, <2>2, Zenon
<1>8. ASSUME c.start <= now, now - c.start + 2 <= w PROVE (2 * p) \div w <= (p * x) \div w
  <2>1. 2 <= x
    BY <1>1, <1>8 DEF x, e, Minus
  <2>2. 2 * p <= p * x
    BY <1>1, <1>3, <2>1
  <2>3. 2 * p \in Nat
    BY <1>1
  <2> QED BY <1>5, <2>2, <2>3, QuotientGrows, Zenon
<1>9. (2 * p) \div w \in Nat
  <2>1. 2 * p \in Nat
    BY <1>1
  <2> QED BY <2>1, Quotient, Zenon
<1> DEFINE q == (p * x) \div w
           r == (2 * p) \div w
<1> HIDE DEF q, r
<1>10. q \in Nat /\ r \in Nat /\ Weighted(c, now, w) = q + c.curr
       /\ q <= p /\ (now <= c.start => q = p)
       /\ (c.start <= now /\ now - c.start + 2 <= w => r <= q)
  BY <1>4, <1>6, <1>8, <1>9, <1>a, <1>b, SMTT(30) DEF q, r
<1>11. (2 * c.prev) \div w = r
  BY DEF r, p
<1> QED BY <1>1, <1>10, <1>11 DEF p

-----------------------------------------------------------------------------
(* The readings of a key's admissions, against its counter.                *)

\* The most admissions a window can hold.
Most(m, w) == Larger(m, 2 * m - (2 * m) \div w)

\* The readings are in order.
InTurn(n, at) == \A i, j \in 1 .. n : i <= j => at[i] <= at[j]

\* None is past the counter's window, no more than `curr` of them are in it, and
\* no more than `curr` and `prev` together in it and in the window before.
Covered(w, start, prev, curr, n, at) ==
    \A i \in 1 .. n :
        /\ at[i] < start + w
        /\ i + curr <= n => at[i] < start
        /\ i + curr + prev <= n => at[i] + w < start

\* The counter accounts for the readings.
Counted(m, w, start, prev, curr, at) ==
    /\ curr <= m /\ prev <= m
    /\ InTurn(Len(at), at)
    /\ Covered(w, start, prev, curr, Len(at), at)

\* As many admissions later, the window has passed.
Spread(m, w, at) ==
    \A i, j \in 1 .. Len(at) : i + Most(m, w) <= j => at[i] + w <= at[j]

\* The window moved past the last reading only if that left no room.
Current(m, c, at) == Len(at) > 0 /\ (c.start <= at[Len(at)] \/ c.prev = m)

\* All of it, for one counter: what ties a counter to the readings it admitted.
Follows(m, w, c, at) ==
    /\ at \in Seq(Nat) /\ Spread(m, w, at) /\ Current(m, c, at)
    /\ Counted(m, w, c.start, c.prev, c.curr, at)

\* What the history keeps of an admission.
Noted(at, now) == IF \A i \in DOMAIN at : at[i] <= now THEN Append(at, now) ELSE at

\* The window moves past what it leaves behind.
LEMMA AdvanceCounted ==
    ASSUME NEW m \in Nat \ {0}, NEW w \in Nat \ {0}, NEW now \in Nat,
           NEW s \in Nat, NEW p \in Nat, NEW k \in Nat, NEW at \in Seq(Nat),
           Counted(m, w, s, p, k, at)
    PROVE  /\ s + 2 * w <= now =>
                  /\ Counted(m, w, now, 0, 0, at)
                  /\ \A i \in 1 .. Len(at) : at[i] < now
           /\ Counted(m, w, s + w, k, 0, at)
           /\ \A i \in 1 .. Len(at) : at[i] < s + w
<1>1. Len(at) \in Nat /\ \A i \in 1 .. Len(at) : at[i] \in Nat
  OBVIOUS
<1>2. /\ k <= m /\ p <= m
      /\ \A i, j \in 1 .. Len(at) : i <= j => at[i] <= at[j]
      /\ \A i \in 1 .. Len(at) :
            /\ at[i] < s + w
            /\ i + k <= Len(at) => at[i] < s
  BY Zenon DEF Counted, InTurn, Covered
<1>3. ASSUME s + 2 * w <= now
      PROVE  Counted(m, w, now, 0, 0, at) /\ \A i \in 1 .. Len(at) : at[i] < now
  <2>1. \A i \in 1 .. Len(at) : at[i] < now /\ at[i] + w < now /\ at[i] < now + w
    BY <1>1, <1>2, <1>3, SMTT(30)
  <2>2. 0 <= m
    OBVIOUS
  <2> QED BY <1>2, <2>1, <2>2, Zenon DEF Counted, InTurn, Covered
<1>4. Counted(m, w, s + w, k, 0, at)
  <2>1. \A i \in 1 .. Len(at) : /\ at[i] < s + w /\ at[i] < s + w + w
                                /\ i + 0 + k <= Len(at) => at[i] + w < s + w
    BY <1>1, <1>2, SMTT(30)
  <2>2. 0 <= m
    OBVIOUS
  <2> QED BY <1>2, <2>1, <2>2, Zenon DEF Counted, InTurn, Covered
<1> QED BY <1>2, <1>3, <1>4, Zenon

\* An admission in order at `now`, when the window weighs g.
LEMMA AdmissionCounted ==
    ASSUME NEW m \in Nat \ {0}, NEW w \in Nat \ {0}, NEW now \in Nat,
           NEW s \in Nat, NEW p \in Nat, NEW k \in Nat, NEW n \in Nat,
           NEW at \in [1 .. n -> Nat], NEW at2 \in [1 .. n + 1 -> Nat], NEW g \in Nat,
           s <= now, now < s + w, g < m, k <= g, \A i \in 1 .. n : at[i] <= now,
           at2[n + 1] = now, \A i \in 1 .. n : at2[i] = at[i],
           InTurn(n, at), Covered(w, s, p, k, n, at)
    PROVE  InTurn(n + 1, at2) /\ Covered(w, s, p, k + 1, n + 1, at2)
<1>0. /\ \A i, j \in 1 .. n : i <= j => at[i] <= at[j]
      /\ \A i \in 1 .. n : /\ at[i] < s + w
                           /\ i + k <= n => at[i] < s
                           /\ i + k + p <= n => at[i] + w < s
  BY Zenon DEF InTurn, Covered
<1>1. ASSUME NEW i \in 1 .. n + 1, NEW j \in 1 .. n + 1, i <= j PROVE at2[i] <= at2[j]
  <2>1. CASE j = n + 1
    <3>1. CASE i = n + 1
      BY <2>1, <3>1
    <3>2. CASE i \in 1 .. n
      BY <2>1, <3>2, Zenon
    <3> QED BY <3>1, <3>2
  <2>2. CASE j \in 1 .. n
    <3>1. i \in 1 .. n
      BY <1>1, <2>2
    <3> QED BY <1>0, <1>1, <2>2, <3>1
  <2> QED BY <2>1, <2>2
<1>2. ASSUME NEW i \in 1 .. n + 1
      PROVE  /\ at2[i] < s + w
             /\ i + (k + 1) <= n + 1 => at2[i] < s
             /\ i + (k + 1) + p <= n + 1 => at2[i] + w < s
  <2>1. CASE i = n + 1
    BY <2>1
  <2>2. CASE i \in 1 .. n
    BY <1>0, <2>2
  <2> QED BY <2>1, <2>2
<1> QED BY <1>1, <1>2, Zenon DEF InTurn, Covered

\* The same for the distance of admissions.
LEMMA AdmissionSpread ==
    ASSUME NEW m \in Nat \ {0}, NEW w \in Nat \ {0}, NEW now \in Nat,
           NEW s \in Nat, NEW p \in Nat, NEW k \in Nat, NEW n \in Nat,
           NEW g \in Nat, NEW q \in Nat, NEW b \in Nat,
           NEW most \in Nat, m <= most, 2 * m - b <= most,
           s <= now, now < s + w, g < m, k <= g, p <= m,
           now - s + 2 <= w => k + q <= g,
           2 <= w => p - q <= m - b,
           NEW i \in 1 .. n, i + most <= n + 1,
           NEW a \in Nat, i + k <= n => a < s, i + k + p <= n => a + w < s
    PROVE  a + w <= now
OBVIOUS

\* One more in the current window.
LEMMA OneMore ==
    ASSUME NEW c \in CounterType, NEW e, e = [c EXCEPT !.curr = @ + 1]
    PROVE  /\ e \in CounterType
           /\ e.start = c.start /\ e.prev = c.prev /\ e.curr = c.curr + 1
BY DEF CounterType

\* Readings are a function of their index.
LEMMA ReadingsIndexed ==
    ASSUME NEW at \in Seq(Nat)
    PROVE  at \in [1 .. Len(at) -> Nat]
OBVIOUS

\* One more reading.
Longer(at, now, at2) ==
    /\ at2 \in Seq(Nat) /\ Len(at2) = Len(at) + 1
    /\ at2 \in [1 .. Len(at) + 1 -> Nat] /\ at2[Len(at) + 1] = now
    /\ \A i \in 1 .. Len(at) : at2[i] = at[i]

\* A reading that is appended makes the sequence one longer.
LEMMA Appended ==
    ASSUME NEW at \in Seq(Nat), NEW now \in Nat, NEW at2, at2 = Append(at, now)
    PROVE  Longer(at, now, at2)
<1>1. at2 \in Seq(Nat) /\ Len(at2) = Len(at) + 1
  OBVIOUS
<1>2. at2[Len(at) + 1] = now /\ \A i \in 1 .. Len(at) : at2[i] = at[i]
  OBVIOUS
<1>3. at2 \in [1 .. Len(at2) -> Nat]
  BY <1>1, ReadingsIndexed, Zenon
<1> QED BY <1>1, <1>2, <1>3, Zenon DEF Longer

\* A check keeps counter and readings together: of a key that was there, or of
\* a new one.
LEMMA CheckFollows ==
    ASSUME NEW m \in Nat \ {0}, NEW w \in Nat \ {0}, NEW now \in Nat,
           NEW c \in CounterType, NEW at \in Seq(Nat),
           Follows(m, w, c, at) \/ (c = FreshCounter(now) /\ at = <<>>),
           NEW r, r = CheckCounter(c, now, m, w)
    PROVE  /\ r.counter \in CounterType /\ r.outcome.allowed \in BOOLEAN
           /\ Follows(m, w, r.counter, IF r.outcome.allowed THEN Noted(at, now) ELSE at)
<1> DEFINE d == AdvanceWindow(c, now, w)
           g == Weighted(d, now, w)
           n == Len(at)
<1>1. /\ d \in CounterType /\ Minus(now, d.start) < w
      /\ \/ d = c /\ Minus(now, c.start) < w
         \/ d.start = now /\ d.prev = 0 /\ d.curr = 0 /\ c.start + 2 * w <= now
         \/ /\ d.start = c.start + w /\ d.prev = c.curr /\ d.curr = 0
            /\ d.start <= now
  BY Advanced, Zenon
<1>2. /\ g \in Nat /\ d.curr <= g /\ g <= d.prev + d.curr
      /\ (now <= d.start => g = d.prev + d.curr)
      /\ (d.start <= now /\ now - d.start + 2 <= w => d.curr + (2 * d.prev) \div w <= g)
  BY <1>1, WeightIs, Zenon
<1>3. /\ g < m => /\ r.counter = [d EXCEPT !.curr = @ + 1] /\ r.outcome.allowed = TRUE
      /\ ~(g < m) => r.counter = d /\ r.outcome.allowed = FALSE
  BY Zenon DEF CheckCounter
<1> HIDE DEF d, g
<1>4. PICK s \in Nat, p \in Nat, k \in Nat : d.start = s /\ d.prev = p /\ d.curr = k
  BY <1>1, Zenon DEF CounterType
<1>5. PICK s0 \in Nat, p0 \in Nat, k0 \in Nat : c.start = s0 /\ c.prev = p0 /\ c.curr = k0
  BY Zenon DEF CounterType
<1>6. /\ n \in Nat /\ at \in [1 .. n -> Nat] /\ DOMAIN at = 1 .. n
      /\ \A i \in 1 .. n : at[i] \in Nat
  OBVIOUS
<1>7. /\ \/ d = c /\ s = s0 /\ p = p0 /\ k = k0
         \/ s = now /\ p = 0 /\ k = 0 /\ s0 + 2 * w <= now
         \/ s = s0 + w /\ p = k0 /\ k = 0 /\ s <= now
      /\ now < s + w
      /\ k <= g /\ g <= p + k /\ (now <= s => g = p + k)
      /\ (s <= now /\ now - s + 2 <= w => k + (2 * p) \div w <= g)
  <2>1. /\ \/ d = c
           \/ s = now /\ p = 0 /\ k = 0 /\ s0 + 2 * w <= now
           \/ s = s0 + w /\ p = k0 /\ k = 0 /\ s <= now
        /\ k <= g /\ g <= p + k /\ (now <= s => g = p + k)
        /\ (s <= now /\ now - s + 2 <= w => k + (2 * p) \div w <= g)
    BY <1>1, <1>2, <1>4, <1>5, Zenon
  <2>2. d = c => s = s0 /\ p = p0 /\ k = k0
    BY <1>4, <1>5, Zenon
  <2>3. Minus(now, s) < w
    BY <1>1, <1>4, Zenon
  <2>4. now < s + w
    BY <2>3 DEF Minus
  <2> QED BY <2>1, <2>2, <2>4, Zenon
<1>8. /\ Counted(m, w, s, p, k, at) /\ Spread(m, w, at)
      /\ d = c \/ (s <= now /\ \A i \in 1 .. n : at[i] < s)
      /\ d = c => \/ Current(m, c, at)
                  \/ s = now /\ p = 0 /\ k = 0 /\ n = 0
      /\ d # c => n > 0 \/ (s = now /\ p = 0 /\ k = 0 /\ n = 0)
  <2>1. CASE c = FreshCounter(now) /\ at = <<>>
    <3>1. s0 = now /\ p0 = 0 /\ k0 = 0 /\ n = 0
      BY <1>5, <2>1 DEF FreshCounter
    <3>2. s = now /\ p = 0 /\ k = 0
      BY <1>7, <3>1
    <3>3. Counted(m, w, s, p, k, at) /\ Spread(m, w, at)
      <4>1. Len(at) = 0 /\ 1 .. 0 = {}
        BY <3>1
      <4>2. 0 <= m
        OBVIOUS
      <4> QED BY <3>2, <4>1, <4>2, Zenon DEF Counted, InTurn, Covered, Spread
    <3>4. s <= now /\ \A i \in 1 .. n : at[i] < s
      BY <3>1, <3>2
    <3> QED BY <3>1, <3>2, <3>3, <3>4, Zenon
  <2>2. CASE Follows(m, w, c, at)
    <3>1. /\ Counted(m, w, s0, p0, k0, at) /\ Spread(m, w, at) /\ Current(m, c, at)
      BY <1>5, <2>2, Zenon DEF Follows
    <3>2. n > 0
      BY <3>1 DEF Current
    <3>3. /\ s0 + 2 * w <= now =>
                  /\ Counted(m, w, now, 0, 0, at)
                  /\ \A i \in 1 .. n : at[i] < now
          /\ Counted(m, w, s0 + w, k0, 0, at)
          /\ \A i \in 1 .. n : at[i] < s0 + w
      BY <3>1, AdvanceCounted, Zenon
    <3>4. /\ Counted(m, w, s, p, k, at)
          /\ d = c \/ (s <= now /\ \A i \in 1 .. n : at[i] < s)
      <4>0. now <= now
        OBVIOUS
      <4> HIDE DEF n
      <4> QED BY <1>7, <3>1, <3>3, <4>0, Zenon
    <3> QED BY <3>1, <3>2, <3>4, Zenon
  <2> QED BY <2>1, <2>2
<1>9. /\ k <= m /\ p <= m
      /\ \A i, j \in 1 .. n : i <= j => at[i] <= at[j]
      /\ \A i \in 1 .. n :
            /\ at[i] < s + w
            /\ i + k <= n => at[i] < s
            /\ i + k + p <= n => at[i] + w < s
  BY <1>8, Zenon DEF Counted, InTurn, Covered
<1>10. CASE ~(g < m)
  <2>1. r.counter = d /\ r.outcome.allowed = FALSE
    BY <1>3, <1>10, Zenon
  <2>2. p + k >= m
    BY <1>2, <1>7, <1>10
  <2>3. n > 0 /\ Current(m, d, at)
    <3>1. CASE d = c
      <4>1. Current(m, c, at)
        BY <1>8, <2>2, <3>1
      <4> QED BY <3>1, <4>1, Zenon DEF Current
    <3>2. CASE d # c
      <4>1. p = m /\ n > 0
        BY <1>7, <1>8, <1>9, <2>2, <3>2
      <4> QED BY <1>4, <4>1, Zenon DEF Current
    <3> QED BY <3>1, <3>2, Zenon
  <2>4. Follows(m, w, d, at)
    BY <1>4, <1>8, <2>3, Zenon DEF Follows
  <2> QED BY <1>1, <2>1, <2>4, Zenon
<1>11. CASE g < m
  <2> DEFINE e == [d EXCEPT !.curr = @ + 1]
  <2>1. r.counter = e /\ r.outcome.allowed = TRUE
    BY <1>3, <1>11, Zenon
  <2>2. /\ e \in CounterType
        /\ e.start = s /\ e.prev = p /\ e.curr = k + 1
    BY <1>1, <1>4, OneMore, Zenon
  <2>3. k + 1 <= m
    BY <1>2, <1>7, <1>11
  <2> HIDE DEF e
  <2>4. CASE \A i \in DOMAIN at : at[i] <= now
    <3> DEFINE at2 == Append(at, now)
    <3>1. /\ Noted(at, now) = at2 /\ at2 \in Seq(Nat) /\ Len(at2) = n + 1
          /\ at2 \in [1 .. n + 1 -> Nat] /\ at2[n + 1] = now
          /\ \A i \in 1 .. n : at2[i] = at[i]
      <4>1. Noted(at, now) = at2
        BY <2>4, Zenon DEF Noted
      <4>2. /\ at2 \in Seq(Nat) /\ Len(at2) = Len(at) + 1
            /\ at2 \in [1 .. Len(at) + 1 -> Nat] /\ at2[Len(at) + 1] = now
            /\ \A i \in 1 .. Len(at) : at2[i] = at[i]
        <5> HIDE DEF at2
        <5>1. at2 = Append(at, now)
          BY Zenon DEF at2
        <5>2. Longer(at, now, at2)
          BY <5>1, Appended, Zenon
        <5> QED BY <5>2, Zenon DEF Longer
      <4> QED BY <4>1, <4>2, Zenon DEF n
    <3>2. s <= now
      <4>1. CASE d # c
        BY <1>8, <4>1, Zenon
      <4>2. CASE d = c
        <5>1. CASE Current(m, c, at)
          <6>1. n > 0 /\ (s <= at[n] \/ p = m)
            BY <1>4, <4>2, <5>1, Zenon DEF Current
          <6>2. at[n] <= now /\ at[n] \in Nat
            BY <1>6, <2>4, <6>1, SMTT(30)
          <6>3. p = m => s <= now
            BY <1>2, <1>7, <1>11
          <6> QED BY <6>1, <6>2, <6>3
        <5>2. CASE s = now
          BY <5>2
        <5> QED BY <1>8, <4>2, <5>1, <5>2, SMTT(30)
      <4> QED BY <4>1, <4>2, Zenon
    <3> HIDE DEF at2, n
    <3>3. \A i \in 1 .. n : at[i] <= now
      BY <1>6, <2>4, Zenon
    <3>4. InTurn(n + 1, at2) /\ Covered(w, s, p, k + 1, n + 1, at2)
      <4>1. /\ n \in Nat /\ at \in [1 .. n -> Nat] /\ g \in Nat /\ now < s + w /\ k <= g
            /\ g < m
        BY <1>2, <1>6, <1>7, <1>11, Zenon
      <4>2. InTurn(n, at) /\ Covered(w, s, p, k, n, at)
        BY <1>8, Zenon DEF Counted, n
      <4>3. at2 \in [1 .. n + 1 -> Nat] /\ at2[n + 1] = now /\ \A i \in 1 .. n : at2[i] = at[i]
        BY <3>1, Zenon
      <4> QED BY <3>2, <3>3, <4>1, <4>2, <4>3, AdmissionCounted, Zenon
    <3>5. Counted(m, w, s, p, k + 1, at2)
      BY <1>9, <2>3, <3>1, <3>4, Zenon DEF Counted
    <3>6. Spread(m, w, at2)
      <4> DEFINE q == (2 * p) \div w
                 b == (2 * m) \div w
                 most == Most(m, w)
      <4>1. q \in Nat /\ b \in Nat
        BY Quotient, SMTT(30)
      <4>2. 2 <= w => p - q <= m - b
        BY <1>9, LighterPrevious, Zenon
      <4>3. (s <= now /\ now - s + 2 <= w => k + q <= g) /\ g \in Nat
        BY <1>2, <1>7, Zenon
      <4>4. most = Larger(m, 2 * m - b)
        BY Zenon DEF Most
      <4> HIDE DEF q, b, most
      <4>5. most \in Nat /\ m <= most /\ 2 * m - b <= most
        BY <4>1, <4>4, SMTT(30) DEF Larger
      <4>6. ASSUME NEW i \in 1 .. n, i + most <= n + 1 PROVE at[i] + w <= now
        <5>1. now - s + 2 <= w => k + q <= g
          BY <3>2, <4>3, Zenon
        <5>2. (i + k <= n => at[i] < s) /\ (i + k + p <= n => at[i] + w < s)
          BY <1>9, <4>6, Zenon
        <5>3. PICK a \in Nat : a = at[i]
          BY <1>6, <4>6, Zenon
        <5>4. (i + k <= n => a < s) /\ (i + k + p <= n => a + w < s)
          BY <5>2, <5>3, ZenonT(30)
        <5>5. a + w <= now
          BY <1>6, <1>7, <1>9, <1>11, <3>2, <4>1, <4>2, <4>3, <4>5, <4>6, <5>1, <5>4,
             AdmissionSpread, SMTT(30)
        <5> QED BY <5>3, <5>5, Zenon
      <4>7. \A i, j \in 1 .. n : i + most <= j => at[i] + w <= at[j]
        BY <1>8, Zenon DEF Spread, most, n
      <4>8. ASSUME NEW i \in 1 .. n + 1, NEW j \in 1 .. n + 1, i + most <= j
            PROVE  at2[i] + w <= at2[j]
        <5>1. i \in 1 .. n
          BY <1>6, <4>5, <4>8, SMTT(30)
        <5>2. CASE j = n + 1
          BY <1>6, <3>1, <4>6, <4>8, <5>1, <5>2, Zenon
        <5>3. CASE j \in 1 .. n
          BY <3>1, <4>7, <4>8, <5>1, <5>3, Zenon
        <5> QED BY <1>6, <5>2, <5>3, SMTT(30)
      <4> QED BY <3>1, <4>8, Zenon DEF Spread, most
    <3>7. Current(m, e, at2)
      <4>1. n + 1 > 0 /\ at2[Len(at2)] = now
        BY <1>6, <3>1
      <4> QED BY <2>2, <3>1, <3>2, <4>1, Zenon DEF Current
    <3>8. Follows(m, w, e, at2)
      BY <2>2, <3>1, <3>5, <3>6, <3>7, Zenon DEF Follows
    <3> QED BY <2>1, <2>2, <3>1, <3>8, Zenon
  <2>5. CASE ~(\A i \in DOMAIN at : at[i] <= now)
    <3>1. Noted(at, now) = at
      BY <2>5, Zenon DEF Noted
    <3>2. PICK i \in 1 .. n : ~(at[i] <= now)
      BY <1>6, <2>5, Zenon
    <3>3. d = c
      BY <1>6, <1>8, <3>2, SMTT(30)
    <3>4. Current(m, c, at)
      BY <1>6, <1>8, <3>2, <3>3
    <3>5. Current(m, e, at)
      <4>1. e.start = c.start /\ e.prev = c.prev
        BY <1>4, <2>2, <3>3, Zenon
      <4> QED BY <3>4, <4>1, Zenon DEF Current
    <3>6. Counted(m, w, s, p, k + 1, at)
      <4>1. \A x \in 1 .. n :
                  /\ at[x] < s + w
                  /\ x + (k + 1) <= n => at[x] < s
                  /\ x + (k + 1) + p <= n => at[x] + w < s
        BY <1>6, <1>9, SMTT(30)
      <4> QED BY <1>9, <2>3, <4>1, Zenon DEF Counted, InTurn, Covered
    <3>7. Follows(m, w, e, at)
      BY <1>8, <2>2, <3>5, <3>6, Zenon DEF Follows
    <3> QED BY <2>1, <2>2, <3>1, <3>7, Zenon
  <2> QED BY <2>4, <2>5, Zenon
<1>12. g < m \/ ~(g < m)
  OBVIOUS
<1> QED BY <1>10, <1>11, <1>12, Zenon

\* Readings that are spread out leave no more than `Most` of them to an interval
\* as long as the window.
LEMMA SpreadBounds ==
    ASSUME NEW m \in Nat \ {0}, NEW w \in Nat \ {0}, NEW at \in Seq(Nat), Spread(m, w, at),
           NEW i \in DOMAIN at
    PROVE  Cardinality({j \in DOMAIN at : at[j] \in at[i] .. at[i] + w - 1}) <= Most(m, w)
<1> DEFINE S == {j \in DOMAIN at : at[j] \in at[i] .. at[i] + w - 1}
           n == Len(at)
           b == (2 * m) \div w
           most == Most(m, w)
<1>1. /\ n \in Nat /\ DOMAIN at = 1 .. n /\ at[i] \in Nat
      /\ \A j \in 1 .. n : at[j] \in Nat
  OBVIOUS
<1>2. most \in Nat /\ m <= most
  <2>1. b \in Nat
    <3>1. 2 * m \in Nat
      OBVIOUS
    <3> QED BY <3>1, Quotient, Zenon
  <2>2. most = Larger(m, 2 * m - b)
    BY Zenon DEF Most
  <2> HIDE DEF b, most
  <2> QED BY <2>1, <2>2 DEF Larger
<1>3. S \subseteq Nat /\ i \in S
  BY <1>1
<1>4. \A j, k \in 1 .. n : j + most <= k => at[j] + w <= at[k]
  BY Zenon DEF Spread
<1>5. \A j \in S : j \in 1 .. n /\ at[i] <= at[j] /\ at[j] < at[i] + w
  BY <1>1
<1> HIDE DEF S, most
<1>6. PICK f \in S : \A j \in S : f <= j
  BY <1>3, LeastOf, Zenon
<1>7. ASSUME NEW j \in S PROVE j \in f .. f + most - 1
  <2>1. /\ f \in 1 .. n /\ j \in 1 .. n /\ f <= j
        /\ at[i] <= at[f] /\ at[j] < at[i] + w
    BY <1>5, <1>6, Zenon
  <2>2. f + most <= j => at[f] + w <= at[j]
    BY <1>4, <2>1, Zenon
  <2>3. PICK x \in Nat, y \in Nat, z \in Nat : x = at[i] /\ y = at[f] /\ z = at[j]
    BY <1>1, <2>1, Zenon
  <2>4. x <= y /\ z < x + w /\ (f + most <= j => y + w <= z)
    BY <2>1, <2>2, <2>3, Zenon
  <2>5. f \in Nat /\ j \in Nat /\ f <= j
    BY <1>1, <2>1
  <2> HIDE DEF n
  <2> QED BY <1>2, <2>4, <2>5
<1>8. f \in Int /\ f + most - 1 \in Int /\ f \in Nat
  BY <1>2, <1>3, <1>6
<1>9. /\ IsFiniteSet(f .. f + most - 1)
      /\ Cardinality(f .. f + most - 1) = IF f > f + most - 1 THEN 0 ELSE (f + most - 1) - f + 1
  BY <1>8, FS_Interval, Zenon
<1>10. Cardinality(f .. f + most - 1) = most
  BY <1>2, <1>8, <1>9
<1>11. S \in SUBSET (f .. f + most - 1)
  BY <1>7, Zenon
<1>12. Cardinality(S) <= Cardinality(f .. f + most - 1)
  BY <1>9, <1>11, FS_Subset, Zenon
<1> QED BY <1>10, <1>12, Zenon DEF S, most

-----------------------------------------------------------------------------
(* The keys of a limiter.                                                  *)

Shards == 0 .. ShardCount - 1

\* A limiter that is neither open nor closed; a key is in its own shard.
Limiters ==
    {l \in [limit : Nat \ {0, Unlimited}, window : Nat \ {0}, cap : Nat \ {0},
            shards : [Shards -> LruMaps(Keys, CounterType)]] :
        \A s \in Shards : \A e \in Entries(l.shards[s]) : ShardOf(e.key) = s}

ShardFor(l, key) == l.shards[ShardOf(key)]
Resident(l, key) == LruHas(ShardFor(l, key), key)
Tally(l, key) == LruPeek(ShardFor(l, key), key)

\* A key has a shard.
LEMMA ShardExists == ASSUME NEW key \in Keys PROVE ShardOf(key) \in Shards
<1>1. key \in Nat /\ ShardCount \in Nat \ {0}
  BY LimiterConstants
<1> QED BY <1>1 DEF ShardOf, Shards

\* What is in a map, by its entries.
LEMMA ByEntry ==
    ASSUME NEW K, NEW V, NEW map \in LruMaps(K, V), NEW k
    PROVE  /\ LruHas(map, k) <=> \E e \in Entries(map) : e.key = k
           /\ \A v : [key |-> k, val |-> v] \in Entries(map) => LruHas(map, k) /\ LruPeek(map, k) = v
<1>1. LruHas(map, k) <=> \E e \in Entries(map) : e.key = k
  BY Zenon DEF LruHas, LruKeys, Entries
<1>2. ASSUME NEW v, [key |-> k, val |-> v] \in Entries(map)
      PROVE  LruHas(map, k) /\ LruPeek(map, k) = v
  <2> DEFINE e == [key |-> k, val |-> v]
             f == [key |-> k, val |-> LruPeek(map, k)]
  <2>1. e.key = k /\ f.key = k /\ e.val = v /\ f.val = LruPeek(map, k)
    BY Zenon
  <2>2. LruHas(map, k) /\ e \in Entries(map)
    BY <1>1, <1>2, <2>1
  <2>3. f \in Entries(map)
    BY <2>2, Peeked, Zenon
  <2> HIDE DEF e, f
  <2>4. e = f
    BY <2>1, <2>2, <2>3, OneEntry, Zenon
  <2> QED BY <2>1, <2>2, <2>4, Zenon
<1> QED BY <1>1, <1>2, Zenon

\* The entry of k is v; the other keys are as they were or were dropped.
PutInto(K, V, map, k, v, new) ==
    /\ new \in LruMaps(K, V) /\ LruHas(new, k) /\ LruPeek(new, k) = v
    /\ \A j : j # k /\ LruHas(new, j) => LruHas(map, j) /\ LruPeek(new, j) = LruPeek(map, j)
    /\ \A e \in Entries(new) : e.key = k \/ e \in Entries(map)

\* What a put does to its own key and to the others.
LEMMA PutOthers ==
    ASSUME NEW K, NEW V, NEW map \in LruMaps(K, V), NEW k \in K, NEW v \in V,
           NEW cap \in Nat \ {0}, NEW new, new = LruPut(map, k, v, cap)
    PROVE  PutInto(K, V, map, k, v, new)
<1>1. /\ new \in LruMaps(K, V) /\ [key |-> k, val |-> v] \in Entries(new)
      /\ \A e \in Entries(new) : e.key # k => e \in Entries(map)
  BY PutEntry
<1>2. LruHas(new, k) /\ LruPeek(new, k) = v
  BY <1>1, ByEntry, Zenon
<1>3. ASSUME NEW j, j # k, LruHas(new, j)
      PROVE  LruHas(map, j) /\ LruPeek(new, j) = LruPeek(map, j)
  <2> DEFINE x == LruPeek(new, j)
             e == [key |-> j, val |-> x]
  <2>1. e \in Entries(new) /\ e.key = j
    BY <1>1, <1>3, Peeked, Zenon
  <2> HIDE DEF x
  <2>2. e \in Entries(map)
    BY <1>1, <1>3, <2>1, Zenon
  <2>3. LruHas(map, j) /\ LruPeek(map, j) = x
    BY <2>2, ByEntry, ZenonT(30)
  <2> QED BY <2>3, Zenon DEF x
<1> QED BY <1>1, <1>2, <1>3, Zenon DEF PutInto

\* The fields of a limiter.
LEMMA LimiterFields ==
    ASSUME NEW l \in Limiters
    PROVE  /\ l.limit \in Nat \ {0} /\ l.limit # Unlimited /\ l.window \in Nat \ {0}
           /\ l.cap \in Nat \ {0} /\ l.shards \in [Shards -> LruMaps(Keys, CounterType)]
           /\ l \in [limit : Nat \ {0, Unlimited}, window : Nat \ {0}, cap : Nat \ {0},
                     shards : [Shards -> LruMaps(Keys, CounterType)]]
           /\ \A s \in Shards : \A e \in Entries(l.shards[s]) : ShardOf(e.key) = s
<1>1. /\ l \in [limit : Nat \ {0, Unlimited}, window : Nat \ {0}, cap : Nat \ {0},
                     shards : [Shards -> LruMaps(Keys, CounterType)]]
      /\ \A s \in Shards : \A e \in Entries(l.shards[s]) : ShardOf(e.key) = s
  BY Zenon DEF Limiters
<1>2. l.limit \in Nat \ {0, Unlimited} /\ l.window \in Nat \ {0} /\ l.cap \in Nat \ {0}
      /\ l.shards \in [Shards -> LruMaps(Keys, CounterType)]
  BY <1>1, Zenon
<1> QED BY <1>1, <1>2

\* A new limiter knows no key.
LEMMA NewLimiterFields ==
    ASSUME NEW limit \in Nat \ {0, Unlimited}, NEW window \in Nat, NEW entries,
           entries \in Nat \cup {NoEntries}
    PROVE  /\ NewLimiter(limit, window, entries) \in Limiters
           /\ \A key \in Keys : ~Resident(NewLimiter(limit, window, entries), key)
<1> DEFINE cap == Larger(ResolvedEntries(entries) \div ShardCount, MinPerShard)
           win == Larger(window, 1)
           shards == [s \in Shards |-> <<>>]
           l == NewLimiter(limit, window, entries)
<1>1. /\ ShardCount \in Nat \ {0} /\ MinPerShard \in Nat \ {0} /\ DefaultEntries \in Nat \ {0}
      /\ EntriesCap \in Nat \ {0}
  BY LimiterConstants, Zenon
<1>2. ResolvedEntries(entries) \in Nat
  BY <1>1, Zenon DEF ResolvedEntries, Smaller
<1>3. ResolvedEntries(entries) \div ShardCount \in Nat
  BY <1>1, <1>2, Quotient, Zenon
<1>4. cap \in Nat \ {0} /\ win \in Nat \ {0}
  <2>1. win \in Nat \ {0}
    BY DEF Larger
  <2> DEFINE q == ResolvedEntries(entries) \div ShardCount
  <2>2. q \in Nat
    BY <1>3, Zenon
  <2> HIDE DEF q
  <2>3. Larger(q, MinPerShard) \in Nat \ {0}
    BY <1>1, <2>2 DEF Larger
  <2> QED BY <2>1, <2>3, Zenon DEF q
<1>5. <<>> \in LruMaps(Keys, CounterType) /\ Entries(<<>>) = {} /\ \A k : ~LruHas(<<>>, k)
  BY DEF LruMaps, Entries, LruHas, LruKeys
<1>6. l = [limit |-> limit, window |-> win, cap |-> cap, shards |-> shards]
  BY Zenon DEF NewLimiter, Shards
<1> HIDE DEF cap, win, l
<1>7. shards \in [Shards -> LruMaps(Keys, CounterType)]
  BY <1>5, Zenon
<1>8. \A s \in Shards : shards[s] = <<>>
  OBVIOUS
<1> HIDE DEF shards
<1>9. /\ l \in [limit : Nat \ {0, Unlimited}, window : Nat \ {0}, cap : Nat \ {0},
                shards : [Shards -> LruMaps(Keys, CounterType)]]
      /\ l.shards = shards
  BY <1>4, <1>6, <1>7, Zenon
<1>10. l \in Limiters
  <2>1. \A s \in Shards : \A e \in Entries(l.shards[s]) : ShardOf(e.key) = s
    BY <1>5, <1>8, <1>9, Zenon
  <2> QED BY <1>9, <2>1, Zenon DEF Limiters
<1>11. ASSUME NEW key \in Keys PROVE ~Resident(l, key)
  BY <1>5, <1>8, <1>9, ShardExists, Zenon DEF Resident, ShardFor
<1> QED BY <1>10, <1>11, Zenon DEF l

\* After a check of `key`: its counter is `counter`; every other key has kept its
\* counter or was evicted.
Checked(l, key, now, l2, counter, evicted) ==
    /\ l2 \in Limiters /\ l2.limit = l.limit /\ l2.window = l.window
    /\ Resident(l2, key) /\ Tally(l2, key) = counter
    /\ \A k \in Keys \ {key} :
          /\ Resident(l2, k) <=> Resident(l, k) /\ k \notin evicted
          /\ Resident(l2, k) => Tally(l2, k) = Tally(l, k)

\* That is what check_key leaves.
LEMMA KeyChecked ==
    ASSUME NEW l \in Limiters, NEW key \in Keys, NEW now \in Nat,
           NEW r, r = CheckCounter(CounterOf(l, key, now), now, l.limit, l.window),
           r.counter \in CounterType
    PROVE  /\ CheckKey(l, key, now).outcome = r.outcome
           /\ Checked(l, key, now, CheckKey(l, key, now).limiter, r.counter, Evicted(l, key, now))
<1> DEFINE s == ShardOf(key)
           map == l.shards[s]
           new == LruPut(map, key, r.counter, l.cap)
           l2 == [l EXCEPT !.shards[s] = new]
           T == [limit : Nat \ {0, Unlimited}, window : Nat \ {0}, cap : Nat \ {0},
                 shards : [Shards -> LruMaps(Keys, CounterType)]]
<1>1. /\ l.limit \in Nat \ {0} /\ l.limit # Unlimited /\ l.cap \in Nat \ {0}
      /\ l.shards \in [Shards -> LruMaps(Keys, CounterType)] /\ l \in T
      /\ \A x \in Shards : \A e \in Entries(l.shards[x]) : ShardOf(e.key) = x
  BY LimiterFields, Zenon
<1>2. s \in Shards
  BY ShardExists, Zenon
<1>3. map \in LruMaps(Keys, CounterType)
  BY <1>1, <1>2, Zenon
<1>4. CheckKey(l, key, now) = [limiter |-> l2, outcome |-> r.outcome]
  <2>1. l.limit # 0
    BY <1>1
  <2> QED BY <1>1, <2>1, Zenon DEF CheckKey
<1>5. CheckKey(l, key, now).limiter = l2 /\ CheckKey(l, key, now).outcome = r.outcome
  <2> HIDE DEF map, s, new, l2
  <2> QED BY <1>4, SMTT(30)
<1> HIDE DEF map, s, new, T
<1>6. /\ new \in LruMaps(Keys, CounterType) /\ LruHas(new, key) /\ LruPeek(new, key) = r.counter
      /\ \A j : j # key /\ LruHas(new, j) => LruHas(map, j) /\ LruPeek(new, j) = LruPeek(map, j)
      /\ \A e \in Entries(new) : e.key = key \/ e \in Entries(map)
  <2>1. new = LruPut(map, key, r.counter, l.cap) /\ l.cap \in Nat \ {0}
    BY <1>1, Zenon DEF new
  <2>2. PutInto(Keys, CounterType, map, key, r.counter, new)
    BY <1>3, <2>1, PutOthers, Zenon
  <2> QED BY <2>2, Zenon DEF PutInto
<1>7. /\ l2.limit = l.limit /\ l2.window = l.window /\ l2.cap = l.cap
      /\ l2.shards = [l.shards EXCEPT ![s] = new]
      /\ l2 \in T
  <2>1. [l.shards EXCEPT ![s] = new] \in [Shards -> LruMaps(Keys, CounterType)]
    BY <1>1, <1>2, <1>6, Zenon
  <2> QED BY <1>1, <2>1 DEF T
<1>8. l2.shards[s] = new /\ \A x \in Shards \ {s} : l2.shards[x] = l.shards[x]
  BY <1>1, <1>2, <1>7, Zenon
<1>9. Evicted(l, key, now) = LruKeys(map) \ LruKeys(new)
  BY <1>5, <1>8, Zenon DEF Evicted, LruDropped, map, s
<1> HIDE DEF l2
<1>10. l2 \in Limiters
  <2>1. ASSUME NEW x \in Shards, NEW e \in Entries(l2.shards[x]) PROVE ShardOf(e.key) = x
    <3>1. CASE x = s
      BY <1>1, <1>2, <1>6, <1>8, <2>1, <3>1, Zenon DEF map, s
    <3>2. CASE x # s
      <4>1. l2.shards[x] = l.shards[x]
        BY <1>8, <3>2, Zenon
      <4> QED BY <1>1, <2>1, <4>1, Zenon
    <3> QED BY <3>1, <3>2
  <2> QED BY <1>7, <2>1, Zenon DEF Limiters, T
<1>11. Resident(l2, key) /\ Tally(l2, key) = r.counter
  BY <1>6, <1>8, Zenon DEF Resident, Tally, ShardFor, s
<1>12. ASSUME NEW k \in Keys \ {key}
       PROVE  /\ Resident(l2, k) <=> Resident(l, k) /\ k \notin Evicted(l, key, now)
              /\ Resident(l2, k) => Tally(l2, k) = Tally(l, k)
  <2>1. CASE ShardOf(k) = s
    <3>1. /\ ShardFor(l2, k) = new /\ ShardFor(l, k) = map
      BY <1>8, <2>1, Zenon DEF ShardFor, map
    <3>2. LruHas(new, k) => LruHas(map, k) /\ LruPeek(new, k) = LruPeek(map, k)
      BY <1>6, Zenon
    <3> QED BY <1>9, <3>1, <3>2, Zenon DEF Resident, Tally, LruHas
  <2>2. CASE ShardOf(k) # s
    <3>1. ShardOf(k) \in Shards
      BY ShardExists, Zenon
    <3>2. ShardFor(l2, k) = ShardFor(l, k)
      BY <1>8, <2>2, <3>1, Zenon DEF ShardFor
    <3>3. k \notin LruKeys(map)
      <4>1. ASSUME LruHas(map, k) PROVE FALSE
        <5>1. PICK e \in Entries(map) : e.key = k
          BY <4>1, Zenon DEF LruHas, LruKeys, Entries
        <5>2. ShardOf(e.key) = s
          BY <1>1, <1>2, <5>1, Zenon DEF map
        <5> QED BY <2>2, <5>1, <5>2, Zenon
      <4> QED BY <4>1, Zenon DEF LruHas
    <3> QED BY <1>9, <3>2, <3>3, Zenon DEF Resident, Tally
  <2> QED BY <2>1, <2>2
<1> QED BY <1>5, <1>7, <1>10, <1>11, <1>12, Zenon DEF Checked

-----------------------------------------------------------------------------
(* A limiter and the readings kept of its keys.                            *)

\* The readings of a key are those of its counter; there are some just while the
\* key is resident.
Traced(l, id, key, adm) ==
    /\ <<id, key>> \in DOMAIN adm <=> Resident(l, key)
    /\ Resident(l, key) => Follows(l.limit, l.window, Tally(l, key), adm[<<id, key>>])

\* What the history keeps of a check.
Kept(adm, id, key, now, allowed, evicted) ==
    LET old == IF <<id, key>> \in DOMAIN adm THEN adm[<<id, key>>] ELSE <<>>
    IN  [p \in (DOMAIN adm \ {<<id, k>> : k \in evicted}) \cup {<<id, key>>} |->
            IF p = <<id, key>> THEN IF allowed THEN Noted(old, now) ELSE old ELSE adm[p]]

\* A check keeps the readings of all keys of its limiter.
LEMMA CheckTraced ==
    ASSUME NEW l \in Limiters, NEW id, NEW key \in Keys, NEW now \in Nat, NEW adm,
           \A k \in Keys : Traced(l, id, k, adm),
           NEW c, c = CheckKey(l, key, now),
           NEW adm2, adm2 = Kept(adm, id, key, now, c.outcome.allowed, Evicted(l, key, now))
    PROVE  /\ c.limiter \in Limiters /\ \A k \in Keys : Traced(c.limiter, id, k, adm2)
<1> DEFINE old == IF <<id, key>> \in DOMAIN adm THEN adm[<<id, key>>] ELSE <<>>
           counter == CounterOf(l, key, now)
           r == CheckCounter(counter, now, l.limit, l.window)
           evicted == Evicted(l, key, now)
           new == IF c.outcome.allowed THEN Noted(old, now) ELSE old
<1>1. /\ l.limit \in Nat \ {0} /\ l.window \in Nat \ {0}
      /\ l.shards \in [Shards -> LruMaps(Keys, CounterType)]
  BY LimiterFields, ZenonT(30)
<1>2. ShardFor(l, key) \in LruMaps(Keys, CounterType)
  BY <1>1, ShardExists DEF ShardFor
<1>3. /\ counter \in CounterType /\ old \in Seq(Nat)
      /\ Follows(l.limit, l.window, counter, old) \/ (counter = FreshCounter(now) /\ old = <<>>)
  <2>1. Traced(l, id, key, adm)
    OBVIOUS
  <2>2. CASE Resident(l, key)
    <3>1. counter = Tally(l, key) /\ Tally(l, key) \in CounterType
      BY <1>2, <2>2, Peeked, Zenon DEF CounterOf, Resident, Tally, ShardFor
    <3>2. Follows(l.limit, l.window, counter, old)
      BY <2>1, <2>2, <3>1, Zenon DEF Traced
    <3> QED BY <3>1, <3>2, Zenon DEF Follows
  <2>3. CASE ~Resident(l, key)
    <3>1. counter = FreshCounter(now) /\ old = <<>>
      BY <2>1, <2>3, Zenon DEF Traced, CounterOf, Resident, ShardFor
    <3>2. FreshCounter(now) \in CounterType
      BY FreshTyped, Zenon
    <3>3. <<>> \in Seq(Nat)
      OBVIOUS
    <3> QED BY <3>1, <3>2, <3>3, Zenon
  <2> QED BY <2>2, <2>3, Zenon
<1> HIDE DEF old, counter
<1>4. /\ r.counter \in CounterType /\ r.outcome.allowed \in BOOLEAN
      /\ Follows(l.limit, l.window, r.counter, IF r.outcome.allowed THEN Noted(old, now) ELSE old)
  <2> HIDE DEF r
  <2>1. r = CheckCounter(counter, now, l.limit, l.window)
    BY DEF r
  <2> QED BY <1>1, <1>3, <2>1, CheckFollows, Zenon
<1>5. c.outcome = r.outcome /\ Checked(l, key, now, c.limiter, r.counter, evicted)
  <2> HIDE DEF r
  <2>1. r = CheckCounter(CounterOf(l, key, now), now, l.limit, l.window)
    BY DEF r, counter
  <2> QED BY <1>4, <2>1, KeyChecked, Zenon
<1>6. Follows(l.limit, l.window, r.counter, new)
  BY <1>4, <1>5, Zenon
<1>7. /\ DOMAIN adm2 = (DOMAIN adm \ {<<id, k>> : k \in evicted}) \cup {<<id, key>>}
      /\ adm2[<<id, key>>] = new
      /\ \A p \in DOMAIN adm2 \ {<<id, key>>} : adm2[p] = adm[p]
  BY Zenon DEF Kept, old
<1> HIDE DEF r, new, evicted
<1>8. ASSUME NEW k \in Keys PROVE Traced(c.limiter, id, k, adm2)
  <2>1. CASE k = key
    BY <1>5, <1>6, <1>7, <2>1, Zenon DEF Traced, Checked
  <2>2. CASE k # key
    <3>1. /\ Resident(c.limiter, k) <=> Resident(l, k) /\ k \notin evicted
          /\ Resident(c.limiter, k) => Tally(c.limiter, k) = Tally(l, k)
          /\ c.limiter.limit = l.limit /\ c.limiter.window = l.window
      BY <1>5, <2>2, Zenon DEF Checked
    <3>2. Traced(l, id, k, adm)
      BY Zenon
    <3>3. <<id, k>> # <<id, key>> /\ (<<id, k>> \in {<<id, x>> : x \in evicted} <=> k \in evicted)
      BY <2>2
    <3>4. <<id, k>> \in DOMAIN adm2 <=> <<id, k>> \in DOMAIN adm /\ k \notin evicted
      BY <1>7, <3>3, Zenon
    <3> QED BY <1>7, <3>1, <3>2, <3>3, <3>4, Zenon DEF Traced
  <2> QED BY <2>1, <2>2
<1> QED BY <1>5, <1>8, Zenon DEF Checked

-----------------------------------------------------------------------------
(* Checks of a key at one instant.                                         *)

\* The window of the key's counter is not over at `now`, and it weighs v.
Weighs(l, key, now, v) ==
    /\ l \in Limiters /\ Resident(l, key)
    /\ Tally(l, key) \in CounterType
    /\ Minus(now, Tally(l, key).start) < l.window
    /\ Weighted(Tally(l, key), now, l.window) = v

\* One more admission weighs one.
LEMMA HeavierByOne ==
    ASSUME NEW c \in CounterType, NEW now \in Nat, NEW w \in Nat \ {0},
           NEW e, e = [c EXCEPT !.curr = @ + 1]
    PROVE  Weighted(e, now, w) = Weighted(c, now, w) + 1
<1> DEFINE x == Minus(w, Smaller(Minus(now, c.start), w))
           q == (c.prev * x) \div w
<1>1. /\ e.start = c.start /\ e.prev = c.prev /\ e.curr = c.curr + 1
      /\ c.start \in Nat /\ c.prev \in Nat /\ c.curr \in Nat
  <2>1. e.start = c.start /\ e.prev = c.prev /\ e.curr = c.curr + 1
    BY OneMore, Zenon
  <2> QED BY <2>1, Zenon DEF CounterType
<1>2. x \in Nat
  BY <1>1 DEF Minus, Smaller
<1> HIDE DEF x
<1>3. c.prev * x \in Nat
  BY <1>1, <1>2
<1>4. q \in Nat
  BY <1>3, Quotient
<1>5. Weighted(c, now, w) = q + c.curr
  BY Zenon DEF Weighted, q, x
<1>6. Weighted(e, now, w) = q + (c.curr + 1)
  BY <1>1, Zenon DEF Weighted, q, x
<1> HIDE DEF q
<1> QED BY <1>1, <1>4, <1>5, <1>6

\* A check of a key that weighs v: it admits when that is less than the limit,
\* and reports what is then left.
Decides(l, key, now, v, c) ==
    /\ v \in Nat /\ c.outcome.allowed \in BOOLEAN /\ (c.outcome.allowed <=> v < l.limit)
    /\ c.outcome.allowed => /\ c.outcome.remaining = l.limit - (v + 1)
                            /\ Weighs(c.limiter, key, now, v + 1)
    /\ ~c.outcome.allowed => Weighs(c.limiter, key, now, v)
    /\ c.limiter.limit = l.limit /\ c.limiter.window = l.window

\* A check decides by what the counter, brought up to date, weighs.
LEMMA CheckWeighs ==
    ASSUME NEW l \in Limiters, NEW key \in Keys, NEW now \in Nat,
           CounterOf(l, key, now) \in CounterType,
           NEW c, c = CheckKey(l, key, now),
           NEW d, d = AdvanceWindow(CounterOf(l, key, now), now, l.window),
           NEW v, v = Weighted(d, now, l.window)
    PROVE  Decides(l, key, now, v, c)
<1> DEFINE counter == CounterOf(l, key, now)
           r == CheckCounter(counter, now, l.limit, l.window)
           e == [d EXCEPT !.curr = @ + 1]
<1>1. l.limit \in Nat \ {0} /\ l.window \in Nat \ {0}
  BY LimiterFields, Zenon
<1>2. d \in CounterType /\ Minus(now, d.start) < l.window
  <2> HIDE DEF counter
  <2>1. counter \in CounterType /\ d = AdvanceWindow(counter, now, l.window)
    BY Zenon DEF counter
  <2> QED BY <1>1, <2>1, Advanced, SMTT(30)
<1>3. v \in Nat
  BY <1>1, <1>2, WeightIs, Zenon
<1>4. /\ v < l.limit => /\ r.counter = e /\ r.outcome.allowed = TRUE
                        /\ r.outcome.remaining = Minus(l.limit, v + 1)
      /\ ~(v < l.limit) => r.counter = d /\ r.outcome.allowed = FALSE
  BY Zenon DEF CheckCounter
<1>5. e \in CounterType /\ e.start = d.start /\ Weighted(e, now, l.window) = v + 1
  <2> HIDE DEF e
  <2>1. e = [d EXCEPT !.curr = @ + 1]
    BY DEF e
  <2>2. e \in CounterType /\ e.start = d.start
    BY <1>2, <2>1, OneMore, Zenon
  <2>3. Weighted(e, now, l.window) = Weighted(d, now, l.window) + 1
    BY <1>1, <1>2, <2>1, HeavierByOne
  <2> QED BY <2>2, <2>3, Zenon
<1> HIDE DEF e, counter
<1>6. r.counter \in CounterType
  BY <1>2, <1>4, <1>5, Zenon
<1>7. /\ c.outcome = r.outcome
      /\ c.limiter \in Limiters /\ c.limiter.limit = l.limit /\ c.limiter.window = l.window
      /\ Resident(c.limiter, key) /\ Tally(c.limiter, key) = r.counter
  <2> HIDE DEF r
  <2>1. r = CheckCounter(CounterOf(l, key, now), now, l.limit, l.window)
    BY DEF r, counter
  <2>2. c.outcome = r.outcome /\ Checked(l, key, now, c.limiter, r.counter, Evicted(l, key, now))
    BY <1>6, <2>1, KeyChecked, Zenon
  <2> QED BY <2>2, Zenon DEF Checked
<1> HIDE DEF r
<1>8. v < l.limit => Minus(l.limit, v + 1) = l.limit - (v + 1)
  BY <1>1, <1>3 DEF Minus
<1> QED BY <1>2, <1>3, <1>4, <1>5, <1>7, <1>8, Zenon DEF Weighs, Decides

\* The next check at the same instant.
LEMMA CheckAgain ==
    ASSUME NEW l, NEW key \in Keys, NEW now \in Nat, NEW v, Weighs(l, key, now, v),
           NEW c, c = CheckKey(l, key, now)
    PROVE  /\ v \in Nat /\ c.outcome.allowed \in BOOLEAN /\ (c.outcome.allowed <=> v < l.limit)
           /\ Weighs(c.limiter, key, now, IF v < l.limit THEN v + 1 ELSE v)
           /\ c.limiter.limit = l.limit
<1> DEFINE counter == CounterOf(l, key, now)
           d == AdvanceWindow(counter, now, l.window)
           u == Weighted(d, now, l.window)
<1>1. /\ l \in Limiters /\ counter = Tally(l, key) /\ counter \in CounterType
      /\ Minus(now, counter.start) < l.window /\ Weighted(counter, now, l.window) = v
  BY Zenon DEF Weighs, CounterOf, Resident, Tally, ShardFor
<1> HIDE DEF counter
<1>2. d = counter /\ u = v
  BY <1>1, Zenon DEF AdvanceWindow
<1>3. /\ v \in Nat /\ c.outcome.allowed \in BOOLEAN /\ (c.outcome.allowed <=> v < l.limit)
      /\ c.outcome.allowed => Weighs(c.limiter, key, now, v + 1)
      /\ ~c.outcome.allowed => Weighs(c.limiter, key, now, v)
      /\ c.limiter.limit = l.limit
  <2> HIDE DEF d, u
  <2>1. /\ CounterOf(l, key, now) \in CounterType
        /\ d = AdvanceWindow(CounterOf(l, key, now), now, l.window)
        /\ u = Weighted(d, now, l.window)
    BY <1>1, ZenonT(30) DEF d, u, counter
  <2>2. Decides(l, key, now, u, c)
    BY <1>1, <2>1, CheckWeighs, Zenon
  <2> QED BY <1>2, <2>2, Zenon DEF Decides
<1> QED BY <1>3, Zenon

=============================================================================
