---------------------------- MODULE Collections ----------------------------
(***************************************************************************)
(* Option<T> and Result<T> as a sequence of at most one value, and a       *)
(* bounded least-recently-used map as a sequence of [key, val] records,    *)
(* most recent first: what the limiter shards, the limiter registry, the   *)
(* schema cache and the key cache use of the `lru` crate.                  *)
(***************************************************************************)
EXTENDS Integers, Sequences

None == <<>>
Some(x) == <<x>>
Present(o) == o # None
OrElse(o, default) == IF o = None THEN default ELSE o[1]

-----------------------------------------------------------------------------
(* The map.                                                                *)

LruKeys(map) == {map[i].key : i \in DOMAIN map}

LruHas(map, key) == key \in LruKeys(map)

LruIndex(map, key) == CHOOSE i \in DOMAIN map : map[i].key = key

LruPeek(map, key) == map[LruIndex(map, key)].val

\* A key has one entry.
LruWithout(map, key) ==
    IF LruHas(map, key)
      THEN [i \in 1 .. Len(map) - 1 |->
               IF i < LruIndex(map, key) THEN map[i] ELSE map[i + 1]]
      ELSE map

\* `get`: the entry becomes the most recent.
LruGet(map, key) ==
    IF LruHas(map, key)
      THEN <<[key |-> key, val |-> LruPeek(map, key)]>> \o LruWithout(map, key)
      ELSE map

\* `put`: the entry becomes the most recent; a full map loses the oldest one.
LruPut(map, key, val, cap) ==
    LET rest == LruWithout(map, key)
        kept == IF Len(rest) >= cap THEN SubSeq(rest, 1, cap - 1) ELSE rest
    IN  <<[key |-> key, val |-> val]>> \o kept

LruDropped(map, new) == LruKeys(map) \ LruKeys(new)

=============================================================================
