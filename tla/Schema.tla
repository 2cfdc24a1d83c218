------------------------------- MODULE Schema -------------------------------
(***************************************************************************)
(* The schema validator: a schema inside the supported subset is compiled  *)
(* to nodes that walk the bytes of a document once, without building it;   *)
(* any other schema is left to the jsonschema crate.  One walk answers     *)
(* yes or no, collects the errors, or captures the values at given paths.  *)
(*                                                                         *)
(* A document is a sequence of tokens <<kind, value>>, a malformed one is  *)
(* <<kind>>; spaces are left out.  A number is counted in halves.  A       *)
(* schema is a record of the keywords it has: a pattern is the set of the  *)
(* strings it matches, a reference the name of a definition or "#".  The   *)
(* array form of items is "tuple", the schema form of dependencies is      *)
(* "dependencySchemas".                                                    *)
(***************************************************************************)
EXTENDS Calls, FiniteSets, SequencesExt

CONSTANTS Schemas, Documents,       \* a sequence; a set of documents
          TargetLists,              \* sequences of [steps, kind]
          Emails,                   \* the strings that are addresses
          MAX_DEPTH,                \* 128 in the code
          MaxRequired               \* 64 in the code

Has(s, keyword) == keyword \in DOMAIN s
Scalars == {"string", "number", "boolean", "null"}
Index(i) == <<"0", "1", "2", "3", "4", "5", "6", "7">>[i + 1]

\* type: "integer" is a number with no half.
IsType(name, kind, value) == name = kind \/ (name = "integer" /\ kind = "number" /\ value % 2 = 0)
-----------------------------------------------------------------------------
(* The value a document stands for: a scalar token, <<"array", values>> or *)
(* <<"object", pairs>>.  jsonschema and sonic_rs are external: they see    *)
(* this value.                                                             *)
KindAt(doc, p) == IF p \in 1 .. Len(doc) THEN doc[p][1] ELSE "end"
Good(doc, p) == KindAt(doc, p) \in Scalars /\ Len(doc[p]) = 2

RECURSIVE ParseAt(_, _)
RECURSIVE ParseList(_, _, _, _)
\* [value, next], next = 0 if there is no value at p.
Unparsed == [value |-> <<"null", "null">>, next |-> 0]
ParseAt(doc, p) ==
    LET kind == KindAt(doc, p)
    IN  IF Good(doc, p) THEN [value |-> doc[p], next |-> p + 1]
        ELSE IF kind = "{" THEN IF KindAt(doc, p + 1) = "}" THEN [value |-> <<"object", <<>>>>, next |-> p + 2]
                                ELSE ParseList(doc, p + 1, "}", <<>>)
        ELSE IF kind = "[" THEN IF KindAt(doc, p + 1) = "]" THEN [value |-> <<"array", <<>>>>, next |-> p + 2]
                                ELSE ParseList(doc, p + 1, "]", <<>>)
        ELSE Unparsed
ParseList(doc, p, close, done) ==
    IF close = "}" /\ ~(KindAt(doc, p) = "string" /\ Good(doc, p) /\ KindAt(doc, p + 1) = ":") THEN Unparsed
    ELSE LET keyed == close = "}"
             Entry(value) == IF keyed THEN <<doc[p][2], value>> ELSE value
             Rest(v, list) ==
                 IF v.next = 0 THEN Unparsed
                 ELSE IF KindAt(doc, v.next) = close
                   THEN [value |-> <<IF keyed THEN "object" ELSE "array", list>>, next |-> v.next + 1]
                 ELSE IF KindAt(doc, v.next) = "," THEN ParseList(doc, v.next + 1, close, list)
                 ELSE Unparsed
             From(v) == Rest(v, Append(done, Entry(v.value)))
         IN  From(ParseAt(doc, IF keyed THEN p + 2 ELSE p))

\* sonic_rs::from_slice of a whole document.
Whole(doc, v) == IF v.next = Len(doc) + 1 THEN Some(v.value) ELSE None
parsed(doc) == Whole(doc, ParseAt(doc, 1))

Keys(pairs) == {pairs[i][1] : i \in DOMAIN pairs}
\* The last of two members with one name is the one that stays.
Member(pairs, key) == pairs[CHOOSE i \in DOMAIN pairs : pairs[i][1] = key /\ \A j \in DOMAIN pairs : pairs[j][1] = key => j <= i][2]
-----------------------------------------------------------------------------
(* Draft 7, keyword by keyword.                                            *)
RefTarget(root, r) ==
    IF r = "#" THEN Some(root)
    ELSE IF Has(root, "definitions") /\ r \in DOMAIN root.definitions THEN Some(root.definitions[r]) ELSE None

RECURSIVE Conforms(_, _, _)
RECURSIVE Holds(_, _, _, _)
Conforms(root, s, v) ==
    IF Has(s, "bool") THEN s.bool
    ELSE IF Has(s, "ref") THEN Conforms(root, RefTarget(root, s.ref)[1], v)
    ELSE \A keyword \in DOMAIN s : Holds(root, s, keyword, v)
Holds(root, s, keyword, v) ==
    LET kind == v[1]
        k == s[keyword]
        Sub(sub, x) == Conforms(root, sub, x)
        Covered(key) == \/ Has(s, "properties") /\ key \in DOMAIN s.properties
                        \/ Has(s, "patternProperties") /\ \E i \in DOMAIN s.patternProperties : key \in s.patternProperties[i].re
        Passing(subs) == {i \in DOMAIN subs : Sub(subs[i], v)}
    IN  CASE keyword = "type" -> \E name \in k : IsType(name, kind, v[2])
          [] keyword = "const" -> v = k
          [] keyword = "enum" -> \E i \in DOMAIN k : v = k[i]
          [] keyword = "allOf" -> Passing(k) = DOMAIN k
          [] keyword = "anyOf" -> Passing(k) # {}
          [] keyword = "oneOf" -> Cardinality(Passing(k)) = 1
          [] keyword = "not" -> ~Sub(k, v)
          [] keyword = "if" -> IF Sub(k, v) THEN Has(s, "then") => Sub(s.then, v) ELSE Has(s, "else") => Sub(s.else, v)
          [] keyword \in {"minLength", "maxLength", "pattern", "format"} ->
               kind = "string" => CASE keyword = "minLength" -> Len(v[2]) >= k
                                    [] keyword = "maxLength" -> Len(v[2]) <= k
                                    [] keyword = "pattern" -> v[2] \in k
                                    [] OTHER -> k = "email" => v[2] \in Emails
          [] keyword \in {"minimum", "maximum", "exclusiveMinimum", "exclusiveMaximum", "multipleOf"} ->
               kind = "number" => CASE keyword = "minimum" -> v[2] >= k
                                    [] keyword = "maximum" -> v[2] <= k
                                    [] keyword = "exclusiveMinimum" -> v[2] > k
                                    [] keyword = "exclusiveMaximum" -> v[2] < k
                                    [] OTHER -> v[2] % k = 0
          [] keyword \in {"items", "tuple", "additionalItems", "minItems", "maxItems", "uniqueItems", "contains"} ->
               kind = "array" => CASE keyword = "items" -> \A i \in DOMAIN v[2] : Sub(k, v[2][i])
                                   [] keyword = "tuple" -> \A i \in DOMAIN v[2] \cap DOMAIN k : Sub(k[i], v[2][i])
                                   [] keyword = "additionalItems" ->
                                        Has(s, "tuple") => \A i \in DOMAIN v[2] \ DOMAIN s.tuple : Sub(k, v[2][i])
                                   [] keyword = "minItems" -> Len(v[2]) >= k
                                   [] keyword = "maxItems" -> Len(v[2]) <= k
                                   [] keyword = "uniqueItems" -> k => IsInjective(v[2])
                                   [] OTHER -> \E i \in DOMAIN v[2] : Sub(k, v[2][i])
          [] keyword \in {"properties", "patternProperties", "additionalProperties", "required",
                          "minProperties", "maxProperties", "dependencies", "dependencySchemas", "propertyNames"} ->
               kind = "object" => CASE keyword = "properties" -> \A key \in DOMAIN k \cap Keys(v[2]) : Sub(k[key], Member(v[2], key))
                                    [] keyword = "patternProperties" ->
                                         \A i \in DOMAIN k : \A key \in k[i].re \cap Keys(v[2]) : Sub(k[i].schema, Member(v[2], key))
                                    [] keyword = "additionalProperties" ->
                                         \A key \in Keys(v[2]) : Covered(key) \/ Sub(k, Member(v[2], key))
                                    [] keyword = "required" -> ToSet(k) \subseteq Keys(v[2])
                                    [] keyword = "minProperties" -> Cardinality(Keys(v[2])) >= k
                                    [] keyword = "maxProperties" -> Cardinality(Keys(v[2])) <= k
                                    [] keyword = "dependencies" -> \A key \in DOMAIN k \cap Keys(v[2]) : k[key] \subseteq Keys(v[2])
                                    [] keyword = "dependencySchemas" -> \A key \in DOMAIN k \cap Keys(v[2]) : Sub(k[key], v)
                                    [] OTHER -> \A key \in Keys(v[2]) : Sub(k, <<"string", key>>)
          [] OTHER -> TRUE    \* definitions, draft, then and else
-----------------------------------------------------------------------------
(* Compilation.  A node is [schema, path], path its place in the schema.   *)
Node(s, path) == [schema |-> s, path |-> path]
Numbered(subs, path) == [i \in DOMAIN subs |-> Node(subs[i], path \o <<Index(i - 1)>>)]

\* The subschemas compile_node compiles, with their places.
One(s, path, keywords) == {Node(s[keyword], path \o <<keyword>>) : keyword \in keywords \cap DOMAIN s}
List(s, path, keywords) == UNION {ToSet(Numbered(s[keyword], path \o <<keyword>>)) : keyword \in keywords \cap DOMAIN s}

compile_object_constraints(s, path) ==
    One(s, path, {"additionalProperties"})
    \cup (IF Has(s, "properties")
            THEN {Node(s.properties[key], path \o <<"properties", key>>) : key \in DOMAIN s.properties} ELSE {})
    \cup (IF Has(s, "patternProperties")
            THEN {Node(s.patternProperties[i].schema, path \o <<"patternProperties", Index(i - 1)>>) :
                    i \in DOMAIN s.patternProperties} ELSE {})
compile_array_constraints(s, path) ==
    One(s, path, {"items", "contains"} \cup (IF Has(s, "tuple") THEN {"additionalItems"} ELSE {}))
    \cup List(s, path, {"tuple"})
compile_combinators(s, path) ==
    One(s, path, {"not"} \cup (IF Has(s, "if") THEN {"if", "then", "else"} ELSE {}))
    \cup List(s, path, {"allOf", "anyOf", "oneOf"})
Subschemas(s, path) ==
    compile_object_constraints(s, path) \cup compile_array_constraints(s, path) \cup compile_combinators(s, path)

\* The keywords and combinations the walk does not implement.
Unsupported(s) ==
    \/ Has(s, "propertyNames") \/ Has(s, "dependencySchemas")
    \/ Has(s, "format") /\ s.format # "email"
    \/ Has(s, "enum") /\ Has(s, "const")
    \/ Has(s, "required") /\ Cardinality(ToSet(s.required)) > MaxRequired

RECURSIVE compile_node(_, _, _)
\* inProgress: the references being compiled.  A cycle of them is refused.
compile_node(root, s, inProgress) ==
    IF Has(s, "bool") THEN TRUE
    ELSE IF Has(s, "ref")
      THEN s.ref \notin inProgress /\ RefTarget(root, s.ref) # None
           /\ compile_node(root, RefTarget(root, s.ref)[1], inProgress \cup {s.ref})
    ELSE ~Unsupported(s) /\ \A n \in Subschemas(s, <<>>) : compile_node(root, n.schema, inProgress)

\* compile(schema).is_ok()
compile(root) == (Has(root, "draft") => root.draft = "draft-07") /\ compile_node(root, root, {})

\* The node of a reference is that of its target.
RECURSIVE Target(_, _)
Target(root, n) ==
    IF Has(n.schema, "ref")
      THEN Target(root, Node(RefTarget(root, n.schema.ref)[1],
                             IF n.schema.ref = "#" THEN <<>> ELSE <<"definitions", n.schema.ref>>))
      ELSE n
-----------------------------------------------------------------------------
(* The context of one walk.                                                *)
Ctx(root, doc, detailed, max, targets) ==
    [root |-> root, doc |-> doc, detailed |-> detailed, max |-> max, errors |-> <<>>, suppress |-> FALSE,
     path |-> <<>>, depth |-> 0, targets |-> targets, stack |-> <<[node |-> <<>>, alive |-> TRUE]>>,
     captured |-> [t \in DOMAIN targets |-> None]]

record(x, base, keyword) ==
    IF x.suppress \/ ~x.detailed \/ Len(x.errors) >= x.max THEN x
    ELSE [x EXCEPT !.errors = Append(@, [instance |-> x.path, schema |-> base, keyword |-> keyword])]

push(x, step) == IF x.detailed THEN [x EXCEPT !.path = Append(@, step)] ELSE x
pop(x) == IF x.detailed THEN [x EXCEPT !.path = Front(@)] ELSE x

\* A cursor is [lo, pos, hi]: the slice of the input it reads, and where.
Cursor(lo, hi) == [lo |-> lo, pos |-> lo, hi |-> hi]
AtPos(c, p) == [c EXCEPT !.pos = p]
Ahead(c, n) == [c EXCEPT !.pos = @ + n]
kind_of(x, c) == IF c.pos <= c.hi THEN x.doc[c.pos][1] ELSE "end"
Scalar(x, c) == c.pos <= c.hi /\ Good(x.doc, c.pos)

\* What a walk returns: its verdict, its position, its context.
Passed(x, c) == [ok |-> TRUE, pos |-> c.pos, ctx |-> x]
Refused(x, c) == [ok |-> FALSE, pos |-> c.pos, ctx |-> x]
Failed(x, c, base, keyword) == Refused(record(x, base, keyword), c)

(* The captures: they fire on a cursor that starts where the input does.   *)
\* The last target registered for a node of the trie.
TargetAt(x, kind) ==
    LET top == Last(x.stack)
        ts == {t \in DOMAIN x.targets : top.alive /\ x.targets[t] = [steps |-> top.node, kind |-> kind]}
    IN  IF ts = {} THEN None ELSE Some(CHOOSE t \in ts : \A u \in ts : u <= t)
OnRoot(x, c) == x.targets # <<>> /\ ~x.suppress /\ c.lo = 1

SkipDead(x, c, key) ==
    LET next == Append(Last(x.stack).node, key)
    IN  IF ~OnRoot(x, c) \/ ~\E t \in DOMAIN x.targets : IsPrefix(next, x.targets[t].steps) THEN x
        ELSE [x EXCEPT !.stack = Append(@, [node |-> next, alive |-> TRUE])]

enter_key(x, c, key) ==
    LET top == Last(x.stack)
        next == Append(top.node, key)
        alive == top.alive /\ \E t \in DOMAIN x.targets : IsPrefix(next, x.targets[t].steps)
    IN  IF ~OnRoot(x, c) THEN x
        ELSE [x EXCEPT !.stack = Append(@, [node |-> IF alive THEN next ELSE top.node, alive |-> alive])]
exit_key(x, c) == IF OnRoot(x, c) /\ Len(x.stack) > 1 THEN [x EXCEPT !.stack = Front(@)] ELSE x

\* The first capture of a target stays.
capture_record(x, c, kind, what) ==
    LET t == TargetAt(x, kind)
    IN  IF ~OnRoot(x, c) \/ t = None THEN x
        ELSE IF x.captured[t[1]] # None THEN x
        ELSE [x EXCEPT !.captured[t[1]] = Some(what)]
-----------------------------------------------------------------------------
(* Skipping a value; a failure leaves the cursor where it was found.       *)
RECURSIVE skip_value(_, _, _)
RECURSIVE skip_rest(_, _, _, _)
skip_value(x, c, depth) ==
    LET kind == kind_of(x, c)
        close == IF kind = "{" THEN "}" ELSE "]"
    IN  IF depth > MAX_DEPTH THEN [ok |-> FALSE, pos |-> c.pos]
        ELSE IF kind \in {"{", "["}
          THEN IF kind_of(x, Ahead(c, 1)) = close THEN [ok |-> TRUE, pos |-> c.pos + 2]
               ELSE skip_rest(x, Ahead(c, 1), depth, close)
        ELSE IF Scalar(x, c) THEN [ok |-> TRUE, pos |-> c.pos + 1]
        ELSE [ok |-> FALSE, pos |-> c.pos]
SkippedOne(x, c, v, depth, close) ==
    IF ~v.ok THEN v
    ELSE IF kind_of(x, AtPos(c, v.pos)) = close THEN [ok |-> TRUE, pos |-> v.pos + 1]
    ELSE IF kind_of(x, AtPos(c, v.pos)) = "," THEN skip_rest(x, AtPos(c, v.pos + 1), depth, close)
    ELSE [v EXCEPT !.ok = FALSE]
skip_rest(x, c, depth, close) ==
    LET keyed == close = "}"
    IN  IF keyed /\ ~(kind_of(x, c) = "string" /\ Scalar(x, c)) THEN [ok |-> FALSE, pos |-> c.pos]
        ELSE IF keyed /\ kind_of(x, Ahead(c, 1)) # ":" THEN [ok |-> FALSE, pos |-> c.pos + 1]
        ELSE SkippedOne(x, c, skip_value(x, IF keyed THEN Ahead(c, 2) ELSE c, depth + 1), depth, close)

Keeping(x, v) == [ok |-> v.ok, pos |-> v.pos, ctx |-> x]
Skipped(x, c) == Keeping(x, skip_value(x, c, x.depth))

\* After a failed value in detailed mode: past it, if it can be skipped.
Past(c, v) == IF v.ok THEN v.pos ELSE c.pos
realign(x, c, start) == Past(c, skip_value(x, AtPos(c, start), x.depth))

RECURSIVE validate(_, _, _)
\* One value of a node over a slice of its own.
Ruling(r) == [ok |-> r.ok, ctx |-> r.ctx]
Scan(n, lo, hi, x) == Ruling(validate(n, Cursor(lo, hi), x))
Unsuppressed(n, lo, hi, x) == Scan(n, lo, hi, x)
Restored(r, suppress) == [r EXCEPT !.ctx.suppress = suppress]
with_suppressed(n, lo, hi, x) == Restored(Scan(n, lo, hi, [x EXCEPT !.suppress = TRUE]), x.suppress)

Child(n, keyword) == Node(n.schema[keyword], n.path \o <<keyword>>)
ListOf(n, keyword) == IF Has(n.schema, keyword) THEN Numbered(n.schema[keyword], n.path \o <<keyword>>) ELSE <<>>

\* allOf, anyOf, oneOf, not, if: over the slice of the value.  Only the
\* branches that are themselves the cause record their errors.
CombNo(ctx, n, keyword) == [ok |-> FALSE, ctx |-> record(ctx, n.path, keyword)]
CombBranch(n, lo, hi, branch, x) ==
    IF Has(n.schema, branch) THEN Scan(Child(n, branch), lo, hi, x) ELSE [ok |-> TRUE, ctx |-> x]
CombGuard(n, lo, hi, guard) == CombBranch(n, lo, hi, IF guard.ok THEN "then" ELSE "else", guard.ctx)
CombNot(n, lo, hi, not) ==
    IF not.ok THEN CombNo(not.ctx, n, "not")
    ELSE IF ~Has(n.schema, "if") THEN [ok |-> TRUE, ctx |-> not.ctx]
    ELSE CombGuard(n, lo, hi, with_suppressed(Child(n, "if"), lo, hi, not.ctx))
CombOne(n, lo, hi, one) ==
    IF Has(n.schema, "oneOf") /\ one.count # 1 THEN CombNo(one.ctx, n, "oneOf")
    ELSE CombNot(n, lo, hi, IF Has(n.schema, "not") THEN with_suppressed(Child(n, "not"), lo, hi, one.ctx)
                            ELSE [ok |-> FALSE, ctx |-> one.ctx])
Counted(r, b) == [count |-> IF b.ok THEN r.count + 1 ELSE r.count, ctx |-> b.ctx]
CombAny(n, lo, hi, any) ==
    IF ~any.ok THEN CombNo(any.ctx, n, "anyOf")
    ELSE CombOne(n, lo, hi, FoldLeft(LAMBDA r, sub : Counted(r, with_suppressed(sub, lo, hi, r.ctx)),
                                     [count |-> 0, ctx |-> any.ctx], ListOf(n, "oneOf")))
CombAll(n, lo, hi, all) ==
    IF ~all.ok THEN all
    ELSE CombAny(n, lo, hi, FoldLeft(LAMBDA r, sub : IF r.ok THEN r ELSE with_suppressed(sub, lo, hi, r.ctx),
                                     [ok |-> ~Has(n.schema, "anyOf"), ctx |-> all.ctx], ListOf(n, "anyOf")))
validate_comb_raw(n, lo, hi, x) ==
    CombAll(n, lo, hi, FoldLeft(LAMBDA r, sub : IF r.ok THEN Scan(sub, lo, hi, r.ctx) ELSE r,
                                [ok |-> TRUE, ctx |-> x], ListOf(n, "allOf")))
-----------------------------------------------------------------------------
(* Objects.                                                                *)
finish_object(n, c, x, seen) ==
    LET s == n.schema
    IN  IF Has(s, "minProperties") /\ Cardinality(seen) < s.minProperties THEN Failed(x, c, n.path, "minProperties")
        ELSE IF Has(s, "maxProperties") /\ Cardinality(seen) > s.maxProperties THEN Failed(x, c, n.path, "maxProperties")
        ELSE IF Has(s, "required") /\ ~(ToSet(s.required) \subseteq seen) THEN Failed(x, c, n.path, "required")
        ELSE IF Has(s, "dependencies") /\ \E key \in DOMAIN s.dependencies \cap seen : ~(s.dependencies[key] \subseteq seen)
          THEN Failed(x, c, n.path, "dependencies")
        ELSE Passed(x, c)

Additional(n, c, x) ==
    LET s == n.schema
    IN  IF ~Has(s, "additionalProperties") THEN Skipped(x, c)
        ELSE IF s.additionalProperties = [bool |-> TRUE] THEN Skipped(x, c)
        ELSE IF s.additionalProperties = [bool |-> FALSE] THEN Failed(x, c, n.path, "additionalProperties")
        ELSE validate(Child(n, "additionalProperties"), c, x)

\* The schemas of one member: its property and every pattern it matches.
Property(n, key) ==
    IF Has(n.schema, "properties") /\ key \in DOMAIN n.schema.properties
      THEN <<Node(n.schema.properties[key], n.path \o <<"properties", key>>)>> ELSE <<>>
Patterns(n, key) ==
    LET pats == n.schema.patternProperties
        hits == SelectSeq([i \in DOMAIN pats |-> i], LAMBDA i : key \in pats[i].re)
    IN  [j \in DOMAIN hits |-> Node(pats[hits[j]].schema, n.path \o <<"patternProperties", Index(hits[j] - 1)>>)]

\* A member of an object with patterns: its value is skipped first.
PatternMember(n, key, c, x, skip) ==
    LET applied == Property(n, key) \o Patterns(n, key)
        Ends(r) == [ok |-> r.ok, pos |-> skip.pos, ctx |-> r.ctx]
    IN  IF ~skip.ok THEN skip
        ELSE IF applied = <<>> THEN Ends(Additional(n, Cursor(c.pos, skip.pos - 1), x))
        ELSE Ends(FoldLeft(LAMBDA r, sub : IF r.ok THEN Scan(sub, c.pos, skip.pos - 1, r.ctx) ELSE r,
                           [ok |-> TRUE, ctx |-> x], applied))
member(n, key, c, x) ==
    IF Has(n.schema, "patternProperties") THEN PatternMember(n, key, c, x, Skipped(x, c))
    ELSE IF Property(n, key) # <<>> THEN validate(Property(n, key)[1], c, x)
    ELSE Additional(n, c, x)

\* From a member to the closing brace.  In detailed mode a failed member does
\* not end the walk.
RECURSIVE members(_, _, _, _, _)
\* The walk goes on at next, past the member key.
AfterMember(n, next, x, seen, objOk) ==
    IF kind_of(x, next) = "}" THEN [finish_object(n, Ahead(next, 1), x, seen) EXCEPT !.ok = @ /\ objOk]
    ELSE IF kind_of(x, next) = "," THEN members(n, Ahead(next, 1), x, seen, objOk)
    ELSE Refused(x, next)
Resumed(n, c, key, r, y, seen, objOk) ==
    IF ~r.ok /\ ~y.detailed THEN Refused(y, AtPos(c, r.pos))
    ELSE AfterMember(n, AtPos(c, IF r.ok THEN r.pos ELSE realign(y, AtPos(c, r.pos), c.pos + 2)),
                     y, seen \cup {key}, objOk /\ r.ok)
Left(n, c, key, r, seen, objOk) ==
    Resumed(n, c, key, r, pop(exit_key(capture_record(r.ctx, c, "value", <<c.pos + 2, r.pos - 1>>), c)), seen, objOk)
members(n, c, x, seen, objOk) ==
    LET key == x.doc[c.pos][2]
    IN  IF ~(kind_of(x, c) = "string" /\ Scalar(x, c)) THEN Refused(x, c)
        ELSE IF kind_of(x, Ahead(c, 1)) # ":" THEN Refused(x, Ahead(c, 1))
        ELSE Left(n, c, key, member(n, key, Ahead(c, 2), push(enter_key(x, c, key), key)), seen, objOk)

validate_object(n, c, x) ==
    IF kind_of(x, Ahead(c, 1)) = "}" THEN finish_object(n, Ahead(c, 2), x, {})
    ELSE members(n, Ahead(c, 1), x, {}, TRUE)
-----------------------------------------------------------------------------
(* Arrays.                                                                 *)
finish_array(n, c, x, count, found) ==
    LET s == n.schema
    IN  IF Has(s, "minItems") /\ count < s.minItems THEN Failed(x, c, n.path, "minItems")
        ELSE IF Has(s, "maxItems") /\ count > s.maxItems THEN Failed(x, c, n.path, "maxItems")
        ELSE IF Has(s, "contains") /\ ~found THEN Failed(x, c, n.path, "contains")
        ELSE Passed(x, c)

OffPath(r) == [r EXCEPT !.ctx = pop(@)]
validate_element(n, c, x, idx) == OffPath(validate(n, c, push(x, Index(idx))))

\* The schema of an item: none if any item will do.
ItemSchema(n, idx) ==
    LET s == n.schema
    IN  IF Has(s, "tuple")
          THEN IF idx < Len(s.tuple) THEN Some(ListOf(n, "tuple")[idx + 1])
               ELSE IF ~Has(s, "additionalItems") \/ s.additionalItems = [bool |-> TRUE] THEN None
               ELSE Some(Child(n, "additionalItems"))
        ELSE IF Has(s, "items") THEN Some(Child(n, "items")) ELSE None
Item(n, c, x, idx) ==
    IF ItemSchema(n, idx) = None THEN Skipped(x, c)
    ELSE IF /\ Has(n.schema, "tuple") /\ idx >= Len(n.schema.tuple)
            /\ n.schema.additionalItems = [bool |-> FALSE]
      THEN OffPath(Failed(push(x, Index(idx)), c, n.path, "additionalItems"))
    ELSE validate_element(ItemSchema(n, idx)[1], c, x, idx)

\* unique: the values met so far.  The slice of an item is what it consumed.
RECURSIVE items(_, _, _, _, _, _, _)
ItemLooked(n, c, next, idx, unique, look, ok) ==
    IF kind_of(look.ctx, next) = "]"
      THEN [finish_array(n, Ahead(next, 1), look.ctx, idx + 1, look.ok)
              EXCEPT !.ok = @ /\ ok, !.ctx = capture_record(@, c, "length", <<idx + 1>>)]
    ELSE IF kind_of(look.ctx, next) = "," THEN items(n, Ahead(next, 1), look.ctx, idx + 1, unique, look.ok, ok)
    ELSE Refused(look.ctx, next)
ItemKnown(n, c, next, x, idx, unique, found, ok) ==
    ItemLooked(n, c, next, idx, unique,
               IF ~found /\ Has(n.schema, "contains")
                 THEN with_suppressed(Child(n, "contains"), c.pos, next.pos - 1, x)
                 ELSE [ok |-> found, ctx |-> x], ok)
ItemFresh(n, unique, v) ==
    ~(Has(n.schema, "uniqueItems") /\ n.schema.uniqueItems /\ v # None /\ \E w \in ToSet(unique) : <<w>> = v)
ItemParsed(n, c, next, x, idx, unique, v, found, ok) ==
    ItemKnown(n, c, next, IF ItemFresh(n, unique, v) THEN x ELSE record(x, n.path, "uniqueItems"),
              idx, unique \o v, found, ok /\ ItemFresh(n, unique, v))
ItemEnded(n, c, next, x, idx, unique, found, ok) ==
    ItemParsed(n, c, next, x, idx, unique, parsed(SubSeq(x.doc, c.pos, next.pos - 1)), found, ok)
ItemWalked(n, c, r, idx, unique, found, arrOk) ==
    IF ~r.ok /\ ~r.ctx.detailed THEN r
    ELSE ItemEnded(n, c, AtPos(c, IF r.ok THEN r.pos ELSE realign(r.ctx, AtPos(c, r.pos), c.pos)),
                   r.ctx, idx, unique, found, arrOk /\ r.ok)
items(n, c, x, idx, unique, found, arrOk) ==
    IF Has(n.schema, "maxItems") /\ idx + 1 > n.schema.maxItems THEN Failed(x, c, n.path, "maxItems")
    ELSE ItemWalked(n, c, Item(n, c, x, idx), idx, unique, found, arrOk)

validate_array(n, c, x) ==
    IF kind_of(x, Ahead(c, 1)) = "]" THEN finish_array(n, Ahead(c, 2), x, 0, FALSE)
    ELSE items(n, Ahead(c, 1), x, 0, <<>>, FALSE, TRUE)
-----------------------------------------------------------------------------
(* Scalars, then one value whatever it is.                                 *)
ObjectKeywords == {"required", "properties", "patternProperties", "additionalProperties",
                   "minProperties", "maxProperties", "dependencies"}
ArrayKeywords == {"items", "tuple", "additionalItems", "minItems", "maxItems", "uniqueItems", "contains"}

\* The first keyword, in the order of the code, that a scalar fails.
FirstFailure(x, c, n, checks) ==
    LET bad == SelectSeq(checks, LAMBDA k : Has(n.schema, k[1]) /\ k[2])
    IN  IF bad = <<>> THEN Passed(x, Ahead(c, 1)) ELSE Failed(x, Ahead(c, 1), n.path, bad[1][1])

validate_string(n, c, x) ==
    LET s == n.schema
        v == x.doc[c.pos][2]
        Over(keyword, P(_)) == <<keyword, IF Has(s, keyword) THEN P(s[keyword]) ELSE FALSE>>
    IN  FirstFailure(x, c, n, <<Over("minLength", LAMBDA k : Len(v) < k), Over("maxLength", LAMBDA k : Len(v) > k),
                                Over("pattern", LAMBDA k : v \notin k), Over("format", LAMBDA k : v \notin Emails)>>)

is_multiple_of(v, k) == v = 0 \/ ((IF v < 0 THEN -v ELSE v) >= k /\ v % k = 0)
validate_number(n, c, x) ==
    LET s == n.schema
        v == x.doc[c.pos][2]
        Over(keyword, P(_)) == <<keyword, IF Has(s, keyword) THEN P(s[keyword]) ELSE FALSE>>
    IN  FirstFailure(x, c, n, <<Over("type", LAMBDA k : "integer" \in k /\ "number" \notin k /\ v % 2 # 0),
                                Over("minimum", LAMBDA k : v < k), Over("maximum", LAMBDA k : v > k),
                                Over("exclusiveMinimum", LAMBDA k : v <= k), Over("exclusiveMaximum", LAMBDA k : v >= k),
                                Over("multipleOf", LAMBDA k : ~is_multiple_of(v, k))>>)

validate_kind(n, c, x) ==
    LET kind == kind_of(x, c)
    IN  IF kind = "{" THEN IF DOMAIN n.schema \cap ObjectKeywords # {} THEN validate_object(n, c, x) ELSE Skipped(x, c)
        ELSE IF kind = "[" THEN IF DOMAIN n.schema \cap ArrayKeywords # {} THEN validate_array(n, c, x) ELSE Skipped(x, c)
        ELSE IF ~Scalar(x, c) THEN Failed(x, c, n.path, "parse")
        ELSE IF kind = "string" THEN validate_string(n, c, x)
        ELSE IF kind = "number" THEN validate_number(n, c, x)
        ELSE Passed(x, Ahead(c, 1))

\* The combinators over what the walk of the kind consumed.
Combined(n, c, end, k) ==
    LET Ends(comb) == [ok |-> comb.ok, pos |-> end, ctx |-> comb.ctx]
    IN  IF ~k.ok THEN [k EXCEPT !.pos = end] ELSE Ends(validate_comb_raw(n, c.pos, end - 1, k.ctx))
\* The keyword that a value which must be in a list, and is parsed, fails.
ListFailure(s, v) ==
    IF Has(s, "enum") /\ ~\E i \in DOMAIN s.enum : <<s.enum[i]>> = v THEN Some("enum")
    ELSE IF Has(s, "const") /\ <<s.const>> # v THEN Some("const")
    ELSE None
ListVerdict(n, c, x, skip) ==
    IF skip.ok THEN ListFailure(n.schema, parsed(SubSeq(x.doc, c.pos, skip.pos - 1))) ELSE Some("parse")
\* A listed value that passes is walked like any other, over its own slice.
WalkKind(n, c, x, listed, failure, end) ==
    LET Walked(k) == Combined(n, c, IF listed THEN end ELSE k.pos, k)
    IN  IF failure # None THEN Failed(x, AtPos(c, end), n.path, failure[1])
        ELSE Walked(validate_kind(n, IF listed THEN Cursor(c.pos, end - 1) ELSE c, x))
ListedOrNot(n, c, x, listed, skip) ==
    WalkKind(n, c, x, listed, IF listed THEN ListVerdict(n, c, x, skip) ELSE None, skip.pos)
validate_inner(n, c, x) ==
    LET s == n.schema
        kind == kind_of(x, c)
    IN  IF Has(s, "bool") /\ ~s.bool THEN Failed(x, c, <<>>, "false schema")
        ELSE IF kind = "end" THEN Failed(x, c, n.path, "type")
        ELSE IF Has(s, "type") /\ ~\E name \in s.type : \/ kind = "{" /\ name = "object"
                                                        \/ kind = "[" /\ name = "array"
                                                        \/ kind \in Scalars /\ IsType(name, kind, 0)
          THEN Failed(x, c, n.path, "type")
        ELSE ListedOrNot(n, c, x, Has(s, "enum") \/ Has(s, "const"), Skipped(x, c))

\* Every recursion goes through here, where the depth is counted.  A walk that
\* is refused for its depth leaves the count raised.
Surfaced(r) == [r EXCEPT !.ctx.depth = @ - 1]
Deeper(n, c, x) ==
    IF x.depth > MAX_DEPTH THEN Failed(x, c, <<>>, "maxDepth")
    ELSE Surfaced(validate_inner(Target(x.root, n), c, x))
validate(n, c, x) == Deeper(n, c, [x EXCEPT !.depth = @ + 1])
-----------------------------------------------------------------------------
(* The validator.                                                          *)
Walk(root, doc, detailed, max, targets) ==
    validate(Node(root, <<>>), Cursor(1, Len(doc)), Ctx(root, doc, detailed, max, targets))

Accepted(r, doc) == r.ok /\ r.pos = Len(doc) + 1
is_valid_bytes(root, doc) == Accepted(Walk(root, doc, FALSE, 0, <<>>), doc)

\* What the crate finds in a document, and its only error.
DomHolds(root, v) == IF v = None THEN FALSE ELSE Conforms(root, root, v[1])
DomValid(root, doc) == DomHolds(root, parsed(doc))
DomErrors(root, doc) == IF DomValid(root, doc) THEN <<>> ELSE <<[instance |-> <<>>, schema |-> <<>>, keyword |-> "dom"]>>

ErrorsOf(r, doc) ==
    IF Accepted(r, doc) THEN <<>>
    ELSE IF r.ok THEN record(r.ctx, <<>>, "parse").errors
    ELSE r.ctx.errors
validate_errors(root, doc, max) == ErrorsOf(Walk(root, doc, TRUE, max, <<>>), doc)

Unlimited == 2147483647    \* usize::MAX
validate_doc(root, doc) == IF compile(root) THEN is_valid_bytes(root, doc) ELSE DomValid(root, doc)
ErrorList(root, doc, max) == IF compile(root) THEN validate_errors(root, doc, max) ELSE DomErrors(root, doc)
validate_detailed(root, doc) == ErrorList(root, doc, Unlimited)
validate_first_error(root, doc) == ErrorList(root, doc, 1)

\* A path is the list of its tokens; "-" at the end asks for a length.
IsIndexStep(step) == step = "-" \/ step \in {Index(i) : i \in 0 .. 7}
parse_target(tokens) ==
    LET length == tokens # <<>> /\ Last(tokens) = "-"
        body == IF length THEN Front(tokens) ELSE tokens
    IN  IF body = <<>> \/ Head(tokens) = "" \/ \E i \in DOMAIN body : IsIndexStep(body[i]) THEN None
        ELSE Some([steps |-> body, kind |-> IF length THEN "length" ELSE "value"])

scalar_value(v) == IF v[1] \in Scalars THEN v ELSE <<"null", "null">>
RECURSIVE Pointed(_, _)
Pointed(v, steps) ==
    IF steps = <<>> THEN Some(v)
    ELSE IF v[1] # "object" THEN None
    ELSE IF Head(steps) \notin Keys(v[2]) THEN None
    ELSE Pointed(Member(v[2], Head(steps)), Tail(steps))

\* What the crate's document holds at a target.
DomAt(at, kind) ==
    IF at = None THEN None
    ELSE IF kind = "value" THEN Some(scalar_value(at[1]))
    ELSE IF at[1][1] = "array" THEN Some(<<"number", 2 * Len(at[1][2])>>) ELSE None
dom_value(v, t) == DomAt(Pointed(v, t.steps), t.kind)

derive_values(doc, targets, captured) ==
    [t \in DOMAIN targets |->
        IF captured[t] = None THEN None
        ELSE LET got == captured[t][1]
             IN  IF targets[t].kind = "length" THEN Some(<<"number", 2 * got[1]>>)
                 ELSE Some(scalar_value(ParseAt(doc, got[1]).value))]

\* Nothing is returned of a document that is refused.
Derived(targets, ok, values) == Some([ok |-> ok, values |-> IF ok THEN values ELSE [t \in DOMAIN targets |-> None]])
DeriveFast(doc, targets, r) == Derived(targets, Accepted(r, doc), derive_values(doc, targets, r.ctx.captured))
DeriveDom(root, doc, targets) ==
    Derived(targets, DomValid(root, doc), [t \in DOMAIN targets |-> dom_value(parsed(doc)[1], targets[t])])
DeriveAt(root, doc, targets) ==
    IF compile(root) THEN DeriveFast(doc, targets, Walk(root, doc, FALSE, 0, targets))
    ELSE DeriveDom(root, doc, targets)
derive(root, doc, paths) ==
    IF \E t \in DOMAIN paths : parse_target(paths[t]) = None THEN None
    ELSE DeriveAt(root, doc, [t \in DOMAIN paths |-> parse_target(paths[t])[1]])

ValidateSchema ==
    \E i \in DOMAIN Schemas, doc \in Documents :
        LET root == Schemas[i] IN
        call' = [op |-> "schema", root |-> root, doc |-> doc, valid |-> validate_doc(root, doc),
                 errors |-> validate_detailed(root, doc), first |-> validate_first_error(root, doc)]
Derive ==
    \E i \in DOMAIN Schemas, doc \in Documents, paths \in TargetLists :
        LET root == Schemas[i] IN
        call' = [op |-> "derive", root |-> root, doc |-> doc, paths |-> paths, result |-> derive(root, doc, paths)]
SchemaNext == call = Ready /\ (ValidateSchema \/ Derive)

SchemaSpec == CallsInit /\ [][SchemaNext \/ Return]_call
-----------------------------------------------------------------------------
(* What a schema or an error points at.                                    *)
RECURSIVE SchemaAt(_, _)
SchemaAt(s, path) ==
    LET number == CHOOSE i \in 1 .. 8 : Index(i - 1) = path[2]
    IN  IF path = <<>> THEN s
        ELSE IF path[1] \in {"properties", "definitions"} THEN SchemaAt(s[path[1]][path[2]], SubSeq(path, 3, Len(path)))
        ELSE IF path[1] \in {"allOf", "anyOf", "oneOf", "tuple"} THEN SchemaAt(s[path[1]][number], SubSeq(path, 3, Len(path)))
        ELSE IF path[1] = "patternProperties" THEN SchemaAt(s[path[1]][number].schema, SubSeq(path, 3, Len(path)))
        ELSE SchemaAt(s[path[1]], Tail(path))
RECURSIVE ValueAt(_, _)
ValueAt(v, path) ==
    IF path = <<>> THEN v
    ELSE IF v[1] = "object" THEN ValueAt(Member(v[2], path[1]), Tail(path))
    ELSE ValueAt(v[2][CHOOSE i \in 1 .. 8 : Index(i - 1) = path[1]], Tail(path))

\* The bounds below which neither the walk nor a skip reaches MAX_DEPTH.
RECURSIVE HeightOf(_, _)
HeightOf(root, s) ==
    LET subs == IF Has(s, "ref") THEN {RefTarget(root, s.ref)[1]}
                ELSE IF Has(s, "bool") THEN {} ELSE {n.schema : n \in Subschemas(s, <<>>)}
    IN  1 + Max({0} \cup {HeightOf(root, sub) : sub \in subs})
Nesting(doc) ==
    LET Opened(p) == Cardinality({i \in 1 .. p : doc[i][1] \in {"{", "["}}) - Cardinality({i \in 1 .. p : doc[i][1] \in {"}", "]"}})
    IN  Max({0} \cup {Opened(p) : p \in DOMAIN doc})
Shallow(root, doc) == HeightOf(root, root) + Nesting(doc) <= MAX_DEPTH

RECURSIVE Plain(_, _)
\* No object names a member twice; if flat, no array holds a container.
Plain(v, flat) ==
    IF v[1] = "object" THEN /\ Cardinality(Keys(v[2])) = Len(v[2])
                            /\ \A i \in DOMAIN v[2] : Plain(v[2][i][2], flat)
    ELSE IF v[1] = "array" THEN \A i \in DOMAIN v[2] : Plain(v[2][i], flat) /\ (flat => v[2][i][1] \in Scalars)
    ELSE TRUE

(* What the callers of the validator rely on, for a document that is JSON, *)
(* names no member twice and is not too deep: the walk over the bytes, in  *)
(* either mode, gives the verdict of Draft 7 over the value; the first     *)
(* error is the one found first by the complete list; every error names a  *)
(* keyword of the schema that the value it points at breaks, never one of  *)
(* a branch that was only tried; and every property that fails has one.    *)
(* Anything that is not JSON is refused.                                   *)
TrueError(root, v, e) ==
    LET at == ValueAt(v, IF e.keyword \in {"additionalProperties", "additionalItems"} THEN Front(e.instance) ELSE e.instance)
        s == SchemaAt(root, e.schema)
    IN  /\ ToSet(e.schema) \cap {"anyOf", "oneOf", "not", "if", "contains"} = {}
        /\ e.keyword # "false schema" => Has(s, e.keyword) /\ ~Holds(root, s, e.keyword, at)

Reported(root, v, errors) ==
    Has(root, "properties") /\ v[1] = "object" /\ (\A keyword \in {"type", "enum", "const"} \cap DOMAIN root : Holds(root, root, keyword, v))
      => \A key \in DOMAIN root.properties \cap Keys(v[2]) :
            Conforms(root, root.properties[key], Member(v[2], key))
              \/ \E i \in DOMAIN errors : errors[i].instance # <<>> /\ errors[i].instance[1] = key

SchemaFaithful ==
    call.op = "schema" =>
        LET v == parsed(call.doc)
            fast == compile(call.root)
        IN  IF v = None THEN ~call.valid
            ELSE Plain(v[1], FALSE) /\ (fast => Shallow(call.root, call.doc)) =>
                   /\ call.valid <=> Conforms(call.root, call.root, v[1])
                   /\ call.valid <=> call.errors = <<>>
                   /\ call.first = SubSeq(call.errors, 1, IF call.valid THEN 0 ELSE 1)
                   /\ fast => /\ \A i \in DOMAIN call.errors : TrueError(call.root, v[1], call.errors[i])
                              /\ Reported(call.root, v[1], call.errors)

(* What is captured during the walk is what the document holds at that     *)
(* path: derive never returns the value of another member.  (Documents     *)
(* whose arrays hold containers are left out: the walk does not keep track *)
(* of the arrays it is in.)                                                *)
DeriveHonest ==
    call.op = "derive" =>
        LET v == parsed(call.doc)
        IN  IF call.result = None THEN \E t \in DOMAIN call.paths : parse_target(call.paths[t]) = None
            ELSE IF v = None THEN ~call.result[1].ok
            ELSE Plain(v[1], TRUE) /\ (compile(call.root) => Shallow(call.root, call.doc)) =>
                   /\ call.result[1].ok <=> Conforms(call.root, call.root, v[1])
                   /\ call.result[1].ok =>
                        \A t \in DOMAIN call.paths :
                            \/ call.result[1].values[t] = None
                            \/ call.result[1].values[t] = dom_value(v[1], parse_target(call.paths[t])[1])

(* A document with no errors is valid: validateDetailed and                *)
(* validateFirstError return nothing for a document exactly when validate  *)
(* accepts it.                                                             *)
NoErrorsMeansValid == call.op = "schema" => (call.valid <=> call.errors = <<>>)
=============================================================================
