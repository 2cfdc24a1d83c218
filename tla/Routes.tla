------------------------------- MODULE Routes -------------------------------
(***************************************************************************)
(* How a request finds its handler: the route table of src/ingress         *)
(* (router.ts, buildRouteHandlers of server.ts), the path matcher          *)
(* (path-matcher.ts), and the lean native route (native-route.ts,          *)
(* packing/route-wire.ts, rust/ingress/native_route.rs).                   *)
(*                                                                         *)
(* A pattern is a sequence of segments [t, v]; a path is the sequence of   *)
(* texts between its slashes, so that "/a/" is <<"a", "">>.                *)
(***************************************************************************)
EXTENDS Calls, SequencesExt

CONSTANTS
    RouteSpecs,     \* what a router is given for one path
    RouteTables,    \* sequences of patterns
    Paths,
    Decoded,        \* decodeURIComponent on the texts of Paths, if it succeeds
    RoutePlans,     \* plans of native routes
    RouteBodies, RoutePairs,
    OutSizes        \* sizes of the output buffer a route may have

HttpMethods == {"GET", "HEAD", "POST", "PUT", "PATCH", "DELETE", "OPTIONS"}
Unwired == [m \in HttpMethods |-> "none"]
Wire(table, methods, handler) == [m \in HttpMethods |-> IF m \in methods THEN handler ELSE table[m]]
WireIf(wanted, table, methods, handler) == IF wanted THEN Wire(table, methods, handler) ELSE table
-----------------------------------------------------------------------------
\* What createIngressRouter makes of a spec: the first of static, raw, native
\* and responder owns the route, and the flags count only without them.
baked_route(spec) ==
    LET none == [spec EXCEPT !.static = FALSE, !.raw = FALSE, !.native = {}, !.responder = {},
                             !.flags = {}]
    IN  IF spec.static THEN [none EXCEPT !.static = TRUE]
        ELSE IF spec.raw THEN [none EXCEPT !.raw = TRUE]
        ELSE IF spec.native # {} THEN [none EXCEPT !.native = spec.native]
        ELSE IF spec.responder # {} THEN [none EXCEPT !.responder = spec.responder]
        ELSE [none EXCEPT !.flags = spec.flags]

\* buildRouteHandlers: the handler of every method, in the order of the code.
build_route_handlers(route) ==
    LET pipeline == route.flags \ (IF route.static THEN {"read", "cookies"} ELSE {})
        custom(methods) == methods \ (IF route.static THEN {"GET"} ELSE {})
        get == IF route.static THEN Wire(Unwired, {"GET"}, "static")
               ELSE IF route.raw THEN Wire(Unwired, {"GET"}, "raw")
               ELSE IF "read" \in route.flags THEN Wire(Wire(Unwired, {"GET"}, "read"), {"HEAD"}, "head")
               ELSE Unwired
        written == WireIf("write" \in pipeline, get, {"POST", "PUT", "PATCH"}, "write")
        echoed == WireIf("echo" \in pipeline, written, {"POST"}, "echo")
        cookies == WireIf("cookies" \in pipeline, echoed, {"GET"}, "cookies")
        deleted == WireIf("delete" \in pipeline, cookies, {"DELETE"}, "delete")
        responders == Wire(deleted, custom(route.responder), "responder")
        natives == Wire(responders, custom(route.native), "native")
    IN  WireIf(pipeline # {}, natives, {"OPTIONS"}, "options")
-----------------------------------------------------------------------------
IsExact(pattern) == \A i \in DOMAIN pattern : pattern[i].t = "lit"
HasRest(pattern) == \E i \in DOMAIN pattern : pattern[i].t = "rest"
CountOf(pattern, t) == Cardinality({i \in DOMAIN pattern : pattern[i].t = t})

\* The compiled regular expression of a dynamic pattern matches the path.  The
\* rest segment is the last one here, and takes at least an empty text; without
\* it one trailing slash is allowed.
re_matches(pattern, path) ==
    LET n == Len(pattern)
        fixed == IF HasRest(pattern) THEN n - 1 ELSE n
    IN  /\ \/ HasRest(pattern) /\ Len(path) >= n
           \/ ~HasRest(pattern) /\ Len(path) = n
           \/ ~HasRest(pattern) /\ Len(path) = n + 1 /\ path[n + 1] = ""
        /\ \A i \in 1..fixed : IF pattern[i].t = "lit" THEN path[i] = pattern[i].v ELSE path[i] # ""

matches(pattern, path) ==
    IF IsExact(pattern) THEN path = [i \in DOMAIN pattern |-> pattern[i].v]
    ELSE re_matches(pattern, path)

\* Most static segments first, then fewest params, then the order of the table.
before(table, i, j) ==
    LET s(k) == CountOf(table[k], "lit")
        p(k) == CountOf(table[k], "param")
    IN  s(i) > s(j) \/ (s(i) = s(j) /\ p(i) < p(j)) \/ (s(i) = s(j) /\ p(i) = p(j) /\ i < j)

\* Decodes a captured text, whole or not at all.
safe_decode(texts) ==
    IF \E k \in DOMAIN texts : Decoded[texts[k]] = None THEN texts
    ELSE [k \in DOMAIN texts |-> Decoded[texts[k]][1]]

\* The index of the route a path selects, and its params in order, the rest
\* as the sequence of its texts.
match_path(table, path) ==
    LET hits == {i \in DOMAIN table : matches(table[i], path)}
        exact == {i \in hits : IsExact(table[i])}
        first == IF exact # {} THEN CHOOSE i \in exact : TRUE
                 ELSE CHOOSE i \in hits : \A j \in hits \ {i} : before(table, i, j)
        named == SelectSeq([i \in DOMAIN table[first] |-> i], LAMBDA i : table[first][i].t = "param")
        param(i) == [name |-> table[first][i].v, value |-> safe_decode(<<path[i]>>)]
        rest == [name |-> "*", value |-> safe_decode(SubSeq(path, Len(table[first]), Len(path)))]
    IN  IF hits = {} THEN None
        ELSE Some([route |-> first,
                   params |-> [k \in DOMAIN named |-> param(named[k])]
                              \o (IF HasRest(table[first]) THEN <<rest>> ELSE <<>>)])
-----------------------------------------------------------------------------
\* createNativeRoute: the stages and the schema of the descriptor.
create_native_route(plan) ==
    [plan EXCEPT !.schema = IF plan.validateBody THEN plan.schema ELSE "none"]

\* NativeRoute::compile: a descriptor whose schema does not compile is refused,
\* and then no transport holds the route.
compile(descriptor) == descriptor @@ [compiled |-> descriptor.schema # "bad"]

\* A body is [size, json, conforms]; one without bytes is not sent.
pack_route_frame(query, cookie, body) ==
    [query |-> query, cookie |-> cookie,
     body |-> IF Present(body) /\ body[1].size > 0 THEN body ELSE None]

Rejects(code, json) == [error |-> code, json |-> json, valid |-> FALSE]

\* Mutant: a route that only validates lets a request without a body pass.
FailsOpen(route, body) ==
    IF ~route.requireJsonBody /\ ~route.validateBody THEN Rejects(0, FALSE)
    ELSE IF ~Present(body) \/ body[1].size > route.maxBodyBytes
      THEN Rejects(IF route.requireJsonBody THEN 400 ELSE 0, FALSE)
    ELSE IF ~body[1].json THEN Rejects(400, FALSE)
    ELSE IF route.schema = "good" /\ ~body[1].conforms THEN Rejects(422, TRUE)
    ELSE [error |-> 0, json |-> TRUE, valid |-> TRUE]

\* The body verdicts, the first failure winning; without a body stage there is
\* nothing to reject and nothing is called valid.
body_verdict(route, body) ==
    IF ~route.requireJsonBody /\ ~route.validateBody THEN Rejects(0, FALSE)
    ELSE IF ~Present(body) \/ body[1].size > route.maxBodyBytes THEN Rejects(400, FALSE)
    ELSE IF ~body[1].json THEN Rejects(400, FALSE)
    ELSE IF route.schema = "good" /\ ~body[1].conforms THEN Rejects(422, TRUE)
    ELSE [error |-> 0, json |-> TRUE, valid |-> TRUE]

\* ResultWriter: bytes are copied until one piece does not fit; needed goes on.
ResultHeaderLen == 8
write_bytes(w, cap, n) ==
    LET fits == ~w.full /\ w.pos + n <= cap
    IN  [pos |-> IF fits THEN w.pos + n ELSE w.pos, needed |-> w.needed + n, full |-> w.full \/ ~fits]

\* A pair section: its count, then every name and value with its length; the
\* pairs beyond max_pairs are dropped.  A pair is [raw, name, value]: the bytes it
\* has in the frame, and those of its decoded name and value.
kept_pairs(route, pairs) ==
    IF route.maxPairs > 0 /\ Len(pairs) > route.maxPairs THEN SubSeq(pairs, 1, route.maxPairs) ELSE pairs

write_section(w, cap, pairs) ==
    FoldLeft(LAMBDA v, n : write_bytes(v, cap, n), w,
             <<4>> \o FlattenSeq([k \in DOMAIN pairs |-> <<4, pairs[k].name, 4, pairs[k].value>>]))

\* NativeRoute::run into a buffer of cap bytes: what is returned, and what is
\* in the buffer if the header was committed.
route_run(route, frame, cap) ==
    LET query == kept_pairs(route, frame.query)
        cookie == kept_pairs(route, frame.cookie)
        w0 == [pos |-> ResultHeaderLen, needed |-> ResultHeaderLen, full |-> cap < ResultHeaderLen]
        w1 == IF route.parseQuery THEN write_section(w0, cap, query) ELSE w0
        w2 == IF route.parseCookies THEN write_section(w1, cap, cookie) ELSE w1
        valid(pairs, limit) == /\ kept_pairs(route, pairs) = pairs
                               /\ FoldLeft(LAMBDA n, p : n + p.raw, 0, pairs) <= limit
        verdict == body_verdict(route, frame.body)
    IN  IF w2.full \/ w2.needed > cap THEN [written |-> w2.needed, result |-> None]
        ELSE [written |-> w2.pos,
              result |-> Some([errorCode |-> verdict.error, bodyValidJson |-> verdict.json,
                               bodyValid |-> verdict.valid,
                               queryValid |-> route.parseQuery /\ valid(frame.query, route.maxQueryBytes),
                               cookieValid |-> route.parseCookies /\ valid(frame.cookie, route.maxCookieBytes),
                               query |-> IF route.parseQuery THEN query ELSE <<>>,
                               cookie |-> IF route.parseCookies THEN cookie ELSE <<>>])]

\* runFrame: grow to the size asked for and retry once; None if it throws, for
\* want of a transport or because the output is still too small.
run_frame(route, frame, cap) ==
    LET first == route_run(route, frame, cap)
        again == route_run(route, frame, first.written)
    IN  IF ~route.compiled THEN None
        ELSE IF first.written <= cap THEN first.result
        ELSE IF again.written > first.written THEN None ELSE again.result

\* nativeRouteHandler after its body was read.
native_status(result) ==
    IF result = None THEN 500
    ELSE IF result[1].errorCode = 0 THEN 200
    ELSE IF result[1].errorCode = 422 THEN 422 ELSE 400
-----------------------------------------------------------------------------
\* A route given to the server itself has one read handler: a plain function
\* (raw) or one of the pipeline.
ServerRoute(route) ==
    /\ call = Ready
    /\ ~(route.raw /\ "read" \in route.flags)
    /\ call' = [op |-> "wire", route |-> route, table |-> build_route_handlers(route)]

RouterRoute(spec) ==
    /\ call = Ready
    /\ call' = [op |-> "router", route |-> baked_route(spec), spec |-> spec,
                table |-> build_route_handlers(baked_route(spec))]

Dispatch(table, path) ==
    /\ call = Ready
    /\ call' = [op |-> "match", table |-> table, path |-> path, out |-> match_path(table, path)]

RunRoute(plan, query, cookie, body, cap) ==
    LET result == run_frame(compile(create_native_route(plan)), pack_route_frame(query, cookie, body), cap)
    IN  /\ call = Ready
        /\ call' = [op |-> "native_route", plan |-> plan, query |-> query, cookie |-> cookie,
                    body |-> body, result |-> result, status |-> native_status(result)]

RoutesNext ==
    \/ \E spec \in RouteSpecs : ServerRoute(spec) \/ RouterRoute(spec)
    \/ \E table \in RouteTables, path \in Paths : Dispatch(table, path)
    \/ \E plan \in RoutePlans, query \in RoutePairs, cookie \in RoutePairs, body \in RouteBodies,
          cap \in OutSizes : RunRoute(plan, query, cookie, body, cap)
-----------------------------------------------------------------------------
\* buildRouteHandlers gives every method a route asks for a handler and the
\* precedence it documents: a static response owns GET, a native plan beats a
\* responder, both beat the pipeline, HEAD is never answered where GET is not,
\* and a preflight is answered exactly where some pipeline handler may need it.
WiringHonest(route, table) ==
    /\ route.static <=> table["GET"] = "static"
    /\ \A m \in route.native : table[m] = "native" \/ (m = "GET" /\ route.static)
    /\ \A m \in route.responder \ route.native : table[m] = "responder" \/ (m = "GET" /\ route.static)
    /\ table["HEAD"] # "none" => table["GET"] # "none"
    /\ "write" \in route.flags => \A m \in {"POST", "PUT", "PATCH"} : table[m] # "none"
    /\ "delete" \in route.flags => table["DELETE"] # "none"
    /\ \A m \in HttpMethods : table[m] \in {"read", "head", "write", "echo", "cookies", "delete"}
                               => table["OPTIONS"] = "options"
    /\ table["OPTIONS"] = "options" => route.flags # {}

\* A router's static or raw route answers GET and nothing else, and a native or
\* responder route only its own methods: no flag of the spec adds a method.
RouterHonest(spec, table) ==
    LET wired == {m \in HttpMethods : table[m] # "none"}
    IN  IF spec.static \/ spec.raw THEN wired = {"GET"}
        ELSE IF spec.native # {} THEN wired = spec.native
        ELSE IF spec.responder # {} THEN wired = spec.responder
        ELSE wired = {} <=> spec.flags = {}

\* buildPathMatcher finds a route exactly when some pattern fits, an exact one
\* first, never one with fewer static segments than another that fits, and its
\* params put back into the pattern give the path again, decoded.
MatchHonest(table, path, out) ==
    LET fits == {i \in DOMAIN table : matches(table[i], path)}
    IN  IF ~Present(out) THEN fits = {}
        ELSE LET pattern == table[out[1].route]
                 params == out[1].params
                 value(name) == (CHOOSE k \in DOMAIN params : params[k].name = name)
                 piece(seg) == IF seg.t = "lit" THEN <<seg.v>>
                               ELSE params[value(IF seg.t = "param" THEN seg.v ELSE "*")].value
                 rebuilt == FlattenSeq([i \in DOMAIN pattern |-> piece(pattern[i])])
             IN  /\ out[1].route \in fits
                 /\ (\E i \in fits : IsExact(table[i])) => IsExact(pattern)
                 /\ \A i \in fits : IsExact(pattern) \/ CountOf(table[i], "lit") <= CountOf(pattern, "lit")
                 /\ \A i \in DOMAIN rebuilt :
                       rebuilt[i] = path[i] \/ Decoded[path[i]] = Some(rebuilt[i])

\* A native route answers 500 only when its schema never compiled, whatever the
\* size of its buffer; 200 only for a body that satisfies every stage asked for,
\* present, small enough, JSON and conforming; and its pairs are the first
\* maxPairs of the request, called valid only when none was dropped.
NativeRouteHonest(c) ==
    LET plan == c.plan
        wanted == plan.requireJsonBody \/ plan.validateBody
        usable == Present(c.body) /\ c.body[1].size \in 1..plan.maxBodyBytes /\ c.body[1].json
        checked == plan.validateBody /\ plan.schema = "good"
        section(on, flag, sent, got, limit) ==
            IF ~on THEN got = <<>> /\ ~flag
            ELSE /\ IsPrefix(got, sent)
                 /\ got # sent => Len(got) = plan.maxPairs /\ Len(got) > 0
                 /\ plan.maxPairs > 0 => Len(got) <= plan.maxPairs
                 /\ flag => got = sent
    IN  /\ c.status = 500 <=> plan.validateBody /\ plan.schema = "bad"
        /\ c.status = 200 => (wanted => usable /\ (checked => c.body[1].conforms))
        /\ c.status = 400 => wanted /\ ~usable
        /\ c.status = 422 => usable /\ checked /\ ~c.body[1].conforms
        /\ c.result # None =>
             /\ c.result[1].bodyValid <=> (c.status = 200 /\ wanted)
             /\ section(plan.parseQuery, c.result[1].queryValid, c.query, c.result[1].query, plan.maxQueryBytes)
             /\ section(plan.parseCookies, c.result[1].cookieValid, c.cookie, c.result[1].cookie,
                        plan.maxCookieBytes)

\* A request reaches the handler its route table documents, with the path's own
\* params, and a native route lets through only what its plan allows
\* (buildRouteHandlers, buildPathMatcher, createNativeRoute with run).
RoutesExact ==
    /\ call.op \in {"wire", "router"} => WiringHonest(call.route, call.table)
    /\ call.op = "router" => RouterHonest(call.spec, call.table)
    /\ call.op = "match" => MatchHonest(call.table, call.path, call.out)
    /\ call.op = "native_route" => NativeRouteHonest(call)
=============================================================================
