-------------------------- MODULE MCNativeIngress --------------------------
(***************************************************************************)
(* Small instances of NativeIngress: one workload per concern, so that the *)
(* features of a request are crossed with each other where the code        *)
(* crosses them and not with the interleavings of the limiter.             *)
(***************************************************************************)
EXTENDS NativeIngress

MCHash(s) == IF s = "s3" THEN 3 ELSE 1       \* "s1" and "s2" collide
MCRateKey(c) == CASE c.addr = "a" -> 0 [] c.addr = "b" -> 1 [] OTHER -> 2

MCAddresses == {"a", "b", "p", "q"}

Plain ==
    [https |-> None, trustedProxies |-> None, trustProxy |-> FALSE, cors |-> None,
     rate |-> None, schema |-> None, requireJson |-> FALSE, guard |-> TRUE, maxBody |-> 4,
     parseCookies |-> FALSE, parseQuery |-> FALSE, metadata |-> FALSE, metaBytes |-> 3,
     maxUrl |-> 9, maxHeaders |-> 9, maxQuery |-> 8, maxHeaderCount |-> 3, maxCookie |-> 8]

NoHeaders == [origin |-> None, acrm |-> None, acrh |-> None, xff |-> None, xri |-> None,
              xfp |-> None, cookie |-> None]

NoBody == [len |-> 0, json |-> FALSE, conforms |-> {}]

Get == [kind |-> "GET", scheme |-> "http", urlLen |-> 3, ip |-> "a", ipLen |-> 1, ridLen |-> 1,
        headersLen |-> 2, headerCount |-> 1, badHeaders |-> FALSE, h |-> NoHeaders,
        query |-> [len |-> 0, json |-> 0], body |-> NoBody]

\* Two workers of one configuration, two clients, late clock reads; a shard
\* holds one key, so the clients evict each other.
Limits(limit, window, serves, time, ips) ==
    [workers |-> {"w1", "w2"}, caps |-> {2}, time |-> time, builds |-> 2, serves |-> serves,
     panics |-> 1, clears |-> 0,
     options |-> {[Plain EXCEPT !.rate = Some([limit |-> limit, window |-> window, entries |-> 0])]},
     requests |-> {[Get EXCEPT !.ip = i] : i \in ips}]

\* Many configurations: the registry of two limiters fills up.
Registry ==
    [workers |-> {"w1", "w2", "w3"}, caps |-> {2}, time |-> 0, builds |-> 4, serves |-> 1,
     panics |-> 0, clears |-> 0,
     options |-> {[Plain EXCEPT !.rate = Some([limit |-> r[1], window |-> r[2], entries |-> r[3]])] :
                     r \in {<<0, 1, 2>>, <<1, 1, NoEntries>>, <<1, 1, 2>>, <<1, 1, 3>>, <<1, 2, 2>>}},
     requests |-> {Get}]

Bodies == {NoBody} \cup
          {[len |-> n, json |-> TRUE, conforms |-> c] : n \in {1, 5}, c \in SUBSET {"s1", "s2"}}
          \cup {[len |-> 1, json |-> FALSE, conforms |-> {}]}

\* Two workers share, flush and collide in the schema cache.
Bodied ==
    [workers |-> {"w1", "w2"}, caps |-> {2}, time |-> 0, builds |-> 3, serves |-> 1,
     panics |-> 0, clears |-> 1,
     options |-> {[Plain EXCEPT !.schema = Some(s)] : s \in {"s1", "s2", "s3", "bad"}}
                 \cup {[Plain EXCEPT !.requireJson = TRUE, !.guard = FALSE]},
     requests |-> {[Get EXCEPT !.kind = k, !.body = b] : k \in {"GET", "POST"}, b \in Bodies}]

Origins == {None, Some("o1"), Some("o2")}

CorsOptions ==
    {[origin |-> o, credentials |-> c, methods |-> m, headers |-> h] :
        o \in {None, Some(<<"*">>), Some(<<"o1">>)}, c \in BOOLEAN,
        m \in {None, Some(<<"put", "OTHER">>), Some(<<"*">>)},
        h \in {None, Some(<<"X-Token">>)}}

\* CORS: every combination of origin, method and header lists.
Crossed ==
    [workers |-> {"w1"}, caps |-> {2}, time |-> 0, builds |-> 2, serves |-> 1,
     panics |-> 1, clears |-> 0,
     options |-> {[Plain EXCEPT !.cors = Some(c)] : c \in CorsOptions},
     requests |-> {[Get EXCEPT !.kind = k, !.h.origin = o, !.h.acrm = m, !.h.acrh = h] :
                      k \in {"GET", "OPTIONS", "DELETE"}, o \in Origins,
                      m \in {None, Some("get"), Some("PUT"), Some("TRACE")},
                      h \in {None, Some(<<"Accept">>), Some(<<"x-token", "">>)}}]

Hops == {"a", "p", "", "junk"}
Lists == {None} \cup {Some(<<x>>) : x \in Hops} \cup {Some(<<x, y>>) : x, y \in Hops}

\* Proxies: who is charged, and https.
Proxied ==
    [workers |-> {"w1"}, caps |-> {2}, time |-> 0, builds |-> 1, serves |-> 1,
     panics |-> 0, clears |-> 0,
     options |-> {[Plain EXCEPT !.trustedProxies = t, !.trustProxy = a,
                                !.https = f,
                                !.rate = Some([limit |-> 1, window |-> 1, entries |-> 0])] :
                     t \in {None, Some([enabled |-> TRUE, networks |-> Some({{"p", "q"}})]),
                            Some([enabled |-> TRUE, networks |-> None])},
                     a \in BOOLEAN, f \in {None, Some(FALSE)}},
     requests |-> {[Get EXCEPT !.ip = i, !.h.xff = x, !.h.xri = r, !.h.xfp = s] :
                      i \in {"b", "p"}, x \in Lists, r \in {None, Some(<<"q">>)},
                      s \in {None, Some("https")}}]

\* Sections: every way cookies, query and metadata fit or do not.
Sectioned ==
    [workers |-> {"w1"}, caps |-> 2 .. 20, time |-> 0, builds |-> 1, serves |-> 1,
     panics |-> 1, clears |-> 0,
     options |-> {[Plain EXCEPT !.parseCookies = c, !.parseQuery = q, !.metadata = m] :
                     c, q, m \in BOOLEAN},
     requests |-> {[Get EXCEPT !.h.cookie = c, !.query = q] :
                      c \in {None, Some([len |-> 9, json |-> 3]), Some([len |-> 1, json |-> 4])},
                      q \in {[len |-> 0, json |-> 0], [len |-> 1, json |-> 5],
                             [len |-> 9, json |-> 5]}}]

\* Frames past each limit, over both entries.
Framed ==
    [workers |-> {"w1"}, caps |-> {2}, time |-> 0, builds |-> 1, serves |-> 1,
     panics |-> 1, clears |-> 0, options |-> {Plain},
     requests |-> {[Get EXCEPT !.urlLen = u, !.ipLen = i, !.ridLen = r, !.headersLen = n,
                               !.headerCount = c, !.badHeaders = b] :
                      u \in {9, 10}, i \in {5, 6}, r \in {5, 6}, n \in {9, 10},
                      c \in {3, 4}, b \in BOOLEAN}]

MCWorkloads == {Limits(2, 2, 4, 2, {"a"}), Limits(1, 2, 3, 3, {"a", "b"}), Registry, Bodied, Crossed, Proxied, Sectioned, Framed}
\* The two entries side by side.
MCFrames == {Framed}

=============================================================================
