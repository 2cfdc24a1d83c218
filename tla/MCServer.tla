------------------------------ MODULE MCServer ------------------------------
(***************************************************************************)
(* The inputs of Server for TLC.                                           *)
(***************************************************************************)
EXTENDS Server

\* Uploads: what Content-Length declares, the sizes of the chunks that arrive,
\* and whether the client finishes.  BodyLimit is 2: one that fits, one larger
\* than declared, one that stalls, and two without a declared length, of which
\* one grows past the limit.
MCUploads ==
    {[declared |-> <<2>>, chunks |-> <<1, 1>>, ends |-> TRUE],
     [declared |-> <<2>>, chunks |-> <<3>>, ends |-> TRUE],
     [declared |-> <<2>>, chunks |-> <<1>>, ends |-> FALSE],
     [declared |-> <<>>, chunks |-> <<1, 1>>, ends |-> TRUE],
     [declared |-> <<>>, chunks |-> <<2, 1>>, ends |-> FALSE]}

\* Responses: whole, failing before its first chunk, and failing after it.
MCResponses ==
    {[length |-> <<2>>, chunks |-> 2, fails |-> <<>>],
     [length |-> <<2>>, chunks |-> 2, fails |-> <<0>>],
     [length |-> <<>>, chunks |-> 2, fails |-> <<1>>]}

MCRouteSpecs ==
    [static : BOOLEAN, raw : BOOLEAN, native : {{}, {"GET"}, {"POST"}},
     responder : {{}, {"GET", "POST"}}, flags : SUBSET {"read", "write", "echo", "cookies", "delete"}]

\* Pattern segments.
Lit(v) == [t |-> "lit", v |-> v]
Param(v) == [t |-> "param", v |-> v]
Star == [t |-> "rest", v |-> "*"]

MCRouteTables ==
    {<< <<Param("id")>>, <<Lit("a"), Param("id")>>, <<Lit("a"), Lit("b")>> >>,
     << <<Param("x"), Param("y")>>, <<Param("x"), Lit("b")>>, <<Lit("a"), Param("y")>>,
        <<Lit("a"), Lit("b"), Param("z")>> >>,
     << <<Star>>, <<Lit("a"), Param("id"), Star>>, <<Lit("a"), Lit("b")>> >>,
     << <<Lit("a"), Param("id")>>, <<Lit("a"), Star>> >>}

\* "e" is a text with an escape, which decodes to "b"; "m" a malformed one.
Texts == {"a", "b", "", "e", "m"}
MCPaths == UNION {[1..n -> Texts] : n \in 1..3}
MCDecoded == [t \in Texts |-> IF t = "m" THEN None ELSE Some(IF t = "e" THEN "b" ELSE t)]

MCRoutePlans ==
    [parseQuery : BOOLEAN, parseCookies : BOOLEAN, requireJsonBody : BOOLEAN, validateBody : BOOLEAN,
     schema : {"none", "good", "bad"}, maxBodyBytes : {2}, maxQueryBytes : {200},
     maxCookieBytes : {200}, maxPairs : {0, 1}]

MCRouteBodies ==
    {None} \cup {Some([size |-> n, json |-> j, conforms |-> c]) :
                    <<n, j, c>> \in {<<0, FALSE, FALSE>>, <<1, FALSE, FALSE>>, <<2, TRUE, FALSE>>,
                                     <<2, TRUE, TRUE>>, <<3, TRUE, TRUE>>}}

\* A pair of n bytes and its separator; two of them overflow 256 bytes of output.
PairOf(n) == [raw |-> n + 1, name |-> 4, value |-> n - 4]
MCRoutePairs == {<<>>, <<PairOf(100)>>, <<PairOf(120), PairOf(100)>>}
=============================================================================
