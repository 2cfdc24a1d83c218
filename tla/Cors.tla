-------------------------------- MODULE Cors --------------------------------
(***************************************************************************)
(* rust/ingress/cors.rs and the method kinds of rust/http/method.rs.  An   *)
(* optional value is a sequence of length at most one.  Origins, methods   *)
(* and header names are tokens: names are what is left of the bytes after  *)
(* trimming, and "lower" methods and names differ from the canonical ones  *)
(* only in case.                                                           *)
(***************************************************************************)
EXTENDS Collections, Functions

KnownMethods == {"GET", "HEAD", "POST", "PUT", "PATCH", "DELETE", "OPTIONS"}

\* Case variants that occur in the inputs.
Upper(m) == CASE m = "get" -> "GET" [] m = "put" -> "PUT" [] OTHER -> m
Lower(h) == CASE h = "X-Token" -> "x-token" [] h = "Accept" -> "accept" [] OTHER -> h

\* MethodKind::from_str on the exact bytes (METHOD_KIND on the JS side is the
\* same table), and from_bytes_ignore_case.
KindOf(m) == IF m \in KnownMethods THEN m ELSE "OTHER"
KindIgnoringCase(m) == KindOf(Upper(m))

MayHaveBody(kind) == kind \in {"POST", "PUT", "PATCH", "DELETE"}

SafelistedHeaders == {"accept", "accept-language", "content-language", "content-type"}

NoCors == [mode |-> "disabled", origins |-> {}, credentials |-> FALSE,
           anyMethod |-> FALSE, methods |-> {}, anyHeader |-> FALSE, headers |-> {}]

\* parse_allowed_methods_bitset: names it does not know are dropped.
AllowedMethods(list) ==
    IF ~Present(list) THEN [any |-> FALSE, kinds |-> {}]
    ELSE IF "*" \in Range(list[1]) THEN [any |-> TRUE, kinds |-> {}]
    ELSE [any |-> FALSE,
          kinds |-> {KindIgnoringCase(m) : m \in Range(list[1])} \ {"OTHER"}]

\* parse_allowed_headers
AllowedHeaders(list) ==
    IF ~Present(list) THEN [any |-> FALSE, names |-> {}]
    ELSE IF "*" \in Range(list[1]) THEN [any |-> TRUE, names |-> {}]
    ELSE [any |-> FALSE, names |-> {Lower(h) : h \in Range(list[1]) \ {""}}]

\* Options the constructor refuses.
CorsRefused(opts) ==
    LET origins == IF Present(opts.origin) THEN opts.origin[1] ELSE <<>>
    IN  opts.credentials /\ (origins = <<>> \/ "*" \in Range(origins))

\* CorsEngine::from_options for options it accepts.
CorsEngine(opts) ==
    LET listed == Present(opts.origin) /\ opts.origin[1] # <<>>
                  /\ "*" \notin Range(opts.origin[1])
        ms     == AllowedMethods(opts.methods)
        hs     == AllowedHeaders(opts.headers)
    IN  [mode |-> IF listed THEN "allowlist" ELSE "wildcard",
         origins |-> IF listed THEN Range(opts.origin[1]) ELSE {},
         credentials |-> opts.credentials,
         anyMethod |-> ms.any, methods |-> ms.kinds,
         anyHeader |-> hs.any, headers |-> hs.names]

MethodAllowed(e, kind) ==
    \/ e.anyMethod
    \/ e.methods = {} /\ kind \in {"GET", "HEAD", "POST"}
    \/ kind \in e.methods

\* Mutant: any announced method passes.
PreflightAnyMethod(e, acrm) == Present(acrm) /\ acrm[1] # ""

PreflightMethodAllowed(e, acrm) ==
    /\ Present(acrm)
    /\ acrm[1] # ""
    /\ MethodAllowed(e, KindIgnoringCase(acrm[1]))

HeadersAllowed(e, acrh) ==
    \/ ~Present(acrh)
    \/ e.anyHeader
    \/ \A h \in Range(acrh[1]) \ {""} :
          IF e.headers = {} THEN Lower(h) \in SafelistedHeaders
                            ELSE Lower(h) \in e.headers

OriginAllowed(e, origin) ==
    CASE e.mode = "disabled"  -> FALSE
      [] e.mode = "wildcard"  -> ~e.credentials
      [] e.mode = "allowlist" -> origin \in e.origins

\* CorsEngine::evaluate
Evaluate(e, kind, h) ==
    LET preflight == kind = "OPTIONS" /\ Present(h.acrm)
    IN  IF ~Present(h.origin) THEN [allowed |-> FALSE, preflight |-> FALSE]
        ELSE [preflight |-> preflight,
              allowed |-> /\ OriginAllowed(e, h.origin[1])
                          /\ IF preflight
                               THEN /\ PreflightMethodAllowed(e, h.acrm)
                                    /\ HeadersAllowed(e, h.acrh)
                               ELSE MethodAllowed(e, kind)]

=============================================================================
