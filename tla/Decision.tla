------------------------------ MODULE Decision ------------------------------
(***************************************************************************)
(* rust/ingress/pipeline.rs: one request from its sections to the packed   *)
(* decision, split where the rate limiter is consulted.  output.rs and     *)
(* terminal.rs give the decision its fields; flags and header variants are *)
(* sets of the bits set.  A URL is its scheme, its length and the length   *)
(* of its query; a body is its length and what validation finds in it;     *)
(* section lengths are those of the JSON the serializers produce.          *)
(***************************************************************************)
EXTENDS ClientIp

CONSTANTS DataStart,   \* OUT_DATA_START
          MaxIpBytes   \* the limit of the ip and request-id sections (128)

ASSUME DecisionAssumption == DataStart \in Nat

\* The lengths of a request are naturals, its headers are there to be looked up
\* and X-Forwarded-For is a list of hops.
WellFormed(r) ==
    /\ {"kind", "ip", "h", "query", "body"} \subseteq DOMAIN r
    /\ {"origin", "acrm", "acrh", "xff", "xri", "cookie"} \subseteq DOMAIN r.h
    /\ {r.body.len, r.query.len, r.query.json} \subseteq Nat
    /\ Present(r.h.cookie) => r.h.cookie[1].json \in Nat
    /\ Present(r.h.xff) => r.h.xff[1] \in Seq(STRING)

NoRate == [limit |-> 0, remaining |-> 0, reset |-> 0, retry |-> 0]

\* HeaderFields::terminal and ::ok, and the length write_output_header returns;
\* a status outside 200..599 is written as 500.
WrittenStatus(s) == IF s \in 200 .. 599 THEN s ELSE 500

Terminal(verdict, code, status, flags, rate, hv) ==
    [verdict |-> verdict, code |-> code, status |-> WrittenStatus(status),
     flags |-> flags, rate |-> rate, hv |-> hv,
     cookies |-> 0, query |-> 0, body |-> 0, written |-> DataStart]

OkDecision(flags, rate, hv, sections) ==
    [verdict |-> 0, code |-> "none", status |-> WrittenStatus(200),
     flags |-> flags, rate |-> rate, hv |-> hv,
     cookies |-> sections.cookies, query |-> sections.query, body |-> sections.body,
     written |-> DataStart + sections.cookies + sections.query + sections.body]

TerminalSimple(code, status) == Terminal(1, code, status, {}, NoRate, {"json"})

HeaderVariant(corsOk, preflight, rateActive, limited, json) ==
    {b \in {"json", "cors_simple", "cors_preflight", "rate_active", "rate_limited"} :
        \/ b = "json" /\ json
        \/ b = "cors_simple" /\ corsOk /\ ~preflight
        \/ b = "cors_preflight" /\ preflight
        \/ b = "rate_active" /\ rateActive
        \/ b = "rate_limited" /\ limited}

If(cond, flag) == IF cond THEN {flag} ELSE {}

\* The sections of the packed frame, read in order against their limits (stage
\* 1 of handle_packed); None when they are all within bounds.
FrameRefused(cfg, req) ==
    CASE req.urlLen > cfg.maxUrl         -> Some(TerminalSimple("bad_request", 414))
      [] req.ipLen > MaxIpBytes          -> Some(TerminalSimple("bad_request", 400))
      [] req.ridLen > MaxIpBytes         -> Some(TerminalSimple("bad_request", 400))
      [] req.headersLen > cfg.maxHeaders -> Some(TerminalSimple("request_too_large", 431))
      [] OTHER                           -> None

RateActive(cfg) == cfg.limiter # 0

\* Stages 2 and 3: flags, the client and a preflight's answer.
TrustFlags(cfg, req) ==
    LET trusted == SocketIsTrusted(cfg.trust, req.ip)
    IN  If(trusted, "trusted_proxy")
        \cup If(DetectHttps(cfg.https, cfg.trust, req.scheme, req.h, trusted), "https")

CorsResult(cfg, req) ==
    IF Present(cfg.cors) /\ Present(req.h.origin)
      THEN Evaluate(cfg.cors[1], req.kind, req.h)
      ELSE [allowed |-> FALSE, preflight |-> FALSE]

FlagsBeforeRate(cfg, req) ==
    LET c == CorsResult(cfg, req)
    IN  TrustFlags(cfg, req) \cup If(c.preflight, "is_preflight")
                             \cup If(c.allowed, "cors_allowed")

PreflightAnswer(cfg, req) ==
    LET ok == CorsResult(cfg, req).allowed
    IN  Terminal(2, IF ok THEN "none" ELSE "cors_preflight", IF ok THEN 204 ELSE 403,
                 FlagsBeforeRate(cfg, req), NoRate,
                 HeaderVariant(ok, ok, RateActive(cfg), FALSE, ~ok))

\* The answer of stages 1 to 3, if they end the request.  `packed` requests come
\* through handle_packed, the others through handle_components.
EarlyAnswer(cfg, req, packed) ==
    IF packed /\ Present(FrameRefused(cfg, req)) THEN FrameRefused(cfg, req)
    ELSE IF req.badHeaders \/ req.headerCount > cfg.maxHeaderCount
           THEN Some(TerminalSimple("request_too_large", 431))
    ELSE IF CorsResult(cfg, req).preflight THEN Some(PreflightAnswer(cfg, req))
    ELSE None

\* Stage 4: the client the limiter charges, and the answer to one that is over.
ClientOf(cfg, req) == ResolveClientIp(cfg.trust, req.ip, req.h)

SuccessVariant(cfg, req) ==
    HeaderVariant(CorsResult(cfg, req).allowed, FALSE, RateActive(cfg), FALSE, TRUE)

RateLimitedAnswer(cfg, req, rate) ==
    Terminal(1, "rate_limited", 429, FlagsBeforeRate(cfg, req) \cup {"rate_limited"},
             rate, HeaderVariant(CorsResult(cfg, req).allowed, FALSE, TRUE, TRUE, TRUE))

\* Mutant: a body on a method that usually has none is not looked at.
EnforceByMethod(cfg, req) ==
    (Present(cfg.schema) \/ cfg.requireJson) /\ MayHaveBody(req.kind)

\* Stage 6: which bodies are checked, and what the check adds.
EnforceJson(cfg, req) ==
    /\ Present(cfg.schema) \/ cfg.requireJson
    /\ MayHaveBody(req.kind) \/ req.body.len > 0

BodyConforms(cfg, body) ==
    /\ body.json
    /\ Present(cfg.schema) => cfg.schema[1].bytes \in body.conforms

BodyAnswer(cfg, req, rate) ==
    LET flags == FlagsBeforeRate(cfg, req)
        hv    == SuccessVariant(cfg, req)
        fast  == Present(cfg.schema) /\ cfg.schema[1].fast
    IN  IF cfg.guard /\ req.body.len > cfg.maxBody
          THEN Some(Terminal(1, "body_too_large", 413, flags, rate, hv))
        ELSE IF ~EnforceJson(cfg, req) \/ (req.body.len > 0 /\ BodyConforms(cfg, req.body))
          THEN None
        ELSE IF req.body.len = 0 \/ ~req.body.json
          THEN Some(Terminal(1, "invalid_json", 400, flags, rate, hv))
        ELSE Some(Terminal(1, "schema_validation", 422,
                           flags \cup If(fast, "body_valid_json"), rate, hv))

\* write_full_body_json repeats both sections, or an empty object for each.
Filled(len) == IF len > 0 THEN len ELSE 2

\* Mutant: a query that does not fit is dropped without a word.
SectionsUnreported(cfg, req, cap) ==
    LET wantC   == cfg.parseCookies /\ Present(req.h.cookie)
                   /\ req.h.cookie[1].len <= cfg.maxCookie
        fitsC   == DataStart + req.h.cookie[1].json <= cap
        cookies == IF wantC /\ fitsC THEN req.h.cookie[1].json ELSE 0
        fitsQ   == DataStart + cookies + req.query.json <= cap
        query   == IF cfg.parseQuery /\ req.query.len > 0 /\ fitsQ THEN req.query.json ELSE 0
    IN  [cookies |-> cookies, query |-> query, body |-> 0, truncated |-> wantC /\ ~fitsC]

\* Stage 7: cookies, query and metadata behind the header; what does not fit is
\* left out and reported as truncated.
Sections(cfg, req, cap) ==
    LET wantC   == cfg.parseCookies /\ Present(req.h.cookie)
                   /\ req.h.cookie[1].len <= cfg.maxCookie
        fitsC   == DataStart + req.h.cookie[1].json <= cap
        cookies == IF wantC /\ fitsC THEN req.h.cookie[1].json ELSE 0
        wantQ   == cfg.parseQuery /\ req.query.len > 0 /\ DataStart + cookies < cap
        fitsQ   == DataStart + cookies + req.query.json <= cap
        query   == IF wantQ /\ fitsQ THEN req.query.json ELSE 0
        meta    == cfg.metaBytes + Filled(cookies) + Filled(query)
        fitsM   == DataStart + cookies + query + meta <= cap
    IN  [cookies |-> cookies, query |-> query, body |-> IF cfg.metadata /\ fitsM THEN meta ELSE 0,
         truncated |-> (wantC /\ ~fitsC) \/ (wantQ /\ ~fitsQ)]

\* Stages 5 to 8.
LateAnswer(cfg, req, rate, cap) ==
    LET s == Sections(cfg, req, cap)
        checked == IF EnforceJson(cfg, req) THEN {"body_valid_json", "schema_valid"} ELSE {}
    IN  IF Present(BodyAnswer(cfg, req, rate)) THEN BodyAnswer(cfg, req, rate)[1]
        ELSE IF cfg.parseQuery /\ req.query.len > cfg.maxQuery
               THEN TerminalSimple("bad_request", 414)
        ELSE OkDecision(FlagsBeforeRate(cfg, req) \cup checked
                          \cup If(s.cookies > 2, "has_cookies")
                          \cup If(s.query > 2, "has_query")
                          \cup If(s.truncated \/ (cfg.metadata /\ s.body = 0), "body_truncated"),
                        rate, SuccessVariant(cfg, req), s)

\* The whole pipeline for a request the limiter does not refuse.
Decide(cfg, req, packed, rate, cap) ==
    IF Present(EarlyAnswer(cfg, req, packed)) THEN EarlyAnswer(cfg, req, packed)[1]
    ELSE LateAnswer(cfg, req, rate, cap)

\* The actual request a preflight announces.
Announced(req) ==
    [req EXCEPT !.kind = KindIgnoringCase(req.h.acrm[1]), !.h.acrm = None, !.h.acrh = None]

=============================================================================
