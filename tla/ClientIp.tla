------------------------------ MODULE ClientIp ------------------------------
(***************************************************************************)
(* rust/ingress/ip_trust.rs and detect_https of rust/ingress/proxy.rs: who *)
(* the client is behind proxies, and whether it came over https.  An       *)
(* address is a token of Addresses; any other token is text that does not  *)
(* parse.  A forwarded list is the sequence of its comma-separated parts,  *)
(* trimmed, so "" is an empty part.                                        *)
(***************************************************************************)
EXTENDS Cors, FiniteSetsExt

CONSTANT Addresses

Parses(t) == t \in Addresses

\* A configured network is the set of addresses in it; an enabled mode without
\* networks trusts nothing.
TrustFromConfig(enabled, networks) ==
    IF ~enabled THEN [mode |-> "none", nets |-> {}]
    ELSE [mode |-> "networks", nets |-> IF Present(networks) THEN networks[1] ELSE {}]

\* The trust mode of new Ingress(): trustedProxies wins over trustProxy.
TrustOf(opts) ==
    IF Present(opts.trustedProxies)
      THEN TrustFromConfig(opts.trustedProxies[1].enabled, opts.trustedProxies[1].networks)
      ELSE [mode |-> IF opts.trustProxy THEN "all" ELSE "none", nets |-> {}]

IsTrusted(trust, ip) ==
    \/ trust.mode = "all"
    \/ trust.mode = "networks" /\ \E n \in trust.nets : ip \in n

SocketIsTrusted(trust, socket) == Parses(socket) /\ IsTrusted(trust, socket)

Socket(ip) == [parsed |-> Parses(ip), addr |-> ip]
Parsed(ip) == [parsed |-> TRUE, addr |-> ip]

\* The walk over X-Forwarded-For from the right: it stops at the first hop that
\* is not trusted (the client) or that does not parse.
ForwardedStop(trust, xff) ==
    {i \in DOMAIN xff :
        /\ xff[i] # ""
        /\ ~Parses(xff[i]) \/ ~IsTrusted(trust, xff[i])}

First(S) == CHOOSE i \in S : \A j \in S : i <= j

\* Mutant: the leftmost hop is the client.
FromLeftmost(trust, xff) ==
    IF xff # <<>> /\ Parses(xff[1]) THEN Some(xff[1]) ELSE None

\* What the walk yields: a client, or nothing.
FromForwarded(trust, xff) ==
    LET stop    == IF ForwardedStop(trust, xff) = {} THEN 0
                   ELSE Max(ForwardedStop(trust, xff))
        trusted == {i \in DOMAIN xff : i > stop /\ xff[i] # ""}
    IN  IF stop # 0 /\ Parses(xff[stop]) THEN Some(xff[stop])
        ELSE IF trusted # {} THEN Some(xff[First(trusted)])
        ELSE None

FromRealIp(xri) ==
    IF Present(xri) /\ Parses(xri[1][1]) THEN Some(xri[1][1]) ELSE None

\* resolve_client_ip
ResolveClientIp(trust, socket, h) ==
    LET forwarded == IF Present(h.xff) THEN FromForwarded(trust, h.xff[1]) ELSE None
    IN  IF trust.mode = "none" \/ ~SocketIsTrusted(trust, socket) THEN Socket(socket)
        ELSE IF Present(forwarded) THEN Parsed(forwarded[1])
        ELSE IF Present(FromRealIp(h.xri)) THEN Parsed(FromRealIp(h.xri)[1])
        ELSE Socket(socket)

\* detect_https
DetectHttps(fixed, trust, scheme, h, peerTrusted) ==
    IF Present(fixed) THEN fixed[1]
    ELSE \/ scheme \in {"https", "wss"}
         \/ /\ trust.mode # "none"
            /\ peerTrusted
            /\ Present(h.xfp)
            /\ h.xfp[1] = "https"

=============================================================================
