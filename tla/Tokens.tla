------------------------------- MODULE Tokens -------------------------------
(***************************************************************************)
(* The credentials of rust/crypto: signed cookies, CSRF tokens, sealed     *)
(* sessions, HS256 and EdDSA tokens, hex HMACs, AEAD batches and password  *)
(* hashes, issued and later presented, perhaps damaged on the way.         *)
(*                                                                         *)
(* A text is a sequence of items.  A character is <<c>>; an item of more   *)
(* than one component stands for a run of characters that the code writes  *)
(* and reads as a unit: 64 hex digits of a MAC or of 32 random bytes, a    *)
(* base64url segment, a decimal number, four hex digits of an escape.      *)
(***************************************************************************)
EXTENDS Calls, FiniteSets, SequencesExt, Bitwise

CONSTANTS Secrets,                  \* HMAC secrets, AEAD keys, key pairs
          CookieValues,             \* texts to sign
          SessionInputs,            \* [id, data] texts to seal
          JwtInputs,                \* [alg, claims, ttl] to sign
          Plaintexts, Nonces,       \* batches to encrypt, 64-bit nonce tails
          HMAC_KEY_CACHE_CAP,
          CLOCK_SKEW_LEEWAY_SECS,
          MaxIssued, MaxNow         \* bounds

VARIABLES now,          \* seconds
          issued,       \* history: what was issued, and what it must open to
          keyCache,     \* HMAC_KEY_CACHE of the thread that makes the C calls
          answer        \* the last presentation and its outcome

tokenVars == <<now, issued, keyCache, answer>>

Dot == <<".">>
QuoteMark == <<"q">>
Backslash == <<"\\">>
SpaceMark == <<" ">>
-----------------------------------------------------------------------------
\* hmac::sign followed by the hex encoder: 64 characters that only the same
\* key and data yield.
Mac(key, data) == <<"mac", key, data>>

Dots(text) == {i \in DOMAIN text : text[i] = Dot}
Before(text, i) == SubSeq(text, 1, i - 1)
After(text, i) == SubSeq(text, i + 1, Len(text))

\* `sign_cookie_bytes`, `sign_cookie_into`: value, a dot, the signature.
sign_cookie_bytes(value, key) == value \o <<Dot, Mac(key, value)>>

\* `hex_decode_32` and `hmac::verify` of what follows the separator.
SignedBy(key, value, sig) == sig = <<Mac(key, value)>>

FirstDotCookie(signed, key) ==
    IF Dots(signed) = {} THEN None
    ELSE LET dot == Min(Dots(signed))
             value == Before(signed, dot)
         IN  IF SignedBy(key, value, After(signed, dot)) THEN Some(value) ELSE None

\* The value may hold dots: it ends at the LAST one.
verify_cookie_bytes(signed, key) ==
    IF Dots(signed) = {} THEN None
    ELSE LET dot == Max(Dots(signed))
             value == Before(signed, dot)
         IN  IF SignedBy(key, value, After(signed, dot)) THEN Some(value) ELSE None

\* 32 random bytes in hex, and their signature; the token splits at the
\* FIRST dot, and both halves are 64 characters.
csrf_token_with_key(rnd, key) ==
    LET rnd_hex == <<<<"rnd", rnd>>>> IN rnd_hex \o <<Dot, Mac(key, rnd_hex)>>

csrf_verify_with_key(token, key) ==
    /\ Dots(token) # {}
    /\ LET dot == Min(Dots(token))
           rnd_hex == Before(token, dot)
       IN  /\ Len(rnd_hex) = 1 /\ Len(rnd_hex[1]) > 1
           /\ SignedBy(key, rnd_hex, After(token, dot))

\* `hmac_sha256` and its verifier, which trims white space around the digest.
hmac_sha256(key, data) == <<Mac(key, data)>>

trim_ascii_whitespace(text) ==
    LET solid == {i \in DOMAIN text : text[i] # SpaceMark}
    IN  IF solid = {} THEN <<>> ELSE SubSeq(text, Min(solid), Max(solid))

hmac_sha256_verify(key, data, sig) == SignedBy(key, data, trim_ascii_whitespace(sig))
-----------------------------------------------------------------------------
(***************************************************************************)
(* Sealed sessions: {"id":"...","data":<json>,"exp":<n>} as a signed       *)
(* cookie.  The id is escaped; the data is JSON text copied as it is.      *)
(***************************************************************************)
Hex(c) == <<"hex", c>>

\* An id that is not UTF-8 has every byte escaped as \u00XX.
write_json_escaped(bytes) ==
    LET utf8 == <<"bad">> \notin Range(bytes)
        Escape(c) ==
            CASE ~utf8 \/ c = <<"ctl">> -> <<Backslash, <<"u">>, Hex(c)>>
              [] c \in {QuoteMark, Backslash} -> <<Backslash, c>>
              [] c = <<"nl">> -> <<Backslash, <<"n">>>>
              [] OTHER -> <<c>>
    IN  FlattenSeq([i \in DOMAIN bytes |-> Escape(bytes[i])])

Key(name) == <<QuoteMark, <<name>>, QuoteMark, <<":">>>>

seal_core(id, data, exp, secret) ==
    IF id = <<>> THEN None
    ELSE Some(sign_cookie_bytes(
             <<<<"{">>>> \o Key("id") \o <<QuoteMark>> \o write_json_escaped(id)
                 \o <<QuoteMark, <<",">>>> \o Key("data") \o data
                 \o <<<<",">>>> \o Key("exp") \o <<<<"num", exp>>, <<"}">>>>,
             secret))

At(text, i) == IF i \in DOMAIN text THEN text[i] ELSE <<"end">>

RECURSIVE scan_json_string_end(_, _)
scan_json_string_end(text, i) ==
    CASE i > Len(text) -> 0
      [] At(text, i) = Backslash -> scan_json_string_end(text, i + 2)
      [] At(text, i) = QuoteMark -> i
      [] OTHER -> scan_json_string_end(text, i + 1)

RECURSIVE ContainerEnd(_, _, _, _, _)
ContainerEnd(text, e, open, close, depth) ==
    IF e > Len(text) THEN 0
    ELSE CASE text[e] = QuoteMark ->
                LET end == scan_json_string_end(text, e + 1)
                IN  IF end = 0 THEN 0 ELSE ContainerEnd(text, end + 1, open, close, depth)
           [] text[e] = open -> ContainerEnd(text, e + 1, open, close, depth + 1)
           [] text[e] = close ->
                IF depth = 1 THEN e + 1 ELSE ContainerEnd(text, e + 1, open, close, depth - 1)
           [] OTHER -> ContainerEnd(text, e + 1, open, close, depth)

\* The position after the value that starts at `pos`, 0 when it has no end.
skip_json_value(text, pos) ==
    CASE At(text, pos) = <<"end">> -> 0
      [] At(text, pos) = QuoteMark ->
           LET end == scan_json_string_end(text, pos + 1) IN IF end = 0 THEN 0 ELSE end + 1
      [] At(text, pos) = <<"{">> -> ContainerEnd(text, pos, <<"{">>, <<"}">>, 0)
      [] At(text, pos) = <<"[">> -> ContainerEnd(text, pos, <<"[">>, <<"]">>, 0)
      [] OTHER ->
           Min({e \in pos..Len(text) : text[e] \in {<<",">>, <<"}">>, <<"]">>}} \cup {Len(text) + 1})

RECURSIVE unescape_json_id(_)
unescape_json_id(escaped) ==
    IF escaped = <<>> THEN <<>>
    ELSE IF escaped[1] # Backslash \/ Len(escaped) = 1
      THEN <<escaped[1]>> \o unescape_json_id(Tail(escaped))
    ELSE LET e == escaped[2]
             rest == SubSeq(escaped, 3, Len(escaped))
         IN  CASE e = <<"n">> -> <<<<"nl">>>> \o unescape_json_id(rest)
               [] e = <<"u">> /\ rest # <<>> /\ rest[1][1] = "hex" ->
                    <<rest[1][2]>> \o unescape_json_id(Tail(rest))
               [] e \in {QuoteMark, Backslash} -> <<e>> \o unescape_json_id(rest)
               [] OTHER -> <<Backslash, e>> \o unescape_json_id(rest)

\* The scan over the top-level members; a malformed one ends it with None.
RECURSIVE Members(_, _, _)
Members(text, pos, found) ==
    IF pos > Len(text) THEN Some(found)
    ELSE IF text[pos] # QuoteMark THEN Members(text, pos + 1, found)
    ELSE LET ends == {i \in (pos + 1)..Len(text) : text[i] = QuoteMark}
             kend == IF ends = {} THEN Len(text) ELSE Min(ends)
             key == SubSeq(text, pos + 1, kend - 1)
             at == Min({i \in (kend + 2)..(Len(text) + 1) : At(text, i) # SpaceMark})
         IN  IF ends = {} \/ At(text, kend + 1) # <<":">> THEN None
             ELSE CASE key = <<<<"id">>>> ->
                         LET end == scan_json_string_end(text, at + 1)
                         IN  IF At(text, at) # QuoteMark \/ end = 0 THEN None
                             ELSE Members(text, end + 1,
                                    [found EXCEPT !.id = unescape_json_id(SubSeq(text, at + 1, end - 1))])
                    [] key = <<<<"exp">>>> ->
                         IF At(text, at)[1] = "num"
                           THEN Members(text, at + 1, [found EXCEPT !.exp = text[at][2]])
                           ELSE Members(text, at, [found EXCEPT !.exp = 0])
                    [] OTHER ->
                         LET end == skip_json_value(text, at)
                         IN  IF end = 0 THEN None
                             ELSE Members(text, end,
                                    IF key = <<<<"data">>>>
                                      THEN [found EXCEPT !.data = SubSeq(text, at, end - 1)]
                                      ELSE found)

open_core(token, secret) ==
    LET json == verify_cookie_bytes(token, secret)
        found == Members(json[1], 2, [id |-> <<>>, data |-> <<<<"{">>, <<"}">>>>, exp |-> 0])
    IN  IF json = None \/ found = None THEN None
        ELSE IF found[1].id = <<>> THEN None ELSE found
-----------------------------------------------------------------------------
(***************************************************************************)
(* JSON web tokens: header, payload and signature segments between dots.   *)
(***************************************************************************)
Header(alg) == <<"header", alg>>
Payload(claims) == <<"payload", claims>>
Absent == [is |-> "absent", at |-> 0]
Claim(n) == [is |-> "value", at |-> n]

\* A claim the caller set stays; a ttl that is not positive adds none.
inject_ttl_claims(claims, ttl, at) ==
    IF ttl <= 0 THEN claims
    ELSE [claims EXCEPT !.iat = IF @.is = "absent" THEN Claim(at) ELSE @,
                        !.exp = IF @.is = "absent" THEN Claim(at + ttl) ELSE @]

\* Ed25519 over the signing input, under the pair that `key` names.
Ed25519(key, data) == <<"ed25519", key, data>>

JwtSignature(alg, key, data) == IF alg = "HS256" THEN Mac(key, data) ELSE Ed25519(key, data)

build_token_with_key(alg, claims, key) ==
    LET input == <<Header(alg), Dot, Payload(claims)>>
    IN  input \o <<Dot, JwtSignature(alg, key, input)>>

\* `split_token`: exactly two dots.
split_token(token) ==
    IF Cardinality(Dots(token)) # 2 THEN None
    ELSE LET first == Min(Dots(token))
             second == Max(Dots(token))
         IN  Some([header |-> Before(token, first),
                   payload |-> SubSeq(token, first + 1, second - 1),
                   sig |-> After(token, second)])

\* The leeway for clock skew is for `iat` alone.
verify_time_claims(claims, at) ==
    /\ claims.exp.is = "absent" \/ (claims.exp.is = "value" /\ at < claims.exp.at)
    /\ claims.nbf.is = "absent" \/ (claims.nbf.is = "value" /\ at >= claims.nbf.at)
    /\ claims.iat.is = "absent" \/ (claims.iat.is = "value" /\ at >= claims.iat.at - CLOCK_SKEW_LEEWAY_SECS)

\* `verify_token_with_key` (HS256) and `verify_token_eddsa`: the signature is
\* over the received header, whose algorithm must be the verifier's own.
verify_token(alg, token, key, at) ==
    LET parts == split_token(token)
        p == parts[1]
    IN  IF parts = None THEN None
        ELSE IF /\ p.sig = <<JwtSignature(alg, key, p.header \o <<Dot>> \o p.payload)>>
                /\ p.header = <<Header(alg)>>
                /\ Len(p.payload) = 1 /\ p.payload[1][1] = "payload"
          THEN IF verify_time_claims(p.payload[1][2], at) THEN Some(p.payload[1][2]) ELSE None
          ELSE None
-----------------------------------------------------------------------------
\* AEAD batches: element i is sealed under the base nonce with i xored in.
batch_nonce(base, index) == base ^^ index

encrypt(key, nonce, plaintext) == <<"ct", key, nonce, plaintext>>

\* A ciphertext that does not open is an empty element of the answer.
decrypt(key, nonce, ciphertext) ==
    IF /\ Len(ciphertext) = 4 /\ ciphertext[2] = key /\ ciphertext[3] = nonce
      THEN ciphertext[4] ELSE <<>>

aead_encrypt_batch_packed(data, key, nonce) ==
    [i \in DOMAIN data |-> encrypt(key, batch_nonce(nonce, i - 1), data[i])]

aead_decrypt_batch_packed(data, key, nonce) ==
    [i \in DOMAIN data |-> decrypt(key, batch_nonce(nonce, i - 1), data[i])]

\* Costs above the caps are lowered to them (`resolve_opts`, `clamp_cost`); the
\* hash text carries the costs it was made with.
hash_password(password, salt, cost) == <<<<"phc", password, salt, Min({cost, 1})>>>>

verify_password(password, phc) == Len(phc) = 1 /\ Len(phc[1]) = 4 /\ phc[1][2] = password
-----------------------------------------------------------------------------
\* The compiled key for a secret.  The C functions take it from a bounded
\* per-thread cache, the napi ones and the signer classes compile their own.
hmac_key(secret) == <<"key", secret>>

CacheKinds == {"cookie", "csrf", "hmac"}

KeyFrom(door, kind, secret) ==
    IF door = "c" /\ kind \in CacheKinds /\ LruHas(keyCache, secret)
      THEN LruPeek(keyCache, secret) ELSE hmac_key(secret)

with_hmac_key_cached(door, kind, secret) ==
    keyCache' = IF door # "c" \/ kind \notin CacheKinds THEN keyCache
                ELSE IF LruHas(keyCache, secret) THEN LruGet(keyCache, secret)
                ELSE LruPut(keyCache, secret, hmac_key(secret), HMAC_KEY_CACHE_CAP)

NoAnswer == [kind |-> "none"]

Doors == {"napi", "c"}

Issue(kind, secret, text, opens) ==
    /\ Cardinality(issued) < MaxIssued /\ answer = NoAnswer
    /\ \A i \in issued : i.kind = kind
    /\ issued' = issued \cup {[kind |-> kind, secret |-> secret, text |-> text,
                               opens |-> opens, at |-> now]}
    /\ UNCHANGED <<now, answer>>

SignCookie(secret, door) ==
    /\ \E value \in CookieValues :
         Issue("cookie", secret, sign_cookie_bytes(value, KeyFrom(door, "cookie", secret)), value)
    /\ with_hmac_key_cached(door, "cookie", secret)

CsrfToken(secret, door) ==
    /\ Issue("csrf", secret,
             csrf_token_with_key(Cardinality(issued), KeyFrom(door, "csrf", secret)), TRUE)
    /\ with_hmac_key_cached(door, "csrf", secret)

SignHmac(secret, door) ==
    /\ \E data \in CookieValues :
         Issue("hmac", secret, hmac_sha256(KeyFrom(door, "hmac", secret), data), data)
    /\ with_hmac_key_cached(door, "hmac", secret)

SealSession(secret) ==
    /\ \E in \in SessionInputs :
         LET sealed == seal_core(in.id, in.data, now, hmac_key(secret))
         IN  /\ sealed # None
             /\ Issue("session", secret, sealed[1], [id |-> in.id, data |-> in.data, exp |-> now])
    /\ UNCHANGED keyCache

JwtSign(secret) ==
    /\ \E in \in JwtInputs :
         LET claims == inject_ttl_claims(in.claims, in.ttl, now)
         IN  Issue("jwt", secret,
                   build_token_with_key(in.alg, claims, hmac_key(secret)), [alg |-> in.alg, claims |-> claims])
    /\ UNCHANGED keyCache

Encrypt(secret) ==
    /\ \E data \in Plaintexts, nonce \in Nonces :
         Issue("aead", secret, aead_encrypt_batch_packed(data, secret, nonce), [nonce |-> nonce, data |-> data])
    /\ UNCHANGED keyCache

HashPassword(secret) ==
    /\ \E cost \in 0..2 :
         Issue("password", secret, hash_password(secret, "salt", cost), TRUE)
    /\ UNCHANGED keyCache

Tick == now < MaxNow /\ answer = NoAnswer /\ now' = now + 1 /\ UNCHANGED <<issued, keyCache, answer>>

\* What reaches the verifier of something issued: the text itself, the text cut
\* short or with white space after it, or with an item of another issued text.
Damaged(text) ==
    {text, text \o <<SpaceMark>>} \cup {Before(text, i) : i \in DOMAIN text}
        \cup UNION {{[text EXCEPT ![i] = j.text[i]] : i \in DOMAIN text \cap DOMAIN j.text} : j \in issued}

\* The verifier of each kind.  An HMAC is checked against the data it was
\* issued for; a batch is opened with the nonce it was sealed with.
Verified(i, text, key, secret) ==
    CASE i.kind = "cookie" -> verify_cookie_bytes(text, key)
      [] i.kind = "csrf" -> IF csrf_verify_with_key(text, key) THEN Some(TRUE) ELSE None
      [] i.kind = "hmac" -> IF hmac_sha256_verify(key, i.opens, text) THEN Some(i.opens) ELSE None
      [] i.kind = "session" -> open_core(text, key)
      [] i.kind = "jwt" -> verify_token(i.opens.alg, text, key, now)
      [] i.kind = "aead" -> Some(aead_decrypt_batch_packed(text, secret, i.opens.nonce))
      [] i.kind = "password" -> IF verify_password(secret, text) THEN Some(TRUE) ELSE None

Verify(secret, door) ==
    /\ answer = NoAnswer
    /\ \E i \in issued : \E text \in Damaged(i.text) :
         answer' = [kind |-> i.kind, text |-> text, secret |-> secret, of |-> i, at |-> now,
                    got |-> Verified(i, text, KeyFrom(door, i.kind, secret), secret)]
    /\ with_hmac_key_cached(door, answer'.kind, secret)
    /\ UNCHANGED <<now, issued>>

Forget == answer # NoAnswer /\ answer' = NoAnswer /\ UNCHANGED <<now, issued, keyCache>>

TokensInit == now = 0 /\ issued = {} /\ keyCache = <<>> /\ answer = NoAnswer

TokensNext ==
    \/ \E s \in Secrets, d \in Doors :
         SignCookie(s, d) \/ CsrfToken(s, d) \/ SignHmac(s, d) \/ Verify(s, d)
    \/ \E s \in Secrets : SealSession(s) \/ JwtSign(s) \/ Encrypt(s) \/ HashPassword(s)
    \/ Tick \/ Forget
-----------------------------------------------------------------------------
\* The life of a token as its issuer stated it.
Alive(i, at) ==
    LET c == i.opens.claims
    IN  /\ c.exp # Absent => c.exp.is = "value" /\ at < c.exp.at
        /\ c.nbf # Absent => c.nbf.is = "value" /\ at >= c.nbf.at
        /\ c.iat # Absent => c.iat.is = "value" /\ at + CLOCK_SKEW_LEEWAY_SECS >= c.iat.at

\* What the holder of issued text i is owed for it.
Owed(i, at) ==
    CASE i.kind = "jwt" -> IF Alive(i, at) THEN Some(i.opens.claims) ELSE None
      [] i.kind = "session" -> Some([id |-> i.opens.id, data |-> i.opens.data, exp |-> i.opens.exp])
      [] OTHER -> Some(i.opens)

\* The issued texts that the presented one is, for the presenting secret.
Sources(a) ==
    {i \in issued : /\ i.secret = a.secret
                    /\ i.text = IF a.kind = "hmac" THEN trim_ascii_whitespace(a.text) ELSE a.text
                    /\ a.kind = "hmac" => i.opens = a.of.opens
                    /\ a.kind = "jwt" => i.opens.alg = a.of.opens.alg}

BatchOwed(a, n) ==
    IF /\ n \in DOMAIN a.of.text /\ a.text[n] = a.of.text[n] /\ a.secret = a.of.secret
      THEN a.of.opens.data[n] ELSE <<>>

\* A presented credential opens exactly when it is, whole, one that was issued
\* under the presenter's secret and is alive, and it opens to what was put into
\* it, through either door and whatever the key cache holds; an element of an
\* encrypted batch opens only in its own place (rust/crypto, HMAC_KEY_CACHE).
TokensHonest ==
    /\ Len(keyCache) <= HMAC_KEY_CACHE_CAP
    /\ answer # NoAnswer =>
         IF answer.kind = "aead"
           THEN \A n \in DOMAIN answer.text : n <= Len(answer.of.text) =>
                   \/ answer.got[1][n] = BatchOwed(answer, n)
                   \/ \E i \in issued : i.secret = answer.secret /\ n \in DOMAIN i.text
                                          /\ i.text[n] = answer.text[n] /\ answer.got[1][n] = i.opens.data[n]
           ELSE answer.got = IF Sources(answer) = {} THEN None
                             ELSE Owed(CHOOSE i \in Sources(answer) : TRUE, answer.at)

=============================================================================
