----------------------------- MODULE NativeCalls -----------------------------
(* The boundary between the JavaScript client and the C ABI of the addon:    *)
(* rust/ffi/*.rs on one side, src/native/ffi/build/*.ts and                   *)
(* src/rust-ffi/scalar/*.ts on the other.  A native function answers with a   *)
(* number whose meaning depends on the function: bytes written, bytes needed, *)
(* a verdict, or an error that is also a zero.  A wrapper chooses a buffer,   *)
(* calls, and turns that number into a value, null or a thrown error.         *)
(*                                                                            *)
(* Contents are left out: an input is its length n, and what the core         *)
(* computes is None (it refused) or Some(the length of its output).  Modules  *)
(* Codecs, Tokens, Parsers and Negotiation model what the cores compute.      *)
EXTENDS Calls, FiniteSetsExt

CONSTANTS Sizes,        \* lengths of the main input
          Seconds,      \* the other number a call takes: a salt, a boundary,
                        \* a derived-key length, a gzip trailer
          Outputs,      \* lengths of the buffers callers bring
          AnyLength     \* the longest output of a core no formula bounds

VARIABLES encodeScratch,  \* length of the buffer the string wrappers share
          flagScratch,    \* byte 0 of the two 9-byte result buffers
          partScratch     \* length of the buffer multipartParse keeps

nativeVars == <<encodeScratch, flagScratch, partScratch>>

KiB == 1024
MiB == 1024 * 1024
Ceil(a, b) == (a + b - 1) \div b

(***************************************************************************)
(* What the two kinds of output functions answer for an output o and a     *)
(* buffer of cap bytes.                                                    *)
(***************************************************************************)
Given(ret, wrote) == [ret |-> ret, wrote |-> wrote]

strict(o, cap) ==
    IF Present(o) /\ o[1] <= cap THEN Given(o[1], o[1]) ELSE Given(0, 0)

exact(o, cap) ==
    IF o = None THEN Given(0, 0) ELSE Given(o[1], IF o[1] <= cap THEN o[1] ELSE 0)

\* A too short buffer is answered before the signature is looked at, with the
\* place of the last dot.  k is that place here, 0 when there is no dot.
castrum_verify_cookie_into(o, n, k, cap) ==
    IF cap < n THEN Given(IF k # 0 THEN k ELSE n, 0) ELSE strict(o, cap)

\* 9 bytes when the core accepts, one byte when it does not.
flagged(o) == IF Present(o) THEN Given(9, 9) ELSE Given(1, 1)

(***************************************************************************)
(* The native functions: their convention, the lengths their output can    *)
(* have for n input bytes (lo > hi when no input of that length succeeds), *)
(* and whether the core can refuse.                                        *)
(***************************************************************************)
Native(abi, lo, hi, fails) == [abi |-> abi, lo |-> lo, hi |-> hi, fails |-> fails]
Strict(lo, hi, fails)  == Native("strict", lo, hi, fails)
Exact(lo, hi, fails)   == Native("exact", lo, hi, fails)
CString(lo, hi, fails) == Native("cstring", lo, hi, fails)

hashing_codecs(f, n) ==
    CASE f = "hex_encode" -> Strict(2 * n, 2 * n, FALSE)
      [] f = "url_encode" -> Strict(n, 3 * n, FALSE)
      [] f = "hex_decode" -> Strict(n % 2, n \div 2, n > 0)
      [] f = "url_decode" -> Strict(Ceil(n, 3), n, n > 0)

hashing_texts(f, n) ==
    CASE f = "json_sum_ids"           -> Native("flag", 9, 9, TRUE)
      [] f = "regex_escape"           -> Exact(n, 2 * n, FALSE)
      [] f = "regex_escape_str"       -> CString(n, 2 * n, FALSE)
      [] f = "hex_validate_batch_str" -> Exact(IF n = 0 THEN 0 ELSE 1, n, FALSE)

crypto_cookies(f, n) ==
    CASE f = "hmac_sha256"        -> Strict(64, 64, FALSE)
      [] f = "sign_cookie"        -> CString(n + 65, n + 65, FALSE)
      [] f = "sign_cookie_into"   -> Exact(n + 65, n + 65, FALSE)
      [] f = "verify_cookie"      -> CString(IF n < 65 THEN 1 ELSE n - 65, n - 65, TRUE)
      [] f = "verify_cookie_into" ->
             Native("cookie", IF n < 65 THEN 1 ELSE n - 65, n - 65, TRUE)

\* Lengths of unpadded base64 and of a decimal number.
Base64(n) == (4 * n + 2) \div 3
DecimalWidth(v) == CHOOSE d \in 1..10 : v < 10^d /\ (d = 1 \/ v >= 10^(d-1))

\* $argon2id$v=19$m=19456,t=2,p=1$<salt>$<hash>, with a 32-byte hash.
PhcText(salt) == 10 + 5 + 2 + DecimalWidth(19456) + 3 + DecimalWidth(2) + 3 + DecimalWidth(1)
                 + 1 + Base64(salt) + 1 + Base64(32)

crypto_tokens(f, n, k) ==
    CASE f = "csrf_token"           -> CString(129, 129, TRUE)
      [] f = "csrf_token_into"      -> Exact(129, 129, TRUE)
      [] f = "password_hash"        -> Exact(PhcText(k), PhcText(k), TRUE)
      [] f = "password_hash_bcrypt" -> Strict(60, 60, TRUE)
      [] f = "pbkdf2"               -> Strict(Max({1, Min({k, MiB})}), Max({1, Min({k, MiB})}), FALSE)

crypto_sealing(f, n) ==
    CASE f = "aead_encrypt"  -> Strict(n + 16, n + 16, TRUE)
      [] f = "aead_decrypt"  -> Strict(IF n < 16 THEN 1 ELSE n - 16, n - 16, TRUE)
      [] f = "base64_encode" -> Strict(Base64(n), 4 * Ceil(n, 3), FALSE)
      [] f = "base64_decode" -> Strict(IF n = 1 THEN 1 ELSE (n \div 4) * 3
                                          - (IF n > 0 /\ n % 4 = 0 THEN 2 ELSE 0),
                                       (3 * n) \div 4, n > 0)

\* A sealed session and what opening one writes.
crypto_sessions(f, n, k) ==
    CASE f = "random_token"      -> CString(2 * n, 2 * n, TRUE)
      [] f = "random_token_into" -> Exact(2 * n, 2 * n, TRUE)
      [] f = "session_seal"      -> CString(n + k + 65, AnyLength, TRUE)
      [] f = "session_open"      -> Exact(17, 17 + n, TRUE)

http_headers(f, n) ==
    CASE f = "etag"                   -> CString(10, 12, FALSE)
      [] f = "etag_into"              -> Exact(10, 12, FALSE)
      [] f = "http_date_into"         -> Strict(29, 29, TRUE)
      [] f = "parse_http_date"        -> Native("flag", 9, 9, TRUE)
      [] f = "parse_media_type"       -> Exact(19, IF n < 3 THEN 0 ELSE 6 * n + 16, TRUE)
      [] f = "parse_accept_encoding"  -> Exact(4, 13 * Ceil(n, 2) + 4, FALSE)

http_texts(f, n) ==
    CASE f = "url_encode_query"    -> CString(0, 3 * n, TRUE)
      [] f = "url_resolve"         -> CString(0, AnyLength, TRUE)
      [] f = "url_builder_resolve" -> Exact(1, AnyLength, TRUE)
      [] f = "mime_from_extension" -> CString(8, 73, FALSE)

\* Lower and upper bounds module Parsers checks against the parsers.
http_packed(f, n) ==
    CASE f = "http_parse_request_packed" ->
             Strict(18, IF n < 18 THEN 0 ELSE 5 * n, TRUE)
      [] f = "query_parse_packed"     -> Exact(4, 5 * n + 8, n > 0)
      [] f = "cookie_parse_packed"    -> Exact(4, 5 * n + 8, FALSE)
      [] f = "form_parse_packed"      -> Exact(4, 5 * n + 8, n > 0)
      [] f = "multipart_parse_packed" -> Exact(4, AnyLength, FALSE)

json_documents(f, n) ==
    CASE f = "json_patch"        -> Exact(1, AnyLength, TRUE)
      [] f = "json_parse_packed" -> Exact(9, IF n = 0 THEN 0 ELSE 8 + 9 * n, TRUE)
      [] f = "template_render"   -> Exact(0, AnyLength, TRUE)

jwt_functions(f, n) ==
    CASE f = "jwt_signer_sign"     -> Exact(n + 80, AnyLength, TRUE)
      [] f = "jwt_signer_verify"   -> Exact(2, IF n < 2 THEN 1 ELSE n, TRUE)
      [] f = "jwt_sign_bytes"      -> CString(n + 80, AnyLength, TRUE)
      [] f = "jwt_sign_bytes_into" -> Exact(n + 80, AnyLength, TRUE)
      [] f = "jwt_verify"          -> CString(2, IF n < 2 THEN 1 ELSE n, TRUE)

ed25519_functions(f, n) ==
    CASE f = "ed25519_generate_keypair" -> Exact(100, 100, TRUE)
      [] f = "ed25519_sign"             -> Exact(64, 64, TRUE)
      [] f = "jwt_eddsa_sign"           -> CString(n + 80, AnyLength, TRUE)
      [] f = "jwt_eddsa_verify"         -> CString(2, IF n < 2 THEN 1 ELSE n, TRUE)

\* A frame's header takes 2, 4 or 10 bytes, and 4 more for the mask.
FrameHeader(n) == IF n < 126 THEN 2 ELSE IF n < 65536 THEN 4 ELSE 10

payload_frames(f, n) ==
    CASE f = "ws_accept_key"      -> CString(28, 28, TRUE)
      [] f = "ws_accept_key_into" -> Exact(28, 28, TRUE)
      [] f = "ws_frame_encode"    -> Strict(n + FrameHeader(n), n + FrameHeader(n) + 4, FALSE)
      [] f = "ws_frame_decode_packed" ->
             Strict(6, IF n < 2 THEN 0 ELSE n + 4, TRUE)

payload_streams(f, n) ==
    CASE f = "gzip_compress"     -> Exact(20, AnyLength, FALSE)
      [] f = "gzip_decompress"   -> Exact(0, AnyLength, TRUE)
      [] f = "brotli_compress"   -> Exact(1, AnyLength, FALSE)
      [] f = "brotli_decompress" -> Exact(0, AnyLength, TRUE)
      [] f = "sse_encode"        -> Exact(n + 8, 7 * n + 200, FALSE)

native(f, n, k) ==
    CASE f \in {"hex_encode", "url_encode", "hex_decode", "url_decode"} -> hashing_codecs(f, n)
      [] f \in {"json_sum_ids", "regex_escape", "regex_escape_str",
                "hex_validate_batch_str"} -> hashing_texts(f, n)
      [] f \in {"hmac_sha256", "sign_cookie", "sign_cookie_into", "verify_cookie",
                "verify_cookie_into"} -> crypto_cookies(f, n)
      [] f \in {"csrf_token", "csrf_token_into", "password_hash", "password_hash_bcrypt",
                "pbkdf2"} -> crypto_tokens(f, n, k)
      [] f \in {"aead_encrypt", "aead_decrypt", "base64_encode",
                "base64_decode"} -> crypto_sealing(f, n)
      [] f \in {"random_token", "random_token_into", "session_seal",
                "session_open"} -> crypto_sessions(f, n, k)
      [] f \in {"etag", "etag_into", "http_date_into", "parse_http_date", "parse_media_type",
                "parse_accept_encoding"} -> http_headers(f, n)
      [] f \in {"url_encode_query", "url_resolve", "url_builder_resolve",
                "mime_from_extension"} -> http_texts(f, n)
      [] f \in {"http_parse_request_packed", "query_parse_packed", "cookie_parse_packed",
                "form_parse_packed", "multipart_parse_packed"} -> http_packed(f, n)
      [] f \in {"json_patch", "json_parse_packed", "template_render"} -> json_documents(f, n)
      [] f \in {"jwt_signer_sign", "jwt_signer_verify", "jwt_sign_bytes",
                "jwt_sign_bytes_into", "jwt_verify"} -> jwt_functions(f, n)
      [] f \in {"ed25519_generate_keypair", "ed25519_sign", "jwt_eddsa_sign",
                "jwt_eddsa_verify"} -> ed25519_functions(f, n)
      [] f \in {"ws_accept_key", "ws_accept_key_into", "ws_frame_encode",
                "ws_frame_decode_packed"} -> payload_frames(f, n)
      [] OTHER -> payload_streams(f, n)

(***************************************************************************)
(* The wrappers: the buffer they bring, and what they make of a zero and   *)
(* of an answer longer than the buffer.                                    *)
(***************************************************************************)
Wrapper(fn, how, first, max, zero, over) ==
    [fn |-> fn, how |-> how, first |-> first, max |-> max, zero |-> zero, over |-> over]

Fresh(fn, size, zero)   == Wrapper(fn, "fresh", size, size, zero, "throw")
Pooled(fn, size, zero)  == Wrapper(fn, "pooled", size, size, zero, "throw")
Grow(fn, first, max)    == Wrapper(fn, "grow", first, max, "throw", "throw")
Again(fn, first, max)   == Wrapper(fn, "again", first, max, "throw", "throw")
IntoBuffer(fn, need, zero)    == Wrapper(fn, "into", need, 0, zero, "throw")
Report(fn, zero)        == Wrapper(fn, "into", 0, 0, zero, "report")
AsText(fn, zero)          == Wrapper(fn, "text", 0, 0, zero, "throw")
Flag(fn, zero)          == Wrapper(fn, "flag", 9, 9, zero, "throw")

codecs_into(f, n) ==
    CASE f = "hexEncodeInto"    -> IntoBuffer("hex_encode", 2 * n, "empty")
      [] f = "urlEncodeInto"    -> IntoBuffer("url_encode", 0, "nonempty")
      [] f = "hexDecodeInto"    -> IntoBuffer("hex_decode", 0, "nonempty")
      [] f = "urlDecodeInto"    -> IntoBuffer("url_decode", 0, "nonempty")
      [] f = "base64DecodeInto" -> IntoBuffer("base64_decode", 0, "nonempty")
      [] f = "base64EncodeInto" -> IntoBuffer("base64_encode", 0, "nonempty")
      [] f = "etagInto"         -> IntoBuffer("etag_into", 0, "throw")

codecs_text(f, n) ==
    CASE f = "hexEncode"            -> Pooled("hex_encode", 2 * n, "empty")
      [] f = "urlEncode"            -> Pooled("url_encode", 3 * n, "nonempty")
      [] f = "hexValidateBatchInto" -> Report("hex_validate_batch_str", "empty")
      [] f = "regexEscapeInto"      -> Report("regex_escape", "throw")
      [] f = "regexEscapeStr"       -> AsText("regex_escape_str", "null")
      [] f = "regexEscapeStrNul"    -> Grow("regex_escape", 16, MiB)
      [] f = "hexValidateBatchStr"  -> Report("hex_validate_batch_str", "empty")
      [] f = "jsonSumIds"           -> Flag("json_sum_ids", "throw")

codecs_bytes(f, n) ==
    CASE f = "hexDecode"       -> Fresh("hex_decode", n \div 2, "nonempty")
      [] f = "urlDecode"       -> Fresh("url_decode", n, "nonempty")
      [] f = "base64Decode"    -> Fresh("base64_decode", Ceil(3 * n, 4), "nonempty")
      [] f = "wsAcceptKey"     -> AsText("ws_accept_key", "throw")
      [] f = "wsAcceptKeyInto" -> IntoBuffer("ws_accept_key_into", 0, "throw")
      [] f = "etag"            -> AsText("etag", "throw")
      [] f = "randomToken"     -> AsText("random_token", "throw")
      [] f = "randomTokenInto" -> IntoBuffer("random_token_into", 0, "throw")
      [] f = "base64Encode"    -> Pooled("base64_encode", Ceil(n, 3) * 4, "nonempty")
      [] f = "hmacSha256"      -> Pooled("hmac_sha256", 64, "throw")
      [] f = "hmacSha256Into"  -> IntoBuffer("hmac_sha256", 0, "throw")

\* The hazard of a fixed salt length: the hash is computed twice.
HardcodedSalt(n) == 22

b64Len(n) == IF n = 0 THEN 0 ELSE Ceil(n, 3) * 4 - ((3 - (n % 3)) % 3)

argon2PhcLength(m, t, p, saltLen, outLen) ==
    15 + 2 + DecimalWidth(m) + 3 + DecimalWidth(t) + 3 + DecimalWidth(p) + 1 + b64Len(saltLen)
    + 1 + b64Len(outLen)

codecs_secrets(f, n, k) ==
    CASE f = "signCookie"         -> AsText("sign_cookie", "throw")
      [] f = "signCookieInto"     -> IntoBuffer("sign_cookie_into", 0, "throw")
      [] f = "verifyCookie"       -> AsText("verify_cookie", "null")
      [] f = "verifyCookieInto"   -> IntoBuffer("verify_cookie_into", 0, "null")
      [] f = "csrfToken"          -> AsText("csrf_token", "throw")
      [] f = "csrfTokenInto"      -> IntoBuffer("csrf_token_into", 0, "throw")
      [] f = "passwordHash"       ->
             Grow("password_hash", argon2PhcLength(19456, 2, 1, k, 32), 2 * MiB)
      [] f = "passwordHashBcrypt" -> Fresh("password_hash_bcrypt", 64, "throw")

codecs_keys(f, n, k) ==
    CASE f = "pbkdf2Sha256"    -> Fresh("pbkdf2", Max({1, Min({k, MiB})}), "throw")
      [] f = "aeadEncrypt"     -> Fresh("aead_encrypt", n + 16, "throw")
      [] f = "aeadEncryptInto" -> IntoBuffer("aead_encrypt", n + 16, "throw")
      [] f = "aeadDecrypt"     -> Fresh("aead_decrypt", n, "null")

parse_packed(f, n, k) ==
    CASE f = "httpParseRequestPackedInto" -> IntoBuffer("http_parse_request_packed", 0, "nonempty")
      [] f = "queryParsePackedInto"       -> IntoBuffer("query_parse_packed", 0, "throw")
      [] f = "cookieParsePackedInto"      -> IntoBuffer("cookie_parse_packed", 0, "throw")
      [] f = "wsFrameEncode"              -> Fresh("ws_frame_encode", n + 14, "throw")
      [] f = "wsFrameEncodeInto"          -> IntoBuffer("ws_frame_encode", n + 14, "throw")
      [] f = "wsFrameDecodePacked"        -> Fresh("ws_frame_decode_packed", n + 6, "null")
      [] f = "wsFrameDecodePackedInto"    -> IntoBuffer("ws_frame_decode_packed", 0, "null")
      [] f = "multipartParsePacked"       ->
             Grow("multipart_parse_packed", Min({n + k + 64, 64 * KiB}), 128 * MiB)
      [] f = "multipartParsePackedInto"   -> IntoBuffer("multipart_parse_packed", 0, "throw")
      [] f = "formParsePackedInto"        -> IntoBuffer("form_parse_packed", 0, "throw")

parse_values(f, n) ==
    CASE f = "jsonParsePacked"     ->
             Grow("json_parse_packed", Min({n + (n \div 2), 16 * MiB}), Max({MiB, 16 * n}))
      [] f = "parseMediaType"      -> Again("parse_media_type", 2 * n + 128, 2^30)
      [] f = "parseHttpDate"       -> Flag("parse_http_date", "null")
      [] f = "parseAcceptEncoding" -> Again("parse_accept_encoding", 2 * n + 128, 2^30)
      [] f = "urlEncodeQuery"      -> AsText("url_encode_query", "null")
      [] f = "urlResolve"          -> AsText("url_resolve", "null")
      [] f = "mimeFromExtension"   -> AsText("mime_from_extension", "null")
      [] f = "httpDateInto"        -> IntoBuffer("http_date_into", 0, "throw")
      [] f = "httpDate"            -> Pooled("http_date_into", 32, "format")
      [] f = "sseEncodeEvent"      -> Grow("sse_encode", n + 64, MiB)
      [] f = "sseEncodeEventInto"  -> IntoBuffer("sse_encode", 0, "throw")

\* The gzip trailer k gives the first size; 0 means there is none.
compress_streams(f, n, k) ==
    CASE f = "jsonPatch"            -> Again("json_patch", Min({n + 16, 64 * KiB}), 128 * MiB)
      [] f = "gzipCompress"         ->
             Grow("gzip_compress", Min({n + 64, 16 * KiB}), Max({2 * n + 64, MiB}))
      [] f = "gzipCompressInto"     -> IntoBuffer("gzip_compress", 0, "throw")
      [] f = "gzipDecompress"       ->
             Grow("gzip_decompress",
                  IF k # 0 THEN Min({k, 64 * MiB}) ELSE Min({16 * n, 4 * MiB}), 64 * MiB)
      [] f = "gzipDecompressInto"   -> IntoBuffer("gzip_decompress", 0, "throw")
      [] f = "brotliCompress"       ->
             Grow("brotli_compress", Min({n + 64, 16 * KiB}), Max({2 * n + 64, MiB}))
      [] f = "brotliCompressInto"   -> IntoBuffer("brotli_compress", 0, "throw")
      [] f = "brotliDecompress"     ->
             Grow("brotli_decompress", Min({Max({32 * n, KiB}), 4 * MiB}), 64 * MiB)
      [] f = "brotliDecompressInto" -> IntoBuffer("brotli_decompress", 0, "throw")

instances_signers(f, n) ==
    CASE f = "jwtSignerSign"    -> Grow("jwt_signer_sign", Min({n + 128, 64 * KiB}), MiB)
      [] f = "jwtSignerVerify"  ->
             [Again("jwt_signer_verify", Min({n + 256, 64 * KiB}), 2^30)
                 EXCEPT !.how = "once more", !.zero = "null"]
      [] f = "templateRender"   -> Grow("template_render", Min({n + 128, 64 * KiB}), MiB)
      [] f = "sessionSeal"      -> AsText("session_seal", "null")
      [] f = "sessionOpen"      -> Report("session_open", "zero")
      [] f = "sessionSealBytes" -> AsText("session_seal", "null")
      [] f = "sessionOpenBytes" -> Report("session_open", "zero")

instances_tokens(f, n) ==
    CASE f = "jwtSignBytes"           -> AsText("jwt_sign_bytes", "throw")
      [] f = "jwtSignBytesInto"       -> IntoBuffer("jwt_sign_bytes_into", 0, "throw")
      [] f = "jwtVerify"              -> AsText("jwt_verify", "null")
      [] f = "ed25519GenerateKeypair" -> Grow("ed25519_generate_keypair", 100, 1024)
      [] f = "ed25519Sign"            -> Grow("ed25519_sign", 64, 64)
      [] f = "jwtEdDSASign"           -> AsText("jwt_eddsa_sign", "null")
      [] f = "jwtEdDSAVerify"         -> AsText("jwt_eddsa_verify", "null")
      [] f = "urlBuilderResolve"      ->
             Grow("url_builder_resolve", Min({2 * n + 128, 64 * KiB}), MiB)

CodecsInto    == {"hexEncodeInto", "urlEncodeInto", "hexDecodeInto", "urlDecodeInto",
                  "base64DecodeInto", "base64EncodeInto", "etagInto"}
CodecsText    == {"hexEncode", "urlEncode", "hexValidateBatchInto", "regexEscapeInto",
                  "regexEscapeStr", "regexEscapeStrNul", "hexValidateBatchStr", "jsonSumIds"}
CodecsBytes   == {"hexDecode", "urlDecode", "base64Decode", "wsAcceptKey", "wsAcceptKeyInto",
                  "etag", "randomToken", "randomTokenInto", "base64Encode", "hmacSha256",
                  "hmacSha256Into"}
CodecsSecrets == {"signCookie", "signCookieInto", "verifyCookie", "verifyCookieInto",
                  "csrfToken", "csrfTokenInto", "passwordHash", "passwordHashBcrypt"}
CodecsKeys    == {"pbkdf2Sha256", "aeadEncrypt", "aeadEncryptInto", "aeadDecrypt"}
ParsePacked   == {"httpParseRequestPackedInto", "queryParsePackedInto", "cookieParsePackedInto",
                  "wsFrameEncode", "wsFrameEncodeInto", "wsFrameDecodePacked",
                  "wsFrameDecodePackedInto", "multipartParsePacked",
                  "multipartParsePackedInto", "formParsePackedInto"}
ParseValues   == {"jsonParsePacked", "parseMediaType", "parseHttpDate", "parseAcceptEncoding",
                  "urlEncodeQuery", "urlResolve", "mimeFromExtension", "httpDateInto",
                  "httpDate", "sseEncodeEvent", "sseEncodeEventInto"}
CompressAll   == {"jsonPatch", "gzipCompress", "gzipCompressInto", "gzipDecompress",
                  "gzipDecompressInto", "brotliCompress", "brotliCompressInto",
                  "brotliDecompress", "brotliDecompressInto"}
Signers       == {"jwtSignerSign", "jwtSignerVerify", "templateRender", "sessionSeal",
                  "sessionOpen", "sessionSealBytes", "sessionOpenBytes"}
TokenCalls    == {"jwtSignBytes", "jwtSignBytesInto", "jwtVerify", "ed25519GenerateKeypair",
                  "ed25519Sign", "jwtEdDSASign", "jwtEdDSAVerify", "urlBuilderResolve"}

wrapper(f, n, k) ==
    CASE f \in CodecsInto    -> codecs_into(f, n)
      [] f \in CodecsText    -> codecs_text(f, n)
      [] f \in CodecsBytes   -> codecs_bytes(f, n)
      [] f \in CodecsSecrets -> codecs_secrets(f, n, k)
      [] f \in CodecsKeys    -> codecs_keys(f, n, k)
      [] f \in ParsePacked   -> parse_packed(f, n, k)
      [] f \in ParseValues   -> parse_values(f, n)
      [] f \in CompressAll   -> compress_streams(f, n, k)
      [] f \in Signers       -> instances_signers(f, n)
      [] f \in TokenCalls    -> instances_tokens(f, n)

Wrappers == CodecsInto \cup CodecsText \cup CodecsBytes \cup CodecsSecrets \cup CodecsKeys
            \cup ParsePacked \cup ParseValues \cup CompressAll \cup Signers \cup TokenCalls

(***************************************************************************)
(* What a wrapper answers: "value" with len bytes, of which the native     *)
(* function wrote `wrote`; "throw"; "null"; "zero", the number 0 for a     *)
(* refusal; "needs", the length the caller must bring; "format", text      *)
(* JavaScript formats itself.                                              *)
(***************************************************************************)
Answer(kind, len, wrote, runs) ==
    [kind |-> kind, len |-> len, wrote |-> wrote, runs |-> runs]
Thrown(runs) == Answer("throw", 0, 0, runs)

AtZero(zero, n, runs) ==
    CASE zero = "empty" \/ (zero = "nonempty" /\ n = 0) -> Answer("value", 0, 0, runs)
      [] zero = "nonempty" /\ n # 0 -> Thrown(runs)
      [] OTHER -> Answer(zero, 0, 0, runs)

called(abi, n, k, o, cap) ==
    CASE abi = "strict" -> strict(o, cap)
      [] abi = "exact"  -> exact(o, cap)
      [] abi = "cookie" -> castrum_verify_cookie_into(o, n, k, cap)

Made(w, n, cap, g, runs) ==
    IF g.ret = 0 THEN AtZero(w.zero, n, runs)
    ELSE IF g.ret <= cap THEN Answer("value", g.ret, g.wrote, runs)
    ELSE IF w.over = "throw" THEN Thrown(runs)
    ELSE Answer("needs", g.ret, g.wrote, runs)
once(w, abi, n, k, o, cap, runs) == Made(w, n, cap, called(abi, n, k, o, cap), runs)

\* A retry with the exact size; the loop of growExact is unrolled to the two
\* rounds it takes when the native answer does not change.
Grown(w, abi, n, k, o, cap, g) ==
    IF g.ret = 0 \/ g.ret > Max({cap, w.max}) THEN Thrown(1)
    ELSE IF g.ret <= cap THEN Answer("value", g.ret, g.wrote, 1)
    ELSE once(w, abi, n, k, o, Min({g.ret, w.max}), 2)
GrowFrom(w, abi, n, k, o, cap) == Grown(w, abi, n, k, o, cap, called(abi, n, k, o, cap))
growExact(w, abi, n, k, o) == GrowFrom(w, abi, n, k, o, Min({Max({w.first, 16}), w.max}))

\* One retry with a buffer of its own when the first answer does not fit.
Retried(w, abi, n, k, o, cap, g) ==
    IF g.ret > cap /\ g.ret <= w.max THEN once(w, abi, n, k, o, g.ret, 2)
    ELSE Made(w, n, cap, g, 1)
retried(w, abi, n, k, o, cap) == Retried(w, abi, n, k, o, cap, called(abi, n, k, o, cap))

\* A string the engine clones from the C result; the null pointer is a refusal.
cstr(w, n, o) == IF o = None THEN AtZero(w.zero, n, 1) ELSE Answer("value", o[1], o[1], 1)

\* The result bytes outlive the call: byte 0 still holds the last verdict when
\* a call writes nothing.
FlagByte(w, o) ==
    IF flagged(o).wrote > 0 THEN (IF Present(o) THEN 1 ELSE 0) ELSE flagScratch[w.fn]
packedFlag(w, o) ==
    IF flagged(o).ret = 0 THEN Thrown(1)
    ELSE IF FlagByte(w, o) = 0 THEN Answer(w.zero, 0, 0, 1)
    ELSE Answer("value", 9, 9, 1)

scratchFor(size) == Max({encodeScratch, size})

AnswerBy(w, abi, n, k, o, cap) ==
    CASE w.how = "fresh"  -> once(w, abi, n, k, o, w.first, 1)
      [] w.how = "pooled" -> once(w, abi, n, k, o, scratchFor(w.first), 1)
      [] w.how = "grow"   -> growExact(w, abi, n, k, o)
      [] w.how = "again"  -> retried(w, abi, n, k, o, scratchFor(w.first))
      [] w.how = "once more" -> retried(w, abi, n, k, o, w.first)
      [] w.how = "into"   -> IF cap < w.first THEN Thrown(0) ELSE once(w, abi, n, k, o, cap, 1)
      [] w.how = "text"   -> cstr(w, n, o)
      [] w.how = "flag"   -> packedFlag(w, o)
Through(w, n, k, o, cap) == AnswerBy(w, native(w.fn, n, k).abi, n, k, o, cap)
answered(f, n, k, o, cap) == Through(wrapper(f, n, k), n, k, o, cap)

(***************************************************************************)
(* The scalar client.  Where it brings the buffer of an Into wrapper       *)
(* itself: the wrapper, the size, and whether it retries once with the     *)
(* size it is told.                                                        *)
(***************************************************************************)
Sized(via, cap, retry) == [via |-> via, cap |-> cap, retry |-> retry]

scalar_http(f, n) ==
    CASE f = "httpParseRequestPacked" -> Sized("httpParseRequestPackedInto", 9 * n + 16, FALSE)
      [] f = "queryParsePacked"       -> Sized("queryParsePackedInto", 5 * n + 8, FALSE)
      [] f = "cookieParsePacked"      -> Sized("cookieParsePackedInto", 5 * n + 8, FALSE)
      [] f = "formParsePacked"        -> Sized("formParsePackedInto", 5 * n + 8, FALSE)

scalar_validation(f, n) ==
    CASE f = "hexValidateBatch" -> Sized("hexValidateBatchInto", Min({n + 1, 4096}), TRUE)
      [] f = "regexEscape"      -> Sized("regexEscapeInto", n + 16, TRUE)

factories_stateless(f, n) ==
    CASE f = "HmacSigner.sign"     -> Sized("hmacSha256Into", 64, FALSE)
      [] f = "Base64Codec.encode"  -> Sized("base64EncodeInto", Ceil(n, 3) * 4 + 3, FALSE)
      [] f = "CookieSigner.sign"   -> Sized("signCookieInto", n + 65, FALSE)
      [] f = "CookieSigner.verify" -> Sized("verifyCookieInto", n + 1, FALSE)

factories_forms(f, n) ==
    CASE f = "CsrfProtector.create" -> Sized("csrfTokenInto", 129, FALSE)
      [] f = "FormParser.parse"     -> Sized("formParsePackedInto", 9 * n + 16, FALSE)

SizedHttp       == {"httpParseRequestPacked", "queryParsePacked", "cookieParsePacked",
                    "formParsePacked"}
SizedValidation == {"hexValidateBatch", "regexEscape"}
SizedStateless  == {"HmacSigner.sign", "Base64Codec.encode", "CookieSigner.sign",
                    "CookieSigner.verify"}
SizedForms      == {"CsrfProtector.create", "FormParser.parse"}
SizedCalls      == SizedHttp \cup SizedValidation \cup SizedStateless \cup SizedForms

sized(f, n) ==
    CASE f \in SizedHttp       -> scalar_http(f, n)
      [] f \in SizedValidation -> scalar_validation(f, n)
      [] f \in SizedStateless  -> factories_stateless(f, n)
      [] f \in SizedForms      -> factories_forms(f, n)

Resized(s, r, n, k, o) ==
    IF s.retry /\ r.kind = "needs" THEN [answered(s.via, n, k, o, r.len) EXCEPT !.runs = 2] ELSE r
SizedBy(s, n, k, o) == Resized(s, answered(s.via, n, k, o, s.cap), n, k, o)
sizedAnswer(f, n, k, o) == SizedBy(sized(f, n), n, k, o)

\* multipartParse keeps a buffer for small bodies, and asks the allocating
\* wrapper when the answer does not fit it.
PartSize(n, k) == n + k + 64
partCap(n, k) == Max({partScratch, PartSize(n, k)})
PartsAgain(grown, before) == [grown EXCEPT !.runs = @ + before]
PartsOrGrown(n, k, o, large, r) ==
    IF large \/ r.kind = "throw"
      THEN PartsAgain(answered("multipartParsePacked", n, k, o, 0), IF large THEN 0 ELSE 1)
      ELSE r
multipartParse(n, k, o) ==
    PartsOrGrown(n, k, o, PartSize(n, k) > 64 * KiB, answered("multipartParsePackedInto", n, k, o, partCap(n, k)))

(***************************************************************************)
(* The napi transport: the same core, its failure a thrown error or null,  *)
(* and the caller's buffer filled by a copy.                               *)
(***************************************************************************)
\* Functions whose napi result is an Option.
NapiOptions == {"verifyCookie", "verifyCookieInto", "aeadDecrypt", "wsFrameDecodePacked",
                "wsFrameDecodePackedInto", "parseHttpDate", "jwtSignerVerify", "jwtVerify",
                "jwtEdDSAVerify", "CookieSigner.verify"}

writeInto(cap, len) == IF cap < len THEN Thrown(1) ELSE Answer("value", len, len, 1)

napi(f, into, o, cap) ==
    IF o = None THEN (IF f \in NapiOptions THEN Answer("null", 0, 0, 1) ELSE Thrown(1))
    ELSE IF into THEN writeInto(cap, o[1])
    ELSE Answer("value", o[1], o[1], 1)

(***************************************************************************)
(* Steps.                                                                  *)
(***************************************************************************)
\* Lengths a core can answer with, sampled at the ends and the middle, and
\* the refusal.
Cores(nat) ==
    LET lengths == {nat.lo, (nat.lo + nat.hi) \div 2, nat.hi}
    IN  (IF nat.lo <= nat.hi THEN {Some(l) : l \in lengths} ELSE {})
        \cup (IF nat.fails THEN {None} ELSE {})

\* The calls that take a second number, and the ones that take a buffer.
Second == {"passwordHash", "pbkdf2Sha256", "gzipDecompress", "multipartParsePacked",
           "sessionSeal", "verifyCookieInto"}
SecondOf(f, n) == (IF f \in Second THEN Seconds ELSE {0})
                  \cup (IF f = "verifyCookieInto" THEN {Max({0, n - 65})} ELSE {})
CapsOf(f, n) == IF wrapper(f, n, 0).how = "into" THEN Outputs ELSE {0}

\* The last dot of a signed cookie lies inside it, and a verified one ends
\* with the dot and 64 digits.
Placed(f, n, k, o) ==
    f = "verifyCookieInto" => k <= Max({0, n - 1}) /\ (Present(o) => k = o[1])

WrapperCall(f, n, k, cap, w) ==
    \E o \in Cores(native(w.fn, n, k)) :
        /\ Placed(f, n, k, o)
        /\ call' = [op |-> "native", f |-> f, n |-> n, k |-> k, cap |-> cap,
                    core |-> o, answer |-> Through(w, n, k, o, cap),
                    napi |-> napi(f, w.how = "into", o, cap)]
        /\ encodeScratch' = IF w.how \in {"pooled", "again"} THEN scratchFor(w.first)
                            ELSE encodeScratch
        /\ flagScratch' = IF w.how = "flag"
                          THEN [flagScratch EXCEPT ![w.fn] = FlagByte(w, o)]
                          ELSE flagScratch
        /\ UNCHANGED partScratch
WrapperStep ==
    \E f \in Wrappers, n \in Sizes :
    \E k \in SecondOf(f, n), cap \in CapsOf(f, n) : WrapperCall(f, n, k, cap, wrapper(f, n, k))

\* A cookie the cookie signer verifies: its last dot is where the value ends.
DotOf(f, o) == IF f = "CookieSigner.verify" THEN OrElse(o, 0) ELSE 0

SizedStep ==
    \E f \in SizedCalls, n \in Sizes :
        \E o \in Cores(native(wrapper(sized(f, n).via, n, 0).fn, n, 0)) :
            /\ call' = [op |-> "sized", f |-> f, n |-> n, core |-> o,
                        answer |-> sizedAnswer(f, n, DotOf(f, o), o),
                        napi |-> napi(f, FALSE, o, 0)]
            /\ UNCHANGED nativeVars

MultipartParseStep ==
    \E n \in Sizes, k \in Seconds :
        \E o \in Cores(native("multipart_parse_packed", n, k)) :
            /\ call' = [op |-> "multipartParse", n |-> n, core |-> o,
                        answer |-> multipartParse(n, k, o)]
            /\ partScratch' = IF PartSize(n, k) > 64 * KiB THEN partScratch ELSE partCap(n, k)
            /\ UNCHANGED <<encodeScratch, flagScratch>>

\* Text that crosses as a C string ends at its first NUL, so the native
\* verdict is about the part before it.  Text with a NUL is never valid.
cstringVerdict(nul, prefix, whole) == IF nul THEN prefix ELSE whole
guardedVerdict(nul, prefix, whole) == ~nul /\ cstringVerdict(nul, prefix, whole)

VerdictStep ==
    \E nul, prefix, whole \in BOOLEAN :
        /\ nul => ~whole
        /\ call' = [op |-> "verdict", whole |-> whole,
                    answer |-> guardedVerdict(nul, prefix, whole)]
        /\ UNCHANGED nativeVars

NativeCallsInit ==
    /\ encodeScratch = 0
    /\ flagScratch = [f \in {"json_sum_ids", "parse_http_date"} |-> 0]
    /\ partScratch = 0

NativeCallsNext ==
    /\ call = Ready
    /\ WrapperStep \/ SizedStep \/ MultipartParseStep \/ VerdictStep

(***************************************************************************)
(* Properties.                                                             *)
(***************************************************************************)
\* The capacity two wrappers leave to their callers.
Reserved(c) == CASE c.f = "wsFrameDecodePackedInto" -> c.n + 6
             [] c.f = "verifyCookieInto" -> c.n
             [] OTHER -> 0

\* Zero stands for a refusal, so it cannot tell one from an empty output.  An
\* empty input is taken to give an empty output by the wrappers that throw on
\* a zero for any other, which an empty HTTP request does not.
EmptyInput(c) == c.n = 0 /\ c.f \in {"httpParseRequestPackedInto", "httpParseRequestPacked"}

\* The output fits what the wrapper may bring; a wrapper that sizes its own
\* buffer has no excuse.
FitsIn(c, w) ==
    CASE w.how = "into" -> c.cap >= Max({w.first, c.core[1]})
      [] w.how \in {"grow", "again", "once more"} -> c.core[1] <= w.max
      [] OTHER -> TRUE
Fits(c) == FitsIn(c, wrapper(c.f, c.n, c.k))

SameAsNapi(c) ==
    /\ c.answer.kind = c.napi.kind
    /\ c.answer.len = c.napi.len

\* The null of these becomes a thrown error in the scalar client, or is not
\* offered there.
NullInside == {"urlResolve", "urlEncodeQuery", "regexEscapeStr", "sessionSeal",
               "sessionSealBytes", "jwtEdDSASign"}

\* A wrapper of src/native/ffi/build never passes a refusal off as a value:
\* when the core refuses, the caller sees an error, null or zero; when it
\* answers, the caller gets exactly the bytes it wrote, or, with a buffer of
\* its own that is too short, an error or the length to bring and nothing
\* written.  The sizes the wrappers choose are always enough, a native call
\* runs at most twice and a password is hashed once, and the addon's napi
\* functions answer the same.
WrapperHonest(c) ==
    LET r == c.answer
        o == c.core
    IN  /\ r.runs <= 2
        /\ c.f = "passwordHash" => r.runs = 1
        /\ o = None => r.kind \in {"throw", "null", "zero", "format"}
        /\ r.kind = "value" => Present(o) /\ r.len = o[1] /\ r.wrote = o[1]
        /\ Present(o) =>
              IF Fits(c) THEN o[1] > 0 => r.kind = "value"
              ELSE /\ r.kind \in {"throw", "needs"}
                   /\ r.wrote = 0
                   /\ r.kind = "needs" => r.len = o[1]
        /\ (o = None /\ r.kind # "zero" /\ r.kind # "format" /\ c.f \notin NullInside) =>
              SameAsNapi(c)
        /\ (Present(o) /\ Fits(c) /\ OrElse(o, 0) > 0) => SameAsNapi(c)

\* Every call through the C ABI answers what its core decided, whatever an
\* earlier call left in the shared buffers; so do the instances that size the
\* buffers of the Into wrappers, multipartParse with its kept buffer, and the
\* text validators on text with a NUL.
NativeCallsHonest ==
    /\ (call.op = "native" /\ ~EmptyInput(call)
        /\ (call.cap >= Reserved(call) \/ wrapper(call.f, call.n, 0).how # "into"))
          => WrapperHonest(call)
    /\ (call.op = "sized" /\ ~EmptyInput(call)) =>
          IF call.core = None THEN call.answer.kind = call.napi.kind
          ELSE OrElse(call.core, 0) > 0 => SameAsNapi(call) /\ call.answer.wrote = call.answer.len
    /\ call.op = "multipartParse" =>
          call.answer.kind = "value" /\ call.answer.wrote = call.core[1]
          /\ call.answer.len = call.core[1]
    /\ call.op = "verdict" => call.answer = call.whole

\* What castrum_verify_cookie_into and verifyCookieInto say of themselves: the
\* answer is the value's length, the size required when the buffer is too
\* small, or a refusal.  So a length that fits the buffer is a verified value
\* the buffer now holds.
VerifiedIsWritten ==
    (call.op = "native" /\ call.f = "verifyCookieInto" /\ call.answer.kind = "value") =>
        Present(call.core) /\ call.answer.wrote = call.answer.len
=============================================================================
