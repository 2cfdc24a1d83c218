------------------------------ MODULE Parsers -------------------------------
(***************************************************************************)
(* Parsing into packed form: query strings and forms with their lenient    *)
(* percent decoding, cookie headers, requests and multipart bodies, the    *)
(* sizes the callers allocate before they call, and the readers on the     *)
(* JavaScript side.  Numbers above 1000 stand for whole words that the     *)
(* code compares without regard to case.                                   *)
(***************************************************************************)
EXTENDS Codecs, Batches

CONSTANTS QueryInputs, CookieInputs,    \* texts
          RequestInputs,                \* what the request line and headers say
          PartInputs, MultipartLimits,  \* sequences of parts, limits
          MaxHeaders,                   \* 64 in the code
          Inherited                     \* the names every object inherits

Space == 32
Quote == 34
Semi == 59
Equals == 61
-----------------------------------------------------------------------------
\* `decode_percent_at` the head of src.
decode_percent_at(src) ==
    IF Len(src) < 3 THEN None
    ELSE IF hex_val(src[2]) = -1 \/ hex_val(src[3]) = -1 THEN None
    ELSE Some(16 * hex_val(src[2]) + hex_val(src[3]))

Malformed == [is |-> "malformed"]
BufferTooSmall == [is |-> "small"]
Written(out) == [is |-> "written", out |-> out]

HasHigh(bytes) == \E i \in DOMAIN bytes : bytes[i] >= 128

RECURSIVE FormDecoded(_, _, _)
FormDecoded(src, out, cap) ==
    IF src = <<>> THEN Written(out)
    ELSE LET byte == CASE src[1] = 43 -> Some(Space) [] src[1] = 37 -> decode_percent_at(src) [] OTHER -> Some(src[1])
             used == IF src[1] = 37 THEN 3 ELSE 1
         IN  IF byte = None THEN Malformed
             ELSE IF Len(out) >= cap THEN BufferTooSmall
             ELSE FormDecoded(SubSeq(src, used + 1, Len(src)), out \o byte, cap)

\* A component with neither + nor % is copied whatever its bytes.
FormText(d) == IF d.is = "written" /\ HasHigh(d.out) /\ ~Utf8(d.out) THEN Malformed ELSE d
decode_form_core(src, cap) ==
    IF \A i \in DOMAIN src : src[i] \notin {37, 43}
      THEN IF Len(src) > cap THEN BufferTooSmall ELSE Written(src)
    ELSE FormText(FormDecoded(src, <<>>, cap))

write_raw_component(src, cap) == IF Len(src) > cap THEN BufferTooSmall ELSE Written(src)

FormOrRaw(d, src, cap) == IF d = Malformed THEN write_raw_component(src, cap) ELSE d
decode_form_component_into(src, cap) == FormOrRaw(decode_form_core(src, cap), src, cap)

\* The size asked for when the buffer was too small.
FormLength(d, src) == IF d = Malformed THEN Len(src) ELSE IF HasHigh(d.out) THEN Len(src) ELSE Len(d.out)
decode_form_component_len(src) == FormLength(FormDecoded(src, <<>>, Len(src)), src)

\* The text around the first =.
AroundEquals(text) ==
    LET at == SelectSeq([i \in DOMAIN text |-> i], LAMBDA i : text[i] = Equals)
    IN  IF at = <<>> THEN <<text, <<>>>>
        ELSE <<SubSeq(text, 1, at[1] - 1), SubSeq(text, at[1] + 1, Len(text))>>

QueryPairs(input) == MapItems(AroundEquals, SelectSeq(SplitOn(input, 38), LAMBDA p : p # <<>>))

\* A length field and the bytes, while they fit.
write_component(acc, bytes, cap) ==
    IF acc = None \/ bytes = BufferTooSmall THEN None
    ELSE IF Len(acc[1]) + 4 + Len(bytes.out) > cap THEN None ELSE Some(acc[1] \o Prefixed(bytes.out))

\* The decoder sees what is left of the output after the length field.
write_decoded_form_component(acc, src, cap) ==
    IF acc = None THEN None
    ELSE IF Len(acc[1]) + 4 > cap THEN None
    ELSE write_component(acc, decode_form_component_into(src, cap - Len(acc[1]) - 4), cap)

WithCount(out, n) == IF out = None THEN None ELSE Some(U32(n) \o SubSeq(out[1], 5, Len(out[1])))

WritePairs(pairs, cap) ==
    FoldLeft(LAMBDA acc, part : write_decoded_form_component(acc, part, cap), Some(U32(0)), FlattenSeq(pairs))
QuerySlice(pairs, cap) == IF cap < 4 THEN None ELSE WithCount(WritePairs(pairs, cap), Len(pairs))
query_parse_packed_into_slice(input, cap) == QuerySlice(QueryPairs(input), cap)

query_parse_packed_size(input) ==
    4 + Total(MapItems(LAMBDA p : 8 + decode_form_component_len(p[1]) + decode_form_component_len(p[2]),
                       QueryPairs(input)))

query_parse_packed_vec(input) == query_parse_packed_into_slice(input, 9 * Len(input) + 16)

\* `scalar/http.ts` sizes query and cookie outputs with 5n + 8.
FiveForOne(input) == 5 * Len(input) + 8
-----------------------------------------------------------------------------
IsSpace(b) == b \in {9, 10, 12, 13, 32}

RECURSIVE trimmed(_)
trimmed(s) ==
    IF s = <<>> THEN s
    ELSE IF IsSpace(Head(s)) THEN trimmed(Tail(s))
    ELSE IF IsSpace(Last(s)) THEN trimmed(Front(s)) ELSE s

Unquoted(s) == IF Len(s) >= 2 /\ Head(s) = Quote /\ Last(s) = Quote THEN SubSeq(s, 2, Len(s) - 1) ELSE s

cookie_pairs(input) ==
    LET pairs == MapItems(LAMBDA raw : LET p == AroundEquals(trimmed(raw)) IN <<trimmed(p[1]), Unquoted(trimmed(p[2]))>>,
                          SplitOn(input, Semi))
    IN  SelectSeq(pairs, LAMBDA p : p[1] # <<>>)

cookie_parse_packed_into_slice(input, cap) ==
    LET pairs == cookie_pairs(input)
        put(acc, p) == write_component(write_component(acc, Written(p[1]), cap), Written(p[2]), cap)
    IN  IF cap < 4 THEN None ELSE WithCount(FoldLeft(put, Some(U32(0)), pairs), Len(pairs))

cookie_parse_packed_size(input) ==
    4 + Total(MapItems(LAMBDA p : 8 + Len(p[1]) + Len(p[2]), cookie_pairs(input)))

cookie_parse_packed_vec(input) == cookie_parse_packed_into_slice(input, 9 * Len(input) + 16)
-----------------------------------------------------------------------------
\* TextDecoder: what is not UTF-8 becomes the replacement character.
RECURSIVE Text(_)
Text(bytes) ==
    IF bytes = <<>> THEN <<>>
    ELSE IF bytes[1] < 128 \/ bytes[1] > 1000 THEN <<bytes[1]>> \o Text(Tail(bytes))
    ELSE IF Len(bytes) > 1 /\ Utf8(SubSeq(bytes, 1, 2)) THEN SubSeq(bytes, 1, 2) \o Text(Tail(Tail(bytes)))
    ELSE <<65533>> \o Text(Tail(bytes))

readPairsPacked(bytes) ==
    LET fields == ReadItems(bytes, 4, 2 * bytes[1])
    IN  [k \in 1..bytes[1] |-> <<Text(fields[1][2 * k - 1]), Text(fields[1][2 * k])>>]

\* A repeated name collects its values; a name the object inherits already has
\* one, the inherited member.
pairsToObject(pairs) ==
    [key \in {pairs[k][1] : k \in DOMAIN pairs} |->
        (IF key \in Inherited THEN <<<<0>>>> ELSE <<>>)
            \o MapItems(LAMBDA p : p[2], SelectSeq(pairs, LAMBDA p : p[1] = key))]

\* `parsePackedInto` with its scratch, and the addon when that had no answer.
packedScratch(input) == 9 * Len(input) + 16
parseVia(fast, vec) == pairsToObject(readPairsPacked((IF fast = None THEN vec ELSE fast)[1]))
-----------------------------------------------------------------------------
\* A request the parser library accepted: its texts, and how many bytes of
\* input they took (two spaces, a version, a colon and a line end per header).
VersionBytes == 8
RequestBytes(r) ==
    Len(r.method) + Len(r.path) + VersionBytes + 6
        + Total(MapItems(LAMBDA h : Len(h[1]) + Len(h[2]) + 3, r.headers))

\* `httparse::Request::parse` with room for MaxHeaders.
httparse(r) == IF Len(r.headers) > MaxHeaders THEN None ELSE Some(r)

LowerByte(b) == IF b \in 65..90 THEN b + 32 ELSE b

http_parse_request_packed_into_slice(r, cap) ==
    LET req == httparse(r)
        put(acc, b) == write_component(acc, Written(b), cap)
        line == put(put(put(Some(<<>>), r.method), r.path), r.version)
        count == IF line = None THEN None
                 ELSE IF Len(line[1]) + 4 > cap THEN None ELSE Some(line[1] \o U32(Len(r.headers)))
    IN  IF req = None THEN None
        ELSE FoldLeft(LAMBDA acc, h : put(put(acc, MapItems(LowerByte, h[1])), h[2]), count, r.headers)

http_parse_request_packed_vec(r) ==
    http_parse_request_packed_into_slice(r, RequestBytes(r) + 16 + 8 * MaxHeaders)

\* Of two headers with one name the later one stays.
readHttpPacked(bytes) ==
    LET line == ReadItems(bytes, 0, 3)[1]
        from == 12 + Total(MapItems(Len, line))
        n == ReadU32(bytes, from)[1]
        fields == ReadItems(bytes, from + 4, 2 * n)[1]
        names == {fields[2 * k - 1] : k \in 1..n}
    IN  [method |-> line[1], path |-> line[2], version |-> line[3],
         headers |-> [name \in names |->
             Last(SelectSeq([k \in 1..n |-> <<fields[2 * k - 1], fields[2 * k]>>], LAMBDA h : h[1] = name))[2]]]
-----------------------------------------------------------------------------
CRLF == <<13, 10>>
Dashes == <<45, 45>>
Boundary == <<66>>
Disposition == 1001
ContentType == 1002
NameWord == 1003
FilenameWord == 1004

StartsAt(s, pat, from) == from + Len(pat) <= Len(s) /\ SubSeq(s, from + 1, from + Len(pat)) = pat

\* `memmem::find` from an offset, counted from 0.
find(s, pat, from) ==
    LET at == SelectSeq([i \in DOMAIN s |-> i - 1], LAMBDA i : i >= from /\ StartsAt(s, pat, i))
    IN  IF at = <<>> THEN None ELSE Some(at[1])

RECURSIVE next_delimiter(_, _)
next_delimiter(body, base) ==
    LET delim == find(body, CRLF \o Dashes, base)
    IN  IF base >= Len(body) \/ delim = None THEN None
        ELSE IF StartsAt(body, Boundary, delim[1] + 4) THEN delim
        ELSE next_delimiter(body, delim[1] + 4)

\* The attributes between the semicolons that stand outside quotes.
RECURSIVE Attributes(_, _, _)
Attributes(value, attr, in_quotes) ==
    IF value = <<>> THEN <<attr>>
    ELSE IF Len(value) > 1 /\ SubSeq(value, 1, 2) = <<92, Quote>>
      THEN Attributes(SubSeq(value, 3, Len(value)), attr \o <<92, Quote>>, in_quotes)
    ELSE IF value[1] = Semi /\ ~in_quotes THEN <<attr>> \o Attributes(Tail(value), <<>>, FALSE)
    ELSE Attributes(Tail(value), Append(attr, value[1]), in_quotes # (value[1] = Quote))

\* `parse_disposition_attr` for one key, the last one wins.
parse_disposition(value, key) ==
    LET given == SelectSeq(Attributes(value, <<>>, FALSE), LAMBDA a : \E i \in DOMAIN a : a[i] = Equals)
        attrs == MapItems(LAMBDA a : AroundEquals(trimmed(a)), given)
        mine == SelectSeq(attrs, LAMBDA a : trimmed(a[1]) = <<key>>)
    IN  IF mine = <<>> THEN None ELSE Some(Unquoted(trimmed(Last(mine)[2])))

\* The value of the last header line with this field name.
HeaderValue(block, field) ==
    LET colon(l) == SelectSeq([i \in DOMAIN l |-> i], LAMBDA i : l[i] = 58)
        mine == SelectSeq(SplitOn(block, NL), LAMBDA l :
                    IF colon(l) = <<>> THEN FALSE ELSE trimmed(SubSeq(l, 1, colon(l)[1] - 1)) = <<field>>)
    IN  IF mine = <<>> THEN None ELSE Some(trimmed(SubSeq(Last(mine), colon(Last(mine))[1] + 1, Len(Last(mine)))))

Attr(disposition, key) == IF disposition = None THEN None ELSE parse_disposition(disposition[1], key)
DisposedPart(disposition, content_type, data) ==
    [name |-> OrElse(Attr(disposition, NameWord), <<>>),
     filename |-> Attr(disposition, FilenameWord), content_type |-> content_type, data |-> data]
PartOf(block, data) == DisposedPart(HeaderValue(block, Disposition), HeaderValue(block, ContentType), data)

Fields(parts) == Len(SelectSeq(parts, LAMBDA p : p.filename = None))
DataBytes(parts) == Total(MapItems(LAMBDA p : Len(p.data), parts))

FieldsBeforeLimit(limits, parts, part) ==
    /\ Len(parts) < limits.max_parts
    /\ part.filename = None => Fields(parts) <= limits.max_field_count
    /\ Len(part.data) <= limits.max_part_bytes
    /\ DataBytes(parts) + Len(part.data) <= limits.max_total_bytes

Admits(limits, parts, part) ==
    /\ Len(parts) < limits.max_parts
    /\ part.filename = None => Fields(parts) < limits.max_field_count
    /\ Len(part.data) <= limits.max_part_bytes
    /\ DataBytes(parts) + Len(part.data) <= limits.max_total_bytes

\* The parts from the delimiter that ends at pos: whatever is not as it should
\* be, a limit too, ends the walk with the parts so far.
RECURSIVE PartsFrom(_, _, _, _)
PartsFrom(body, pos, limits, parts) ==
    LET Add(part, delim) ==
            IF ~Admits(limits, parts, part) THEN parts
            ELSE PartsFrom(body, delim + 4 + Len(Boundary), limits, Append(parts, part))
        UpTo(header_end, delim) ==
            IF delim = None THEN parts
            ELSE Add(PartOf(SubSeq(body, pos + 3, header_end), SubSeq(body, header_end + 5, delim[1])), delim[1])
        After(header_end) ==
            IF header_end = None THEN parts ELSE UpTo(header_end[1], next_delimiter(body, header_end[1] + 4))
    IN  IF StartsAt(body, Dashes, pos) \/ ~StartsAt(body, CRLF, pos) THEN parts
        ELSE After(find(body, CRLF \o CRLF, pos + 2))

parse_multipart_limited(body, limits) ==
    IF StartsAt(body, Dashes \o Boundary, 0) THEN PartsFrom(body, 2 + Len(Boundary), limits, <<>>) ELSE <<>>

PackedOption(o) == IF o = None THEN <<0>> \o U32(0) ELSE <<1>> \o Prefixed(o[1])

parts_to_packed(parts) ==
    U32(Len(parts)) \o FlattenSeq(MapItems(LAMBDA p :
        Prefixed(p.name) \o PackedOption(p.filename) \o PackedOption(p.content_type) \o Prefixed(p.data), parts))

parts_packed_len(parts) ==
    LET option(o) == 1 + 4 + (IF o = None THEN 0 ELSE Len(o[1]))
    IN  4 + Total(MapItems(LAMBDA p :
            4 + Len(p.name) + option(p.filename) + option(p.content_type) + 4 + Len(p.data), parts))

parts_to_packed_into(parts, cap) == IF parts_packed_len(parts) > cap THEN None ELSE Some(parts_to_packed(parts))

RECURSIVE readMultipartPartsPacked(_, _, _)
readMultipartPartsPacked(bytes, offset, count) ==
    IF count = 0 THEN <<>>
    ELSE LET field(at) == ReadSlice(bytes, at + 4, ReadU32(bytes, at)[1])[1]
             name == field(offset)
             f == offset + 4 + Len(name)
             filename == field(f + 1)
             c == f + 5 + Len(filename)
             ct == field(c + 1)
             d == c + 5 + Len(ct)
             option(at, v) == IF bytes[at + 1] = 1 THEN Some(Text(v)) ELSE None
         IN  <<[name |-> Text(name), filename |-> option(f, filename), content_type |-> option(c, ct), data |-> field(d)]>>
                 \o readMultipartPartsPacked(bytes, d + 4 + Len(field(d)), count - 1)
-----------------------------------------------------------------------------
QueryCall(input, cap, whole) ==
    call' = [op |-> "query", input |-> input, cap |-> cap,
             out |-> query_parse_packed_into_slice(input, cap), whole |-> whole,
             again |-> query_parse_packed_into_slice(input, query_parse_packed_size(input)),
             five |-> query_parse_packed_into_slice(input, FiveForOne(input)),
             object |-> parseVia(query_parse_packed_into_slice(input, packedScratch(input)), whole)]
QueryStep == \E input \in QueryInputs, cap \in Capacities : QueryCall(input, cap, query_parse_packed_vec(input))

\* A cookie header as clients write it: some values quoted, spaces after the
\* semicolons.
CookieHeader(pairs) ==
    FlattenSeq([k \in DOMAIN pairs |->
        LET v == IF pairs[k].quoted THEN <<Quote>> \o pairs[k].value \o <<Quote>> ELSE pairs[k].value
        IN  (IF k = 1 THEN <<>> ELSE <<Semi, Space>>) \o pairs[k].name \o <<Equals>> \o v])

CookieStep ==
    \E pairs \in CookieInputs, cap \in Capacities :
        LET input == CookieHeader(pairs)
        IN  call' = [op |-> "cookie", pairs |-> pairs, cap |-> cap,
                     out |-> cookie_parse_packed_into_slice(input, cap), whole |-> cookie_parse_packed_vec(input),
                     again |-> cookie_parse_packed_into_slice(input, cookie_parse_packed_size(input)),
                     five |-> cookie_parse_packed_into_slice(input, FiveForOne(input)),
                     object |-> parseVia(cookie_parse_packed_into_slice(input, packedScratch(input)),
                                        cookie_parse_packed_vec(input))]

HttpStep ==
    \E r \in RequestInputs : call' = [op |-> "http", request |-> r, out |-> http_parse_request_packed_vec(r)]

\* A body as clients write it, of which the last bytes may be missing.
MultipartBody(parts) ==
    LET named(word, v) == <<Semi, Space, word, Equals, Quote>> \o v \o <<Quote>>
        text(p) == Dashes \o Boundary \o CRLF
            \o <<Disposition, 58, Space>> \o named(NameWord, p.name)
            \o (IF p.filename = None THEN <<>> ELSE named(FilenameWord, p.filename[1])) \o CRLF
            \o (IF p.content_type = None THEN <<>> ELSE <<ContentType, 58>> \o p.content_type[1] \o CRLF)
            \o CRLF \o p.data \o CRLF
    IN  FlattenSeq(MapItems(text, parts)) \o Dashes \o Boundary \o Dashes

MultipartCall(given, limits, lost, parts) ==
    call' = [op |-> "multipart", given |-> given, limits |-> limits, lost |-> lost, parts |-> parts,
             exact |-> parts_to_packed_into(parts, parts_packed_len(parts)),
             read |-> readMultipartPartsPacked(parts_to_packed(parts), 4, Len(parts))]
Truncated(body, lost) == SubSeq(body, 1, Len(body) - lost)
MultipartStep ==
    \E given \in PartInputs, limits \in MultipartLimits, lost \in 0..8 :
        MultipartCall(given, limits, lost, parse_multipart_limited(Truncated(MultipartBody(given), lost), limits))

ParsersNext == call = Ready /\ (QueryStep \/ CookieStep \/ HttpStep \/ MultipartStep)
-----------------------------------------------------------------------------
\* What decodeURIComponent makes of a component, itself if that throws.
JsComponent(s) ==
    LET d == url_decode(MapItems(LAMBDA b : IF b = 43 THEN Space ELSE b, s))
    IN  IF d = None THEN s ELSE d[1]

PairsRead(object, pairs) ==
    \A key \in DOMAIN object \ Inherited :
        object[key] = MapItems(LAMBDA p : p[2], SelectSeq(pairs, LAMBDA p : p[1] = key))

PrefixParts(parts, given) == Len(parts) <= Len(given) /\ parts = SubSeq(given, 1, Len(parts))

\* Every parser answers what was written: a query as the browser's decoder
\* reads it, with a bad escape left as it is; cookies without their quotes; a
\* request with its last headers; the parts of a form up to where the body or a
\* limit ends, and all of them if neither does.  The sizes allocated before the
\* call, and the size asked for after a short buffer, are always enough, and a
\* short buffer gives nothing (rust/http, src/shared/packed).
ParsersFaithful ==
    /\ call.op \in {"query", "cookie"} =>
         /\ Present(call.whole) /\ call.again = call.whole /\ call.five = call.whole
         /\ call.out = IF Len(call.whole[1]) > call.cap THEN None ELSE call.whole
    /\ call.op = "query" =>
         PairsRead(call.object, MapItems(LAMBDA p : <<Text(JsComponent(p[1])), Text(JsComponent(p[2]))>>, QueryPairs(call.input)))
    /\ call.op = "cookie" => PairsRead(call.object, MapItems(LAMBDA p : <<p.name, p.value>>, call.pairs))
    /\ call.op = "http" =>
         IF Len(call.request.headers) > MaxHeaders THEN call.out = None
         ELSE LET read == readHttpPacked(call.out[1])
              IN  /\ read.method = call.request.method /\ read.path = call.request.path
                  /\ \A k \in DOMAIN call.request.headers :
                       \E j \in k..Len(call.request.headers) :
                          /\ MapItems(LowerByte, call.request.headers[j][1]) = MapItems(LowerByte, call.request.headers[k][1])
                          /\ read.headers[MapItems(LowerByte, call.request.headers[k][1])] = call.request.headers[j][2]
    /\ call.op = "multipart" =>
         /\ PrefixParts(call.parts, call.given) /\ call.read = call.parts /\ Present(call.exact)
         /\ Len(call.exact[1]) = parts_packed_len(call.parts)
         /\ Fields(call.parts) <= call.limits.max_field_count
         /\ DataBytes(call.parts) <= call.limits.max_total_bytes
         /\ \A n \in DOMAIN call.given :
              /\ \A k \in 1..n : Len(call.given[k].data) <= call.limits.max_part_bytes
              /\ n <= call.limits.max_parts
              /\ Fields(SubSeq(call.given, 1, n)) <= call.limits.max_field_count
              /\ DataBytes(SubSeq(call.given, 1, n)) <= call.limits.max_total_bytes
              /\ call.lost <= 2
              => Len(call.parts) >= n

=============================================================================
