----------------------------- MODULE Negotiation -----------------------------
(***************************************************************************)
(* The answers that depend on a request header: the content coding, the    *)
(* media type, whether the client's copy is still good, the dates those    *)
(* headers carry, and references resolved against a base.                  *)
(***************************************************************************)
EXTENDS Parsers

CONSTANTS AcceptInputs, Supported,      \* headers; lists of codings
          MAX_STACK_PREFS,              \* 32 in the code
          MediaInputs, MediaParams,     \* texts; sequences of parameters
          Tags, DayInputs, SecondInputs,
          BaseInputs, RefInputs, ParamInputs

Wildcard == "*"
-----------------------------------------------------------------------------
\* An entry of Accept-Encoding is [name, q], q in tenths, absent if there is
\* none that parses.  An entry without a name is skipped.
parse_accept_encoding_core(header) ==
    LET named == SelectSeq(header, LAMBDA e : e.name # "")
    IN  [k \in DOMAIN named |-> [encoding |-> named[k].name, q |-> OrElse(named[k].q, 10), order |-> k - 1]]

\* The same into an array on the stack, unless it is too small.
parse_accept_encoding_refs(header) ==
    LET prefs == parse_accept_encoding_core(header) IN IF Len(prefs) > MAX_STACK_PREFS THEN None ELSE Some(prefs)

spec(pref, sup) == IF pref.encoding = sup THEN 2 ELSE IF pref.encoding = Wildcard THEN 1 ELSE 0

\* The preference that decides about one coding: the most specific, the first.
matched(prefs, sup) ==
    FoldLeft(LAMBDA m, pref :
                 IF spec(pref, sup) = 0 THEN m
                 ELSE IF m = None THEN Some(pref)
                 ELSE IF spec(pref, sup) > spec(m[1], sup) \/ (spec(pref, sup) = spec(m[1], sup) /\ pref.order < m[1].order)
                   THEN Some(pref) ELSE m,
             None, prefs)

better(sup, pref, best) ==
    LET s == spec(pref, sup)
        b == spec(best.pref, best.sup)
    IN  s > b \/ (s = b /\ pref.q > best.pref.q) \/ (s = b /\ pref.q = best.pref.q /\ pref.order < best.pref.order)

ZeroIsFine(supported, prefs) ==
    LET step(best, sup) ==
            LET m == matched(prefs, sup)
            IN  IF m = None THEN best
                ELSE IF best = None THEN Some([sup |-> sup, pref |-> m[1]])
                ELSE IF better(sup, m[1], best[1]) THEN Some([sup |-> sup, pref |-> m[1]]) ELSE best
        best == FoldLeft(step, None, supported)
    IN  IF best = None THEN None ELSE Some(best[1].sup)

negotiate_refs(supported, prefs) ==
    LET step(best, sup) ==
            LET m == matched(prefs, sup)
            IN  IF m = None THEN best
                ELSE IF m[1].q <= 0 THEN best
                ELSE IF best = None THEN Some([sup |-> sup, pref |-> m[1]])
                ELSE IF better(sup, m[1], best[1]) THEN Some([sup |-> sup, pref |-> m[1]]) ELSE best
        best == FoldLeft(step, None, supported)
    IN  IF best = None THEN None ELSE Some(best[1].sup)

First1(list) == IF list = <<>> THEN None ELSE Some(list[1])

negotiate_encoding_heap(supported, header) ==
    LET prefs == parse_accept_encoding_core(header)
    IN  IF prefs = <<>> THEN First1(supported) ELSE negotiate_refs(supported, prefs)

negotiate_encoding(supported, header) ==
    LET prefs == parse_accept_encoding_refs(header)
    IN  IF prefs = None THEN negotiate_encoding_heap(supported, header)
        ELSE IF prefs[1] = <<>> THEN First1(supported) ELSE negotiate_refs(supported, prefs[1])

\* The server's order decides among equal q; a wildcard stands for the codings
\* that are not listed.
negotiate_server_preference_refs(supported, prefs) ==
    LET wildcard == FoldLeft(LAMBDA q, p : IF p.encoding = Wildcard /\ p.q > q THEN p.q ELSE q, -1, prefs)
        q(sup) == LET listed == SelectSeq(prefs, LAMBDA p : p.encoding = sup)
                  IN  IF listed = <<>> THEN wildcard ELSE listed[1].q
        step(best, sup) == IF q(sup) <= 0 THEN best
                           ELSE IF best = None THEN Some(sup) ELSE IF q(sup) > q(best[1]) THEN Some(sup) ELSE best
    IN  FoldLeft(step, None, supported)

negotiate_server_preference_heap(supported, header) ==
    LET prefs == parse_accept_encoding_core(header)
    IN  IF prefs = <<>> THEN None ELSE negotiate_server_preference_refs(supported, prefs)

negotiate_encoding_server_preference(supported, header) ==
    LET prefs == parse_accept_encoding_refs(header)
    IN  IF prefs = None THEN negotiate_server_preference_heap(supported, header)
        ELSE IF prefs[1] = <<>> THEN None ELSE negotiate_server_preference_refs(supported, prefs[1])
-----------------------------------------------------------------------------
is_token_char(b) ==
    b \in (97..122) \cup (65..90) \cup (48..57) \cup {33, 35, 36, 37, 38, 39, 42, 43, 45, 46, 94, 95, 96, 124, 126}

\* From after the opening quote to the closing one.
RECURSIVE parse_quoted(_, _)
parse_quoted(raw, out) ==
    IF raw = <<>> THEN None
    ELSE IF raw[1] = Quote THEN IF Utf8(out) THEN Some(out) ELSE None
    ELSE IF raw[1] = 92 /\ Len(raw) > 1 THEN parse_quoted(SubSeq(raw, 3, Len(raw)), Append(out, raw[2]))
    ELSE parse_quoted(Tail(raw), Append(out, raw[1]))

CutAt(text, at) == IF at = <<>> THEN None ELSE Some(<<SubSeq(text, 1, at[1] - 1), SubSeq(text, at[1] + 1, Len(text))>>)
Cut(text, c) == CutAt(text, SelectSeq([i \in DOMAIN text |-> i], LAMBDA i : text[i] = c))

Lower(text) == MapItems(LowerByte, text)

TokenHalves(halves) ==
    LET token(t) == t # <<>> /\ \A i \in DOMAIN t : is_token_char(t[i])
    IN  IF halves = None THEN None ELSE IF token(halves[1][1]) /\ token(halves[1][2]) THEN halves ELSE None
split_type_subtype(input) == TokenHalves(Cut(trimmed(SplitOn(input, Semi)[1]), 47))

\* One parameter: a failure, nothing, or a name and a value.
MediaValue(raw_val) ==
    IF raw_val = <<>> THEN None
    ELSE IF raw_val[1] = Quote THEN parse_quoted(Tail(raw_val), <<>>) ELSE Some(Text(raw_val))
MediaPair(name, value) ==
    IF name = <<>> THEN Some(<<>>) ELSE IF value = None THEN None ELSE Some(<<<<name, value[1]>>>>)
MediaHalves(halves) ==
    IF halves = None THEN None ELSE MediaPair(Lower(trimmed(halves[1][1])), MediaValue(trimmed(halves[1][2])))
MediaParam(param) == MediaHalves(Cut(param, Equals))

MediaType(main, params) ==
    IF main = None \/ \E k \in DOMAIN params : params[k] = None THEN None
    ELSE Some([ty |-> Lower(main[1][1]), subtype |-> Lower(main[1][2]),
               params |-> FlattenSeq(MapItems(LAMBDA p : p[1], params))])
parse_media_type_core(input) ==
    MediaType(split_type_subtype(input),
              MapItems(MediaParam, SelectSeq(MapItems(trimmed, Tail(SplitOn(input, Semi))), LAMBDA p : p # <<>>)))

\* A matcher made from the expected type.
HalvesMatch(expected, own) ==
    LET ok(want, got) == want = <<42>> \/ want = Lower(got)
    IN  IF own = None THEN FALSE ELSE ok(expected.ty, own[1][1]) /\ ok(expected.subtype, own[1][2])
media_type_matches(expected, actual) == HalvesMatch(expected, split_type_subtype(actual))
-----------------------------------------------------------------------------
\* Eight hexadecimal digits in quotes, after W/ if weak.
etag_from_crc32(crc, weak) ==
    (IF weak THEN <<87, 47>> ELSE <<>>) \o <<Quote>>
        \o [i \in 1..8 |-> HexLower((crc \div 16^(8 - i)) % 16)] \o <<Quote>>

etag_from_crc32_into(crc, weak, cap) ==
    IF cap < (IF weak THEN 12 ELSE 10) THEN None ELSE Some(etag_from_crc32(crc, weak))

strip_weak(tag) == IF StartsAt(tag, <<87, 47>>, 0) THEN SubSeq(tag, 3, Len(tag)) ELSE tag

etag_weak_eq(a, b) == strip_weak(trimmed(a)) = strip_weak(trimmed(b))
-----------------------------------------------------------------------------
\* Integer division rounds to zero in the code: hence the corrections below 0.
TowardsZero(a, b) == IF a >= 0 THEN a \div b ELSE -((-a) \div b)

\* The day of the year (from March) and the month it falls in.
CivilMonth(year, doy, mp) ==
    LET m == IF mp < 10 THEN mp + 3 ELSE mp - 9
    IN  [y |-> year + (IF m <= 2 THEN 1 ELSE 0), m |-> m, d |-> doy - ((153 * mp + 2) \div 5) + 1]
CivilDay(year, doy) == CivilMonth(year, doy, (5 * doy + 2) \div 153)
CivilYear(era, doe, yoe) == CivilDay(yoe + era * 400, doe - (365 * yoe + (yoe \div 4) - (yoe \div 100)))
CivilEra(era, doe) ==
    CivilYear(era, doe, (doe - (doe \div 1460) + (doe \div 36524) - (doe \div 146096)) \div 365)
CivilShifted(z, era) == CivilEra(era, z - era * 146097)
CivilFrom(z) == CivilShifted(z, TowardsZero(IF z >= 0 THEN z ELSE z - 146096, 146097))
civil_from_days(days) == CivilFrom(days + 719468)

days_from_civil(y0, m, d) ==
    LET y == IF m <= 2 THEN y0 - 1 ELSE y0
        era == TowardsZero(IF y >= 0 THEN y ELSE y - 399, 400)
        yoe == y - era * 400
        mp == (m + 9) % 12
        doy == ((153 * mp + 2) \div 5) + d - 1
    IN  IF m \notin 1..12 \/ d = 0 \/ d > 31 THEN None
        ELSE Some(era * 146097 + yoe * 365 + (yoe \div 4) - (yoe \div 100) + doy - 719468)

\* An instant is <<days, seconds of the day>>: `div_euclid` and `rem_euclid`.
http_date_parts(days, rem) ==
    [civil |-> civil_from_days(days), hh |-> rem \div 3600, mm |-> (rem % 3600) \div 60, ss |-> rem % 60,
     wd |-> ((days % 7) + 3) % 7]

write_padded(value, width) == [i \in 1..width |-> (value \div 10^(width - i)) % 10]

\* The text as its fields: the names by number, the numbers by their digits.
DateText(p, year) ==
    <<p.wd, write_padded(p.civil.d, 2), p.civil.m, year,
      write_padded(p.hh, 2), write_padded(p.mm, 2), write_padded(p.ss, 2)>>

write_http_date_parts(p, cap) ==
    IF cap < 29 \/ p.civil.y \notin 0..9999 THEN None ELSE Some(DateText(p, write_padded(p.civil.y, 4)))

\* A year that does not fit takes as many digits as it needs (five here).
DateOrLong(p, text) == IF text = None THEN DateText(p, write_padded(p.civil.y, 5)) ELSE text[1]
DateFrom(p) == DateOrLong(p, write_http_date_parts(p, 32))
http_date_from_secs(days, rem) == DateFrom(http_date_parts(days, rem))

NumberOf(digits) == FoldLeft(LAMBDA n, d : 10 * n + d, 0, digits)

parse_http_date_secs(text) ==
    LET n(k) == NumberOf(text[k])
        days == days_from_civil(n(4), text[3], n(2))
    IN  IF n(5) > 23 \/ n(6) > 59 \/ n(7) > 60 THEN None
        ELSE IF days = None THEN None ELSE Some(<<days[1], n(5) * 3600 + n(6) * 60 + n(7)>>)

NotAfter(a, b) == a[1] < b[1] \/ (a[1] = b[1] /\ a[2] <= b[2])

\* The entity tags decide if the client sent any; no date stands for 0.
is_not_modified_core(etag_value, last_modified, if_none_match, if_modified_since) ==
    IF Present(if_none_match)
      THEN LET header == trimmed(if_none_match[1])
               candidates == SplitOn(header, 44)
           IN  header = <<42>> \/ \E k \in DOMAIN candidates : etag_weak_eq(candidates[k], etag_value)
    ELSE IF Present(if_modified_since) /\ Present(last_modified)
      THEN LET secs == parse_http_date_secs(if_modified_since[1])
           IN  IF secs = None THEN FALSE ELSE NotAfter(last_modified[1], secs[1])
    ELSE FALSE
-----------------------------------------------------------------------------
Slash == 47
Dot1 == <<46>>
Dot2 == <<46, 46>>

HalvesOr(text, halves) == IF halves = None THEN <<text, None>> ELSE <<halves[1][1], Some(halves[1][2])>>
CutOr(text, c) == HalvesOr(text, Cut(text, c))

IsScheme(s) == s # <<>> /\ \A i \in DOMAIN s : s[i] \in (48..57) \cup (65..90) \cup (97..122) \cup {43, 45, 46}

EndOr(at, length) == IF at = None THEN length ELSE at[1]
RefFields(scheme, authority, path, fragment) ==
    [scheme |-> scheme, authority |-> authority, path |-> path[1], query |-> path[2], fragment |-> fragment]
RefNamed(scheme, hier, end, fragment) ==
    RefFields(scheme, Some(SubSeq(hier, 1, end)), CutOr(SubSeq(hier, end + 1, Len(hier)), 63), fragment)
RefHier(scheme, hier, fragment) == RefNamed(scheme, hier, EndOr(find(hier, <<Slash>>, 0), Len(hier)), fragment)
RefRest(scheme, rest, fragment) ==
    IF StartsAt(rest, <<Slash, Slash>>, 0) THEN RefHier(scheme, SubSeq(rest, 3, Len(rest)), fragment)
    ELSE RefFields(scheme, None, CutOr(rest, 63), fragment)
RefScheme(hash, colon) ==
    IF Present(colon) /\ IsScheme(OrElse(colon, <<<<>>>>)[1]) THEN RefRest(Some(colon[1][1]), colon[1][2], hash[2])
    ELSE RefRest(None, hash[1], hash[2])
RefHash(hash) == RefScheme(hash, Cut(hash[1], 58))
parse_ref(input) == RefHash(CutOr(input, 35))

JoinPath(segments) ==
    IF segments = <<>> THEN <<>>
    ELSE FoldLeft(LAMBDA acc, s : acc \o <<Slash>> \o s, segments[1], Tail(segments))

DotStep(segments, part) ==
    IF part = Dot1 THEN segments
    ELSE IF part = Dot2 THEN IF segments = <<>> THEN <<>> ELSE Front(segments)
    ELSE Append(segments, part)
Undotted(parts) == JoinPath(FoldLeft(DotStep, <<>>, IF parts[1] = <<>> THEN Tail(parts) ELSE parts))
remove_dot_segments(path) ==
    (IF StartsAt(path, <<Slash>>, 0) THEN <<Slash>> ELSE <<>>) \o Undotted(SplitOn(path, Slash))

MergedAt(base_path, at, ref_path) == IF at = <<>> THEN ref_path ELSE SubSeq(base_path, 1, Last(at)) \o ref_path
merge_paths(base_path, ref_path) ==
    MergedAt(base_path, SelectSeq([i \in DOMAIN base_path |-> i], LAMBDA i : base_path[i] = Slash), ref_path)

resolve_target(base, r) ==
    IF r.scheme = None /\ r.authority = None /\ r.path = <<>>
      THEN [base EXCEPT !.query = IF Present(r.query) THEN r.query ELSE base.query, !.fragment = r.fragment]
    ELSE [r EXCEPT !.scheme = IF Present(r.scheme) THEN r.scheme ELSE base.scheme,
                   !.authority = IF Present(r.scheme) \/ Present(r.authority) THEN r.authority ELSE base.authority,
                   !.path = remove_dot_segments(
                       IF Present(r.scheme) \/ Present(r.authority) \/ StartsAt(r.path, <<Slash>>, 0) THEN r.path
                       ELSE merge_paths(base.path, r.path))]

Marked(before, o) == IF o = None THEN <<>> ELSE before \o o[1]

recompose(r) ==
    (IF r.scheme = None THEN <<>> ELSE r.scheme[1] \o <<58>>) \o Marked(<<Slash, Slash>>, r.authority)
        \o r.path \o Marked(<<63>>, r.query) \o Marked(<<35>>, r.fragment)

url_resolve(base, reference) == recompose(resolve_target(parse_ref(base), parse_ref(reference)))

\* Pairs in the order of their keys.
url_encode_query(params) ==
    FlattenSeq([k \in DOMAIN params |->
        (IF k = 1 THEN <<>> ELSE <<38>>) \o url_encode_bytes(params[k][1]) \o <<Equals>> \o url_encode_bytes(params[k][2])])
-----------------------------------------------------------------------------
AcceptStep ==
    \E header \in AcceptInputs, supported \in Supported :
        call' = [op |-> "accept", header |-> header, supported |-> supported,
                 chosen |-> negotiate_encoding(supported, header),
                 heap |-> negotiate_encoding_heap(supported, header),
                 server |-> negotiate_encoding_server_preference(supported, header),
                 server_heap |-> negotiate_server_preference_heap(supported, header)]

\* A media type as it is written, with some of the values in quotes.
MediaText(params) ==
    <<65, Slash, 98>> \o FlattenSeq(MapItems(LAMBDA p :
        <<Semi, Space>> \o p.name \o <<Equals>>
            \o (IF p.quoted THEN <<Quote>> \o FlattenSeq(MapItems(LAMBDA b : IF b \in {Quote, 92} THEN <<92, b>> ELSE <<b>>, p.value)) \o <<Quote>>
                ELSE p.value), params))

MediaCall(input, parsed) ==
    call' = [op |-> "media", input |-> input, parsed |-> parsed,
             own |-> IF parsed = None THEN FALSE ELSE media_type_matches(parsed[1], input)]
MediaStep ==
    \/ \E input \in MediaInputs : MediaCall(input, parse_media_type_core(input))
    \/ \E params \in MediaParams :
           call' = [op |-> "params", params |-> params, parsed |-> parse_media_type_core(MediaText(params))]

\* The tag of a response comes back in a list, as it was or in the other form.
TagCall(same, weak, day, since, cap, into, own, list, date) ==
    call' = [op |-> "tag", same |-> same, weak |-> weak, day |-> day, since |-> since, cap |-> cap,
             into |-> into, own |-> own,
             by_tag |-> is_not_modified_core(own, Some(<<day, 1>>), Some(list), Some(date)),
             by_date |-> is_not_modified_core(own, Some(<<day, 1>>), None, Some(date)),
             undated |-> is_not_modified_core(own, None, None, Some(date))]
TagStep ==
    \E crc \in Tags, other \in Tags, weak \in BOOLEAN, sent_weak \in BOOLEAN,
       day \in DayInputs, since \in DayInputs, cap \in {9, 10, 11, 12} :
        TagCall(crc = other, weak, day, since, cap, etag_from_crc32_into(crc, weak, cap), etag_from_crc32(crc, weak),
                <<Quote, Quote, 44, Space>> \o etag_from_crc32(other, sent_weak), http_date_from_secs(since, 1))

DateCall(day, rem, parts, next) ==
    call' = [op |-> "date", day |-> day, rem |-> rem, civil |-> parts.civil, next |-> next.civil,
             wd |-> <<parts.wd, next.wd>>, back |-> parse_http_date_secs(DateFrom(parts)),
             into |-> write_http_date_parts(parts, 29)]
DateStep ==
    \E day \in DayInputs, rem \in SecondInputs :
        DateCall(day, rem, http_date_parts(day, rem), http_date_parts(day + 1, rem))

ResolveCall(base, reference, text, again) ==
    call' = [op |-> "resolve", base |-> base, reference |-> reference,
             target |-> resolve_target(base, reference), text |-> text, again |-> again]
ResolveText(base, reference, text) == ResolveCall(parse_ref(base), parse_ref(reference), text, url_resolve(base, text))
ResolveStep ==
    \E base \in BaseInputs, reference \in RefInputs : ResolveText(base, reference, url_resolve(base, reference))

EncodeQueryStep ==
    \E params \in ParamInputs :
        call' = [op |-> "params_query", params |-> params,
                 read |-> readPairsPacked(query_parse_packed_vec(url_encode_query(params))[1])]

NegotiationNext ==
    call = Ready /\ (AcceptStep \/ MediaStep \/ TagStep \/ DateStep \/ ResolveStep \/ EncodeQueryStep)
-----------------------------------------------------------------------------
\* What a header says of a coding: the first entry with its name, or else the
\* first wildcard; 0 if neither is there.
Weight(header, sup) ==
    LET listed(name) == SelectSeq(header, LAMBDA e : e.name = name)
        of(entries) == OrElse(entries[1].q, 10)
    IN  IF listed(sup) # <<>> THEN of(listed(sup))
        ELSE IF listed(Wildcard) # <<>> THEN of(listed(Wildcard)) ELSE 0

Listed(header, sup) == \E k \in DOMAIN header : header[k].name = sup

\* The calendar: the day after <<y, m, d>>.
IsLeap(y) == y % 4 = 0 /\ (y % 100 # 0 \/ y % 400 = 0)
MonthDays(y, m) == IF m = 2 THEN (IF IsLeap(y) THEN 29 ELSE 28) ELSE IF m \in {4, 6, 9, 11} THEN 30 ELSE 31
DayAfter(c) ==
    IF c.d < MonthDays(c.y, c.m) THEN [c EXCEPT !.d = @ + 1]
    ELSE IF c.m < 12 THEN [c EXCEPT !.m = @ + 1, !.d = 1] ELSE [y |-> c.y + 1, m |-> 1, d |-> 1]

\* RFC 3986, 5.2.4, for a path that starts with a slash: segment by segment,
\* a dot segment at the end leaves a slash.
RECURSIVE RfcSegments(_, _)
RfcSegments(segments, out) ==
    IF segments = <<>> THEN out
    ELSE LET s == Head(segments)
             kept == IF s = Dot1 THEN out ELSE IF s = Dot2 THEN (IF out = <<>> THEN out ELSE Front(out)) ELSE Append(out, s)
         IN  RfcSegments(Tail(segments), IF Len(segments) = 1 /\ s \in {Dot1, Dot2} THEN Append(kept, <<>>) ELSE kept)

RfcPath(path) == <<Slash>> \o JoinPath(RfcSegments(Tail(SplitOn(path, Slash)), <<>>))

EndsInDots(path) == Last(SplitOn(path, Slash)) \in {Dot1, Dot2}

\* Every header is answered as its standard says.  A coding is chosen only if
\* the header gives it weight and some coding is if any has weight, however many
\* entries the header has.  A media type matches itself and its parameters are
\* read back.  Tags decide before dates, in either form.  A date is a real
\* calendar day with its weekday and reads back.  A reference resolves to the
\* path of RFC 3986 when both are hierarchical and no dots end it (the code
\* drops the last slash then), and the encoded query parses into its
\* parameters (rust/http).
NegotiationExact ==
    /\ call.op = "accept" =>
         /\ call.chosen = call.heap /\ call.server = call.server_heap
         /\ Present(call.chosen) /\ (\E k \in DOMAIN call.header : call.header[k].name # "") =>
              Weight(call.header, call.chosen[1]) > 0
         /\ call.chosen = None => \A k \in DOMAIN call.supported : Weight(call.header, call.supported[k]) = 0
         /\ Present(call.server) =>
              /\ Listed(call.header, call.server[1]) => Weight(call.header, call.server[1]) > 0
              /\ \A k \in DOMAIN call.supported :
                    Listed(call.header, call.supported[k]) /\ Listed(call.header, call.server[1])
                      => Weight(call.header, call.supported[k]) <= Weight(call.header, call.server[1])
    /\ call.op = "media" => call.own = Present(call.parsed)
    /\ call.op = "params" =>
         call.parsed = Some([ty |-> <<97>>, subtype |-> <<98>>,
                             params |-> MapItems(LAMBDA p : <<Lower(p.name), p.value>>, call.params)])
    /\ call.op = "tag" =>
         /\ call.by_tag = call.same
         /\ call.by_date = (call.day <= call.since) /\ ~call.undated
         /\ call.into = IF Len(call.own) <= call.cap THEN Some(call.own) ELSE None
    /\ call.op = "date" =>
         /\ call.next = DayAfter(call.civil) /\ call.wd[2] = (call.wd[1] + 1) % 7
         /\ call.back = Some(<<call.day, call.rem>>)
         /\ Present(call.into) = (call.civil.y <= 9999)
    /\ call.op = "resolve" /\ Present(call.base.scheme) /\ Present(call.base.authority) /\ StartsAt(call.base.path, <<Slash>>, 0) =>
         LET r == call.reference
             full == IF StartsAt(r.path, <<Slash>>, 0) THEN r.path
                     ELSE SubSeq(call.base.path, 1, Len(call.base.path) - Len(Last(SplitOn(call.base.path, Slash)))) \o r.path
         IN  /\ r.scheme = None /\ r.authority = None /\ r.path # <<>> /\ ~EndsInDots(full) => call.target.path = RfcPath(full)
             /\ r.scheme = None /\ r.path # <<>> => call.again = call.text
    /\ call.op = "params_query" => call.read = call.params

=============================================================================
