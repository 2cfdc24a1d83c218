------------------------------- MODULE Codecs -------------------------------
(***************************************************************************)
(* The byte codecs behind the codec operations: hex and its AVX2 tier,     *)
(* percent encoding, base64, WebSocket frames, server-sent events, and the *)
(* bounded writers of the compressors.  Bytes are numbers below 256.  An   *)
(* operation is one step that records its input and what the code returns; *)
(* a failed one returns None.                                              *)
(***************************************************************************)
EXTENDS Calls, SequencesExt, Bitwise

CONSTANTS HexInputs, TextInputs, Payloads,   \* sets of byte sequences
          EventInputs,          \* [event, id, retry, data] records
          HexChunk,             \* 64 in the code: characters per AVX2 step
          ShortMax, MediumMax,  \* 125 and 65535: the frame length forms
          Capacities            \* sizes of caller-provided buffers

-----------------------------------------------------------------------------
HexLower(d) == IF d < 10 THEN 48 + d ELSE 87 + d
HexUpper(d) == IF d < 10 THEN 48 + d ELSE 55 + d

\* HEX_VAL_LUT: -1 for a byte that is no hex digit.
hex_val(b) ==
    CASE b \in 48..57 -> b - 48
      [] b \in 97..102 -> b - 87
      [] b \in 65..70 -> b - 55
      [] OTHER -> -1

hex_encode_bytes(input) ==
    [i \in 1..(2 * Len(input)) |->
        LET b == input[(i + 1) \div 2] IN HexLower(IF i % 2 = 1 THEN b \div 16 ELSE b % 16)]

\* faster_hex::hex_decode, of an even number of characters.
faster_hex_decode(input) ==
    IF \E i \in DOMAIN input : hex_val(input[i]) = -1 THEN None
    ELSE Some([i \in 1..(Len(input) \div 2) |-> 16 * hex_val(input[2 * i - 1]) + hex_val(input[2 * i])])

\* One AVX2 step: both tests are on the byte with bit 0x20 set.
Lowered(b) == b | 32

ChunkValid(b) == b < 128 /\ (Lowered(b) \in 48..57 \/ Lowered(b) \in 97..102)

ChunkDigit(b) == Lowered(b) - 48 - (IF Lowered(b) > 96 THEN 39 ELSE 0)

decode_chunk(chars) ==
    IF \E i \in DOMAIN chars : ~ChunkValid(chars[i]) THEN None
    ELSE Some([i \in 1..(Len(chars) \div 2) |-> 16 * ChunkDigit(chars[2 * i - 1]) + ChunkDigit(chars[2 * i])])

\* `hex_fast::decode`: whole chunks, then the tail by the validated engine.
hex_fast_decode(input) ==
    LET whole == Len(input) \div HexChunk
        chunk == [k \in 1..whole |-> decode_chunk(SubSeq(input, (k - 1) * HexChunk + 1, k * HexChunk))]
        tail == faster_hex_decode(SubSeq(input, whole * HexChunk + 1, Len(input)))
    IN  IF tail = None \/ \E k \in 1..whole : chunk[k] = None THEN None
        ELSE Some(FlattenSeq([k \in 1..whole |-> chunk[k][1]]) \o tail[1])

\* `hex_decode_bytes`, `hex_decode_into_slice` on each of the two tiers.
hex_decode_bytes(input, avx2) ==
    IF Len(input) % 2 # 0 THEN None
    ELSE IF avx2 THEN hex_fast_decode(input) ELSE faster_hex_decode(input)
-----------------------------------------------------------------------------
\* `is_unreserved_char`: letters, digits and -_.!~*'().
is_unreserved(b) == b \in (65..90) \cup (97..122) \cup (48..57) \cup {45, 95, 46, 33, 126, 42, 39, 40, 41}

url_encode_bytes(input) ==
    FlattenSeq([i \in DOMAIN input |->
        IF is_unreserved(input[i]) THEN <<input[i]>>
        ELSE <<37, HexUpper(input[i] \div 16), HexUpper(input[i] % 16)>>])

RECURSIVE PercentDecoded(_, _)
PercentDecoded(input, bound) ==
    IF input = <<>> THEN Some(<<>>)
    ELSE IF input[1] # 37
      THEN LET rest == PercentDecoded(Tail(input), bound)
           IN  IF rest = None THEN None ELSE Some(<<input[1]>> \o rest[1])
    ELSE IF Len(input) < bound THEN None
    ELSE IF hex_val(input[2]) = -1 \/ hex_val(input[3]) = -1 THEN None
    ELSE LET rest == PercentDecoded(SubSeq(input, 4, Len(input)), bound)
         IN  IF rest = None THEN None
             ELSE Some(<<16 * hex_val(input[2]) + hex_val(input[3])>> \o rest[1])

DecodedNeedingMore(input) == PercentDecoded(input, 4)

\* `url_decode_bytes_vec` with `decode_percent_at`: every % needs two digits.
url_decode_bytes_vec(input) == PercentDecoded(input, 3)

\* UTF-8 of one and two byte characters.
RECURSIVE Utf8(_)
Utf8(bytes) ==
    \/ bytes = <<>>
    \/ bytes # <<>> /\ bytes[1] < 128 /\ Utf8(Tail(bytes))
    \/ Len(bytes) > 1 /\ bytes[1] \in 194..223 /\ bytes[2] \in 128..191 /\ Utf8(Tail(Tail(bytes)))

\* `url_decode`: bytes that are not UTF-8 are refused, if any high byte was seen.
url_decode(input) ==
    LET out == url_decode_bytes_vec(input)
    IN  IF out = None THEN None
        ELSE IF (\E i \in DOMAIN out[1] : out[1][i] >= 128) /\ ~Utf8(out[1]) THEN None ELSE out

\* The `_into_slice` forms fail on a buffer that does not hold the output.
Into(out, cap) == IF out = None THEN None ELSE IF Len(out[1]) > cap THEN None ELSE out
-----------------------------------------------------------------------------
\* The base64 engine: four 6-bit digits for three bytes; a short last group
\* has no digits past its bits, and one = per missing byte if padded.
Digits(g) ==
    LET b(i) == IF i <= Len(g) THEN g[i] ELSE 0
    IN  SubSeq(<<b(1) \div 4, (b(1) % 4) * 16 + b(2) \div 16, (b(2) % 16) * 4 + b(3) \div 64, b(3) % 64>>,
               1, Len(g) + 1)

Groups(s, n) == [k \in 1..((Len(s) + n - 1) \div n) |->
                    SubSeq(s, (k - 1) * n + 1, IF k * n < Len(s) THEN k * n ELSE Len(s))]

Pad == 64

base64_encode_bytes(input, padding) ==
    LET digits == FlattenSeq([k \in DOMAIN Groups(input, 3) |-> Digits(Groups(input, 3)[k])])
    IN  IF padding /\ Len(digits) % 4 # 0
          THEN digits \o [i \in 1..(4 - (Len(digits) % 4)) |-> Pad] ELSE digits

Undigits(d) ==
    SubSeq(<<d[1] * 4 + d[2] \div 16,
             IF Len(d) > 2 THEN (d[2] % 16) * 16 + d[3] \div 4 ELSE 0,
             IF Len(d) > 3 THEN (d[3] % 4) * 64 + d[4] ELSE 0>>, 1, Len(d) - 1)

base64_decode_bytes(text, padding) ==
    LET digits == SelectSeq(text, LAMBDA d : d # Pad)
    IN  IF \/ Len(digits) % 4 = 1
           \/ base64_encode_bytes(FlattenSeq([k \in DOMAIN Groups(digits, 4) |-> Undigits(Groups(digits, 4)[k])]),
                                  padding) # text
          THEN None
          ELSE Some(FlattenSeq([k \in DOMAIN Groups(digits, 4) |-> Undigits(Groups(digits, 4)[k])]))
-----------------------------------------------------------------------------
(***************************************************************************)
(* WebSocket frames: flags, a length in one of three forms, an optional    *)
(* mask, the payload.  A frame is a sequence of bytes; the length field of *)
(* a longer form is one item that stands for two, or for eight, bytes.     *)
(***************************************************************************)
DefaultMask == <<55, 250, 33, 61>>

\* masked_copy works on words of eight and four bytes and then on single
\* ones; the mask index of byte i is its offset modulo the mask's length.
masked_copy(src) == [i \in DOMAIN src |-> src[i] ^^ DefaultMask[((i - 1) % Len(DefaultMask)) + 1]]

LengthForm(n) == IF n <= ShortMax THEN "short" ELSE IF n <= MediumMax THEN "medium" ELSE "long"

FormBytes(n) == CASE LengthForm(n) = "short" -> 0 [] LengthForm(n) = "medium" -> 2 [] OTHER -> 8

\* `encode_frame`, `encode_frame_into`: the header is sized before it is
\* written; `need` counts every byte of the frame.
encode_frame(fin, opcode, payload, mask) ==
    [fin |-> fin, opcode |-> opcode % 16, masked |-> mask, form |-> LengthForm(Len(payload)),
     len |-> Len(payload), body |-> IF mask THEN masked_copy(payload) ELSE payload,
     need |-> 2 + FormBytes(Len(payload)) + (IF mask THEN 4 ELSE 0) + Len(payload)]

\* `decode_frame` of the first `got` bytes of a frame: None until all of it is there.
decode_frame(f, got) ==
    LET pos == 2 + (CASE f.form = "short" -> 0 [] f.form = "medium" -> 2 [] OTHER -> 8)
                 + (IF f.masked THEN 4 ELSE 0)
    IN  IF got < pos + f.len THEN None
        ELSE Some([fin |-> f.fin, opcode |-> f.opcode,
                   payload |-> IF f.masked THEN masked_copy(f.body) ELSE f.body])
-----------------------------------------------------------------------------
\* Server-sent events: `id: `, `event: ` and `retry: ` lines, one `data: ` line
\* for each line of the data, and an empty line.
NL == 10
Line(name, value) == name \o value \o <<NL>>

\* The pieces of a text between the characters c.
SplitOn(text, c) ==
    LET cuts == <<0>> \o SelectSeq([i \in DOMAIN text |-> i], LAMBDA i : text[i] = c) \o <<Len(text) + 1>>
    IN  [k \in 1..(Len(cuts) - 1) |-> SubSeq(text, cuts[k] + 1, cuts[k + 1] - 1)]

Lines(data) == SplitOn(data, NL)

IdField == <<105, 100, 58, 32>>
EventField == <<101, 118, 101, 110, 116, 58, 32>>
RetryField == <<114, 101, 116, 114, 121, 58, 32>>
DataField == <<100, 97, 116, 97, 58, 32>>

encode_event_size(e) ==
    LET lines == Cardinality({i \in DOMAIN e.data : e.data[i] = NL}) + 1
    IN  (IF Present(e.id) THEN 5 + Len(e.id[1]) ELSE 0)
          + (IF Present(e.event) THEN 8 + Len(e.event[1]) ELSE 0)
          + (IF Present(e.retry) THEN 8 + Len(e.retry[1]) ELSE 0)
          + lines * 7 + Len(e.data) - (lines - 1) + 1

encode_event(e) ==
    (IF Present(e.id) THEN Line(IdField, e.id[1]) ELSE <<>>)
        \o (IF Present(e.event) THEN Line(EventField, e.event[1]) ELSE <<>>)
        \o (IF Present(e.retry) THEN Line(RetryField, e.retry[1]) ELSE <<>>)
        \o FlattenSeq([k \in DOMAIN Lines(e.data) |-> Line(DataField, Lines(e.data)[k])])
        \o <<NL>>
-----------------------------------------------------------------------------
(***************************************************************************)
(* The compressors write into a caller's buffer of `cap` bytes.  What they *)
(* produce is external: a stream of `total` bytes, in chunks.              *)
(***************************************************************************)
\* `CountingWriter`: fills the buffer, then only counts.
CountingWriter(w, n) ==
    LET take == IF w.cap - w.pos < n THEN w.cap - w.pos ELSE n
    IN  [w EXCEPT !.pos = @ + take, !.overflow = @ + n - take]

Ok(n) == [is |-> "ok", n |-> n]
TooSmall(n) == [is |-> "too_small", n |-> n]
ExceedsMax == [is |-> "exceeds_max", n |-> 0]

\* `gzip_compress_into`, `brotli_compress_into`.
compress_into(chunks, cap) ==
    LET w == FoldLeft(CountingWriter, [cap |-> cap, pos |-> 0, overflow |-> 0], chunks)
    IN  IF w.overflow > 0 THEN TooSmall(w.pos + w.overflow) ELSE Ok(w.pos)

\* `gzip_decompress_bytes`, `brotli_decompress_bytes`: read one byte past `max`.
decompress_bytes(total, max) ==
    LET read == IF total < max + 1 THEN total ELSE max + 1 IN IF read > max THEN ExceedsMax ELSE Ok(read)

StopAtBuffer(total, max, cap) ==
    LET written == IF total < cap THEN total ELSE cap
    IN  IF written > max THEN ExceedsMax
        ELSE IF total > written THEN TooSmall(total) ELSE Ok(written)

\* `decompress_into`: the rest of the stream is read and counted, up to `max`.
decompress_into(total, max, cap) ==
    LET written == IF total < cap THEN total ELSE cap
    IN  IF written > max THEN ExceedsMax
        ELSE IF written < cap THEN Ok(written)
        ELSE IF total > written
          THEN IF total > max THEN ExceedsMax ELSE TooSmall(total)
          ELSE Ok(written)
-----------------------------------------------------------------------------
HexStep ==
    \E input \in HexInputs, avx2 \in BOOLEAN :
        call' = [op |-> "hex", input |-> input, text |-> hex_encode_bytes(input),
                  back |-> hex_decode_bytes(hex_encode_bytes(input), avx2),
                  decoded |-> hex_decode_bytes(input, avx2)]

UrlStep ==
    \E input \in TextInputs, cap \in Capacities :
        call' = [op |-> "url", input |-> input, cap |-> cap, text |-> url_encode_bytes(input),
                  into |-> Into(Some(url_encode_bytes(input)), cap),
                  back |-> url_decode_bytes_vec(url_encode_bytes(input)),
                  decoded |-> url_decode_bytes_vec(input), strict |-> url_decode(input)]

Base64Step ==
    \E input \in TextInputs, padding \in BOOLEAN :
        call' = [op |-> "base64", input |-> input, padding |-> padding,
                  text |-> base64_encode_bytes(input, padding),
                  back |-> base64_decode_bytes(base64_encode_bytes(input, padding), padding)]

FrameStep ==
    \E p \in Payloads, mask \in BOOLEAN, fin \in BOOLEAN, opcode \in {1, 17}, lost \in 0..1 :
        LET f == encode_frame(fin, opcode, p, mask)
        IN  call' = [op |-> "frame", fin |-> fin, opcode |-> opcode, payload |-> p, lost |-> lost,
                      frame |-> f, back |-> decode_frame(f, f.need - lost)]

EventStep ==
    \E e \in EventInputs :
        call' = [op |-> "event", event |-> e, size |-> encode_event_size(e), text |-> encode_event(e)]

CompressStep ==
    \E a \in 0..2, b \in 0..2, cap \in Capacities :
        call' = [op |-> "compress", total |-> a + b, cap |-> cap, out |-> compress_into(<<a, b>>, cap)]

DecompressStep ==
    \E total \in 0..4, max \in 0..3, cap \in Capacities :
        call' = [op |-> "decompress", total |-> total, max |-> max, cap |-> cap,
                  out |-> decompress_into(total, max, cap), whole |-> decompress_bytes(total, max)]

CodecsNext ==
    /\ call = Ready
    /\ HexStep \/ UrlStep \/ Base64Step \/ FrameStep \/ EventStep \/ CompressStep \/ DecompressStep

CodecsSpec == CallsInit /\ [][CodecsNext \/ Return]_call
-----------------------------------------------------------------------------
\* What a reader of the event stream makes of a text (the event stream format:
\* data lines are joined with newlines, an empty line ends the event).
FieldLines(text, name) ==
    LET lines == SelectSeq(Lines(text), LAMBDA l : Len(l) >= Len(name) /\ SubSeq(l, 1, Len(name)) = name)
    IN  [k \in DOMAIN lines |-> SubSeq(lines[k], Len(name) + 1, Len(lines[k]))]

Joined(lines) == FoldLeft(LAMBDA acc, l : acc \o <<NL>> \o l, Head(lines), Tail(lines))

ReadsAs(text, e) ==
    /\ FieldLines(text, IdField) = e.id
    /\ FieldLines(text, EventField) = e.event
    /\ FieldLines(text, RetryField) = e.retry
    /\ Joined(FieldLines(text, DataField)) = e.data
    /\ SubSeq(text, Len(text) - 1, Len(text)) = <<NL, NL>>

\* The bytes 0x10..0x19, which the vector step of hex takes for digits: bit 0x20
\* is set before the range test.
DigitsWithoutBit == 16..25

\* Every codec is undone by its inverse and sizes its output exactly: hex on
\* both tiers, which accept the same texts but for those bytes, percent encoding,
\* base64 with and without padding, frames at the three length forms and only
\* once the last byte is there, multi-line events; the bounded writers report the bytes they need, and the streaming and the
\* allocating decompressor agree on the cap (rust/crypto/base64.rs,
\* rust/http/url_codec.rs, rust/payload).
CodecsInvert ==
    /\ call.op = "hex" =>
         /\ call.back = Some(call.input)
         /\ (\A i \in DOMAIN call.input : call.input[i] \notin DigitsWithoutBit) =>
               call.decoded = IF Len(call.input) % 2 # 0 THEN None ELSE faster_hex_decode(call.input)
    /\ call.op = "url" =>
         /\ call.back = Some(call.input)
         /\ call.into = (IF Len(call.text) <= call.cap THEN Some(call.text) ELSE None)
         /\ Present(call.strict) => call.strict = call.decoded /\ Utf8(call.strict[1])
         /\ Present(call.decoded) /\ Utf8(call.decoded[1]) => Present(call.strict)
    /\ call.op = "base64" =>
         /\ call.back = Some(call.input)
         /\ call.padding => Len(call.text) = 4 * ((Len(call.input) + 2) \div 3)
    /\ call.op = "frame" =>
         call.back = IF call.lost > 0 THEN None
                      ELSE Some([fin |-> call.fin, opcode |-> call.opcode % 16, payload |-> call.payload])
    /\ call.op = "event" => call.size = Len(call.text) /\ ReadsAs(call.text, call.event)
    /\ call.op = "compress" =>
         call.out = IF call.total <= call.cap THEN Ok(call.total) ELSE TooSmall(call.total)
    /\ call.op = "decompress" =>
         IF call.whole = ExceedsMax THEN call.out = ExceedsMax
         ELSE call.out = IF call.total <= call.cap THEN Ok(call.total) ELSE TooSmall(call.total)
=============================================================================
