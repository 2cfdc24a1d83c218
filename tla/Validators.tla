----------------------------- MODULE Validators -----------------------------
(***************************************************************************)
(* The validators of rust/util/validation.rs and the escaping of           *)
(* rust/util/text.rs, over byte sequences.                                 *)
(***************************************************************************)
EXTENDS Codecs

CONSTANTS LineInputs, Widths,       \* newline-separated lines, hex widths
          IpInputs,                 \* candidate addresses
          UuidLength,               \* 36 in the code
          PatternInputs             \* texts to escape

IsHex(b) == hex_val(b) # -1
-----------------------------------------------------------------------------
\* `push_line_verdict`: one trailing \r is not part of the line.
CR == 13
LineVerdict(line, width) ==
    LET body == IF line # <<>> /\ line[Len(line)] = CR THEN SubSeq(line, 1, Len(line) - 1) ELSE line
    IN  Len(body) = width /\ \A i \in DOMAIN body : IsHex(body[i])

\* The lines of an input: a newline at the end opens no other line.
LinesOf(input) ==
    LET all == Lines(input) IN IF all[Len(all)] = <<>> THEN SubSeq(all, 1, Len(all) - 1) ELSE all

hex_batch_count(input) ==
    LET newlines == Cardinality({i \in DOMAIN input : input[i] = NL})
    IN  IF input # <<>> /\ input[Len(input)] = NL THEN newlines ELSE newlines + (IF input = <<>> THEN 0 ELSE 1)

\* `try_uniform_stride`: lines of exactly `width` bytes at a fixed distance.
\* It pushes a verdict per line as it goes, and stops at a separator that is
\* none: `pushed` is what it leaves in `out`, `took` whether it answered.
StrideLines(input, width) ==
    LET trailing == input[Len(input)] = NL
        stride == width + 1
    IN  IF trailing /\ Len(input) % stride = 0 THEN Len(input) \div stride
        ELSE IF ~trailing /\ Len(input) % stride = width THEN Len(input) \div stride + 1
        ELSE 0

try_uniform_stride(input, width) ==
    IF input = <<>> THEN [took |-> TRUE, pushed |-> <<>>]
    ELSE LET n == StrideLines(input, width)
             last(k) == k = n /\ input[Len(input)] # NL
             broken == {k \in 1..n : ~last(k) /\ input[k * (width + 1)] # NL}
             reached == IF broken = {} THEN n ELSE (CHOOSE k \in broken : \A j \in broken : k <= j) - 1
         IN  [took |-> n > 0 /\ broken = {},
              pushed |-> [k \in 1..reached |->
                            \A i \in 1..width : IsHex(input[(k - 1) * (width + 1) + i])]]

\* `hex_batch_valid_into`: the fallback appends to the same `out`.
hex_batch_valid_into(input, width) ==
    LET fast == try_uniform_stride(input, width)
    IN  IF fast.took THEN fast.pushed
        ELSE fast.pushed \o [k \in DOMAIN LinesOf(input) |-> LineVerdict(LinesOf(input)[k], width)]
-----------------------------------------------------------------------------
\* `is_valid_ipv4` with `validate_ipv4_part`.
Digit(b) == b \in 48..57
PartValue(part) == FoldLeft(LAMBDA n, b : n * 10 + (b - 48), 0, part)

OctalIsFine(part) ==
    /\ Len(part) \in 1..3
    /\ \A i \in DOMAIN part : Digit(part[i])
    /\ PartValue(part) <= 255

validate_ipv4_part(part) ==
    /\ Len(part) \in 1..3
    /\ ~(Len(part) > 1 /\ part[1] = 48)
    /\ \A i \in DOMAIN part : Digit(part[i])
    /\ PartValue(part) <= 255

is_valid_ipv4(input) ==
    /\ Len(input) \in 1..15
    /\ LET parts == SplitOn(input, 46)
       IN  Len(parts) = 4 /\ \A k \in DOMAIN parts : validate_ipv4_part(parts[k])

\* `validate_uuid_bytes`: four hyphens, the version and the variant, hex digits.
Hyphens == {9, 14, 19, 24}
validate_uuid_bytes(input) ==
    /\ Len(input) = UuidLength
    /\ \A i \in Hyphens : input[i] = 45
    /\ input[15] = 52
    /\ input[20] \in {56, 57, 97, 98, 65, 66}
    /\ \A i \in DOMAIN input \ (Hyphens \cup {15, 20}) : IsHex(input[i])
-----------------------------------------------------------------------------
\* REGEX_META: \ . * + ? ^ $ { } ( ) | [ ].
is_meta(b) == b \in {92, 46, 42, 43, 63, 94, 36, 123, 125, 40, 41, 124, 91, 93}

regex_escape_len(input) == Len(input) + Cardinality({i \in DOMAIN input : is_meta(input[i])})

\* `regex_escape_into`, `regex_escape_write`.
regex_escape(input) ==
    FlattenSeq([i \in DOMAIN input |-> IF is_meta(input[i]) THEN <<92, input[i]>> ELSE <<input[i]>>])
-----------------------------------------------------------------------------
HexLinesStep ==
    \E input \in LineInputs, width \in Widths :
        call' = [op |-> "hexlines", input |-> input, width |-> width, count |-> hex_batch_count(input),
                 fast |-> try_uniform_stride(input, width), got |-> hex_batch_valid_into(input, width)]

IpStep == \E input \in IpInputs : call' = [op |-> "ipv4", input |-> input, got |-> is_valid_ipv4(input)]

Uuid == [i \in 1..UuidLength |-> CASE i \in Hyphens -> 45 [] i = 15 -> 52 [] i = 20 -> 56 [] OTHER -> 97]

UuidStep ==
    \E i \in 1..UuidLength, b \in {45, 52, 57, 70, 71}, extra \in {<<>>, <<97>>} :
        call' = [op |-> "uuid", at |-> i, byte |-> b, extra |-> extra,
                 got |-> validate_uuid_bytes([Uuid EXCEPT ![i] = b] \o extra)]

EscapeStep ==
    \E input \in PatternInputs :
        call' = [op |-> "escape", input |-> input, len |-> regex_escape_len(input), got |-> regex_escape(input)]

ValidatorsNext == call = Ready /\ (HexLinesStep \/ IpStep \/ UuidStep \/ EscapeStep)
-----------------------------------------------------------------------------
\* The decimal text of n, and what an escaped pattern matches literally.
Decimal(n) ==
    IF n < 10 THEN <<48 + n>>
    ELSE IF n < 100 THEN <<48 + (n \div 10), 48 + (n % 10)>>
    ELSE <<48 + (n \div 100), 48 + ((n \div 10) % 10), 48 + (n % 10)>>

Dotted == {Decimal(a) : a \in 0..255}

RECURSIVE Unescaped(_)
Unescaped(pattern) ==
    IF pattern = <<>> THEN <<>>
    ELSE IF pattern[1] = 92 /\ Len(pattern) > 1 THEN <<pattern[2]>> \o Unescaped(SubSeq(pattern, 3, Len(pattern)))
    ELSE <<pattern[1]>> \o Unescaped(Tail(pattern))

\* An address is valid when it is the dotted text of four bytes; a UUID when
\* the changed position still admits the byte; an escaped pattern has the
\* announced length, matches its text, and leaves no bare metacharacter; and a
\* batch whose lines all have the expected width gets the verdict of each
\* line (rust/util).
ValidatorsExact ==
    /\ call.op = "ipv4" =>
         call.got <=> LET p == SplitOn(call.input, 46) IN Len(p) = 4 /\ \A k \in DOMAIN p : p[k] \in Dotted
    /\ call.op = "uuid" =>
         call.got <=> /\ call.extra = <<>>
                      /\ CASE call.at \in Hyphens -> call.byte = 45
                           [] call.at = 15 -> call.byte = 52
                           [] call.at = 20 -> call.byte = 57
                           [] OTHER -> IsHex(call.byte)
    /\ call.op = "escape" =>
         /\ call.len = Len(call.got)
         /\ Unescaped(call.got) = call.input
         /\ \A i \in DOMAIN call.got : is_meta(call.got[i]) =>
              \/ call.got[i] = 92
              \/ i > 1 /\ call.got[i - 1] = 92
    /\ call.op = "hexlines" =>
         /\ call.count = Len(LinesOf(call.input))
         /\ (\A k \in DOMAIN LinesOf(call.input) : Len(LinesOf(call.input)[k]) = call.width) =>
              call.got = [k \in DOMAIN LinesOf(call.input) |-> LineVerdict(LinesOf(call.input)[k], call.width)]

\* "Any layout deviation falls back to the memchr path, so semantics are
\* byte-identical": one verdict for each line, whatever the layout.
OneVerdictPerLine ==
    call.op = "hexlines" =>
        call.got = [k \in DOMAIN LinesOf(call.input) |-> LineVerdict(LinesOf(call.input)[k], call.width)]

=============================================================================
