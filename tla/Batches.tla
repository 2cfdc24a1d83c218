------------------------------ MODULE Batches -------------------------------
(***************************************************************************)
(* Batches in packed form.  The JavaScript side packs its items into a     *)
(* reused scratch buffer, the native side answers with a bitset, an array  *)
(* of numbers or an array of byte strings, serially or in parallel chunks, *)
(* and the JavaScript side reads that back.  A buffer is a sequence of     *)
(* bytes; a count or a length takes four of them.  What an operation does  *)
(* with one item is a parameter.                                           *)
(***************************************************************************)
EXTENDS Calls, FiniteSets, SequencesExt

CONSTANTS BatchInputs,                          \* sequences of items
          Verdict(_), Number(_), Mapped(_),     \* of one item
          MinScratch, ByteBits, MinChunk,       \* 256, 8 and 64 in the code
          ParItems, ParBytes,                   \* where batches go parallel
          MaxI64                                \* the saturation bound

VARIABLE packScratchFree    \* the scratch buffers not in use, a stack

MapItems(f(_), items) == [i \in DOMAIN items |-> f(items[i])]
Total(numbers) == FoldLeft(LAMBDA acc, n : acc + n, 0, numbers)
Fill(n, byte) == [i \in 1..n |-> byte]
DivCeil(a, b) == (a + b - 1) \div b
-----------------------------------------------------------------------------
\* The wire: little-endian fields of `width` bytes.
Field(n, width) == [i \in 1..width |-> IF i = 1 THEN n ELSE 0]
U32(n) == Field(n, 4)

ReadU32(bytes, offset) == IF offset + 4 > Len(bytes) THEN None ELSE Some(bytes[offset + 1])

ReadSlice(bytes, offset, len) ==
    IF offset + len > Len(bytes) THEN None ELSE Some(SubSeq(bytes, offset + 1, offset + len))

Prefixed(item) == U32(Len(item)) \o item

packedTotal(items) == 4 + Total(MapItems(LAMBDA x : 4 + Len(x), items))

PackedBytes(items) == U32(Len(items)) \o FlattenSeq(MapItems(Prefixed, items))

\* `writePack` over what the target held.
writePack(items, target) ==
    LET end == packedTotal(items)
    IN  IF end > Len(target) THEN None
        ELSE Some([target |-> PackedBytes(items) \o SubSeq(target, end + 1, Len(target)), end |-> end])

RECURSIVE Doubled(_, _)
Doubled(size, min) == IF size >= min THEN size ELSE Doubled(2 * size, min)

\* The last freed buffer, or a larger new one in its place.
acquirePackScratch(free, min) ==
    LET top == IF free = <<>> THEN <<>> ELSE Last(free)
        size == IF 2 * Len(top) > MinScratch THEN 2 * Len(top) ELSE MinScratch
    IN  IF Len(top) >= min THEN top ELSE Fill(Doubled(size, min), 0)

Popped(free) == IF free = <<>> THEN <<>> ELSE Front(free)

\* The items from `offset` on; the reader that gives up at a bad field, and the
\* iterator that stops there.
RECURSIVE ReadItems(_, _, _)
ReadItems(data, offset, count) ==
    IF count = 0 THEN Some(<<>>)
    ELSE LET len == ReadU32(data, offset)
             item == IF len = None THEN None ELSE ReadSlice(data, offset + 4, len[1])
             rest == IF item = None THEN None ELSE ReadItems(data, offset + 4 + len[1], count - 1)
         IN  IF rest = None THEN None ELSE Some(item \o rest[1])

RECURSIVE Iterate(_, _, _)
Iterate(data, offset, count) ==
    LET len == ReadU32(data, offset)
        item == IF len = None THEN None ELSE ReadSlice(data, offset + 4, len[1])
    IN  IF count = 0 \/ item = None THEN <<>>
        ELSE item \o Iterate(data, offset + 4 + len[1], count - 1)

\* `PackedIter::new`: the count, refused if that many lengths cannot be there.
PackedIter(data) ==
    IF Len(data) < 4 THEN None
    ELSE IF data[1] > (Len(data) - 4) \div 4 THEN None ELSE Some(data[1])

collect_vec(data) == ReadItems(data, 4, PackedIter(data)[1])

iterate(data) == Iterate(data, 4, PackedIter(data)[1])
-----------------------------------------------------------------------------
should_parallelize(count, bytes) == count >= ParItems \/ bytes >= ParBytes

\* `packed_routing`: a walk over the lengths, and which way to go.
Routed(items) ==
    IF items = None THEN None ELSE Some(should_parallelize(Len(items[1]), Total(MapItems(Len, items[1]))))
packed_routing(data) == IF PackedIter(data) = None THEN None ELSE Routed(collect_vec(data))

\* Bits are numbered from the low end of the first byte.
Packed8(bits) ==
    [k \in 1..DivCeil(Len(bits), ByteBits) |->
        Total([j \in 1..ByteBits |->
            LET i == (k - 1) * ByteBits + j IN IF i <= Len(bits) /\ bits[i] THEN 2^(j - 1) ELSE 0])]

\* `bitset_serial`: items the iterator does not reach leave a zero bit.
BitsOf(count, items) == U32(count) \o Packed8([i \in 1..count |-> i <= Len(items) /\ Verdict(items[i])])
bitset_serial(data) == BitsOf(PackedIter(data)[1], iterate(data))

UnalignedChunks(items, chunk_items) ==
    LET size == IF chunk_items > MinChunk THEN chunk_items ELSE MinChunk
        chunks == DivCeil(Len(items), size)
    IN  U32(Len(items)) \o FlattenSeq([c \in 1..chunks |->
            LET from == (c - 1) * size
                to == IF from + size < Len(items) THEN from + size ELSE Len(items)
            IN  Packed8([i \in 1..(to - from) |-> Verdict(items[from + i])])])

\* Each chunk owns whole bytes of the answer and the items of their bits.
validation_bitset_chunked(items, chunk_items) ==
    LET size == DivCeil(IF chunk_items > MinChunk THEN chunk_items ELSE MinChunk, ByteBits) * ByteBits
        chunks == DivCeil(Len(items), size)
    IN  U32(Len(items)) \o FlattenSeq([c \in 1..chunks |->
            LET from == (c - 1) * size
                to == IF from + size < Len(items) THEN from + size ELSE Len(items)
            IN  Packed8([i \in 1..(to - from) |-> Verdict(items[from + i])])])

BitsVia(parallel, data, chunk_items) ==
    IF parallel = None THEN None
    ELSE Some(IF parallel[1] THEN validation_bitset_chunked(collect_vec(data)[1], chunk_items)
              ELSE bitset_serial(data))
run_bitset_batch(data, chunk_items) == BitsVia(packed_routing(data), data, chunk_items)

\* `sum_batch_serial`, and `sum_batch_direct` with its chunks of the answer.
NumbersOf(count, items, width) ==
    U32(count) \o FlattenSeq([i \in 1..count |-> Field(IF i <= Len(items) THEN Number(items[i]) ELSE 0, width)])
sum_batch_serial(data, width) == NumbersOf(PackedIter(data)[1], iterate(data), width)

sum_batch_direct(items, width) ==
    U32(Len(items)) \o FlattenSeq(MapItems(LAMBDA x : Field(Number(x), width), items))

NumbersVia(parallel, data, width) ==
    IF parallel = None THEN None
    ELSE Some(IF parallel[1] THEN sum_batch_direct(collect_vec(data)[1], width)
              ELSE sum_batch_serial(data, width))
run_sum_batch(data, width) == NumbersVia(packed_routing(data), data, width)

\* `bytes_map_serial` writes the count of the header and the items it reaches.
bytes_map_serial(data) ==
    IF PackedIter(data) = None THEN None
    ELSE Some(U32(PackedIter(data)[1]) \o FlattenSeq(MapItems(LAMBDA x : Prefixed(Mapped(x)), iterate(data))))

\* `run_packed_batch(_idx)`: in order, whichever way the items were mapped.
run_packed_batch(data) ==
    IF packed_routing(data) = None THEN None ELSE bytes_map_serial(data)

count_batch_data(data) ==
    IF packed_routing(data) = None THEN None
    ELSE Some(Len(SelectSeq(iterate(data), Verdict)))

Saturated(n) == IF n > MaxI64 THEN MaxI64 ELSE IF n < -MaxI64 - 1 THEN -MaxI64 - 1 ELSE n

SaturatingSum(numbers) == FoldLeft(LAMBDA acc, n : Saturated(acc + n), 0, numbers)

\* What rayon's fold and reduce may make of the numbers: runs of whole chunks
\* are summed apart, and their sums added in order.
RECURSIVE ReducedSums(_)
ReducedSums(numbers) ==
    {SaturatingSum(numbers)} \cup
        UNION {{Saturated(a + b) : a \in ReducedSums(SubSeq(numbers, 1, k)),
                                   b \in ReducedSums(SubSeq(numbers, k + 1, Len(numbers)))}
                 : k \in {n \in 1..(Len(numbers) - 1) : n % MinChunk = 0}}

IdSums(parallel, numbers) ==
    IF parallel = None THEN {None}
    ELSE IF parallel[1] THEN {Some(n) : n \in ReducedSums(numbers)}
    ELSE {Some(SaturatingSum(numbers))}
sum_ids_batch_data(data) == IdSums(packed_routing(data), MapItems(Number, collect_vec(data)[1]))

total_len_batch_data(data) ==
    IF packed_routing(data) = None THEN None
    ELSE Some(Total(MapItems(LAMBDA x : Len(Mapped(x)), iterate(data))))

\* `write_bitset_batch_into`, `write_scalar_batch_into`: into a caller's buffer,
\* which is cleared where the answer goes.
WrittenInto(answer, out) ==
    IF answer = None THEN None
    ELSE IF Len(answer[1]) > Len(out) THEN None
    ELSE Some([out |-> answer[1] \o SubSeq(out, Len(answer[1]) + 1, Len(out)), written |-> Len(answer[1])])
-----------------------------------------------------------------------------
\* The JavaScript readers.
unpackByteResults(bytes) ==
    IF Len(bytes) < 4 THEN Some(<<>>) ELSE ReadItems(bytes, 4, bytes[1])

unpackBitset(bytes) ==
    IF Len(bytes) < 4 THEN Some(<<>>)
    ELSE IF Len(bytes) < 4 + DivCeil(bytes[1], ByteBits) THEN None
    ELSE Some([i \in 1..bytes[1] |->
                  (bytes[5 + (i - 1) \div ByteBits] \div 2^((i - 1) % ByteBits)) % 2 = 1])

\* `unpackU32Array`, `unpackI64ArrayAsBigInt` and `unpackU64ArrayAsBigInt`.
unpackNumbers(bytes, width) ==
    IF Len(bytes) < 4 THEN Some(<<>>)
    ELSE IF bytes[1] > (Len(bytes) - 4) \div width THEN None
    ELSE Some([i \in 1..bytes[1] |-> bytes[4 + (i - 1) * width + 1]])

unpackU32Array(bytes) == unpackNumbers(bytes, 4)
unpackI64ArrayAsBigInt(bytes) == unpackNumbers(bytes, 8)
unpackU64ArrayAsBigInt(bytes) == unpackNumbers(bytes, 8)

\* What each entry of `rust.batch` reads its native function's answer with.
buildBatch ==
    [jsonValid |-> "bits", crc32 |-> "u32", validateEmail |-> "bits", validateUuid |-> "bits",
     validateIpv4 |-> "bits", validateIpv6 |-> "bits", jsonSumIds |-> "i64", queryParse |-> "bytes",
     cookieParse |-> "bytes", formParse |-> "bytes", signCookie |-> "bytes", verifyCookie |-> "bits",
     csrfVerify |-> "bits", httpParseRequest |-> "bytes", fnv1a64 |-> "u64", etag |-> "bytes",
     urlEncode |-> "bytes", urlDecode |-> "bytes", mimeFromExtension |-> "bytes",
     base64Encode |-> "bytes", base64Decode |-> "bytes", hexEncode |-> "bytes", hexDecode |-> "bytes",
     hmacSha256 |-> "bytes"]

ReadAs(kind, bytes) ==
    CASE kind = "bits" -> unpackBitset(bytes)
      [] kind = "u32" -> unpackU32Array(bytes)
      [] kind = "i64" -> unpackI64ArrayAsBigInt(bytes)
      [] kind = "u64" -> unpackU64ArrayAsBigInt(bytes)
      [] OTHER -> unpackByteResults(bytes)

\* The native batch functions.  Those of the first list map the items serially
\* and do not look at the lengths first.
batch_packed(op, data) ==
    CASE op \in {"queryParse", "cookieParse", "formParse", "signCookie", "httpParseRequest", "hexEncode",
                 "hexDecode", "base64Encode", "base64Decode", "hmacSha256", "etag"} -> bytes_map_serial(data)
      [] op \in {"urlEncode", "urlDecode", "mimeFromExtension"} -> run_packed_batch(data)
      [] op \in {"jsonSumIds", "fnv1a64", "crc32"} -> run_sum_batch(data, IF op = "crc32" THEN 4 ELSE 8)
      [] OTHER -> run_bitset_batch(data, IF op = "jsonValid" THEN 1 ELSE MinChunk + 1)

ItemAnswer(op, item) ==
    CASE buildBatch[op] = "bits" -> Verdict(item)
      [] buildBatch[op] = "bytes" -> Mapped(item)
      [] OTHER -> Number(item)

BatchOps == DOMAIN buildBatch
-----------------------------------------------------------------------------
\* The items in the scratch that the free list gives for them.
withPackScratch(items) ==
    writePack(items, acquirePackScratch(packScratchFree, packedTotal(items)))

\* `via`: pack, call, read, and give the scratch back.
ReadAnswer(op, answer) == IF answer = None THEN None ELSE ReadAs(buildBatch[op], answer[1])
ViaWritten(op, items, written) ==
    /\ written # None
    /\ call' = [op |-> "batch", name |-> op, items |-> items,
                got |-> ReadAnswer(op, batch_packed(op, SubSeq(written[1].target, 1, written[1].end)))]
    /\ packScratchFree' = Append(Popped(packScratchFree), written[1].target)
Via(op, items) == ViaWritten(op, items, withPackScratch(items))

\* `withPackScratch2`: two scratch buffers at a time.
ViaWritten2(a, b, wA, wB) ==
    LET Read(w) == collect_vec(SubSeq(w[1].target, 1, w[1].end))
    IN  /\ wA # None /\ wB # None
        /\ call' = [op |-> "pair", items |-> <<a, b>>, got |-> <<Read(wA), Read(wB)>>]
        /\ packScratchFree' = Popped(Popped(packScratchFree)) \o <<wA[1].target, wB[1].target>>
Via2(a, b) ==
    ViaWritten2(a, b, writePack(a, acquirePackScratch(packScratchFree, packedTotal(a))),
                      writePack(b, acquirePackScratch(Popped(packScratchFree), packedTotal(b))))

\* A caller of `rust.packed` brings its own buffer, cut short, with a wrong
\* count, or with bytes to spare.
Damage(bytes) ==
    {SubSeq(bytes, 1, n) : n \in 0..Len(bytes)} \cup {bytes \o <<1>>}
        \cup {[bytes EXCEPT ![1] = n] : n \in 0..(bytes[1] + 1)}

buildPacked(op, items) ==
    /\ \E data \in Damage(PackedBytes(items)) :
         call' = [op |-> "packed", name |-> op, data |-> data, got |-> ReadAnswer(op, batch_packed(op, data))]
    /\ UNCHANGED packScratchFree

\* The `_into` functions, over a buffer with old bytes in it.
IntoAnswer(into) == IF into = None THEN None ELSE Some(SubSeq(into[1].out, 1, into[1].written))
IntoCall(op, items, cap, answer) ==
    call' = [op |-> "into", name |-> op, items |-> items, fits |-> Len(answer[1]) <= cap,
             got |-> ReadAnswer(op, IntoAnswer(WrittenInto(answer, Fill(cap, 1))))]
PackedInto(op, items, cap) ==
    /\ IntoCall(op, items, cap, batch_packed(op, PackedBytes(items)))
    /\ UNCHANGED packScratchFree

Totals(items) ==
    /\ \E sum \in sum_ids_batch_data(PackedBytes(items)) :
         call' = [op |-> "totals", items |-> items, count |-> count_batch_data(PackedBytes(items)),
                  sum |-> sum, len |-> total_len_batch_data(PackedBytes(items))]
    /\ UNCHANGED packScratchFree

IntoOps == {"jsonValid", "validateEmail", "validateUuid", "validateIpv4", "validateIpv6", "jsonSumIds", "fnv1a64"}

BatchesNext ==
    /\ call = Ready
    /\ \E items \in BatchInputs :
         \/ \E op \in BatchOps : Via(op, items)
         \/ \E other \in BatchInputs : Via2(items, other)
         \/ /\ packScratchFree = <<>>     \* these do not touch it: one state of it is enough
            /\ \/ \E op \in BatchOps : buildPacked(op, items)
               \/ \E op \in IntoOps, cap \in {3, 5, 12, 60} : PackedInto(op, items, cap)
               \/ Totals(items)
-----------------------------------------------------------------------------
Answers(op, items) == MapItems(LAMBDA x : ItemAnswer(op, x), items)

Unsaturated(numbers) ==
    \A a, b \in 0..Len(numbers) : a <= b => Saturated(Total(SubSeq(numbers, a + 1, b))) = Total(SubSeq(numbers, a + 1, b))

\* A batch answers item by item, in order, whether it went serially or in
\* chunks, whatever the scratch held before, and into whatever buffer is large
\* enough; a buffer that is no packed batch is refused by one side or the
\* other and never answered in part; counts and totals are those of the items
\* as long as no partial sum saturates (rust/util/batch, shared/packed/wire.ts).
BatchesFaithful ==
    /\ call.op = "batch" => call.got = Some(Answers(call.name, call.items))
    /\ call.op = "pair" => call.got = <<Some(call.items[1]), Some(call.items[2])>>
    /\ call.op = "packed" =>
         LET items == IF PackedIter(call.data) = None THEN None ELSE collect_vec(call.data)
         IN  call.got = IF items = None THEN None ELSE Some(Answers(call.name, items[1]))
    /\ call.op = "into" =>
         call.got = IF call.fits THEN Some(Answers(call.name, call.items)) ELSE None
    /\ call.op = "totals" =>
         /\ call.count = Some(Cardinality({i \in DOMAIN call.items : Verdict(call.items[i])}))
         /\ call.len = Some(Total(MapItems(LAMBDA x : Len(Mapped(x)), call.items)))
         /\ LET numbers == MapItems(Number, call.items)
            IN  Unsaturated(numbers) => call.sum = Some(Total(numbers))

=============================================================================
