------------------------------ MODULE Varint --------------------------------
(***************************************************************************)
(* varint.hpp: 64-bit integers in one to nine bytes, in the two encodings  *)
(* upv (the length is the number of leading ones of the first byte) and    *)
(* varint64 (the first byte is the value or tells the length).  An integer *)
(* is the sequence of its eight bytes, the lowest first, as in memory.     *)
(***************************************************************************)
EXTENDS Integers, Sequences, FiniteSets, FiniteSetsExt, Bitwise

Zero8 == [i \in 1..8 |-> 0]
Pad(bytes) == [i \in 1..8 |-> IF i <= Len(bytes) THEN bytes[i] ELSE 0]

\* The value of an integer below 2^24; callers look at the higher bytes first.
Low(v) == v[1] + 256 * v[2] + 65536 * v[3]
Bytes3(n) == <<n % 256, (n \div 256) % 256, n \div 65536>>

BitsOf(byte) == IF byte = 0 THEN 0 ELSE Max({k \in 0..7 : byte >= 2^k}) + 1
SignificantBytes(v) == Max({i \in 1..8 : v[i] # 0} \cup {0})

\* sigbits; zero needs a bit too
sigbits(v) == IF v = Zero8 THEN 1
              ELSE LET n == SignificantBytes(v) IN 8 * (n - 1) + BitsOf(v[n])

\* prefixes[n]: n ones, counting from zero
prefixes(n) == 256 - 2^(8 - n)

\* The number of leading ones of a byte (countl_one).
countl_one(byte) == Max({n \in 0..8 : byte >= prefixes(n)})

upv_length(v) == (sigbits(v) + 6) \div 7

\* The high bits are in the first byte behind its prefix, the rest follows.
upv_write(v) ==
  IF v[8] = 0
  THEN LET length == upv_length(v)
       IN  <<v[length] | prefixes(length - 1)>> \o SubSeq(v, 1, length - 1)
  ELSE <<255>> \o v

\* The integer at the beginning of src and the number of bytes read.
upv_read(src) ==
  LET trailers == countl_one(src[1])
      body == SubSeq(src, 2, trailers + 1)
      high == src[1] & (255 - prefixes(trailers))
  IN  [value |-> Pad(IF trailers < 8 THEN Append(body, high) ELSE body),
       length |-> trailers + 1]

\* The two encodings that tell the length in the first byte differ in VARINT_ONE,
\* the last integer of one byte: 240 for 64 bits (varint64), 244 for 32 (pack).
VARINT_TWO(one) == one + 8
VARINT_THREE(one) == one + 9

\* The integers that are written in two and in three bytes end here.
TwoBytes(one) == (VARINT_TWO(one) - one) * 256 + one - 1
ThreeBytes(one) == TwoBytes(one) + 65536

varint_write(v, one) ==
  LET amount == SignificantBytes(v)
      n == IF amount <= 3 THEN Low(v) ELSE ThreeBytes(one) + 1
  IN  CASE n <= one -> <<n>>
        [] one < n /\ n <= TwoBytes(one) -> <<(n - one) \div 256 + one + 1, (n - one) % 256>>
        [] TwoBytes(one) < n /\ n <= ThreeBytes(one) ->
             <<VARINT_THREE(one), (n - (TwoBytes(one) + 1)) \div 256, (n - (TwoBytes(one) + 1)) % 256>>
        [] OTHER -> <<VARINT_TWO(one) - 1 + amount>> \o SubSeq(v, 1, amount)

\* Mutant: the two-byte range is taken to begin where the one-byte range ends.
varint_read_shifted(src, one) ==
  IF src[1] > one /\ src[1] <= VARINT_TWO(one)
  THEN [value |-> Pad(Bytes3(one + 256 * (src[1] - one) + src[2])), length |-> 2]
  ELSE [value |-> Pad(SubSeq(src, 1, 1)), length |-> 1]

varint_read(src, one) ==
  LET first == src[1]
      amount == first - (VARINT_TWO(one) - 1)
  IN  CASE first <= one -> [value |-> Pad(<<first>>), length |-> 1]
        [] one < first /\ first <= VARINT_TWO(one) ->
             [value |-> Pad(Bytes3(one + 256 * (first - one - 1) + src[2])), length |-> 2]
        [] first = VARINT_THREE(one) ->
             [value |-> Pad(Bytes3(TwoBytes(one) + 1 + 256 * src[2] + src[3])), length |-> 3]
        [] OTHER -> [value |-> Pad(SubSeq(src, 2, amount + 1)), length |-> amount + 1]

varint64_write(v) == varint_write(v, 240)
varint64_read(src) == varint_read(src, 240)
writeVarint(v) == varint_write(v, 244)
readVarint(src) == varint_read(src, 244)

\* Integers below 2^24
Small8(n) == Pad(Bytes3(n))

\* An integer is read back as it was written, whatever follows it in the page,
\* and the reader stops where the writer did: at every boundary between two
\* lengths of each encoding, up to 64 bits.
RoundTrip(v) ==
  \A next \in {0, 128, 255} :
    LET back(written) == [value |-> v, length |-> Len(written)]
        more == <<next, next>>
    IN  /\ upv_read(upv_write(v) \o more) = back(upv_write(v)) /\ Len(upv_write(v)) <= 9
        /\ varint64_read(varint64_write(v) \o more) = back(varint64_write(v)) /\ Len(varint64_write(v)) <= 9
        /\ SignificantBytes(v) <= 4 => readVarint(writeVarint(v) \o more) = back(writeVarint(v))
=============================================================================
