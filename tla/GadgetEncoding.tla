--------------------------- MODULE GadgetEncoding ---------------------------
(***************************************************************************)
(* gadget-encoding.cpp and gadget-encoding-stats.cpp: the bytes of a       *)
(* gadget.  A header with the statistics, each in as few bytes as it       *)
(* needs, then the codes of the undirected and of the directed edges,      *)
(* sorted and delta coded.  An edge is <<start, from, to, end>>: states    *)
(* outside, locations inside.                                              *)
(***************************************************************************)
EXTENDS TLC, Varint, SequencesExt

CONSTANT UIntBits   \* the width of unsigned int, scaled to what TLC can count

\* The bytes that a count needs, and a count in so many bytes.
minimum_size(n) == IF n <= 255 THEN 1 ELSE IF n <= 65535 THEN 2 ELSE IF n < 16777216 THEN 3 ELSE 4
InBytes(n, length) == SubSeq(Small8(n), 1, length)
FromBytes(bytes) == Low(Pad(bytes))

\* Statistics that the header cannot hold are refused with an exception.
Lengths(s) ==
  [states |-> minimum_size(s.states),
   undirected |-> IF s.undirected = 0 THEN 0 ELSE minimum_size(s.undirected),
   directed |-> IF s.directed = 0 THEN 0 ELSE minimum_size(s.directed),
   components |-> IF s.components = 1 THEN 0 ELSE minimum_size(s.components)]
HeaderHolds(s) ==
  LET n == Lengths(s)
  IN  /\ n.states <= 2 /\ n.undirected <= 3 /\ n.directed <= 3 /\ n.components <= 1
      /\ s.locations \in 1..16 /\ s.states > 0 /\ s.undirected + s.directed > 0

\* Mutant: the two lengths of edge counts change places in the second byte.
LengthByteSwapped(n) == 32 * (n.states - 1) + 2 * n.undirected + 8 * n.directed + n.components

LengthByte(n) == 32 * (n.states - 1) + 8 * n.undirected + 2 * n.directed + n.components

build_header(s) ==
  LET n == Lengths(s)
  IN  <<s.locations - 1, LengthByte(n)>> \o InBytes(s.states, n.states) \o InBytes(s.undirected, n.undirected)
      \o InBytes(s.directed, n.directed) \o InBytes(s.components, n.components)

\* encoding::detail::stats: the statistics and where the edges begin.
read_stats(data) ==
  LET states == 1 + ((data[2] \div 32) % 2)
      undirected == (data[2] \div 8) % 4
      directed == (data[2] \div 2) % 4
      components == data[2] % 2
      field(offset, length) == FromBytes(SubSeq(data, 3 + offset, 2 + offset + length))
  IN  [stats |-> [locations |-> (data[1] % 16) + 1,
                  states |-> field(0, states),
                  undirected |-> field(states, undirected),
                  directed |-> field(states + undirected, directed),
                  components |-> IF components = 0 THEN 1
                                 ELSE field(states + undirected + directed, components)],
       begin |-> 3 + states + undirected + directed + components]

-----------------------------------------------------------------------------
(* LLSSEdgeCoder.  The first product is in 64 bits, the others are of      *)
(* unsigned ints.                                                          *)

UInt(n) == n % 2^UIntBits

coder_encode(e, locations, states) ==
  e[2] * locations * states * states + UInt(e[3] * states * states) + UInt(e[1] * states) + e[4]

\* Mutant: the two states change places.
coder_decode_swapped(code, locations, states) ==
  LET rest == code % UInt(locations * states * states)
      rest2 == rest % UInt(states * states)
  IN  <<rest2 % states, code \div UInt(locations * states * states), rest \div UInt(states * states), rest2 \div states>>

coder_decode(code, locations, states) ==
  LET perFrom == UInt(locations * states * states)
      perTo == UInt(states * states)
      rest == code % perFrom
      rest2 == rest % perTo
  IN  <<rest2 \div states, code \div perFrom, rest \div perTo, rest2 % states>>

\* The number of codes.
max_value(locations, states) == UInt(locations * locations * states * states)

\* edge_ordering: by from, to, start and end
EdgeOrder(e, f) ==
  LET key(x) == <<x[2], x[3], x[1], x[4]>>
  IN  \E i \in 1..4 : key(e)[i] < key(f)[i] /\ \A k \in 1..(i - 1) : key(e)[k] = key(f)[k]

Sorted(edges) == SortSeq(FoldSet(LAMBDA e, seq : Append(seq, e), <<>>, edges), EdgeOrder)

write_compressed(edges, locations, states) ==
  LET sorted == Sorted(edges)
      code(i) == coder_encode(sorted[i], locations, states)
  IN  FlattenSeq([i \in 1..Len(sorted) |-> writeVarint(Small8(IF i = 1 THEN code(1) ELSE code(i) - code(i - 1)))])

\* count edges from position at on, and where they end
RECURSIVE read_compressed(_, _, _, _, _, _)
read_compressed(data, at, count, previous, locations, states) ==
  IF count = 0 THEN [edges |-> <<>>, at |-> at]
  ELSE LET r == readVarint(SubSeq(data, at, Len(data)))
           code == previous + Low(r.value)
           rest == read_compressed(data, at + r.length, count - 1, code, locations, states)
       IN  [edges |-> <<coder_decode(code, locations, states)>> \o rest.edges, at |-> rest.at]

encode_slls(uedges, dedges, stats) ==
  build_header(stats) \o write_compressed(uedges, stats.locations, stats.states)
  \o write_compressed(dedges, stats.locations, stats.states)

decode_to_slls(data) ==
  LET header == read_stats(data)
      s == header.stats
      u == read_compressed(data, header.begin, s.undirected, 0, s.locations, s.states)
      d == read_compressed(data, u.at, s.directed, 0, s.locations, s.states)
  IN  [uedges |-> u.edges, dedges |-> d.edges, stats |-> s, at |-> d.at]

-----------------------------------------------------------------------------
(* Properties *)

\* The header gives back every statistic that it accepts, at each boundary
\* between two lengths, and the edges begin where it ends.
HeaderExact(s) ==
  HeaderHolds(s) => read_stats(build_header(s) \o <<255>>) = [stats |-> s, begin |-> Len(build_header(s)) + 1]

\* Codes keep the order of edges, can be decoded and are among those that are
\* counted ("This is an error in the coder logic, not the caller."), as long as the
\* number of codes is an unsigned int.  The header holds more states than that.
CoderExact(e, f, locations, states) ==
  locations * locations * states * states < 2^UIntBits =>
    /\ coder_decode(coder_encode(e, locations, states), locations, states) = e
    /\ EdgeOrder(e, f) <=> coder_encode(e, locations, states) < coder_encode(f, locations, states)
    /\ coder_encode(e, locations, states) < max_value(locations, states)
=============================================================================
