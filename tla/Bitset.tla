------------------------------- MODULE Bitset -------------------------------
(***************************************************************************)
(* bitset.hpp: N bits in an unsigned integer of Storage bits.  Integers    *)
(* smaller than unsigned int are shifted at the Promoted width.            *)
(***************************************************************************)
EXTENDS Integers, Sequences, FiniteSets, Bitwise, FiniteSetsExt, SequencesExt

CONSTANTS N, Storage, Promoted

VARIABLES
  bits,     \* bits_
  members   \* the positions that should be set
bitsetVars == <<bits, members>>

Position == 0..(N - 1)
narrow(x) == x % 2^Storage
comp_bits(x) == 2^Storage - 1 - x

posmask(pos) == narrow(2^pos)
lowmask(n) == FoldLeft(LAMBDA s, i : narrow(2 * s + 1), 0, [i \in 1..n |-> i])

\* Mutant: the bit before the range belongs to it.
midmask_inclusive(first, end) == lowmask(end) & comp_bits(lowmask(Max({first - 1, 0})))

midmask(first, end) == lowmask(end) & comp_bits(lowmask(first))

\* The width if there is no bit.
countr_zero(x, width) == Min({i \in 0..(width - 1) : (x \div 2^i) % 2 = 1} \cup {width})
contains(b, pos) == (b & posmask(pos)) # 0
count(b) == Cardinality({i \in 0..(Storage - 1) : (b \div 2^i) % 2 = 1})
find_first(b) == countr_zero(b, Storage)

\* Mutant: two bits are shifted out.
find_next_skipping(b, prev) == countr_zero((b \div 2^prev) \div 4, Promoted) + prev + 2

find_next(b, prev) == countr_zero((b \div 2^prev) \div 2, Promoted) + prev + 1

\* set_of_indices, and every loop over the members.
RECURSIVE indices_from(_, _)
indices_from(b, s) == IF s >= N THEN <<>> ELSE <<s>> \o indices_from(b, find_next(b, s))
set_of_indices(b) == indices_from(b, find_first(b))

BitsetInit == bits = 0 /\ members = {}

Changes(b, s) == bits' = narrow(b) /\ members' = s
set_all == Changes(lowmask(N), Position)
set_bit(pos) == Changes(bits | posmask(pos), members \cup {pos})
set_range(first, end) == Changes(bits | midmask(first, end), members \cup first..(end - 1))
reset_all == Changes(0, {})
reset_bit(pos) == Changes(bits & comp_bits(posmask(pos)), members \ {pos})
reset_range(first, end) == Changes(bits & comp_bits(midmask(first, end)), members \ (first..(end - 1)))
flip_all == Changes(bits ^^ lowmask(N), Position \ members)
flip_bit(pos) == Changes(bits ^^ posmask(pos), SymDiff(members, {pos}))
flip_range(first, end) == Changes(bits ^^ midmask(first, end), SymDiff(members, first..(end - 1)))
shift_right(k) == Changes(bits \div 2^k, {p - k : p \in {p \in members : p >= k}})
\* The bits that leave the N go on to exist in the integer: they are not shifted
\* out here.
shift_left(k) == (\A p \in members : p + k < N) /\ Changes(bits * 2^k, {p + k : p \in members})
combine_with(other) ==
  \/ Changes(bits & other, {p \in members : contains(other, p)})
  \/ Changes(bits | other, members \cup {p \in Position : contains(other, p)})
  \/ Changes(bits ^^ other, SymDiff(members, {p \in Position : contains(other, p)}))

BitsetNext ==
  \/ set_all \/ reset_all \/ flip_all
  \/ \E pos \in Position : set_bit(pos) \/ reset_bit(pos) \/ flip_bit(pos)
  \/ \E first \in Position : \E end \in first..N :
       set_range(first, end) \/ reset_range(first, end) \/ flip_range(first, end)
  \/ \E k \in 1..(N - 1) : shift_right(k) \/ shift_left(k)
  \/ \E other \in 0..(2^N - 1) : combine_with(other)

\* The integer has the bits of the members and no others, also none above N, so
\* that ==, none and hash may compare integers.
BitsAreMembers == bits = SumSet({2^p : p \in members}) /\ count(bits) = Cardinality(members)

\* Following find_first and find_next until they leave the capacity visits the
\* members in ascending order, and stops, also where bit N - 1 is the last one.
IterationExact ==
  LET s == set_of_indices(bits)
  IN  ToSet(s) = members /\ \A i \in 1..(Len(s) - 1) : s[i] < s[i + 1]
=============================================================================
