--------------------------- MODULE CircularDeque ----------------------------
(***************************************************************************)
(* circular_deque.tcc: a deque in an array that wraps around.  The first   *)
(* array is a small buffer inside the object; a larger one is allocated.   *)
(* Two deques are here, because assignment, append and swap take another   *)
(* one.  Places in the array are counted from zero.                        *)
(***************************************************************************)
EXTENDS Integers, Sequences, FiniteSets, SequencesExt, FiniteSetsExt

CONSTANTS
  Element,
  SmallCapacity,    \* N
  Slack,            \* how many elements more the allocator may give
  MaxCapacity,      \* bound on the arrays
  Nothing           \* memory without an object

VARIABLES
  deque,    \* deque[d] = [data, head, size, small]
  content   \* content[d]: what the deque should hold

dequeVars == <<deque, content>>
Which == {1, 2}

capacity(d) == Cardinality(DOMAIN d.data)
full(d) == d.size = capacity(d)
mask(d, i) == IF i >= capacity(d) THEN i - capacity(d) ELSE i
inc(d, i) == IF i + 1 >= capacity(d) THEN 0 ELSE i + 1

\* Zero minus one is larger than any capacity.
dec(d, i) == IF i = 0 THEN capacity(d) - 1 ELSE i - 1

\* The present elements are a prefix from head on and a suffix at the
\* beginning of the array; the deque is linear when the suffix is empty.
prefix_end(d) == Min({d.head + d.size, capacity(d)})
suffix_end(d) == Max({d.head + d.size - capacity(d), 0})
linear(d) == suffix_end(d) = 0
Slots(d, from, to) == [i \in 1..(to - from) |-> d.data[from + i - 1]]
Elements(d) == Slots(d, d.head, prefix_end(d)) \o Slots(d, 0, suffix_end(d))

New == [data |-> [i \in 0..(SmallCapacity - 1) |-> Nothing], head |-> 0, size |-> 0, small |-> TRUE]

\* Mutant: the elements keep their places in the larger array.
GrownInPlace(d, target) ==
  [d EXCEPT !.data = [i \in 0..(target - 1) |-> IF i < capacity(d) THEN d.data[i] ELSE Nothing], !.small = FALSE]

\* The elements are moved to the beginning of an allocated array.
Grown(d, target) ==
  [data |-> [i \in 0..(target - 1) |-> IF i < d.size THEN Elements(d)[i + 1] ELSE Nothing],
   head |-> 0, size |-> d.size, small |-> FALSE]

\* The capacities that ensureCapacity may reach, and the deque afterwards.
Targets(d, minCapacity) ==
  {t \in Max({2 * capacity(d), minCapacity})..(Max({2 * capacity(d), minCapacity}) + Slack) : t <= MaxCapacity}
ensureCapacity(d, minCapacity) == {Grown(d, t) : t \in Targets(d, minCapacity)}

\* Mutant: a full deque is not grown.
RoomyAlways(d) == {d}

Roomy(d) == IF full(d) THEN ensureCapacity(d, 0) ELSE {d}

Place(d, i, e) == [d EXCEPT !.data[i] = e]
WithFront(d, e) == [Place(d, dec(d, d.head), e) EXCEPT !.head = dec(d, d.head), !.size = @ + 1]
WithBack(d, e) == [Place(d, mask(d, d.head + d.size), e) EXCEPT !.size = @ + 1]
WithoutFront(d) == [Place(d, d.head, Nothing) EXCEPT !.head = inc(d, d.head), !.size = @ - 1]
WithoutBack(d) == [Place(d, mask(d, d.head + d.size - 1), Nothing) EXCEPT !.size = @ - 1]
Cleared(d) == [d EXCEPT !.data = [i \in DOMAIN d.data |-> Nothing], !.head = 0, !.size = 0]

\* append: up to the end of the array and then from its beginning, or between
\* the suffix and the prefix.
Appended(d, s) ==
  LET remaining == capacity(d) - (d.head + d.size)
      segment == IF linear(d) THEN Min({Len(s), remaining}) ELSE Len(s)
      at(i) == IF linear(d)
               THEN (IF i <= segment THEN d.head + d.size + i - 1 ELSE i - segment - 1)
               ELSE mask(d, d.head + d.size) + i - 1
      written == [i \in {at(k) : k \in 1..Len(s)} |-> s[CHOOSE k \in 1..Len(s) : at(k) = i]]
  IN  [d EXCEPT !.data = [i \in DOMAIN d.data |-> IF i \in DOMAIN written THEN written[i] ELSE d.data[i]],
                !.size = @ + Len(s)]
AppendRoom(d, s) == IF d.size + Len(s) > capacity(d) THEN ensureCapacity(d, d.size + Len(s)) ELSE {d}

\* Mutant: the elements beyond s are not destroyed.
ShortenedKept(d, s) ==
  [FoldLeft(LAMBDA x, k : Place(x, mask(x, x.head + k - 1), s[k]), d, [k \in 1..Len(s) |-> k])
   EXCEPT !.size = Len(s)]

\* The elements are assigned s instead, and those beyond it are destroyed.
Shortened(d, s) ==
  [FoldLeft(LAMBDA x, k : Place(x, mask(x, x.head + k - 1), IF k <= Len(s) THEN s[k] ELSE Nothing),
            d, [k \in 1..d.size |-> k]) EXCEPT !.size = Len(s)]

\* The elements become the first ones of s, and the rest of s is appended.
Lengthened(d, s) == Appended(Shortened(d, SubSeq(s, 1, d.size)), SubSeq(s, d.size + 1, Len(s)))

\* Copy assignment, and move assignment from a small deque.  A deque that is too
\* small is emptied first.  If the rest ends before the array does the code reads
\* on beyond other's end, into memory that holds no element.
Assigned(d, other) ==
  LET s == Elements(other)
  IN  CASE d.size >= other.size -> {Shortened(d, s)}
        [] d.size < other.size /\ other.size <= capacity(d) -> {Lengthened(d, s)}
        [] other.size > capacity(d) -> {Appended(x, s) : x \in ensureCapacity(Cleared(d), other.size)}

-----------------------------------------------------------------------------

DequeInit ==
  /\ deque = [d \in Which |-> New] /\ content = [d \in Which |-> <<>>]

Becomes(d, new, s) ==
  /\ deque' = [deque EXCEPT ![d] = new]
  /\ content' = [content EXCEPT ![d] = s]

push_front(d, e) == \E x \in Roomy(deque[d]) : Becomes(d, WithFront(x, e), <<e>> \o content[d])
push_back(d, e) == \E x \in Roomy(deque[d]) : Becomes(d, WithBack(x, e), Append(content[d], e))
pop_front(d) == deque[d].size # 0 /\ Becomes(d, WithoutFront(deque[d]), Tail(content[d]))
pop_back(d) == deque[d].size # 0 /\ Becomes(d, WithoutBack(deque[d]), Front(content[d]))
clear_deque(d) == Becomes(d, Cleared(deque[d]), <<>>)
reserve(d, n) ==
  /\ n > capacity(deque[d])
  /\ \E x \in ensureCapacity(deque[d], n) : Becomes(d, x, content[d])
append_range(d, s) ==
  \E x \in AppendRoom(deque[d], s) : Becomes(d, Appended(x, s), content[d] \o s)
copy_assign(d, other) ==
  \E x \in Assigned(deque[d], deque[other]) : Becomes(d, x, content[other])

\* The array of a deque that is not small is taken over; of its small buffer only
\* the first place is sure to exist.  A small deque keeps its elements; it must not
\* be the shorter one, for which there is no case.
move_assign(d, other) ==
  \/ /\ ~deque[other].small
     /\ deque' = [deque EXCEPT ![d] = deque[other], ![other] = [New EXCEPT !.data = [i \in {0} |-> Nothing]]]
     /\ content' = [content EXCEPT ![d] = content[other], ![other] = <<>>]
  \/ deque[other].small /\ deque[d].size <= deque[other].size /\ copy_assign(d, other)

\* If the longer deque wraps around within the common part the code appends the
\* wrong elements; that case is left out.
swap(long, short) ==
  /\ content' = [content EXCEPT ![long] = content[short], ![short] = content[long]]
  /\ IF ~deque[long].small /\ ~deque[short].small
     THEN deque' = [deque EXCEPT ![long] = deque[short], ![short] = deque[long]]
     ELSE /\ deque[short].size <= deque[long].size
          /\ linear(deque[long]) \/ deque[long].head + deque[short].size < capacity(deque[long])
          /\ \E x \in AppendRoom(deque[short], SubSeq(content[long], deque[short].size + 1, deque[long].size)) :
               deque' = [deque EXCEPT ![long] = Shortened(deque[long], content[short]),
                                      ![short] = Lengthened(x, Elements(deque[long]))]

DequeNext ==
  \E d \in Which :
    \/ \E e \in Element : push_front(d, e) \/ push_back(d, e)
    \/ pop_front(d) \/ pop_back(d) \/ clear_deque(d)
    \/ \E n \in 1..MaxCapacity : reserve(d, n)
    \/ \E s \in {<<e, f>> : e, f \in Element} : append_range(d, s)
    \/ \E other \in Which \ {d} : copy_assign(d, other) \/ move_assign(d, other) \/ swap(d, other)

DequeTypeOK ==
  \A d \in Which :
    /\ deque[d].data \in [0..(capacity(deque[d]) - 1) -> Element \cup {Nothing}]
    /\ deque[d].size \in 0..capacity(deque[d]) /\ deque[d].head \in 0..(capacity(deque[d]) - 1)

\* A deque holds what was put into it, in order, through every growth, assignment
\* and swap, however the elements wrap around in the arrays.
HoldsContent == \A d \in Which : Elements(deque[d]) = content[d]

\* There is an object in a place of the array exactly if it is one of the
\* elements, so that destroying the prefix and the suffix destroys each once.
NoLeak ==
  \A d \in Which : LET x == deque[d] IN
    {i \in DOMAIN x.data : x.data[i] # Nothing} =
      (x.head..(prefix_end(x) - 1)) \cup (0..(suffix_end(x) - 1))
=============================================================================
