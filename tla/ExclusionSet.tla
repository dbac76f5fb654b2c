----------------------------- MODULE ExclusionSet -----------------------------
(***************************************************************************)
(* exclusion_set, src/infrastructure/exclusion/exclusion_set.cc: a set of  *)
(* interlocking routes as a vector of bits in blocks.  Only the blocks     *)
(* from that of the first to that of the last member are kept: bit i       *)
(* stands for the route first + i, and both ends are moved by whole blocks *)
(* when members are added and removed.                                     *)
(*                                                                         *)
(* size and on are the size and the set bits of bits_, first_bit and       *)
(* last_bit are first_bit_set_ and last_bit_set_.  id_ plays no part in    *)
(* the operations and is left out.                                         *)
(***************************************************************************)
EXTENDS Integers, FiniteSets

CONSTANTS
  Names,     \* variables that hold an exclusion set
  Ids,       \* the ids of interlocking routes
  B,         \* bits_per_block
  INVALID    \* INVALID_OFFSET, the greatest value of a value_type

Down(i) == (i \div B) * B
Up(i)   == (i \div B + 1) * B - 1

ASSUME BlockAssumption == B \in Nat /\ B > 1
ASSUME IdsAssumption   == Ids \subseteq Nat
ASSUME InvalidAssumption == INVALID \in Nat /\ \A i \in Ids : Up(i) < INVALID

VARIABLE sets

vars == sets

Least(S)    == CHOOSE x \in S : \A y \in S : x <= y
Greatest(S) == CHOOSE x \in S : \A y \in S : y <= x
Smaller(a, b) == IF a <= b THEN a ELSE b
Larger(a, b)  == IF a >= b THEN a ELSE b

\* The numbers of X moved by k.
Shifted(X, k) == {i + k : i \in X}

Empty ==
  [first |-> INVALID, last |-> INVALID, first_bit |-> INVALID,
   last_bit |-> INVALID, size |-> 0, on |-> {}]

empty(s) == s = Empty

-----------------------------------------------------------------------------
(***************************************************************************)
(* The three ways to read a set.                                           *)
(***************************************************************************)
expanded_set(s) == Shifted(s.on, s.first)

contains_id(s, i) ==
  s.first_bit <= i /\ i <= s.last_bit /\ i - s.first \in s.on

\* A mutant of iterated: the iterator starts at the first bit.
iterated_front(s) ==
  IF s.size = 0 THEN {} ELSE Shifted({0} \cup s.on, s.first)

\* The iterator starts at first_bit_set_ and steps to the next set bit.
iterated(s) ==
  IF s.size = 0 THEN {}
  ELSE LET begin == s.first_bit - s.first
       IN  Shifted({begin} \cup {i \in s.on : i > begin}, s.first)

-----------------------------------------------------------------------------
(***************************************************************************)
(* Building and growing.                                                   *)
(***************************************************************************)
make_exclusion_set(S) ==
  IF S = {} THEN Empty
  ELSE LET first == Down(Least(S))
           last  == Up(Greatest(S))
       IN  [first |-> first, last |-> last, first_bit |-> Least(S),
            last_bit |-> Greatest(S), size |-> last - first + 1,
            on |-> Shifted(S, -first)]

\* A mutant of lower_first: the bits are not resized.
lower_first_unsized(s, new_first) ==
  [s EXCEPT !.first = new_first,
            !.on    = Shifted(@, s.first - new_first)]

lower_first(s, new_first) ==
  [s EXCEPT !.first = new_first,
            !.size  = @ + (s.first - new_first),
            !.on    = Shifted(@, s.first - new_first)]

increase_last(s, new_last) ==
  [s EXCEPT !.last = new_last, !.size = @ + (new_last - s.last)]

set(s, i) ==
  LET t == IF i < s.first THEN lower_first(s, Down(i))
           ELSE IF i > s.last THEN increase_last(s, Up(i))
           ELSE s
  IN  [t EXCEPT !.on        = @ \cup {i - t.first},
                !.first_bit = Smaller(i, @),
                !.last_bit  = Larger(i, @)]

-----------------------------------------------------------------------------
(***************************************************************************)
(* Union and difference of two sets that are not the same object.          *)
(***************************************************************************)
union(a, b) ==
  IF empty(b) THEN a
  ELSE LET c == IF empty(a) THEN b ELSE a
           d == IF c.first > b.first THEN lower_first(c, b.first) ELSE c
           e == IF d.last < b.last THEN increase_last(d, b.last) ELSE d
       IN  [e EXCEPT !.on        = @ \cup Shifted(b.on, b.first - e.first),
                     !.first_bit = Smaller(@, b.first_bit),
                     !.last_bit  = Larger(@, b.last_bit)]

get_first_set(s) ==
  IF s.on = {} THEN INVALID ELSE Least(s.on) + s.first

get_last_set(s) ==
  IF s.on = {} THEN INVALID ELSE Greatest(s.on) + s.first

\* A mutant of compact: only the front is compacted.
compact_front(s) ==
  LET first == Down(s.first_bit)
      moved == first - s.first
  IN  [s EXCEPT !.first = first,
                !.last  = @ + moved,
                !.on    = Shifted({i \in @ : i >= moved}, -moved)]

\* The bits move down, which leaves as many blocks too many at the back.
compact(s) ==
  LET first == Down(s.first_bit)
      moved == first - s.first
      extra == Down((s.last + moved) - s.last_bit)
      size  == s.size - extra
  IN  [s EXCEPT !.first = first,
                !.last  = @ + moved - extra,
                !.size  = size,
                !.on    = Shifted({i \in @ : moved <= i /\ i - moved < size}, -moved)]

\* A mutant of cleared: the last block of a is forgotten.
cleared_short(a, b) ==
  LET diff == a.first - b.first
  IN  {i \in a.on : i + diff \in b.on /\ i + B < a.size}

\* The bits of a that are cleared, block by block, because they are set in b.
cleared(a, b) ==
  LET smaller == a.first <= b.first
      diff    == IF smaller THEN (b.first - a.first) \div B
                            ELSE (a.first - b.first) \div B
      to      == IF smaller THEN Smaller(a.size \div B - diff, b.size \div B)
                            ELSE Smaller(a.size \div B, b.size \div B - diff)
      blocks  == 0..(to - 1)
  IN  IF smaller
      THEN Shifted({i \in b.on : i \div B \in blocks}, diff * B)
      ELSE Shifted({i \in b.on : i \div B - diff \in blocks}, -(diff * B))

\* A mutant of Disjoint: sets that only share an end pass as disjoint.
Disjoint_touching(a, b) ==
  a.last_bit <= b.first_bit \/ b.last_bit <= a.first_bit

Disjoint(a, b) == a.last_bit < b.first_bit \/ b.last_bit < a.first_bit

subtract(a, b) ==
  IF empty(a) \/ empty(b) \/ Disjoint(a, b) THEN a
  ELSE LET c     == [a EXCEPT !.on = @ \ cleared(a, b)]
           first == IF c.first_bit - c.first \in c.on THEN c.first_bit
                                                      ELSE get_first_set(c)
           last  == IF c.last_bit - c.first \in c.on THEN c.last_bit
                                                     ELSE get_last_set(c)
       IN  IF first = INVALID THEN Empty
           ELSE compact([c EXCEPT !.first_bit = first, !.last_bit = last])

-----------------------------------------------------------------------------
(***************************************************************************)
(* Comparison.  "failed" stands for an expectation that is not met.        *)
(***************************************************************************)
\* A mutant of contains_impl: the offset between the sets is ignored.
contains_impl_unaligned(a, b) == b.on \subseteq a.on

contains_impl(a, b) == Shifted(b.on, b.first - a.first) \subseteq a.on

\* a contains b, or the other way round, if their ranges allow it.
Within(a, b, yes) ==
  IF ~(a.first <= b.first /\ a.last >= b.last) THEN "failed"
  ELSE IF contains_impl(a, b) THEN yes ELSE "unordered"

SameSize(a, b) ==
  CASE a.on \subseteq b.on /\ b.on \subseteq a.on -> "equivalent"
    [] a.on \subseteq b.on /\ a.on # b.on         -> "less"
    [] b.on \subseteq a.on /\ a.on # b.on         -> "greater"
    [] OTHER                                      -> "unordered"

compare(a, b) ==
  CASE empty(a) /\ ~empty(b) -> "less"
    [] empty(b)              -> "greater"
    [] ~empty(a) /\ ~empty(b) ->
         IF a.first = b.first /\ a.last = b.last THEN SameSize(a, b)
         ELSE IF a.first_bit <= b.first_bit /\ a.last_bit >= b.last_bit
              THEN Within(a, b, "greater")
         ELSE IF a.first_bit >= b.first_bit /\ a.last_bit <= b.last_bit
              THEN Within(b, a, "less")
         ELSE "unordered"

-----------------------------------------------------------------------------
\* Every set starts as one that is built from some routes.
Init == sets \in [Names -> {make_exclusion_set(S) : S \in SUBSET Ids}]

Clear(x)           == sets' = [sets EXCEPT ![x] = Empty]
Union(z, x, y)     == sets' = [sets EXCEPT ![z] = union(sets[x], sets[y])]
Difference(z, x, y) == sets' = [sets EXCEPT ![z] = subtract(sets[x], sets[y])]

\* operator|= and operator-= notice that both sides are the same object.
UnionWith(x, y) ==
  x # y /\ sets' = [sets EXCEPT ![x] = union(@, sets[y])]

Subtract(x, y) ==
  sets' = [sets EXCEPT ![x] = IF x = y THEN Empty ELSE subtract(@, sets[y])]

\* set, without the case of an empty set: first = INVALID then counts as a
\* route behind every other, and the result is not ok.
Set(x, i) ==
  /\ ~empty(sets[x])
  /\ sets' = [sets EXCEPT ![x] = set(@, i)]

Next ==
  \/ \E x \in Names : Clear(x)
  \/ \E x \in Names, i \in Ids : Set(x, i)
  \/ \E x, y \in Names : UnionWith(x, y)
  \/ \E x, y \in Names : Subtract(x, y)
  \/ \E x, y, z \in Names : Union(z, x, y)
  \/ \E x, y, z \in Names : Difference(z, x, y)

Spec == Init /\ [][Next]_vars

-----------------------------------------------------------------------------
(***************************************************************************)
(* Types; a set that is not empty has a bit for every route from first to  *)
(* last and no other.                                                      *)
(***************************************************************************)
IsSet(s) ==
  /\ DOMAIN s = DOMAIN Empty
  /\ {s.first, s.last, s.first_bit, s.last_bit} \subseteq Nat
  /\ s.size \in Nat
  /\ s.on \subseteq 0..(s.size - 1)
  /\ s # Empty => s.size = s.last - s.first + 1

TypeOK == \A x \in Names : IsSet(sets[x])

(***************************************************************************)
(* exclusion_set::ok, which the operations assert when they are done.      *)
(***************************************************************************)
ok(s) ==
  empty(s) \/
    /\ INVALID \notin {s.first, s.last, s.first_bit, s.last_bit}
    /\ s.size > 0
    /\ s.first <= s.first_bit /\ s.last_bit <= s.last
    /\ s.first < s.last
    /\ s.first_bit <= s.first + B
    /\ s.last_bit >= s.last - (B - 1)
    /\ s.size >= (s.last_bit - s.first_bit + 1) \div B + 1
    /\ {s.first_bit - s.first, s.last_bit - s.first} \subseteq s.on
    /\ s.first_bit = get_first_set(s) /\ s.last_bit = get_last_set(s)

(***************************************************************************)
(* Whatever calls a set is the result of, ok() holds, and it is the one    *)
(* that make_exclusion_set builds from its members: the defaulted          *)
(* operator==, which compares the fields, tells whether the members are    *)
(* the same (exclusion_set.cc:7).                                          *)
(***************************************************************************)
Canonical ==
  \A x \in Names :
    ok(sets[x]) /\ sets[x] = make_exclusion_set(expanded_set(sets[x]))

(***************************************************************************)
(* compare orders the sets by inclusion and never misses its expectations, *)
(* so that contains tells whether one includes the other.  Of two empty    *)
(* sets each is greater than the other.                                    *)
(***************************************************************************)
Inclusion(S, T) ==
  CASE S = T            -> IF S = {} THEN "greater" ELSE "equivalent"
    [] S \subseteq T /\ S # T -> "less"
    [] T \subseteq S /\ S # T -> "greater"
    [] OTHER            -> "unordered"

ComparesInclusion ==
  \A x, y \in Names :
    compare(sets[x], sets[y]) =
      Inclusion(expanded_set(sets[x]), expanded_set(sets[y]))

(***************************************************************************)
(* The iterator and operator[] find the members expanded_set lists.        *)
(***************************************************************************)
ViewsAgree ==
  \A x \in Names :
    /\ iterated(sets[x]) = expanded_set(sets[x])
    /\ {i \in Ids : contains_id(sets[x], i)} = expanded_set(sets[x])

(***************************************************************************)
(* Whichever sets they are called with, operator|=, operator-= and set     *)
(* have as members the union, the difference and the set with the route.   *)
(***************************************************************************)
OperationsRight ==
  \A x, y \in Names :
    LET S == expanded_set(sets[x])
        T == expanded_set(sets[y])
    IN  /\ expanded_set(union(sets[x], sets[y])) = S \cup T
        /\ expanded_set(subtract(sets[x], sets[y])) = S \ T
        /\ \A i \in Ids :
             ~empty(sets[x]) => expanded_set(set(sets[x], i)) = S \cup {i}

\* The blocks implement plain sets of routes: no call changes another set.
Plain == INSTANCE RouteSets WITH
  members <- [x \in Names |-> expanded_set(sets[x])]

ImplementsSets == Plain!Spec
=============================================================================
