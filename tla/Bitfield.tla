------------------------------- MODULE Bitfield -------------------------------
(***************************************************************************)
(* The service days of a train, src/timetable/bitfield.cc: a range of days *)
(* [first, last] and a bitset of fixed size in which bit i stands for the  *)
(* day first + i.  Days are numbers of days, bits the set of the set bits. *)
(* All operators expect what the assertions in the code expect: that the   *)
(* range is not longer than the bitset.                                    *)
(***************************************************************************)
EXTENDS Integers

CONSTANT BITSIZE     \* the number of bits
ASSUME BitsizeAssumption == BITSIZE \in Nat \ {0}

Indices == 0..(BITSIZE - 1)

Bitfields == [first : Nat, last : Nat, bits : SUBSET Indices]

distance(d, e) == e - d

\* Every day of the range has a bit.
Fits(first, last) == distance(first, last) < BITSIZE

Least(S) == CHOOSE x \in S : \A y \in S : x <= y
Earlier(d, e) == IF d <= e THEN d ELSE e
Later(d, e)   == IF d >= e THEN d ELSE e

InRange(bf) ==
  /\ bf.first <= bf.last
  /\ Fits(bf.first, bf.last)
  /\ bf.bits \subseteq 0..distance(bf.first, bf.last)

\* bits << k, which drops the bits that leave the bitset
Shl(bits, k) == {i \in Indices : i - k \in bits}

get_set_days(bf) == {bf.first + i : i \in bf.bits}

\* The mask of a service is the set of the days it marks with a 1.
make_bitfield(first, last, mask) ==
  [first |-> first, last |-> last, bits |-> {i \in Indices : first + i \in mask}]

\* Mutants of set: the range does not grow down, or grows but the bits stay.
set_in_place(bf, day, value) ==
  [first |-> bf.first,
   last  |-> Later(day, bf.last),
   bits  |-> IF value THEN bf.bits \cup {day - bf.first}
                      ELSE bf.bits \ {day - bf.first}]

set_unshifted(bf, day, value) ==
  LET first == Earlier(day, bf.first)
  IN  [first |-> first,
       last  |-> Later(day, bf.last),
       bits  |-> IF value THEN bf.bits \cup {day - first}
                          ELSE bf.bits \ {day - first}]

\* set: the range grows to the day, at its lower end by moving all bits up.
set(bf, day, value) ==
  LET first == Earlier(day, bf.first)
      moved == Shl(bf.bits, distance(first, bf.first))
  IN  [first |-> first,
       last  |-> Later(day, bf.last),
       bits  |-> IF value THEN moved \cup {day - first} ELSE moved \ {day - first}]

\* A mutant of merge: the last day of the right side is forgotten.
merge_short(a, b) ==
  LET first == Earlier(a.first, b.first)
  IN  [first |-> first,
       last  |-> a.last,
       bits  |-> Shl(a.bits, distance(first, a.first))
                   \cup Shl(b.bits, distance(first, b.first))]

\* operator|=: the bits of the later start are moved up to the earlier one.
merge(a, b) ==
  LET first == Earlier(a.first, b.first)
  IN  [first |-> first,
       last  |-> Later(a.last, b.last),
       bits  |-> Shl(a.bits, distance(first, a.first))
                   \cup Shl(b.bits, distance(first, b.first))]

-----------------------------------------------------------------------------
(***************************************************************************)
(* Iterators are indices; get_end_idx is the end iterator.                 *)
(***************************************************************************)
get_end_idx(bf) == distance(bf.first, bf.last) + 1

\* The first set bit from index i on, or the end: the iterator built at i,
\* and for i + 1 the operator++ of the iterator at i.
SetFrom(bf, i) ==
  Least({j \in bf.bits : i <= j /\ j < get_end_idx(bf)} \cup {get_end_idx(bf)})

\* from: the first set day that is not before the day at.
from(bf, at) ==
  IF at <= bf.first THEN SetFrom(bf, 0)
  ELSE IF distance(bf.first, at) >= get_end_idx(bf) THEN get_end_idx(bf)
  ELSE SetFrom(bf, distance(bf.first, at))

\* A mutant of to: the first set day from the day at on.
to_exclusive(bf, at) ==
  IF at >= bf.last THEN get_end_idx(bf)
  ELSE IF at < bf.first THEN SetFrom(bf, 0)
  ELSE SetFrom(bf, distance(bf.first, at))

\* to: the first set day behind the day at.
to(bf, at) ==
  IF at >= bf.last THEN get_end_idx(bf)
  ELSE IF at < bf.first THEN SetFrom(bf, 0)
  ELSE SetFrom(bf, distance(bf.first, at) + 1)

\* The loop ends at the first set bit, counted from below and from above.
first_set_date(bf) == bf.first + Least(bf.bits)
last_set_date(bf) ==
  bf.first + CHOOSE i \in bf.bits : \A j \in bf.bits : j <= distance(bf.first, bf.last) => j <= i
=============================================================================
