-------------------------- MODULE ExclusionSetProofs --------------------------
(***************************************************************************)
(* Theorems of ExclusionSet, for any size of the blocks and any routes.    *)
(* All of them follow from one fact: whatever calls it is the result of, a *)
(* set is the one make_exclusion_set builds from its members.              *)
(***************************************************************************)
EXTENDS ExclusionSet, BasicLemmas

Multiple(m) == \E k \in Nat : m = k * B

-----------------------------------------------------------------------------
(***************************************************************************)
(* Rounding to blocks.                                                     *)
(***************************************************************************)
\* Down(i) is the start of the block of i, Up(i) its end.
LEMMA DownFacts ==
  ASSUME NEW i \in Nat
  PROVE  /\ Down(i) \in Nat /\ Down(i) <= i /\ i < Down(i) + B
         /\ Up(i) \in Nat /\ Up(i) = Down(i) + B - 1
         /\ Multiple(Down(i))
<1>1. i \div B \in Nat /\ (i \div B) * B <= i /\ i < (i \div B) * B + B
  BY BlockAssumption
<1>2. (i \div B) * B \in Nat
  BY <1>1, BlockAssumption
<1>3. (i \div B + 1) * B = (i \div B) * B + B
  <2>1. \A q \in Nat : (q + 1) * B = q * B + B
    BY BlockAssumption
  <2> QED BY <1>1, <2>1
<1>4. Up(i) = Down(i) + B - 1
  BY <1>2, <1>3, BlockAssumption DEF Up, Down
<1>5. Multiple(Down(i))
  BY <1>1 DEF Down, Multiple
<1>6. Down(i) \in Nat /\ Down(i) <= i /\ i < Down(i) + B
  BY <1>1, <1>2 DEF Down
<1> QED BY <1>4, <1>5, <1>6, BlockAssumption

\* Products with B grow by at least B.
LEMMA BlocksApart ==
  ASSUME NEW k \in Nat, NEW q \in Nat, k < q
  PROVE  k * B \in Nat /\ q * B \in Nat /\ k * B + B <= q * B
<1>1. k + 1 <= q
  OBVIOUS
<1>2. (k + 1) * B <= q * B
  BY BlockAssumption, <1>1
<1>3. (k + 1) * B = k * B + B
  BY BlockAssumption
<1>4. k * B \in Nat /\ q * B \in Nat
  BY BlockAssumption
<1> QED BY <1>2, <1>3, <1>4, BlockAssumption

\* The start of a block is the start of the block of its routes.
LEMMA DownUnique ==
  ASSUME NEW i \in Nat, NEW m \in Nat, Multiple(m), m <= i, i < m + B
  PROVE  Down(i) = m
<1>1. PICK k \in Nat : m = k * B
  BY DEF Multiple
<1>2. PICK q \in Nat : Down(i) = q * B
  BY DownFacts DEF Multiple
<1>3. Down(i) <= i /\ i < Down(i) + B /\ Down(i) \in Nat
  BY DownFacts
<1>4. CASE k < q
  BY <1>1, <1>2, <1>3, <1>4, BlocksApart, BlockAssumption
<1>5. CASE q < k
  BY <1>1, <1>2, <1>3, <1>5, BlocksApart, BlockAssumption
<1>6. CASE k = q
  BY <1>1, <1>2, <1>6
<1> QED BY <1>4, <1>5, <1>6

\* Rounding keeps the order.
LEMMA DownMonotone ==
  ASSUME NEW i \in Nat, NEW j \in Nat, i <= j
  PROVE  Down(i) <= Down(j) /\ Up(i) <= Up(j)
<1>1. PICK k \in Nat : Down(i) = k * B
  BY DownFacts DEF Multiple
<1>2. PICK q \in Nat : Down(j) = q * B
  BY DownFacts DEF Multiple
<1>3. Down(i) <= i /\ j < Down(j) + B /\ Down(i) \in Nat /\ Down(j) \in Nat
  BY DownFacts
<1>4. CASE q < k
  BY <1>1, <1>2, <1>3, <1>4, BlocksApart, BlockAssumption
<1>5. CASE k <= q
  <2>1. k = q \/ k * B + B <= q * B
    BY <1>5, BlocksApart
  <2>2. Down(i) <= Down(j)
    BY <1>1, <1>2, <1>3, <2>1, BlockAssumption
  <2> QED BY <2>2, <1>3, DownFacts, BlockAssumption
<1> QED BY <1>4, <1>5

\* The start of a block that is not behind a route is not behind its block.
LEMMA DownBelow ==
  ASSUME NEW i \in Nat, NEW m \in Nat, Multiple(m), m <= i
  PROVE  m <= Down(i)
<1>1. Down(m) = m
  BY DownUnique, BlockAssumption
<1> QED BY <1>1, DownMonotone

\* Sums and differences of multiples.
LEMMA MultipleSum ==
  ASSUME NEW m \in Nat, NEW n \in Nat, Multiple(m), Multiple(n)
  PROVE  Multiple(m + n) /\ (m <= n => Multiple(n - m))
<1>1. PICK k \in Nat : m = k * B
  BY DEF Multiple
<1>2. PICK q \in Nat : n = q * B
  BY DEF Multiple
<1>3. m + n = (k + q) * B /\ k + q \in Nat
  BY <1>1, <1>2, BlockAssumption
<1>4. ASSUME m <= n PROVE Multiple(n - m)
  <2>1. k <= q
    <3>1. CASE q < k
      BY <3>1, <1>1, <1>2, <1>4, BlocksApart, BlockAssumption
    <3> QED BY <3>1
  <2>2. n - m = (q - k) * B /\ q - k \in Nat
    BY <1>1, <1>2, <2>1, BlockAssumption
  <2> QED BY <2>2 DEF Multiple
<1> QED BY <1>3, <1>4 DEF Multiple

LEMMA MultipleDifference ==
  ASSUME NEW m \in Nat, NEW n \in Nat, NEW d \in Nat, n = m + d,
         Multiple(m), Multiple(n)
  PROVE  Multiple(d)
<1>1. d = n - m /\ m <= n
  OBVIOUS
<1>2. m <= n => Multiple(n - m)
  BY MultipleSum
<1> QED BY <1>1, <1>2

\* Behind the end of a block starts the next one.
LEMMA UpMultiple ==
  ASSUME NEW i \in Nat
  PROVE  Multiple(Up(i) + 1)
<1>1. B = 1 * B /\ 1 \in Nat
  BY BlockAssumption
<1>2. Multiple(B)
  BY <1>1 DEF Multiple
<1>3. Down(i) \in Nat /\ Multiple(Down(i)) /\ Up(i) + 1 = Down(i) + B
  BY DownFacts, BlockAssumption
<1> QED BY <1>2, <1>3, MultipleSum, BlockAssumption

\* The last route of a block.
LEMMA UpOfLast ==
  ASSUME NEW l \in Nat, Multiple(l + 1)
  PROVE  Up(l) = l
<1>1. PICK k \in Nat : l + 1 = k * B
  BY DEF Multiple
<1>2. k # 0
  BY <1>1, BlockAssumption
<1>3. k - 1 \in Nat /\ (k - 1) * B = k * B - B /\ (k - 1) * B \in Nat
  BY <1>2, BlockAssumption
<1> DEFINE m == (k - 1) * B
<1>4. m \in Nat /\ m = l + 1 - B
  <2>1. m \in Nat /\ m = k * B - B
    BY <1>3
  <2> HIDE DEF m
  <2> QED BY <1>1, <2>1, BlockAssumption
<1>5. Multiple(m)
  BY <1>3 DEF Multiple
<1> HIDE DEF m
<1>6. Down(l) = m
  BY <1>4, <1>5, DownUnique, BlockAssumption
<1> QED BY <1>4, <1>6, DownFacts, BlockAssumption

\* The number of blocks up to a multiple, and the routes below it.
LEMMA BlockCount ==
  ASSUME NEW m \in Nat, Multiple(m)
  PROVE  /\ m \div B \in Nat /\ (m \div B) * B = m
         /\ \A j \in Nat : j \div B \in Nat /\ (j < m <=> j \div B < m \div B)
<1>1. Down(m) = m
  BY DownUnique, BlockAssumption
<1>2. m \div B \in Nat /\ (m \div B) * B = m
  BY <1>1, BlockAssumption DEF Down
<1>3. ASSUME NEW j \in Nat
      PROVE  j \div B \in Nat /\ (j < m <=> j \div B < m \div B)
  <2>1. j \div B \in Nat
    BY BlockAssumption
  <2>2. (j \div B) * B = Down(j) /\ Down(j) <= j /\ j < Down(j) + B
        /\ Down(j) \in Nat
    BY DownFacts DEF Down
  <2>3. CASE j \div B < m \div B
    BY <2>1, <2>2, <2>3, <1>2, BlocksApart, BlockAssumption
  <2>4. CASE m \div B <= j \div B
    <3>1. m <= Down(j)
      BY <2>1, <2>2, <2>4, <1>2, BlocksApart, BlockAssumption
    <3> QED BY <3>1, <2>1, <2>2, <2>4, <1>2
  <2> QED BY <2>1, <2>3, <2>4, <1>2
<1> QED BY <1>2, <1>3

-----------------------------------------------------------------------------
(***************************************************************************)
(* The fields of a set.                                                    *)
(***************************************************************************)
Fields(f, l, lo, hi, n, o) ==
  [first |-> f, last |-> l, first_bit |-> lo, last_bit |-> hi, size |-> n,
   on |-> o]

LEMMA FieldsRead ==
  ASSUME NEW f, NEW l, NEW lo, NEW hi, NEW n, NEW o
  PROVE  LET r == Fields(f, l, lo, hi, n, o) IN
         /\ r.first = f /\ r.last = l /\ r.first_bit = lo /\ r.last_bit = hi
         /\ r.size = n /\ r.on = o
BY DEF Fields

\* Fields are assigned one after the other.
WithFront(r, f, n, o)    == [r EXCEPT !.first = f, !.size = n, !.on = o]
WithLast(r, l, n)        == [r EXCEPT !.last = l, !.size = n]
WithMembers(r, o, lo, hi) ==
  [r EXCEPT !.on = o, !.first_bit = lo, !.last_bit = hi]
WithBits(r, o)           == [r EXCEPT !.on = o]
WithEnds(r, lo, hi)      == [r EXCEPT !.first_bit = lo, !.last_bit = hi]
WithBlocks(r, f, l, n, o) ==
  [r EXCEPT !.first = f, !.last = l, !.size = n, !.on = o]

LEMMA FieldsAssigned ==
  ASSUME NEW f, NEW l, NEW lo, NEW hi, NEW n, NEW o,
         NEW f1, NEW l1, NEW lo1, NEW hi1, NEW n1, NEW o1
  PROVE  /\ WithFront(Fields(f, l, lo, hi, n, o), f1, n1, o1) =
              Fields(f1, l, lo, hi, n1, o1)
         /\ WithLast(Fields(f, l, lo, hi, n, o), l1, n1) =
              Fields(f, l1, lo, hi, n1, o)
         /\ WithMembers(Fields(f, l, lo, hi, n, o), o1, lo1, hi1) =
              Fields(f, l, lo1, hi1, n, o1)
         /\ WithBits(Fields(f, l, lo, hi, n, o), o1) =
              Fields(f, l, lo, hi, n, o1)
         /\ WithEnds(Fields(f, l, lo, hi, n, o), lo1, hi1) =
              Fields(f, l, lo1, hi1, n, o)
         /\ WithBlocks(Fields(f, l, lo, hi, n, o), f1, l1, n1, o1) =
              Fields(f1, l1, lo, hi, n1, o1)
<1> DEFINE r == Fields(f, l, lo, hi, n, o)
<1>1. [r EXCEPT !.first = f1, !.size = n1, !.on = o1] =
        Fields(f1, l, lo, hi, n1, o1)
  <2>0. [r EXCEPT !.first = f1, !.size = n1, !.on = o1] =
          [[[r EXCEPT !.first = f1] EXCEPT !.size = n1] EXCEPT !.on = o1]
    OBVIOUS
  <2>1. [r EXCEPT !.first = f1] =
          Fields(f1, l, lo, hi, n, o)
    BY DEF Fields
  <2>2. [Fields(f1, l, lo, hi, n, o) EXCEPT !.size = n1] =
          Fields(f1, l, lo, hi, n1, o)
    BY DEF Fields
  <2>3. [Fields(f1, l, lo, hi, n1, o) EXCEPT !.on = o1] =
          Fields(f1, l, lo, hi, n1, o1)
    BY DEF Fields
  <2> QED BY <2>0, <2>1, <2>2, <2>3
<1>2. [r EXCEPT !.last = l1, !.size = n1] =
        Fields(f, l1, lo, hi, n1, o)
  <2>0. [r EXCEPT !.last = l1, !.size = n1] =
          [[r EXCEPT !.last = l1] EXCEPT !.size = n1]
    OBVIOUS
  <2>1. [r EXCEPT !.last = l1] =
          Fields(f, l1, lo, hi, n, o)
    BY DEF Fields
  <2>2. [Fields(f, l1, lo, hi, n, o) EXCEPT !.size = n1] =
          Fields(f, l1, lo, hi, n1, o)
    BY DEF Fields
  <2> QED BY <2>0, <2>1, <2>2
<1>3. [r EXCEPT !.on = o1, !.first_bit = lo1, !.last_bit = hi1] =
        Fields(f, l, lo1, hi1, n, o1)
  <2>0. [r EXCEPT !.on = o1, !.first_bit = lo1, !.last_bit = hi1] =
          [[[r EXCEPT !.on = o1] EXCEPT !.first_bit = lo1]
             EXCEPT !.last_bit = hi1]
    OBVIOUS
  <2>1. [r EXCEPT !.on = o1] =
          Fields(f, l, lo, hi, n, o1)
    BY DEF Fields
  <2>2. [Fields(f, l, lo, hi, n, o1) EXCEPT !.first_bit = lo1] =
          Fields(f, l, lo1, hi, n, o1)
    BY DEF Fields
  <2>3. [Fields(f, l, lo1, hi, n, o1) EXCEPT !.last_bit = hi1] =
          Fields(f, l, lo1, hi1, n, o1)
    BY DEF Fields
  <2> QED BY <2>0, <2>1, <2>2, <2>3
<1>4. [r EXCEPT !.on = o1] =
        Fields(f, l, lo, hi, n, o1)
  BY DEF Fields
<1>5. [r EXCEPT !.first_bit = lo1, !.last_bit = hi1] =
        Fields(f, l, lo1, hi1, n, o)
  <2>0. [r EXCEPT !.first_bit = lo1, !.last_bit = hi1] =
          [[r EXCEPT !.first_bit = lo1] EXCEPT !.last_bit = hi1]
    OBVIOUS
  <2>1. [r EXCEPT !.first_bit = lo1] =
          Fields(f, l, lo1, hi, n, o)
    BY DEF Fields
  <2>2. [Fields(f, l, lo1, hi, n, o) EXCEPT !.last_bit = hi1] =
          Fields(f, l, lo1, hi1, n, o)
    BY DEF Fields
  <2> QED BY <2>0, <2>1, <2>2
<1>6. [r EXCEPT !.first = f1, !.last = l1, !.size = n1, !.on = o1] =
        Fields(f1, l1, lo, hi, n1, o1)
  <2>0. [r EXCEPT !.first = f1, !.last = l1, !.size = n1, !.on = o1] =
          [[[[r EXCEPT !.first = f1] EXCEPT !.last = l1] EXCEPT !.size = n1]
             EXCEPT !.on = o1]
    OBVIOUS
  <2>1. [r EXCEPT !.first = f1] =
          Fields(f1, l, lo, hi, n, o)
    BY DEF Fields
  <2>2. [Fields(f1, l, lo, hi, n, o) EXCEPT !.last = l1] =
          Fields(f1, l1, lo, hi, n, o)
    BY DEF Fields
  <2>3. [Fields(f1, l1, lo, hi, n, o) EXCEPT !.size = n1] =
          Fields(f1, l1, lo, hi, n1, o)
    BY DEF Fields
  <2>4. [Fields(f1, l1, lo, hi, n1, o) EXCEPT !.on = o1] =
          Fields(f1, l1, lo, hi, n1, o1)
    BY DEF Fields
  <2> QED BY <2>0, <2>1, <2>2, <2>3, <2>4
<1> HIDE DEF r
<1> QED BY <1>1, <1>2, <1>3, <1>4, <1>5, <1>6
        DEF r, WithFront, WithLast, WithMembers, WithBits, WithEnds, WithBlocks

-----------------------------------------------------------------------------
(***************************************************************************)
(* make_exclusion_set.                                                     *)
(***************************************************************************)
\* The routes are numbers below INVALID.
LEMMA IdsBounded ==
  \A i \in Ids : i \in Nat /\ i < INVALID /\ i # INVALID
<1> SUFFICES ASSUME NEW i \in Ids PROVE i \in Nat /\ i < INVALID
  OBVIOUS
<1>1. i \in Nat /\ Up(i) < INVALID /\ INVALID \in Nat
  BY IdsAssumption, InvalidAssumption
<1>2. i <= Up(i) /\ Up(i) \in Nat
  BY <1>1, DownFacts, BlockAssumption
<1> QED BY <1>1, <1>2

\* A set of routes has a least and a greatest member.
LEMMA Ends ==
  ASSUME NEW S \in SUBSET Ids, S # {}
  PROVE  /\ Least(S) \in S /\ \A x \in S : Least(S) <= x
         /\ Greatest(S) \in S /\ \A x \in S : x <= Greatest(S)
<1>1. S \in SUBSET Nat /\ INVALID \in Nat /\ \A x \in S : x <= INVALID
  BY IdsBounded, InvalidAssumption
<1>2. \E x \in S : \A y \in S : x <= y
  BY <1>1, LeastNat
<1>3. \E x \in S : \A y \in S : y <= x
  BY <1>1, GreatestNat
<1> QED BY <1>2, <1>3 DEF Least, Greatest

\* ... and only one.
LEMMA EndsUnique ==
  ASSUME NEW S \in SUBSET Nat
  PROVE  /\ \A x \in S : (\A y \in S : x <= y) => Least(S) = x
         /\ \A x \in S : (\A y \in S : y <= x) => Greatest(S) = x
<1>1. ASSUME NEW x \in S, \A y \in S : x <= y PROVE Least(S) = x
  <2>1. Least(S) \in S /\ \A y \in S : Least(S) <= y
    BY <1>1 DEF Least
  <2>2. Least(S) <= x /\ x <= Least(S) /\ x \in Nat /\ Least(S) \in Nat
    BY <1>1, <2>1
  <2> QED BY <2>2
<1>2. ASSUME NEW x \in S, \A y \in S : y <= x PROVE Greatest(S) = x
  <2>1. Greatest(S) \in S /\ \A y \in S : y <= Greatest(S)
    BY <1>2 DEF Greatest
  <2>2. Greatest(S) <= x /\ x <= Greatest(S) /\ x \in Nat /\ Greatest(S) \in Nat
    BY <1>2, <2>1
  <2> QED BY <2>2
<1> QED BY <1>1, <1>2

\* The bits of the routes of S if the first bit is that of f.
Bits(S, f) == Shifted(S, -f)

\* The routes of S stored in the bits from f to l, and with the least member
\* lo and the greatest member hi in the blocks they need.
Stored(S, f, l, lo, hi) ==
  Fields(f, l, lo, hi, l - f + 1, Bits(S, f))

Built(S, lo, hi) == Stored(S, Down(lo), Up(hi), lo, hi)

IsEnds(S, lo, hi) ==
  /\ lo \in S /\ hi \in S
  /\ \A x \in S : lo <= x /\ x <= hi

LEMMA MakeBuilds ==
  ASSUME NEW S \in SUBSET Ids, NEW lo, NEW hi, IsEnds(S, lo, hi)
  PROVE  make_exclusion_set(S) = Built(S, lo, hi)
<1>1. S \in SUBSET Nat
  BY IdsBounded
<1>2. Least(S) = lo /\ Greatest(S) = hi
  BY <1>1, EndsUnique DEF IsEnds
<1>3. S # {}
  BY DEF IsEnds
<1> QED BY <1>2, <1>3 DEF make_exclusion_set, Built, Stored, Fields, Bits

LEMMA EndsExist ==
  ASSUME NEW S \in SUBSET Ids, S # {}
  PROVE  \E lo, hi \in S : IsEnds(S, lo, hi)
BY Ends DEF IsEnds

\* What is known of the numbers of a set that is built.
LEMMA BuiltFacts ==
  ASSUME NEW S \in SUBSET Ids, NEW lo \in S, NEW hi \in S, IsEnds(S, lo, hi)
  PROVE  /\ lo \in Nat /\ hi \in Nat /\ lo <= hi /\ hi < INVALID
         /\ Down(lo) \in Nat /\ Down(lo) <= lo /\ lo < Down(lo) + B
         /\ Up(hi) \in Nat /\ hi <= Up(hi) /\ Up(hi) < hi + B
         /\ Up(hi) < INVALID /\ INVALID \in Nat
         /\ \A x \in S : x \in Nat /\ Down(lo) <= x /\ x <= Up(hi)
<1>1. /\ lo \in Nat /\ hi \in Nat /\ lo <= hi /\ hi < INVALID
      /\ \A x \in S : x \in Nat /\ lo <= x /\ x <= hi
  BY IdsBounded DEF IsEnds
<1>2. Down(lo) \in Nat /\ Down(lo) <= lo /\ lo < Down(lo) + B
  BY <1>1, DownFacts
<1>3. Up(hi) \in Nat /\ hi <= Up(hi) /\ Up(hi) < hi + B
  BY <1>1, DownFacts, BlockAssumption
<1>4. Up(hi) < INVALID /\ INVALID \in Nat
  BY InvalidAssumption
<1> QED BY <1>1, <1>2, <1>3, <1>4

\* The members of the set that is built from S are S.
LEMMA MembersOfMake ==
  ASSUME NEW S \in SUBSET Ids
  PROVE  expanded_set(make_exclusion_set(S)) = S
<1>1. CASE S = {}
  BY <1>1 DEF expanded_set, make_exclusion_set, Empty, Shifted
<1>2. CASE S # {}
  <2>1. PICK lo, hi \in S : IsEnds(S, lo, hi)
    BY <1>2, EndsExist
  <2>2. make_exclusion_set(S) = Built(S, lo, hi)
    BY <2>1, MakeBuilds
  <2>3. \A i \in S : (i + (-Down(lo))) + Down(lo) = i
    BY <2>1, BuiltFacts
  <2>4. expanded_set(Built(S, lo, hi)) =
          {(i + (-Down(lo))) + Down(lo) : i \in S}
    BY DEF expanded_set, Built, Stored, Fields, Bits, Shifted
  <2> QED BY <2>2, <2>3, <2>4
<1> QED BY <1>1, <1>2

\* Only the empty set of routes is stored as the empty set.
LEMMA EmptyMake ==
  ASSUME NEW S \in SUBSET Ids
  PROVE  empty(make_exclusion_set(S)) <=> S = {}
<1>1. CASE S = {}
  BY <1>1 DEF make_exclusion_set, empty
<1>2. CASE S # {}
  <2>1. PICK lo, hi \in S : IsEnds(S, lo, hi)
    BY <1>2, EndsExist
  <2>2. make_exclusion_set(S).last_bit = hi /\ hi # INVALID
    BY <2>1, MakeBuilds, BuiltFacts DEF Built, Stored, Fields, Bits
  <2> QED BY <1>2, <2>2 DEF empty, Empty
<1> QED BY <1>1, <1>2

-----------------------------------------------------------------------------
(***************************************************************************)
(* set and union.                                                          *)
(***************************************************************************)
\* The fields of a set that is stored.
LEMMA StoredRead ==
  ASSUME NEW S, NEW f, NEW l, NEW lo, NEW hi
  PROVE  /\ Stored(S, f, l, lo, hi).first = f
         /\ Stored(S, f, l, lo, hi).last = l
         /\ Stored(S, f, l, lo, hi).first_bit = lo
         /\ Stored(S, f, l, lo, hi).last_bit = hi
         /\ Stored(S, f, l, lo, hi).size = l - f + 1
         /\ Stored(S, f, l, lo, hi).on = Bits(S, f)
BY FieldsRead DEF Stored

\* Bits that are stored from another first bit, and more bits.
LEMMA BitsShifted ==
  ASSUME NEW S \in SUBSET Nat, NEW f \in Nat, NEW m \in Nat
  PROVE  Shifted(Bits(S, f), f - m) = Bits(S, m)
<1>1. \A i \in S : (i + (-f)) + (f - m) = i + (-m)
  OBVIOUS
<1> QED BY <1>1 DEF Bits, Shifted

LEMMA BitsUnion ==
  ASSUME NEW S, NEW T, NEW f
  PROVE  Bits(S, f) \cup Bits(T, f) = Bits(S \cup T, f)
BY DEF Bits, Shifted

\* The two ends can be moved without changing the members, and routes added
\* between them.
LEMMA StoredLower ==
  ASSUME NEW S \in SUBSET Nat, NEW f \in Nat, NEW l \in Nat, NEW lo, NEW hi,
         NEW m \in Nat
  PROVE  lower_first(Stored(S, f, l, lo, hi), m) = Stored(S, m, l, lo, hi)
<1> DEFINE r == Stored(S, f, l, lo, hi)
<1>1. /\ r.first = f /\ r.size = l - f + 1 /\ r.on = Bits(S, f)
      /\ r = Fields(f, l, lo, hi, l - f + 1, Bits(S, f))
  BY StoredRead DEF Stored
<1>2. (l - f + 1) + (f - m) = l - m + 1
  OBVIOUS
<1> HIDE DEF r
<1>3. lower_first(r, m) = WithFront(r, m, l - m + 1, Bits(S, m))
  BY <1>1, <1>2, BitsShifted DEF lower_first, WithFront
<1>4. lower_first(r, m) = Fields(m, l, lo, hi, l - m + 1, Bits(S, m))
  BY <1>1, <1>3, FieldsAssigned
<1> QED BY <1>4 DEF r, Stored

LEMMA StoredIncrease ==
  ASSUME NEW S \in SUBSET Nat, NEW f \in Nat, NEW l \in Nat, NEW lo, NEW hi,
         NEW m \in Nat
  PROVE  increase_last(Stored(S, f, l, lo, hi), m) = Stored(S, f, m, lo, hi)
<1> DEFINE r == Stored(S, f, l, lo, hi)
<1>1. /\ r.last = l /\ r.size = l - f + 1
      /\ r = Fields(f, l, lo, hi, l - f + 1, Bits(S, f))
  BY StoredRead DEF Stored
<1>2. (l - f + 1) + (m - l) = m - f + 1
  OBVIOUS
<1> HIDE DEF r
<1>3. increase_last(r, m) = WithLast(r, m, m - f + 1)
  BY <1>1, <1>2 DEF increase_last, WithLast
<1>4. increase_last(r, m) = Fields(f, m, lo, hi, m - f + 1, Bits(S, f))
  BY <1>1, <1>3, FieldsAssigned
<1> QED BY <1>4 DEF r, Stored

LEMMA StoredGrown ==
  ASSUME NEW S, NEW T, NEW f, NEW l, NEW lo, NEW hi, NEW a, NEW z, NEW s,
         s = Stored(S, f, l, lo, hi)
  PROVE  WithMembers(s, s.on \cup Bits(T, f), a, z) =
           Stored(S \cup T, f, l, a, z)
<1>1. s.on = Bits(S, f) /\ s = Fields(f, l, lo, hi, l - f + 1, Bits(S, f))
  BY StoredRead DEF Stored
<1>2. s.on \cup Bits(T, f) = Bits(S \cup T, f)
  BY <1>1, BitsUnion
<1>3. WithMembers(s, Bits(S \cup T, f), a, z) =
        Fields(f, l, a, z, l - f + 1, Bits(S \cup T, f))
  BY <1>1, FieldsAssigned
<1> QED BY <1>2, <1>3 DEF Stored

\* The ends of a union are those of the parts, and so are the blocks.
LEMMA UnionEnds ==
  ASSUME NEW S \in SUBSET Ids, NEW lo \in S, NEW hi \in S, IsEnds(S, lo, hi),
         NEW T \in SUBSET Ids, NEW lp \in T, NEW hp \in T, IsEnds(T, lp, hp)
  PROVE  /\ IsEnds(S \cup T, Smaller(lo, lp), Larger(hi, hp))
         /\ Down(Smaller(lo, lp)) = Smaller(Down(lo), Down(lp))
         /\ Up(Larger(hi, hp)) = Larger(Up(hi), Up(hp))
<1>1. IsEnds(S \cup T, Smaller(lo, lp), Larger(hi, hp))
  BY IdsBounded DEF IsEnds, Smaller, Larger
<1>2. /\ lo \in Nat /\ lp \in Nat /\ hi \in Nat /\ hp \in Nat
      /\ Down(lo) \in Nat /\ Down(lp) \in Nat /\ Up(hi) \in Nat /\ Up(hp) \in Nat
  BY BuiltFacts
<1>3. Down(Smaller(lo, lp)) = Smaller(Down(lo), Down(lp))
  <2>1. CASE lo <= lp
    BY <2>1, <1>2, DownMonotone DEF Smaller
  <2>2. CASE lp < lo
    <3>1. Down(lp) <= Down(lo)
      BY <2>2, <1>2, DownMonotone
    <3> QED BY <2>2, <3>1, <1>2 DEF Smaller
  <2> QED BY <2>1, <2>2, <1>2
<1>4. Up(Larger(hi, hp)) = Larger(Up(hi), Up(hp))
  <2>1. CASE hp <= hi
    BY <2>1, <1>2, DownMonotone DEF Larger
  <2>2. CASE hi < hp
    <3>1. Up(hi) <= Up(hp)
      BY <2>2, <1>2, DownMonotone
    <3> QED BY <2>2, <3>1, <1>2 DEF Larger
  <2> QED BY <2>1, <2>2, <1>2
<1> QED BY <1>1, <1>3, <1>4

\* union of two sets that are not empty stores the union of their members.
LEMMA UnionStored ==
  ASSUME NEW S \in SUBSET Nat, NEW f \in Nat, NEW l \in Nat, NEW lo, NEW hi,
         NEW T \in SUBSET Nat, NEW g \in Nat, NEW h \in Nat, NEW lp, NEW hp,
         NEW a, a = Stored(S, f, l, lo, hi), ~empty(a),
         NEW b, b = Stored(T, g, h, lp, hp), ~empty(b)
  PROVE  union(a, b) = Stored(S \cup T, Smaller(f, g), Larger(l, h),
                              Smaller(lo, lp), Larger(hi, hp))
<1> DEFINE d == IF a.first > b.first THEN lower_first(a, b.first) ELSE a
           e == IF d.last < b.last THEN increase_last(d, b.last) ELSE d
<1>1. /\ a.first = f /\ b.first = g /\ b.last = h /\ b.on = Bits(T, g)
      /\ b.first_bit = lp /\ b.last_bit = hp
  BY StoredRead
<1>2. Smaller(f, g) \in Nat /\ Larger(l, h) \in Nat
  BY DEF Smaller, Larger
<1>3. d = Stored(S, Smaller(f, g), l, lo, hi)
  <2>1. CASE f > g
    <3>1. d = lower_first(a, g) /\ Smaller(f, g) = g
      BY <1>1, <2>1 DEF Smaller
    <3> QED BY <3>1, StoredLower
  <2>2. CASE ~(f > g)
    BY <1>1, <2>2 DEF Smaller
  <2> QED BY <2>1, <2>2
<1>4. e = Stored(S, Smaller(f, g), Larger(l, h), lo, hi)
  <2>1. d.last = l
    BY <1>3, StoredRead
  <2> HIDE DEF d
  <2>2. CASE l < h
    <3>1. e = increase_last(d, h) /\ Larger(l, h) = h
      BY <1>1, <2>1, <2>2 DEF Larger
    <3> QED BY <3>1, <1>2, <1>3, StoredIncrease
  <2>3. CASE ~(l < h)
    BY <1>1, <1>3, <2>1, <2>3 DEF Larger
  <2> QED BY <2>2, <2>3
<1>5. union(a, b) =
        [e EXCEPT !.on = @ \cup Shifted(b.on, b.first - e.first),
                  !.first_bit = Smaller(@, b.first_bit),
                  !.last_bit = Larger(@, b.last_bit)]
  BY DEF union
<1> HIDE DEF d, e
<1>6. e.first = Smaller(f, g) /\ e.first_bit = lo /\ e.last_bit = hi
  BY <1>4, StoredRead
<1>7. Shifted(b.on, b.first - e.first) = Bits(T, Smaller(f, g))
  <2>1. Shifted(Bits(T, g), g - Smaller(f, g)) = Bits(T, Smaller(f, g))
    BY <1>2, BitsShifted
  <2> QED BY <2>1, <1>1, <1>6
<1>8. union(a, b) =
        WithMembers(e, e.on \cup Bits(T, Smaller(f, g)),
                    Smaller(lo, lp), Larger(hi, hp))
  BY <1>1, <1>5, <1>6, <1>7 DEF WithMembers
<1> QED BY <1>4, <1>8, StoredGrown

\* union of two sets is the set of the union of their members.
LEMMA UnionOfMakes ==
  ASSUME NEW S \in SUBSET Ids, NEW T \in SUBSET Ids
  PROVE  union(make_exclusion_set(S), make_exclusion_set(T)) =
           make_exclusion_set(S \cup T)
<1> DEFINE a == make_exclusion_set(S)
           b == make_exclusion_set(T)
<1>1. CASE T = {}
  BY <1>1, EmptyMake DEF union
<1>2. CASE S = {} /\ T # {}
  <2>1. S \cup T = T /\ empty(a) /\ ~empty(b)
    BY <1>2, EmptyMake
  <2>2. PICK lo, hi \in T : IsEnds(T, lo, hi)
    BY <1>2, EndsExist
  <2>3. b = Stored(T, Down(lo), Up(hi), lo, hi)
    BY <2>2, MakeBuilds DEF Built
  <2>4. Down(lo) \in Nat /\ Up(hi) \in Nat /\ lo \in Nat /\ hi \in Nat
        /\ T \in SUBSET Nat
    BY <2>2, BuiltFacts
  <2> HIDE DEF a, b
  <2>5. union(a, b) = union(b, b)
    BY <2>1 DEF union
  <2>6. union(b, b) = Stored(T \cup T, Smaller(Down(lo), Down(lo)),
                             Larger(Up(hi), Up(hi)), Smaller(lo, lo),
                             Larger(hi, hi))
    BY <2>1, <2>3, <2>4, UnionStored
  <2>7. union(b, b) = b
    BY <2>3, <2>6 DEF Smaller, Larger
  <2> QED BY <2>1, <2>5, <2>7 DEF a, b
<1>3. CASE S # {} /\ T # {}
  <2>1. ~empty(a) /\ ~empty(b)
    BY <1>3, EmptyMake
  <2>2. PICK lo, hi \in S : IsEnds(S, lo, hi)
    BY <1>3, EndsExist
  <2>3. PICK lp, hp \in T : IsEnds(T, lp, hp)
    BY <1>3, EndsExist
  <2>4. /\ a = Stored(S, Down(lo), Up(hi), lo, hi)
        /\ b = Stored(T, Down(lp), Up(hp), lp, hp)
    BY <2>2, <2>3, MakeBuilds DEF Built
  <2>5. /\ Down(lo) \in Nat /\ Up(hi) \in Nat
        /\ Down(lp) \in Nat /\ Up(hp) \in Nat
        /\ S \in SUBSET Nat /\ T \in SUBSET Nat
    BY <2>2, <2>3, BuiltFacts
  <2> HIDE DEF a, b
  <2>6. union(a, b) =
          Stored(S \cup T, Smaller(Down(lo), Down(lp)), Larger(Up(hi), Up(hp)),
                 Smaller(lo, lp), Larger(hi, hp))
    BY <2>1, <2>4, <2>5, UnionStored
  <2>7. make_exclusion_set(S \cup T) =
          Stored(S \cup T, Smaller(Down(lo), Down(lp)), Larger(Up(hi), Up(hp)),
                 Smaller(lo, lp), Larger(hi, hp))
    <3>1. /\ IsEnds(S \cup T, Smaller(lo, lp), Larger(hi, hp))
          /\ Down(Smaller(lo, lp)) = Smaller(Down(lo), Down(lp))
          /\ Up(Larger(hi, hp)) = Larger(Up(hi), Up(hp))
      BY <2>2, <2>3, UnionEnds
    <3>2. S \cup T \in SUBSET Ids
      OBVIOUS
    <3>3. make_exclusion_set(S \cup T) =
            Built(S \cup T, Smaller(lo, lp), Larger(hi, hp))
      BY <3>1, <3>2, MakeBuilds
    <3> QED BY <3>1, <3>3 DEF Built
  <2> QED BY <2>6, <2>7 DEF a, b
<1> QED BY <1>1, <1>2, <1>3

\* A route is in one of the blocks that are kept, or they are extended to it.
LEMMA EndBlocks ==
  ASSUME NEW lo \in Nat, NEW hi \in Nat, lo <= hi, NEW i \in Nat
  PROVE  /\ Down(Smaller(i, lo)) = IF i < Down(lo) THEN Down(i) ELSE Down(lo)
         /\ Up(Larger(i, hi)) = IF i > Up(hi) THEN Up(i) ELSE Up(hi)
<1>1. /\ Down(lo) \in Nat /\ Down(lo) <= lo /\ lo < Down(lo) + B
      /\ Multiple(Down(lo))
      /\ Down(hi) \in Nat /\ Up(hi) = Down(hi) + B - 1 /\ Multiple(Down(hi))
      /\ Down(hi) <= hi /\ hi < Down(hi) + B
      /\ Up(i) = Down(i) + B - 1
  BY DownFacts
<1>2. Down(Smaller(i, lo)) = IF i < Down(lo) THEN Down(i) ELSE Down(lo)
  <2>1. CASE lo <= i
    BY <1>1, <2>1 DEF Smaller
  <2>2. CASE i < Down(lo)
    BY <1>1, <2>2 DEF Smaller
  <2>3. CASE i < lo /\ Down(lo) <= i
    <3>1. Down(i) = Down(lo)
      BY <1>1, <2>3, DownUnique, BlockAssumption
    <3> QED BY <1>1, <2>3, <3>1 DEF Smaller
  <2> QED BY <1>1, <2>1, <2>2, <2>3
<1>3. Up(Larger(i, hi)) = IF i > Up(hi) THEN Up(i) ELSE Up(hi)
  <2>1. hi <= Up(hi) /\ Up(hi) \in Nat
    BY <1>1, BlockAssumption
  <2>2. CASE i <= hi
    BY <2>1, <2>2 DEF Larger
  <2>3. CASE i > Up(hi)
    BY <2>1, <2>3 DEF Larger
  <2>4. CASE hi < i /\ i <= Up(hi)
    <3>1. Down(i) = Down(hi)
      BY <1>1, <2>4, DownUnique, BlockAssumption
    <3>2. Up(i) = Up(hi)
      BY <1>1, <3>1
    <3> QED BY <2>1, <2>4, <3>2 DEF Larger
  <2> QED BY <2>1, <2>2, <2>3, <2>4
<1> QED BY <1>2, <1>3

\* set adds a route to a set that is not empty.
LEMMA SetOfMake ==
  ASSUME NEW S \in SUBSET Ids, S # {}, NEW i \in Ids
  PROVE  set(make_exclusion_set(S), i) = make_exclusion_set(S \cup {i})
<1>1. PICK lo, hi \in S : IsEnds(S, lo, hi)
  BY EndsExist
<1> DEFINE s == make_exclusion_set(S)
           f == Down(Smaller(i, lo))
           l == Up(Larger(i, hi))
           t == IF i < s.first THEN lower_first(s, Down(i))
                ELSE IF i > s.last THEN increase_last(s, Up(i))
                ELSE s
<1>2. s = Stored(S, Down(lo), Up(hi), lo, hi)
  BY <1>1, MakeBuilds DEF Built
<1>3. /\ Down(lo) \in Nat /\ Up(hi) \in Nat /\ lo \in Nat /\ hi \in Nat
      /\ lo <= hi /\ S \in SUBSET Nat /\ Down(lo) <= Up(hi)
  BY <1>1, BuiltFacts
<1>4. i \in Nat /\ Down(i) \in Nat /\ Up(i) \in Nat
  BY IdsBounded, DownFacts
<1>5. /\ f = IF i < Down(lo) THEN Down(i) ELSE Down(lo)
      /\ l = IF i > Up(hi) THEN Up(i) ELSE Up(hi)
  BY <1>3, <1>4, EndBlocks
<1> HIDE DEF s, f, l
<1>6. t = Stored(S, f, l, lo, hi)
  <2>1. s.first = Down(lo) /\ s.last = Up(hi)
    BY <1>2, StoredRead
  <2>2. CASE i < Down(lo)
    <3>1. t = lower_first(s, Down(i)) /\ f = Down(i) /\ l = Up(hi)
      BY <1>3, <1>4, <1>5, <2>1, <2>2
    <3> HIDE DEF t
    <3> QED BY <1>2, <1>3, <1>4, <3>1, StoredLower
  <2>3. CASE i > Up(hi)
    <3>1. t = increase_last(s, Up(i)) /\ l = Up(i) /\ f = Down(lo)
      BY <1>3, <1>4, <1>5, <2>1, <2>3
    <3> HIDE DEF t
    <3> QED BY <1>2, <1>3, <1>4, <3>1, StoredIncrease
  <2>4. CASE ~(i < Down(lo)) /\ ~(i > Up(hi))
    BY <1>2, <1>5, <2>1, <2>4
  <2> QED BY <2>2, <2>3, <2>4
<1>7. set(s, i) =
        WithMembers(t, t.on \cup {i - t.first}, Smaller(i, t.first_bit),
                    Larger(i, t.last_bit))
  BY DEF set, WithMembers
<1> HIDE DEF t
<1>8. /\ t.first = f /\ t.first_bit = lo /\ t.last_bit = hi
      /\ {i - t.first} = Bits({i}, f)
  <2>1. t.first = f /\ t.first_bit = lo /\ t.last_bit = hi
    BY <1>6, StoredRead
  <2>2. f \in Nat
    BY <1>3, <1>4, <1>5
  <2>3. Bits({i}, f) = {i - f}
    BY <1>4, <2>2 DEF Bits, Shifted
  <2> QED BY <2>1, <2>3
<1>9. set(s, i) = WithMembers(t, t.on \cup Bits({i}, f), Smaller(i, lo),
                              Larger(i, hi))
  BY <1>7, <1>8
<1>10. set(s, i) = Stored(S \cup {i}, f, l, Smaller(i, lo), Larger(i, hi))
  BY <1>6, <1>9, StoredGrown
<1>11. IsEnds(S \cup {i}, Smaller(i, lo), Larger(i, hi))
  BY <1>1, IdsBounded DEF IsEnds, Smaller, Larger
<1>12. make_exclusion_set(S \cup {i}) =
         Built(S \cup {i}, Smaller(i, lo), Larger(i, hi))
  <2>1. S \cup {i} \in SUBSET Ids
    OBVIOUS
  <2> QED BY <2>1, <1>11, MakeBuilds
<1> QED BY <1>10, <1>12 DEF s, f, l, Built

-----------------------------------------------------------------------------
(***************************************************************************)
(* compact and subtract.                                                   *)
(***************************************************************************)
\* Moving by whole blocks changes the block of a bit by their number.
LEMMA BlocksMoved ==
  ASSUME NEW j \in Nat, NEW m \in Nat, Multiple(m), m <= j
  PROVE  (j - m) \div B = j \div B - m \div B
<1>1. Down(j) \in Nat /\ Down(j) <= j /\ j < Down(j) + B /\ Multiple(Down(j))
  BY DownFacts
<1>2. m <= Down(j)
  BY DownBelow
<1>3. Down(j - m) = Down(j) - m
  <2>1. Multiple(Down(j) - m) /\ Down(j) - m \in Nat
    <3> DEFINE d == Down(j) - m
    <3>1. d \in Nat /\ Down(j) = m + d
      BY <1>1, <1>2
    <3> HIDE DEF d
    <3>2. Multiple(d)
      BY <1>1, <3>1, MultipleDifference
    <3> QED BY <3>1, <3>2 DEF d
  <2> QED BY <1>1, <2>1, DownUnique, BlockAssumption
<1> DEFINE p == (j - m) \div B
           q == j \div B
           r == m \div B
<1>4. p \in Nat /\ q \in Nat /\ r \in Nat
  BY BlockAssumption
<1>5. p * B = Down(j) - m /\ q * B = Down(j) /\ r * B = m
  BY <1>3, BlockCount DEF Down
<1> HIDE DEF p, q, r
<1>6. (p + r) * B = p * B + r * B
  BY <1>4, BlockAssumption
<1>7. (p + r) * B = q * B
  BY <1>1, <1>5, <1>6
<1>8. p + r = q
  <2>1. CASE p + r < q
    BY <2>1, <1>4, <1>7, BlocksApart, BlockAssumption
  <2>2. CASE q < p + r
    BY <2>2, <1>4, <1>7, BlocksApart, BlockAssumption
  <2> QED BY <2>1, <2>2, <1>4
<1>9. p = q - r
  BY <1>4, <1>8
<1> QED BY <1>9 DEF p, q, r

\* compact leaves the blocks from that of the first to that of the last route.
LEMMA CompactBuilds ==
  ASSUME NEW R \in SUBSET Ids, NEW lo \in R, NEW hi \in R, IsEnds(R, lo, hi),
         NEW f \in Nat, Multiple(f), f <= lo,
         NEW l \in Nat, Multiple(l + 1), hi <= l,
         NEW s, s = Stored(R, f, l, lo, hi)
  PROVE  compact(s) = Built(R, lo, hi)
<1> DEFINE first == Down(lo)
           moved == first - f
           extra == Down((l + moved) - hi)
<1>1. /\ lo \in Nat /\ hi \in Nat /\ lo <= hi /\ Down(lo) \in Nat
      /\ Down(lo) <= lo /\ Up(hi) \in Nat /\ hi <= Up(hi) /\ Up(hi) < hi + B
      /\ \A x \in R : x \in Nat /\ Down(lo) <= x /\ x <= Up(hi)
  BY BuiltFacts
<1>2. f <= Down(lo) /\ moved \in Nat /\ Multiple(moved)
  <2>1. f <= Down(lo) /\ Multiple(Down(lo))
    BY <1>1, DownBelow, DownFacts
  <2>2. moved \in Nat /\ Down(lo) = f + moved
    BY <1>1, <2>1
  <2> HIDE DEF moved
  <2> QED BY <1>1, <2>1, <2>2, MultipleDifference
<1>3. extra = l + moved - Up(hi)
  <2>2. Multiple(Up(hi) + 1)
    BY <1>1, UpMultiple
  <2>3. Multiple(l + 1 + moved)
    BY <1>2, MultipleSum
  <2>4. Up(hi) + 1 <= l + 1 + moved
    <3>4. Up(hi) <= Up(l)
      BY <1>1, DownMonotone
    <3>5. Up(l) = l
      BY UpOfLast
    <3> QED BY <1>1, <1>2, <3>4, <3>5
  <2>5. Multiple((l + 1 + moved) - (Up(hi) + 1))
        /\ (l + 1 + moved) - (Up(hi) + 1) \in Nat
    <3> DEFINE m == Up(hi) + 1
               n == l + 1 + moved
               d == n - m
    <3>1. m \in Nat /\ n \in Nat /\ d \in Nat /\ n = m + d
      BY <1>1, <1>2, <2>4
    <3> HIDE DEF m, n, d
    <3>2. Multiple(d)
      BY <3>1, <2>2, <2>3, MultipleDifference DEF m, n
    <3> QED BY <3>1, <3>2 DEF m, n, d
  <2>6. (l + 1 + moved) - (Up(hi) + 1) = (l + moved) - Up(hi)
    BY <1>1, <1>2
  <2>7. (l + moved) - hi \in Nat
        /\ (l + moved) - Up(hi) <= (l + moved) - hi
        /\ (l + moved) - hi < ((l + moved) - Up(hi)) + B
    BY <1>1, <1>2, BlockAssumption
  <2> DEFINE n == (l + moved) - hi
             m == (l + moved) - Up(hi)
  <2>8. n \in Nat /\ m \in Nat /\ Multiple(m) /\ m <= n /\ n < m + B
    BY <2>5, <2>6, <2>7
  <2> HIDE DEF n, m
  <2>9. Down(n) = m
    BY <2>8, DownUnique
  <2>10. extra = Down(n)
    BY DEF n
  <2> HIDE DEF extra, moved
  <2> QED BY <1>1, <1>2, <2>9, <2>10 DEF m
<1>4. /\ s.first = f /\ s.last = l /\ s.first_bit = lo /\ s.last_bit = hi
      /\ s.size = l - f + 1 /\ s.on = Bits(R, f)
      /\ s = Fields(f, l, lo, hi, l - f + 1, Bits(R, f))
  BY StoredRead DEF Stored
<1>5. /\ s.size - extra = Up(hi) - Down(lo) + 1
      /\ s.last + moved - extra = Up(hi)
  BY <1>1, <1>2, <1>3, <1>4
<1>6. {i \in Bits(R, f) : moved <= i /\ i - moved < Up(hi) - Down(lo) + 1} =
        Bits(R, f)
  <2>1. \A x \in R : /\ moved <= x + (-f)
                    /\ (x + (-f)) - moved < Up(hi) - Down(lo) + 1
    BY <1>1, <1>2
  <2> QED BY <2>1 DEF Bits, Shifted
<1>7. Shifted(Bits(R, f), -moved) = Bits(R, Down(lo))
  <2>1. -moved = f - Down(lo) /\ R \in SUBSET Nat
    BY <1>1
  <2> QED BY <1>1, <2>1, BitsShifted
<1>8. compact(s) =
        WithBlocks(s, first, s.last + moved - extra, s.size - extra,
                   Shifted({i \in s.on : /\ moved <= i
                                         /\ i - moved < s.size - extra},
                           -moved))
  BY <1>4 DEF compact, WithBlocks
<1> HIDE DEF moved, extra
<1>9. compact(s) =
        WithBlocks(s, Down(lo), Up(hi), Up(hi) - Down(lo) + 1, Bits(R, Down(lo)))
  BY <1>4, <1>5, <1>6, <1>7, <1>8
<1> QED BY <1>4, <1>9, FieldsAssigned DEF Built, Stored

\* The first and the last bit that are set are those of the ends.
LEMMA BitsEnds ==
  ASSUME NEW R \in SUBSET Nat, NEW lo \in R, NEW hi \in R,
         IsEnds(R, lo, hi), NEW f \in Nat, f <= lo
  PROVE  /\ Bits(R, f) # {}
         /\ Least(Bits(R, f)) + f = lo /\ Greatest(Bits(R, f)) + f = hi
<1>1. /\ lo \in Nat /\ hi \in Nat /\ lo \in R /\ hi \in R
      /\ \A x \in R : x \in Nat /\ lo <= x /\ x <= hi
  BY DEF IsEnds
<1>2. Bits(R, f) \in SUBSET Nat /\ lo - f \in Bits(R, f) /\ hi - f \in Bits(R, f)
  BY <1>1 DEF Bits, Shifted
<1>3. \A y \in Bits(R, f) : lo - f <= y /\ y <= hi - f
  BY <1>1 DEF Bits, Shifted
<1> DEFINE on == Bits(R, f)
           a  == lo - f
           z  == hi - f
<1>4. on \in SUBSET Nat /\ a \in on /\ z \in on
      /\ \A y \in on : a <= y /\ y <= z
  BY <1>2, <1>3
<1> HIDE DEF on, a, z
<1>5. Least(on) = a /\ Greatest(on) = z
  BY <1>4, EndsUnique
<1> QED BY <1>1, <1>4, <1>5 DEF on, a, z

\* The overlapping blocks of two sets have the bits of their common routes.
LEMMA ClearedCommon ==
  ASSUME NEW S \in SUBSET Nat, NEW f \in Nat, NEW l \in Nat, NEW lo, NEW hi,
         Multiple(f), Multiple(l + 1), f <= l, \A x \in S : f <= x /\ x <= l,
         NEW T \in SUBSET Nat, NEW g \in Nat, NEW h \in Nat, NEW lp, NEW hp,
         Multiple(g), Multiple(h + 1), g <= h, \A x \in T : g <= x /\ x <= h,
         NEW a, a = Stored(S, f, l, lo, hi),
         NEW b, b = Stored(T, g, h, lp, hp)
  PROVE  \A x \in S : x + (-f) \in cleared(a, b) <=> x \in T
<1>1. /\ a.first = f /\ a.size = l - f + 1
      /\ b.first = g /\ b.size = h - g + 1 /\ b.on = Bits(T, g)
  BY StoredRead
<1>2. /\ l - f + 1 \in Nat /\ Multiple(l - f + 1)
      /\ h - g + 1 \in Nat /\ Multiple(h - g + 1)
  <2>1. l - f + 1 \in Nat /\ l + 1 = f + (l - f + 1)
        /\ h - g + 1 \in Nat /\ h + 1 = g + (h - g + 1)
    OBVIOUS
  <2>2. l + 1 \in Nat /\ h + 1 \in Nat
    OBVIOUS
  <2> QED BY <2>1, <2>2, MultipleDifference
<1> DEFINE m == (l - f + 1) \div B
           n == (h - g + 1) \div B
<1>3. /\ m \in Nat /\ \A j \in Nat : j < l - f + 1 <=> j \div B < m
      /\ n \in Nat /\ \A j \in Nat : j < h - g + 1 <=> j \div B < n
  BY <1>2, BlockCount
<1>4. \A j \in Nat : j \div B \in Nat
  BY BlockAssumption
<1> HIDE DEF m, n
<1>5. CASE f <= g
  <2> DEFINE k == g - f
             diff == k \div B
  <2>1. k \in Nat /\ Multiple(k)
    <3>1. k \in Nat /\ g = f + k
      BY <1>5
    <3> HIDE DEF k
    <3> QED BY <3>1, MultipleDifference
  <2>2. diff \in Nat /\ diff * B = k
    BY <2>1, BlockCount
  <2> HIDE DEF diff
  <2>3. cleared(a, b) =
          Shifted({i \in Bits(T, g) :
                     i \div B \in 0..(Smaller(m - diff, n) - 1)}, k)
    BY <1>1, <1>5, <2>2 DEF cleared, m, n, diff
  <2>4. ASSUME NEW x \in S, x + (-f) \in cleared(a, b) PROVE x \in T
    <3>1. PICK y \in T : x + (-f) = (y + (-g)) + k
      BY <2>3, <2>4 DEF Bits, Shifted
    <3>2. x = y
      BY <3>1
    <3> QED BY <3>2
  <2>5. ASSUME NEW x \in S, x \in T PROVE x + (-f) \in cleared(a, b)
    <3> DEFINE j == x + (-g)
    <3>1. /\ j \in Nat /\ j < h - g + 1 /\ j + k = x + (-f)
          /\ j + k \in Nat /\ j + k < l - f + 1 /\ k <= j + k
      BY <2>1, <2>5
    <3>2. j \in Bits(T, g)
      BY <2>5 DEF Bits, Shifted
    <3> HIDE DEF j, k
    <3>3. ((j + k) - k) \div B = (j + k) \div B - diff
      BY <2>1, <3>1, BlocksMoved DEF diff
    <3>4. (j + k) - k = j
      BY <2>1, <3>1
    <3>5. j \div B \in Nat /\ j \div B < n /\ (j + k) \div B \in Nat
          /\ (j + k) \div B < m
      BY <1>3, <1>4, <3>1
    <3>6. j \div B \in 0..(Smaller(m - diff, n) - 1)
      BY <1>3, <2>2, <3>3, <3>4, <3>5 DEF Smaller
    <3> QED BY <2>3, <3>1, <3>2, <3>6 DEF Shifted
  <2> QED BY <2>4, <2>5
<1>6. CASE g < f
  <2> DEFINE k == f - g
             diff == k \div B
  <2>1. k \in Nat /\ Multiple(k)
    <3>1. k \in Nat /\ f = g + k
      BY <1>6
    <3> HIDE DEF k
    <3> QED BY <3>1, MultipleDifference
  <2>2. diff \in Nat /\ diff * B = k
    BY <2>1, BlockCount
  <2> HIDE DEF diff
  <2>3. cleared(a, b) =
          Shifted({i \in Bits(T, g) :
                     i \div B - diff \in 0..(Smaller(m, n - diff) - 1)}, -k)
    BY <1>1, <1>6, <2>2 DEF cleared, m, n, diff
  <2>4. ASSUME NEW x \in S, x + (-f) \in cleared(a, b) PROVE x \in T
    <3>1. PICK y \in T : x + (-f) = (y + (-g)) + (-k)
      BY <2>3, <2>4 DEF Bits, Shifted
    <3>2. x = y
      BY <3>1
    <3> QED BY <3>2
  <2>5. ASSUME NEW x \in S, x \in T PROVE x + (-f) \in cleared(a, b)
    <3> DEFINE j == x + (-g)
    <3>1. /\ j \in Nat /\ j < h - g + 1 /\ j + (-k) = x + (-f)
          /\ j - k \in Nat /\ j - k < l - f + 1 /\ k <= j
      BY <2>1, <2>5
    <3>2. j \in Bits(T, g)
      BY <2>5 DEF Bits, Shifted
    <3> HIDE DEF j, k
    <3>3. (j - k) \div B = j \div B - diff
      BY <2>1, <3>1, BlocksMoved DEF diff
    <3>4. j \div B \in Nat /\ j \div B < n /\ (j - k) \div B \in Nat
          /\ (j - k) \div B < m
      BY <1>3, <1>4, <3>1
    <3>5. j \div B - diff \in 0..(Smaller(m, n - diff) - 1)
      BY <1>3, <2>2, <3>3, <3>4 DEF Smaller
    <3> QED BY <2>3, <3>1, <3>2, <3>5 DEF Shifted
  <2> QED BY <2>4, <2>5
<1> QED BY <1>5, <1>6

\* subtract of two sets is the set of the members of the one that are not
\* members of the other.
LEMMA SubtractOfMakes ==
  ASSUME NEW S \in SUBSET Ids, NEW T \in SUBSET Ids
  PROVE  subtract(make_exclusion_set(S), make_exclusion_set(T)) =
           make_exclusion_set(S \ T)
<1> DEFINE a == make_exclusion_set(S)
           b == make_exclusion_set(T)
           R == S \ T
<1>1. CASE S = {} \/ T = {}
  <2>1. empty(a) \/ empty(b)
    BY <1>1, EmptyMake
  <2>2. R = S
    BY <1>1
  <2> HIDE DEF a, b, R
  <2>3. subtract(a, b) = a
    BY <2>1 DEF subtract
  <2> QED BY <2>2, <2>3 DEF a, b, R
<1>2. CASE S # {} /\ T # {}
  <2>1. ~empty(a) /\ ~empty(b)
    BY <1>2, EmptyMake
  <2>2. PICK lo, hi \in S : IsEnds(S, lo, hi)
    BY <1>2, EndsExist
  <2>3. PICK lp, hp \in T : IsEnds(T, lp, hp)
    BY <1>2, EndsExist
  <2> DEFINE f == Down(lo)
             l == Up(hi)
             g == Down(lp)
             h == Up(hp)
  <2>4. /\ a = Stored(S, f, l, lo, hi)
        /\ b = Stored(T, g, h, lp, hp)
    BY <2>2, <2>3, MakeBuilds DEF Built
  <2>5. /\ f \in Nat /\ l \in Nat /\ f <= lo /\ f <= l
        /\ lo \in Nat /\ hi \in Nat /\ lo <= hi
        /\ S \in SUBSET Nat /\ \A x \in S : f <= x /\ x <= l
    BY <2>2, BuiltFacts
  <2>6. /\ g \in Nat /\ h \in Nat /\ g <= h
        /\ T \in SUBSET Nat /\ \A x \in T : g <= x /\ x <= h
        /\ lp \in Nat /\ hp \in Nat
    BY <2>3, BuiltFacts
  <2>7. Multiple(f) /\ Multiple(l + 1) /\ Multiple(g) /\ Multiple(h + 1)
    BY <2>5, <2>6, DownFacts, UpMultiple
  <2>8. R \in SUBSET Ids /\ R \in SUBSET Nat
    BY IdsBounded
  <2>9. /\ a.first_bit = lo /\ a.last_bit = hi /\ a.first = f
        /\ b.first_bit = lp /\ b.last_bit = hp
        /\ a = Fields(f, l, lo, hi, l - f + 1, Bits(S, f))
        /\ a.on = Bits(S, f)
    BY <2>4, StoredRead DEF Stored
  <2> HIDE DEF a, b, f, l, g, h
  <2>10. CASE Disjoint(a, b)
    <3>1. hi < lp \/ hp < lo
      BY <2>9, <2>10 DEF Disjoint
    <3>2. R = S
      <4>1. ASSUME NEW x \in S, x \in T PROVE FALSE
        <5>1. lo <= x /\ x <= hi /\ lp <= x /\ x <= hp /\ x \in Nat
          BY <2>2, <2>3, <2>5, <4>1 DEF IsEnds
        <5> QED BY <2>5, <2>6, <3>1, <5>1
      <4> QED BY <4>1
    <3>3. subtract(a, b) = a
      BY <2>10 DEF subtract
    <3> HIDE DEF R
    <3> QED BY <3>2, <3>3 DEF R, a, b
  <2>11. CASE ~Disjoint(a, b)
    <3> DEFINE c == [a EXCEPT !.on = @ \ cleared(a, b)]
               first == IF c.first_bit - c.first \in c.on THEN c.first_bit
                                                          ELSE get_first_set(c)
               last  == IF c.last_bit - c.first \in c.on THEN c.last_bit
                                                         ELSE get_last_set(c)
    <3>1. subtract(a, b) =
            IF first = INVALID THEN Empty
            ELSE compact(WithEnds(c, first, last))
      BY <2>1, <2>11 DEF subtract, WithEnds
    <3>2. c = Stored(R, f, l, lo, hi)
      <4>1. \A x \in S : x + (-f) \in cleared(a, b) <=> x \in T
        BY <2>4, <2>5, <2>6, <2>7, ClearedCommon
      <4>2. a.on \ cleared(a, b) = Bits(R, f)
        <5> DEFINE X == cleared(a, b)
        <5>1. \A x \in S : x + (-f) \in X <=> x \in T
          BY <4>1
        <5> HIDE DEF X
        <5>2. Bits(S, f) \ X = Bits(S \ T, f)
          BY <5>1 DEF Bits, Shifted
        <5> QED BY <2>9, <5>2 DEF X
      <4>3. c = WithBits(a, Bits(R, f))
        BY <4>2 DEF WithBits
      <4> HIDE DEF c, R
      <4> QED BY <2>9, <4>3, FieldsAssigned DEF Stored
    <3>3. /\ c.first_bit = lo /\ c.last_bit = hi /\ c.first = f
          /\ c.on = Bits(R, f)
          /\ c = Fields(f, l, lo, hi, l - f + 1, Bits(R, f))
      <4> HIDE DEF c, R, first, last
      <4> QED BY <3>2, StoredRead DEF Stored
    <3> HIDE DEF c
    <3>4. CASE R = {}
      <4>1. c.on = {}
        BY <3>3, <3>4 DEF Bits, Shifted
      <4>2. first = INVALID
        BY <4>1 DEF get_first_set
      <4> HIDE DEF R
      <4> QED BY <3>1, <3>4, <4>2 DEF make_exclusion_set, a, b, R
    <3>5. CASE R # {}
      <4>1. PICK lr, hr \in R : IsEnds(R, lr, hr)
        BY <2>8, <3>5, EndsExist
      <4>2. /\ lr \in Nat /\ hr \in Nat /\ lr # INVALID
            /\ lo <= lr /\ f <= lr /\ hr <= hi /\ hr <= l
        BY <2>2, <2>5, IdsBounded DEF IsEnds
      <4>3. /\ Bits(R, f) # {} /\ Least(Bits(R, f)) + f = lr
            /\ Greatest(Bits(R, f)) + f = hr
        <5> HIDE DEF R, first, last
        <5> QED BY <2>5, <2>8, <4>1, <4>2, BitsEnds
      <4>4. first = lr
        <5>1. CASE lo - f \in Bits(R, f)
          <6>1. lo \in R
            BY <2>5, <5>1 DEF Bits, Shifted
          <6>2. lr = lo
            BY <2>5, <4>1, <4>2, <6>1 DEF IsEnds
          <6> QED BY <3>3, <5>1, <6>2
        <5>2. CASE lo - f \notin Bits(R, f)
          BY <3>3, <4>3, <5>2 DEF get_first_set
        <5> QED BY <5>1, <5>2
      <4>5. last = hr
        <5>1. CASE hi - f \in Bits(R, f)
          <6>1. hi \in R
            BY <2>5, <5>1 DEF Bits, Shifted
          <6>2. hr = hi
            BY <2>5, <4>1, <4>2, <6>1 DEF IsEnds
          <6> QED BY <3>3, <5>1, <6>2
        <5>2. CASE hi - f \notin Bits(R, f)
          BY <3>3, <4>3, <5>2 DEF get_last_set
        <5> QED BY <5>1, <5>2
      <4> HIDE DEF first, last, R
      <4>6. WithEnds(c, lr, hr) = Stored(R, f, l, lr, hr)
        BY <3>3, FieldsAssigned DEF Stored
      <4>7. compact(Stored(R, f, l, lr, hr)) = Built(R, lr, hr)
        BY <2>5, <2>7, <2>8, <4>1, <4>2, CompactBuilds
      <4>8. subtract(a, b) = Built(R, lr, hr)
        BY <3>1, <4>2, <4>4, <4>5, <4>6, <4>7
      <4>9. make_exclusion_set(R) = Built(R, lr, hr)
        BY <2>8, <4>1, MakeBuilds
      <4> QED BY <4>8, <4>9 DEF a, b, R
    <3> QED BY <3>4, <3>5
  <2> QED BY <2>10, <2>11
<1> QED BY <1>1, <1>2

-----------------------------------------------------------------------------
(***************************************************************************)
(* The invariant: every set is one make_exclusion_set could have built.    *)
(***************************************************************************)
Made == {make_exclusion_set(S) : S \in SUBSET Ids}

IInv == sets \in [Names -> Made]

\* The operations take sets that could have been built to such sets, and
\* their members are those they should be.
LEMMA OperationsOnMade ==
  ASSUME NEW a \in Made, NEW b \in Made
  PROVE  /\ expanded_set(a) \in SUBSET Ids
         /\ a = make_exclusion_set(expanded_set(a))
         /\ union(a, b) \in Made
         /\ expanded_set(union(a, b)) = expanded_set(a) \cup expanded_set(b)
         /\ subtract(a, b) \in Made
         /\ expanded_set(subtract(a, b)) = expanded_set(a) \ expanded_set(b)
         /\ \A i \in Ids : ~empty(a) =>
              /\ set(a, i) \in Made
              /\ expanded_set(set(a, i)) = expanded_set(a) \cup {i}
<1>1. PICK S \in SUBSET Ids : a = make_exclusion_set(S)
  BY DEF Made
<1>2. PICK T \in SUBSET Ids : b = make_exclusion_set(T)
  BY DEF Made
<1>3. expanded_set(a) = S /\ expanded_set(b) = T
  BY <1>1, <1>2, MembersOfMake
<1>4. union(a, b) = make_exclusion_set(S \cup T)
  BY <1>1, <1>2, UnionOfMakes
<1>5. subtract(a, b) = make_exclusion_set(S \ T)
  BY <1>1, <1>2, SubtractOfMakes
<1>6. S \cup T \in SUBSET Ids /\ S \ T \in SUBSET Ids
  OBVIOUS
<1>7. /\ union(a, b) \in Made /\ expanded_set(union(a, b)) = S \cup T
      /\ subtract(a, b) \in Made /\ expanded_set(subtract(a, b)) = S \ T
  BY <1>4, <1>5, <1>6, MembersOfMake DEF Made
<1>8. ASSUME NEW i \in Ids, ~empty(a)
      PROVE  set(a, i) \in Made /\ expanded_set(set(a, i)) = S \cup {i}
  <2>1. S # {}
    BY <1>1, <1>8, EmptyMake
  <2>2. set(a, i) = make_exclusion_set(S \cup {i}) /\ S \cup {i} \in SUBSET Ids
    BY <1>1, <2>1, SetOfMake
  <2> QED BY <2>2, MembersOfMake DEF Made
<1> QED BY <1>1, <1>3, <1>7, <1>8

\* The empty set is built from no routes.
LEMMA EmptyIsMade ==
  Empty \in Made /\ expanded_set(Empty) = {}
<1>1. make_exclusion_set({}) = Empty
  BY DEF make_exclusion_set
<1>2. {} \in SUBSET Ids
  OBVIOUS
<1> QED BY <1>1, <1>2, MembersOfMake DEF Made

\* Each step stores a set that could have been built, and the members of the
\* variables change as those of the plain sets do.
LEMMA StepAssigns ==
  ASSUME IInv, Next
  PROVE  \E z \in Names, s \in Made :
           /\ sets' = [sets EXCEPT ![z] = s]
           /\ \E x, y \in Names :
                \/ z = x /\ expanded_set(s) = {}
                \/ \E i \in Ids :
                     /\ z = x
                     /\ expanded_set(s) = expanded_set(sets[x]) \cup {i}
                \/ expanded_set(s) =
                     expanded_set(sets[x]) \ expanded_set(sets[y])
                \/ expanded_set(s) =
                     expanded_set(sets[x]) \cup expanded_set(sets[y])
<1>1. \A x \in Names : sets[x] \in Made
  BY DEF IInv
<1>2. CASE \E x \in Names : Clear(x)
  <2>1. PICK z \in Names : Clear(z)
    BY <1>2
  <2> QED BY <2>1, EmptyIsMade DEF Clear
<1>3. CASE \E x \in Names, i \in Ids : Set(x, i)
  <2>1. PICK z \in Names, i \in Ids : Set(z, i)
    BY <1>3
  <2>2. /\ set(sets[z], i) \in Made
        /\ expanded_set(set(sets[z], i)) = expanded_set(sets[z]) \cup {i}
        /\ sets' = [sets EXCEPT ![z] = set(sets[z], i)]
    BY <1>1, <2>1, OperationsOnMade DEF Set
  <2> QED BY <2>2
<1>4. CASE \E x, y \in Names : UnionWith(x, y)
  <2>1. PICK x \in Names, y \in Names : UnionWith(x, y)
    BY <1>4
  <2>2. /\ union(sets[x], sets[y]) \in Made
        /\ expanded_set(union(sets[x], sets[y])) =
             expanded_set(sets[x]) \cup expanded_set(sets[y])
        /\ sets' = [sets EXCEPT ![x] = union(sets[x], sets[y])]
    BY <1>1, <2>1, OperationsOnMade DEF UnionWith
  <2> QED BY <2>2
<1>5. CASE \E x, y \in Names : Subtract(x, y)
  <2>1. PICK x \in Names, y \in Names : Subtract(x, y)
    BY <1>5
  <2>2. CASE x = y
    <3>1. sets' = [sets EXCEPT ![x] = Empty]
      BY <2>1, <2>2 DEF Subtract
    <3> QED BY <3>1, EmptyIsMade
  <2>3. CASE x # y
    <3>1. /\ subtract(sets[x], sets[y]) \in Made
          /\ expanded_set(subtract(sets[x], sets[y])) =
               expanded_set(sets[x]) \ expanded_set(sets[y])
          /\ sets' = [sets EXCEPT ![x] = subtract(sets[x], sets[y])]
      BY <1>1, <2>1, <2>3, OperationsOnMade DEF Subtract
    <3> QED BY <3>1
  <2> QED BY <2>2, <2>3
<1>6. CASE \E x, y, z \in Names : Union(z, x, y)
  <2>1. PICK x \in Names, y \in Names, z \in Names : Union(z, x, y)
    BY <1>6
  <2>2. /\ union(sets[x], sets[y]) \in Made
        /\ expanded_set(union(sets[x], sets[y])) =
             expanded_set(sets[x]) \cup expanded_set(sets[y])
        /\ sets' = [sets EXCEPT ![z] = union(sets[x], sets[y])]
    BY <1>1, <2>1, OperationsOnMade DEF Union
  <2> QED BY <2>2
<1>7. CASE \E x, y, z \in Names : Difference(z, x, y)
  <2>1. PICK x \in Names, y \in Names, z \in Names : Difference(z, x, y)
    BY <1>7
  <2>2. /\ subtract(sets[x], sets[y]) \in Made
        /\ expanded_set(subtract(sets[x], sets[y])) =
             expanded_set(sets[x]) \ expanded_set(sets[y])
        /\ sets' = [sets EXCEPT ![z] = subtract(sets[x], sets[y])]
    BY <1>1, <2>1, OperationsOnMade DEF Difference
  <2> QED BY <2>2
<1> QED BY <1>2, <1>3, <1>4, <1>5, <1>6, <1>7 DEF Next

\* Every reachable set is the one make_exclusion_set builds from some routes.
THEOREM MadeAlways == Spec => []IInv
<1>1. Init => IInv
  BY DEF Init, IInv, Made
<1>2. IInv /\ [Next]_vars => IInv'
  <2> SUFFICES ASSUME IInv, [Next]_vars PROVE IInv'
    OBVIOUS
  <2>1. CASE Next
    <3>1. PICK z \in Names, s \in Made : sets' = [sets EXCEPT ![z] = s]
      BY <2>1, StepAssigns
    <3> QED BY <3>1 DEF IInv
  <2>2. CASE UNCHANGED vars
    BY <2>2 DEF IInv, vars
  <2> QED BY <2>1, <2>2
<1> QED BY <1>1, <1>2, PTL DEF Spec

\* exclusion_set::ok holds for what make_exclusion_set builds.
LEMMA MadeOk ==
  ASSUME NEW S \in SUBSET Ids
  PROVE  ok(make_exclusion_set(S))
<1>1. CASE S = {}
  BY <1>1, EmptyMake DEF ok
<1>2. CASE S # {}
  <2>1. PICK lo, hi \in S : IsEnds(S, lo, hi)
    BY <1>2, EndsExist
  <2> DEFINE s == make_exclusion_set(S)
             f == Down(lo)
             l == Up(hi)
             k == hi - lo + 1
             q == k \div B
  <2>2. s = Stored(S, f, l, lo, hi)
    BY <2>1, MakeBuilds DEF Built
  <2>3. /\ f \in Nat /\ l \in Nat /\ lo \in Nat /\ hi \in Nat /\ lo <= hi
        /\ f <= lo /\ lo < f + B /\ hi <= l /\ l < hi + B
        /\ hi < INVALID /\ l < INVALID /\ INVALID \in Nat
        /\ S \in SUBSET Nat
    BY <2>1, BuiltFacts
  <2>4. f < l
    <3>1. Down(lo) <= Down(hi) /\ Down(hi) \in Nat /\ Up(hi) = Down(hi) + B - 1
      BY <2>3, DownFacts, DownMonotone
    <3> QED BY <2>3, <3>1, BlockAssumption
  <2>5. q \in Nat /\ q + q <= k
    <3>1. Down(k) = q * B /\ Down(k) <= k /\ k \in Nat
      BY <2>3, DownFacts DEF Down
    <3>2. q \in Nat
      BY <3>1, BlockAssumption
    <3> HIDE DEF q, k
    <3>3. q + q <= q * B /\ q * B \in Nat
      BY <3>2, BlockAssumption
    <3> QED BY <3>1, <3>2, <3>3
  <2>6. l - f + 1 >= q + 1
    <3>1. k \in Nat /\ k <= l - f + 1 /\ 1 <= l - f + 1
      BY <2>3, <2>4
    <3> HIDE DEF q, k, f, l
    <3> QED BY <2>3, <2>5, <3>1
  <2>7. /\ Bits(S, f) # {} /\ Least(Bits(S, f)) + f = lo
        /\ Greatest(Bits(S, f)) + f = hi
    <3> HIDE DEF f
    <3> QED BY <2>1, <2>3, BitsEnds
  <2>8. {lo - f, hi - f} \subseteq Bits(S, f)
    BY <2>1, <2>3 DEF IsEnds, Bits, Shifted
  <2> HIDE DEF s, f, l
  <2>9. /\ s.first = f /\ s.last = l /\ s.first_bit = lo /\ s.last_bit = hi
        /\ s.size = l - f + 1 /\ s.on = Bits(S, f)
    BY <2>2, StoredRead
  <2>10. get_first_set(s) = lo /\ get_last_set(s) = hi
    BY <2>7, <2>9 DEF get_first_set, get_last_set
  <2>11. INVALID \notin {s.first, s.last, s.first_bit, s.last_bit}
    BY <2>3, <2>4, <2>9
  <2>12. /\ s.size > 0 /\ s.first <= s.first_bit /\ s.last_bit <= s.last
         /\ s.first < s.last /\ s.first_bit <= s.first + B
         /\ s.last_bit >= s.last - (B - 1)
    BY <2>3, <2>4, <2>9, BlockAssumption
  <2>13. s.size >= (s.last_bit - s.first_bit + 1) \div B + 1
    BY <2>6, <2>9
  <2> QED BY <2>8, <2>9, <2>10, <2>11, <2>12, <2>13 DEF ok, s
<1> QED BY <1>1, <1>2

\* ok() holds after every operation, and a set is the one that is built from
\* its members, so that the comparison of the fields compares the members
\* (exclusion_set.cc:7).
THEOREM AlwaysCanonical == Spec => []Canonical
<1>1. IInv => Canonical
  BY OperationsOnMade, MadeOk DEF IInv, Made, Canonical
<1> QED BY <1>1, MadeAlways, PTL

\* The fields have their types, and there is a bit for every route from first
\* to last.
THEOREM TypeCorrect == Spec => []TypeOK
<1>1. ASSUME NEW S \in SUBSET Ids PROVE IsSet(make_exclusion_set(S))
  <2>1. CASE S = {}
    <3>1. make_exclusion_set(S) = Empty
      BY <2>1 DEF make_exclusion_set
    <3> QED BY <3>1, InvalidAssumption DEF IsSet, Empty
  <2>2. CASE S # {}
    <3>1. PICK lo, hi \in S : IsEnds(S, lo, hi)
      BY <2>2, EndsExist
    <3> DEFINE s == make_exclusion_set(S)
               f == Down(lo)
               l == Up(hi)
    <3>2. s = Stored(S, f, l, lo, hi)
      BY <3>1, MakeBuilds DEF Built
    <3>3. /\ f \in Nat /\ l \in Nat /\ lo \in Nat /\ hi \in Nat /\ lo <= hi
          /\ f <= lo /\ hi <= l
          /\ \A x \in S : x \in Nat /\ f <= x /\ x <= l
      BY <3>1, BuiltFacts
    <3>4. DOMAIN s = DOMAIN Empty
      BY <3>2 DEF Stored, Fields, Empty
    <3>5. Bits(S, f) \subseteq 0..((l - f + 1) - 1)
      BY <3>3 DEF Bits, Shifted
    <3> HIDE DEF s, f, l
    <3>6. /\ s.first = f /\ s.last = l /\ s.first_bit = lo /\ s.last_bit = hi
          /\ s.size = l - f + 1 /\ s.on = Bits(S, f)
      BY <3>2, StoredRead
    <3>7. l - f + 1 \in Nat
      BY <3>3
    <3> QED BY <3>3, <3>4, <3>5, <3>6, <3>7 DEF IsSet, s
  <2> QED BY <2>1, <2>2
<1>2. IInv => TypeOK
  BY <1>1 DEF IInv, Made, TypeOK
<1> QED BY <1>2, MadeAlways, PTL

\* The iterator and operator[] find the members of the set.
THEOREM ViewsAlwaysAgree == Spec => []ViewsAgree
<1>1. ASSUME NEW S \in SUBSET Ids
      PROVE  LET s == make_exclusion_set(S) IN
             iterated(s) = S /\ {i \in Ids : contains_id(s, i)} = S
  <2>1. CASE S = {}
    <3>1. make_exclusion_set(S) = Empty
      BY <2>1 DEF make_exclusion_set
    <3>2. Empty.size = 0 /\ Empty.first_bit = INVALID
      BY DEF Empty
    <3>3. \A i \in Ids : ~(INVALID <= i)
      BY IdsBounded, InvalidAssumption
    <3> QED BY <2>1, <3>1, <3>2, <3>3 DEF iterated, contains_id
  <2>2. CASE S # {}
    <3>1. PICK lo, hi \in S : IsEnds(S, lo, hi)
      BY <2>2, EndsExist
    <3> DEFINE s == make_exclusion_set(S)
               f == Down(lo)
               l == Up(hi)
    <3>2. s = Stored(S, f, l, lo, hi)
      BY <3>1, MakeBuilds DEF Built
    <3>3. /\ f \in Nat /\ l \in Nat /\ lo \in Nat /\ hi \in Nat /\ lo <= hi
          /\ f <= lo /\ hi <= l
          /\ \A x \in S : x \in Nat /\ lo <= x /\ x <= hi
      <4>1. \A x \in S : lo <= x /\ x <= hi
        BY <3>1 DEF IsEnds
      <4> QED BY <3>1, <4>1, BuiltFacts
    <3> HIDE DEF s, f, l
    <3>4. /\ s.first = f /\ s.first_bit = lo /\ s.last_bit = hi
          /\ s.size = l - f + 1 /\ s.on = Bits(S, f)
      BY <3>2, StoredRead
    <3>5. {lo - f} \cup {i \in Bits(S, f) : i > lo - f} = Bits(S, f)
      <4>1. \A x \in S : x + (-f) = lo - f \/ x + (-f) > lo - f
        BY <3>3
      <4>2. lo - f \in Bits(S, f)
        BY <3>1, <3>3 DEF Bits, Shifted
      <4> QED BY <4>1, <4>2 DEF Bits, Shifted
    <3>6. Shifted(Bits(S, f), f) = S
      <4>1. \A x \in S : (x + (-f)) + f = x
        BY <3>3
      <4> QED BY <4>1 DEF Bits, Shifted
    <3>7. iterated(s) = S
      <4>1. s.size # 0
        BY <3>3, <3>4
      <4> QED BY <3>4, <3>5, <3>6, <4>1 DEF iterated
    <3>8. ASSUME NEW i \in Ids PROVE contains_id(s, i) <=> i \in S
      <4>1. i \in Nat
        BY IdsBounded
      <4>2. i - f \in Bits(S, f) <=> i \in S
        BY <3>3, <4>1 DEF Bits, Shifted
      <4> QED BY <3>3, <3>4, <4>2 DEF contains_id
    <3>9. {i \in Ids : contains_id(s, i)} = S
      BY <3>8
    <3> QED BY <3>7, <3>9 DEF s
  <2> QED BY <2>1, <2>2
<1>2. IInv => ViewsAgree
  <2> SUFFICES ASSUME IInv, NEW x \in Names
               PROVE  /\ iterated(sets[x]) = expanded_set(sets[x])
                      /\ {i \in Ids : contains_id(sets[x], i)} =
                           expanded_set(sets[x])
    BY DEF ViewsAgree
  <2>1. PICK S \in SUBSET Ids : sets[x] = make_exclusion_set(S)
    BY DEF IInv, Made
  <2> QED BY <1>1, <2>1, MembersOfMake
<1> QED BY <1>2, MadeAlways, PTL

\* The operations compute union, difference and insertion.
THEOREM OperationsAlwaysRight == Spec => []OperationsRight
<1>1. IInv => OperationsRight
  BY OperationsOnMade DEF IInv, OperationsRight
<1> QED BY <1>1, MadeAlways, PTL

\* The exclusion sets behave as plain sets of routes.
THEOREM Implements == Spec => ImplementsSets
<1>1. Init => Plain!Init
  <2> SUFFICES ASSUME Init PROVE Plain!Init
    OBVIOUS
  <2>1. \A x \in Names : expanded_set(sets[x]) \in SUBSET Ids
    BY OperationsOnMade DEF Init, Made
  <2> QED BY <2>1 DEF Plain!Init
<1>2. IInv /\ [Next]_vars =>
        [Plain!Next]_([x \in Names |-> expanded_set(sets[x])])
  <2> SUFFICES ASSUME IInv, [Next]_vars
               PROVE  [Plain!Next]_([x \in Names |-> expanded_set(sets[x])])
    OBVIOUS
  <2>1. CASE Next
    <3>1. PICK z \in Names, s \in Made :
            /\ sets' = [sets EXCEPT ![z] = s]
            /\ \E x, y \in Names :
                 \/ z = x /\ expanded_set(s) = {}
                 \/ \E i \in Ids :
                      /\ z = x
                      /\ expanded_set(s) = expanded_set(sets[x]) \cup {i}
                 \/ expanded_set(s) =
                      expanded_set(sets[x]) \ expanded_set(sets[y])
                 \/ expanded_set(s) =
                      expanded_set(sets[x]) \cup expanded_set(sets[y])
      BY <2>1, StepAssigns
    <3> DEFINE members == [x \in Names |-> expanded_set(sets[x])]
    <3>2. [x \in Names |-> expanded_set(sets'[x])] =
            [members EXCEPT ![z] = expanded_set(s)]
      BY <3>1 DEF IInv
    <3>3. \A S : expanded_set(s) = S => Plain!Assign(z, S)
      BY <3>2 DEF Plain!Assign
    <3>4. \A x \in Names : members[x] = expanded_set(sets[x])
      OBVIOUS
    <3> HIDE DEF members
    <3>5. Plain!Next
      BY <3>1, <3>3, <3>4 DEF Plain!Next, members
    <3> QED BY <3>5
  <2>2. CASE UNCHANGED vars
    BY <2>2 DEF vars
  <2> QED BY <2>1, <2>2
<1> QED BY <1>1, <1>2, MadeAlways, PTL DEF Spec, ImplementsSets, Plain!Spec

-----------------------------------------------------------------------------
(***************************************************************************)
(* compare.                                                                *)
(***************************************************************************)
\* The bits of two sets from the same first bit compare as the sets do.
LEMMA BitsCompare ==
  ASSUME NEW S \in SUBSET Nat, NEW T \in SUBSET Nat, NEW f \in Nat
  PROVE  Bits(S, f) \subseteq Bits(T, f) <=> S \subseteq T
<1>1. ASSUME Bits(S, f) \subseteq Bits(T, f), NEW x \in S PROVE x \in T
  <2>1. x + (-f) \in Bits(T, f)
    BY <1>1 DEF Bits, Shifted
  <2>2. PICK y \in T : y + (-f) = x + (-f)
    BY <2>1 DEF Bits, Shifted
  <2>3. x = y
    BY <2>2
  <2> QED BY <2>3
<1>2. ASSUME S \subseteq T PROVE Bits(S, f) \subseteq Bits(T, f)
  BY <1>2 DEF Bits, Shifted
<1> QED BY <1>1, <1>2

\* A set within the ends of another one, with other blocks, is no superset,
\* and contains_impl tells whether it is a subset.
LEMMA WithinBlocks ==
  ASSUME NEW S \in SUBSET Ids, NEW lo \in S, NEW hi \in S, IsEnds(S, lo, hi),
         NEW T \in SUBSET Ids, NEW lp \in T, NEW hp \in T, IsEnds(T, lp, hp),
         lo <= lp, hp <= hi,
         ~(Down(lo) = Down(lp) /\ Up(hi) = Up(hp)), NEW yes,
         NEW a, a = Built(S, lo, hi), NEW b, b = Built(T, lp, hp)
  PROVE  /\ ~(S \subseteq T)
         /\ Within(a, b, yes) = IF T \subseteq S THEN yes ELSE "unordered"
<1>1. /\ Down(lo) \in Nat /\ Up(hi) \in Nat /\ lo \in Nat /\ hi \in Nat
      /\ S \in SUBSET Nat
  BY BuiltFacts
<1>2. /\ Down(lp) \in Nat /\ Up(hp) \in Nat /\ lp \in Nat /\ hp \in Nat
      /\ T \in SUBSET Nat
  BY BuiltFacts
<1>3. ~(S \subseteq T)
  <2> SUFFICES ASSUME S \subseteq T PROVE FALSE
    OBVIOUS
  <2>1. lp <= lo /\ hi <= hp
    BY DEF IsEnds
  <2>2. lp = lo /\ hi = hp
    BY <1>1, <1>2, <2>1
  <2> QED BY <2>2
<1>4. Down(lo) <= Down(lp) /\ Up(hp) <= Up(hi)
  BY <1>1, <1>2, DownMonotone
<1>5. /\ a.first = Down(lo) /\ a.last = Up(hi) /\ a.on = Bits(S, Down(lo))
      /\ b.first = Down(lp) /\ b.last = Up(hp) /\ b.on = Bits(T, Down(lp))
  BY StoredRead DEF Built
<1>6. Shifted(b.on, b.first - a.first) = Bits(T, Down(lo))
  <2>1. Shifted(Bits(T, Down(lp)), Down(lp) - Down(lo)) = Bits(T, Down(lo))
    BY <1>1, <1>2, BitsShifted
  <2> QED BY <2>1, <1>5
<1>7. contains_impl(a, b) <=> T \subseteq S
  <2>1. Bits(T, Down(lo)) \subseteq Bits(S, Down(lo)) <=> T \subseteq S
    BY <1>1, <1>2, BitsCompare
  <2> QED BY <2>1, <1>5, <1>6 DEF contains_impl
<1>8. a.first <= b.first /\ a.last >= b.last
  BY <1>1, <1>2, <1>4, <1>5
<1> QED BY <1>3, <1>7, <1>8 DEF Within

\* compare orders the sets by inclusion.
LEMMA CompareOfMakes ==
  ASSUME NEW S \in SUBSET Ids, NEW T \in SUBSET Ids
  PROVE  compare(make_exclusion_set(S), make_exclusion_set(T)) =
           Inclusion(S, T)
<1> DEFINE a == make_exclusion_set(S)
           b == make_exclusion_set(T)
<1>1. CASE T = {}
  <2>1. empty(b)
    BY <1>1, EmptyMake
  <2> HIDE DEF a, b
  <2>2. compare(a, b) = "greater"
    BY <2>1 DEF compare
  <2>3. Inclusion(S, T) = "greater"
    BY <1>1 DEF Inclusion
  <2> QED BY <2>2, <2>3 DEF a, b
<1>2. CASE S = {} /\ T # {}
  <2>1. empty(a) /\ ~empty(b)
    BY <1>2, EmptyMake
  <2> HIDE DEF a, b
  <2>2. compare(a, b) = "less"
    BY <2>1 DEF compare
  <2>3. Inclusion(S, T) = "less"
    BY <1>2 DEF Inclusion
  <2> QED BY <2>2, <2>3 DEF a, b
<1>3. CASE S # {} /\ T # {}
  <2>1. ~empty(a) /\ ~empty(b)
    BY <1>3, EmptyMake
  <2>2. PICK lo, hi \in S : IsEnds(S, lo, hi)
    BY <1>3, EndsExist
  <2>3. PICK lp, hp \in T : IsEnds(T, lp, hp)
    BY <1>3, EndsExist
  <2>4. a = Built(S, lo, hi) /\ b = Built(T, lp, hp)
    BY <2>2, <2>3, MakeBuilds
  <2> SUFFICES compare(a, b) = Inclusion(S, T)
    OBVIOUS
  <2> HIDE DEF a, b
  <2>5. /\ a.first = Down(lo) /\ a.last = Up(hi) /\ a.on = Bits(S, Down(lo))
        /\ a.first_bit = lo /\ a.last_bit = hi
        /\ b.first = Down(lp) /\ b.last = Up(hp) /\ b.on = Bits(T, Down(lp))
        /\ b.first_bit = lp /\ b.last_bit = hp
    BY <2>4, StoredRead DEF Built
  <2>6. /\ lo \in Nat /\ hi \in Nat /\ lp \in Nat /\ hp \in Nat
        /\ Down(lo) \in Nat /\ S \in SUBSET Nat /\ T \in SUBSET Nat
    BY <2>2, <2>3, BuiltFacts
  <2>7. compare(a, b) =
          IF a.first = b.first /\ a.last = b.last THEN SameSize(a, b)
          ELSE IF a.first_bit <= b.first_bit /\ a.last_bit >= b.last_bit
               THEN Within(a, b, "greater")
          ELSE IF a.first_bit >= b.first_bit /\ a.last_bit <= b.last_bit
               THEN Within(b, a, "less")
          ELSE "unordered"
    BY <2>1 DEF compare
  <2>8. CASE Down(lo) = Down(lp) /\ Up(hi) = Up(hp)
    <3>1. compare(a, b) = SameSize(a, b)
      BY <2>5, <2>7, <2>8
    <3>2. /\ a.on \subseteq b.on <=> S \subseteq T
          /\ b.on \subseteq a.on <=> T \subseteq S
      BY <2>5, <2>6, <2>8, BitsCompare
    <3>3. CASE S = T
      BY <1>3, <3>1, <3>2, <3>3 DEF SameSize, Inclusion
    <3>4. CASE S \subseteq T /\ S # T
      BY <3>1, <3>2, <3>4 DEF SameSize, Inclusion
    <3>5. CASE T \subseteq S /\ S # T
      BY <3>1, <3>2, <3>5 DEF SameSize, Inclusion
    <3>6. CASE ~(S \subseteq T) /\ ~(T \subseteq S)
      BY <3>1, <3>2, <3>6 DEF SameSize, Inclusion
    <3> QED BY <3>3, <3>4, <3>5, <3>6
  <2>9. CASE ~(Down(lo) = Down(lp) /\ Up(hi) = Up(hp))
    <3>1. CASE lo <= lp /\ hp <= hi
      <4>1. compare(a, b) = Within(a, b, "greater")
        BY <2>5, <2>6, <2>7, <2>9, <3>1
      <4>2. /\ ~(S \subseteq T)
            /\ Within(a, b, "greater") =
                 IF T \subseteq S THEN "greater" ELSE "unordered"
        BY <2>2, <2>3, <2>4, <2>9, <3>1, WithinBlocks
      <4>3. S # T
        BY <4>2
      <4> QED BY <4>1, <4>2, <4>3 DEF Inclusion
    <3>2. CASE ~(lo <= lp /\ hp <= hi) /\ lp <= lo /\ hi <= hp
      <4>1. compare(a, b) = Within(b, a, "less")
        BY <2>5, <2>6, <2>7, <2>9, <3>2
      <4>2. /\ ~(T \subseteq S)
            /\ Within(b, a, "less") =
                 IF S \subseteq T THEN "less" ELSE "unordered"
        BY <2>2, <2>3, <2>4, <2>9, <3>2, WithinBlocks
      <4>3. S # T
        BY <4>2
      <4> QED BY <4>1, <4>2, <4>3 DEF Inclusion
    <3>3. CASE ~(lo <= lp /\ hp <= hi) /\ ~(lp <= lo /\ hi <= hp)
      <4>1. compare(a, b) = "unordered"
        BY <2>5, <2>6, <2>7, <2>9, <3>3
      <4>2. ~(S \subseteq T) /\ ~(T \subseteq S)
        BY <2>2, <2>3, <3>3 DEF IsEnds
      <4>3. S # T
        BY <4>2
      <4> QED BY <4>1, <4>2, <4>3 DEF Inclusion
    <3> QED BY <3>1, <3>2, <3>3
  <2> QED BY <2>8, <2>9
<1> QED BY <1>1, <1>2, <1>3

\* compare meets its expectations and tells which set includes the other.
THEOREM ComparesByInclusion == Spec => []ComparesInclusion
<1>1. IInv => ComparesInclusion
  <2> SUFFICES ASSUME IInv, NEW x \in Names, NEW y \in Names
               PROVE  compare(sets[x], sets[y]) =
                        Inclusion(expanded_set(sets[x]), expanded_set(sets[y]))
    BY DEF ComparesInclusion
  <2>1. PICK S \in SUBSET Ids : sets[x] = make_exclusion_set(S)
    BY DEF IInv, Made
  <2>2. PICK T \in SUBSET Ids : sets[y] = make_exclusion_set(T)
    BY DEF IInv, Made
  <2>3. expanded_set(sets[x]) = S /\ expanded_set(sets[y]) = T
    BY <2>1, <2>2, MembersOfMake
  <2> QED BY <2>1, <2>2, <2>3, CompareOfMakes
<1> QED BY <1>1, MadeAlways, PTL
=============================================================================
