-------------------------- MODULE ServiceDaysProofs --------------------------
(***************************************************************************)
(* Theorems of Bitfield and ServiceDays, for any size of the bitset, any   *)
(* services and any intervals: the bitfield and its iterators implement    *)
(* ServiceCalendar.                                                        *)
(***************************************************************************)
EXTENDS ServiceDays, FiniteSetTheorems, BasicLemmas

\* Least returns the least member of a non-empty set of naturals.
LEMMA LeastIsLeast ==
  ASSUME NEW S \in SUBSET Nat, S # {}
  PROVE  Least(S) \in S /\ \A y \in S : Least(S) <= y
BY LeastNat DEF Least

-----------------------------------------------------------------------------
(***************************************************************************)
(* The bitfield represents a set of days.                                  *)
(***************************************************************************)
LEMMA MakeDays ==
  ASSUME NEW first \in Nat, NEW last \in Nat, first <= last, Fits(first, last),
         NEW mask \in SUBSET (first..last)
  PROVE  LET b == make_bitfield(first, last, mask)
         IN  b \in Bitfields /\ InRange(b) /\ get_set_days(b) = mask
<1> DEFINE b == make_bitfield(first, last, mask)
<1>1. b \in Bitfields
  BY DEF make_bitfield, Bitfields
<1>2. InRange(b)
  BY BitsizeAssumption DEF make_bitfield, InRange, Fits, distance, Indices
<1>3. ASSUME NEW d \in mask PROVE d \in get_set_days(b)
  <2>1. d - first \in Indices /\ first + (d - first) = d
    BY BitsizeAssumption DEF Fits, distance, Indices
  <2> QED BY <2>1 DEF make_bitfield, get_set_days
<1>4. get_set_days(b) \subseteq mask
  BY DEF make_bitfield, get_set_days
<1> QED BY <1>1, <1>2, <1>3, <1>4

\* Moving the bits up keeps the days if none is moved out of the bitset.
LEMMA ShiftedDays ==
  ASSUME NEW b \in Bitfields, InRange(b), NEW low \in Nat, low <= b.first,
         Fits(low, b.last)
  PROVE  LET moved == Shl(b.bits, distance(low, b.first))
         IN  /\ moved \subseteq 0..(b.last - low)
             /\ {low + i : i \in moved} = get_set_days(b)
<1> DEFINE moved == Shl(b.bits, distance(low, b.first))
<1>0. b.first \in Nat /\ b.last \in Nat
  BY DEF Bitfields
<1>1. moved \subseteq 0..(b.last - low)
  BY <1>0, BitsizeAssumption DEF Shl, distance, Indices, InRange
<1>2. ASSUME NEW i \in moved PROVE low + i \in get_set_days(b)
  <2>1. i - (b.first - low) \in b.bits /\ i \in Nat
    BY <1>0, BitsizeAssumption DEF Shl, distance, Indices
  <2>2. low + i = b.first + (i - (b.first - low))
    BY <1>0, <2>1
  <2> QED BY <2>1, <2>2 DEF get_set_days
<1>3. ASSUME NEW d \in get_set_days(b) PROVE \E i \in moved : d = low + i
  <2>1. PICK j \in b.bits : d = b.first + j
    BY DEF get_set_days
  <2>2. j \in Nat /\ b.first + j <= b.last
    BY <1>0 DEF InRange, distance
  <2>3. j + (b.first - low) \in Indices
    BY <1>0, <2>2, BitsizeAssumption DEF Fits, distance, Indices
  <2>4. (j + (b.first - low)) - (b.first - low) = j
    BY <1>0, <2>2
  <2>5. j + (b.first - low) \in moved
    BY <2>3, <2>4 DEF Shl, distance
  <2>6. d = low + (j + (b.first - low))
    BY <1>0, <2>1, <2>2
  <2> QED BY <2>5, <2>6
<1> HIDE DEF moved
<1>4. {low + i : i \in moved} = get_set_days(b)
  BY <1>2, <1>3
<1> QED BY <1>1, <1>4 DEF moved

\* set adds or removes one day.
LEMMA SetDays ==
  ASSUME NEW b \in Bitfields, InRange(b), NEW day \in Nat, NEW value \in BOOLEAN,
         Fits(Earlier(day, b.first), Later(day, b.last))
  PROVE  LET r == set(b, day, value)
         IN  /\ r \in Bitfields /\ InRange(r)
             /\ get_set_days(r) = IF value THEN get_set_days(b) \cup {day}
                                          ELSE get_set_days(b) \ {day}
<1> DEFINE low == Earlier(day, b.first)
           high == Later(day, b.last)
           moved == Shl(b.bits, distance(low, b.first))
           bits == IF value THEN moved \cup {day - low} ELSE moved \ {day - low}
           r == [first |-> low, last |-> high, bits |-> bits]
<1>1. r = set(b, day, value)
  BY DEF set
<1>2. b.first \in Nat /\ b.last \in Nat /\ b.first <= b.last
  BY DEF Bitfields, InRange
<1>3. /\ low \in Nat /\ low <= b.first /\ low <= day
      /\ high \in Nat /\ b.last <= high /\ day <= high
  BY <1>2 DEF Earlier, Later
<1>4. Fits(low, high)
  OBVIOUS
<1> HIDE DEF low, high
<1>5. Fits(low, b.last)
  BY <1>2, <1>3, <1>4, BitsizeAssumption DEF Fits, distance
<1>6. moved \subseteq 0..(b.last - low) /\ {low + i : i \in moved} = get_set_days(b)
  BY <1>3, <1>5, ShiftedDays
<1> HIDE DEF moved
<1>7. bits \subseteq 0..(high - low) /\ 0..(high - low) \subseteq Indices
  BY <1>2, <1>3, <1>4, <1>6, BitsizeAssumption DEF Fits, distance, Indices
<1>8. r \in Bitfields /\ InRange(r)
  BY <1>2, <1>3, <1>4, <1>7 DEF Bitfields, InRange, distance
<1>9. get_set_days(r) = {low + i : i \in bits}
  BY DEF get_set_days
<1>10. \A i \in moved : low + i = day <=> i = day - low
  BY <1>3, <1>6
<1>11. low + (day - low) = day
  BY <1>3
<1>12. {low + i : i \in bits} = IF value THEN get_set_days(b) \cup {day}
                                        ELSE get_set_days(b) \ {day}
  BY <1>6, <1>10, <1>11
<1> QED BY <1>1, <1>8, <1>9, <1>12

\* operator|= unites the days.
LEMMA MergeDays ==
  ASSUME NEW a \in Bitfields, NEW b \in Bitfields, InRange(a), InRange(b),
         Fits(Earlier(a.first, b.first), Later(a.last, b.last))
  PROVE  LET r == merge(a, b)
         IN  /\ r \in Bitfields /\ InRange(r)
             /\ get_set_days(r) = get_set_days(a) \cup get_set_days(b)
<1> DEFINE low == Earlier(a.first, b.first)
           high == Later(a.last, b.last)
           abits == Shl(a.bits, distance(low, a.first))
           bbits == Shl(b.bits, distance(low, b.first))
           r == [first |-> low, last |-> high, bits |-> abits \cup bbits]
<1>1. r = merge(a, b)
  BY DEF merge
<1>2. /\ a.first \in Nat /\ a.last \in Nat /\ a.first <= a.last
      /\ b.first \in Nat /\ b.last \in Nat /\ b.first <= b.last
  BY DEF Bitfields, InRange
<1>3. /\ low \in Nat /\ low <= a.first /\ low <= b.first
      /\ high \in Nat /\ a.last <= high /\ b.last <= high
  BY <1>2 DEF Earlier, Later
<1>4. Fits(low, high)
  OBVIOUS
<1> HIDE DEF low, high
<1>5. Fits(low, a.last) /\ Fits(low, b.last)
  BY <1>2, <1>3, <1>4, BitsizeAssumption DEF Fits, distance
<1>6. abits \subseteq 0..(a.last - low) /\ {low + i : i \in abits} = get_set_days(a)
  BY <1>3, <1>5, ShiftedDays
<1>7. bbits \subseteq 0..(b.last - low) /\ {low + i : i \in bbits} = get_set_days(b)
  BY <1>3, <1>5, ShiftedDays
<1> HIDE DEF abits, bbits
<1>8. /\ abits \cup bbits \subseteq 0..(high - low)
      /\ 0..(high - low) \subseteq Indices
  BY <1>2, <1>3, <1>4, <1>6, <1>7, BitsizeAssumption DEF Fits, distance, Indices
<1>9. r \in Bitfields /\ InRange(r)
  BY <1>2, <1>3, <1>4, <1>8 DEF Bitfields, InRange, distance
<1>10. get_set_days(r) = {low + i : i \in abits \cup bbits}
  BY DEF get_set_days
<1> QED BY <1>1, <1>6, <1>7, <1>9, <1>10
-----------------------------------------------------------------------------
(***************************************************************************)
(* Iterators.                                                              *)
(***************************************************************************)
LEMMA EndIdxType ==
  ASSUME NEW b \in Bitfields, InRange(b)
  PROVE  /\ get_end_idx(b) \in Nat
         /\ b.bits \subseteq Nat
         /\ \A k \in b.bits : k < get_end_idx(b)
         /\ b.first \in Nat
         /\ get_end_idx(b) = b.last - b.first + 1
BY DEF Bitfields, InRange, get_end_idx, distance

\* SetFrom finds the first set bit from an index on.
LEMMA SetFromFinds ==
  ASSUME NEW b \in Bitfields, InRange(b), NEW i \in Nat
  PROVE  LET j == SetFrom(b, i)
         IN  /\ j \in Nat
             /\ (j \in b.bits /\ i <= j) \/ j = get_end_idx(b)
             /\ \A k \in b.bits : i <= k => j <= k
             /\ j <= get_end_idx(b)
<1> DEFINE S == {j \in b.bits : i <= j /\ j < get_end_idx(b)} \cup {get_end_idx(b)}
<1>1. S \in SUBSET Nat /\ S # {}
  BY EndIdxType
<1>2. Least(S) \in S /\ \A y \in S : Least(S) <= y
  BY <1>1, LeastIsLeast
<1>3. SetFrom(b, i) = Least(S)
  BY DEF SetFrom
<1> QED BY <1>1, <1>2, <1>3, EndIdxType

\* advance finds the first set bit that overlaps or is behind the interval.
LEMMA AdvanceFinds ==
  ASSUME bf \in Bitfields, InRange(bf), NEW i, NEW idx \in Nat
  PROVE  LET j == advance(i, idx)
             Stops(k) == DAY * (bf.first + k) > i.end \/ Overlaps(bf.first + k, i)
         IN  /\ j \in Nat
             /\ (j \in bf.bits /\ idx <= j /\ Stops(j)) \/ j = get_end_idx(bf)
             /\ \A k \in bf.bits : idx <= k /\ Stops(k) => j <= k
             /\ j <= get_end_idx(bf)
<1> DEFINE Stops(k) == DAY * (bf.first + k) > i.end \/ Overlaps(bf.first + k, i)
           S == {j \in bf.bits : idx <= j /\ j < get_end_idx(bf) /\ Stops(j)}
                  \cup {get_end_idx(bf)}
<1>3. advance(i, idx) = Least(S)
  BY DEF advance
<1> HIDE DEF Stops
<1>1. S \in SUBSET Nat /\ S # {}
  BY EndIdxType
<1>2. Least(S) \in S /\ \A y \in S : Least(S) <= y
  BY <1>1, LeastIsLeast
<1>4. /\ Least(S) \in Nat
      /\ (Least(S) \in bf.bits /\ idx <= Least(S) /\ Stops(Least(S)))
           \/ Least(S) = get_end_idx(bf)
      /\ \A k \in bf.bits : idx <= k /\ Stops(k) => Least(S) <= k
      /\ Least(S) <= get_end_idx(bf)
  BY <1>1, <1>2, EndIdxType
<1> QED BY <1>3, <1>4 DEF Stops

\* A day starts by the time t exactly if it is not behind the day of t.
LEMMA MidnightFloors ==
  ASSUME NEW t \in Nat, NEW d \in Nat
  PROVE  DAY * d <= t <=> d <= Midnight(t)
<1> DEFINE q == t \div DAY
<1>1. q \in Nat /\ DAY * q <= t /\ t < DAY * q + DAY
  BY DayAssumption
<1> HIDE DEF q
<1>2. DAY * q \in Nat /\ DAY * d \in Nat /\ DAY * (q + 1) = DAY * q + DAY
  BY <1>1, DayAssumption
<1>3. d <= q => DAY * d <= DAY * q
  BY <1>1, DayAssumption
<1>4. q + 1 <= d => DAY * (q + 1) <= DAY * d
  BY <1>1, DayAssumption
<1>5. d <= q \/ q + 1 <= d
  BY <1>1
<1>6. d <= q => DAY * d <= t
  BY <1>1, <1>2, <1>3
<1>7. q + 1 <= d => ~(DAY * d <= t)
  <2> DEFINE x == DAY * (q + 1)
             y == DAY * d
  <2>1. x \in Nat /\ y \in Nat /\ t < x
    BY <1>1, <1>2, DayAssumption
  <2>2. q + 1 <= d => x <= y
    BY <1>4
  <2> HIDE DEF x, y
  <2>3. q + 1 <= d => ~(y <= t)
    BY <2>1, <2>2
  <2> QED BY <2>3 DEF y
<1>8. d <= q => ~(q + 1 <= d)
  BY <1>1
<1>9. Midnight(t) = q
  BY DEF Midnight, q
<1> QED BY <1>5, <1>6, <1>7, <1>8, <1>9
-----------------------------------------------------------------------------
(***************************************************************************)
(* The iterators of departures(i).                                         *)
(***************************************************************************)
Day(k) == bf.first + k

\* e is the first set day behind the interval.
IsEndOf(i, e) ==
  /\ e \in Nat /\ e <= get_end_idx(bf)
  /\ e # get_end_idx(bf) => e \in bf.bits /\ DAY * Day(e) > i.end
  /\ \A k \in bf.bits : k < e => DAY * Day(k) <= i.end

\* Times of days are natural numbers that grow with the day.
LEMMA DayTimes ==
  ASSUME TypeOK, InRange(bf)
  PROVE  /\ \A k \in bf.bits : k \in Nat /\ Day(k) \in Nat /\ DAY * Day(k) \in Nat
         /\ journey.departure \in Nat /\ journey.arrival \in Nat
         /\ journey.departure <= journey.arrival /\ journey.departure < DAY
         /\ DAY \in Nat
         /\ bf \in Bitfields
<1>1. bf \in Bitfields /\ bf.first \in Nat /\ bf.bits \subseteq Nat
  BY EndIdxType DEF TypeOK
<1>2. ASSUME NEW k \in bf.bits PROVE k \in Nat /\ Day(k) \in Nat /\ DAY * Day(k) \in Nat
  <2>1. k \in Nat /\ Day(k) \in Nat
    BY <1>1 DEF Day
  <2> QED BY <2>1, DayAssumption
<1> QED BY <1>1, <1>2, JourneysAssumption, DayAssumption DEF TypeOK

\* Neither a later journey nor one behind the interval overlaps it.
LEMMA BehindDoesNotOverlap ==
  ASSUME TypeOK, InRange(bf), NEW i \in [start : Nat, end : Nat], NEW k \in bf.bits,
         DAY * Day(k) > i.end
  PROVE  ~Overlaps(Day(k), i)
<1> DEFINE x == DAY * Day(k)
<1>1. x \in Nat /\ x > i.end /\ i.end \in Nat /\ journey.departure \in Nat
  BY DayTimes
<1> HIDE DEF x
<1>2. ~(x + journey.departure <= i.end)
  BY <1>1
<1> QED BY <1>2 DEF Overlaps, x

\* to, advanced, is the first set day behind the interval.
LEMMA EndIsEnd ==
  ASSUME TypeOK, InRange(bf), NEW i \in [start : Nat, end : Nat]
  PROVE  IsEndOf(i, end_of(i))
<1> DEFINE m == Midnight(i.end)
           t == to(bf, m)
<1>1. bf \in Bitfields /\ bf.first \in Nat /\ bf.last \in Nat /\ bf.first <= bf.last
  BY DEF TypeOK, Bitfields, InRange
<1>2. m \in Int
  BY DayAssumption DEF Midnight
<1>3. \A k \in bf.bits : k \in Nat /\ Day(k) \in Nat /\ (DAY * Day(k) <= i.end <=> Day(k) <= m)
  BY DayTimes, MidnightFloors
<1> HIDE DEF m
<1>4. /\ t \in Nat /\ t <= get_end_idx(bf)
      /\ t # get_end_idx(bf) => t \in bf.bits /\ Day(t) > m
      /\ \A k \in bf.bits : k < t => Day(k) <= m
  <2>1. CASE m >= bf.last
    <3>1. t = get_end_idx(bf)
      BY <2>1 DEF to
    <3>2. \A k \in bf.bits : Day(k) <= bf.last
      BY <1>1, EndIdxType DEF Day
    <3> QED BY <1>1, <1>2, <1>3, <2>1, <3>1, <3>2, EndIdxType
  <2>2. CASE ~(m >= bf.last) /\ m < bf.first
    <3>1. t = SetFrom(bf, 0)
      BY <2>2 DEF to
    <3>2. \A k \in bf.bits : Day(k) > m
      BY <1>1, <1>2, <2>2, EndIdxType DEF Day
    <3> QED BY <1>1, <1>3, <3>1, <3>2, SetFromFinds
  <2>3. CASE ~(m >= bf.last) /\ ~(m < bf.first)
    <3>1. t = SetFrom(bf, m - bf.first + 1) /\ m - bf.first + 1 \in Nat
      BY <1>1, <1>2, <2>3 DEF to, distance
    <3>2. \A k \in bf.bits : Day(k) > m <=> m - bf.first + 1 <= k
      BY <1>1, <1>2, <1>3 DEF Day
    <3>3. \A k \in bf.bits : Day(k) \in Nat /\ k \in Nat
      BY <1>3
    <3> QED BY <1>1, <1>2, <3>1, <3>2, <3>3, SetFromFinds
  <2> QED BY <2>1, <2>2, <2>3
<1> HIDE DEF t
<1>5. t # get_end_idx(bf) => DAY * Day(t) > i.end
  BY <1>2, <1>3, <1>4, DayTimes
<1>6. end_of(i) = t
  <2>1. end_of(i) = advance(i, t)
    BY DEF end_of, t, m
  <2>2. CASE t = get_end_idx(bf)
    BY <1>1, <1>4, <2>1, <2>2, AdvanceFinds, EndIdxType
  <2>3. CASE t # get_end_idx(bf)
    <3>1. t \in bf.bits /\ DAY * (bf.first + t) > i.end
      BY <1>4, <1>5, <2>3 DEF Day
    <3>2. advance(i, t) <= t
      BY <1>1, <1>4, <3>1, AdvanceFinds
    <3> QED BY <1>1, <1>4, <2>1, <3>1, <3>2, AdvanceFinds, EndIdxType
  <2> QED BY <2>2, <2>3
<1> QED BY <1>3, <1>4, <1>5, <1>6 DEF IsEndOf

\* An advanced iterator is the next departure, or it has met the end.
LEMMA AdvanceMeetsEnd ==
  ASSUME TypeOK, InRange(bf), NEW i \in [start : Nat, end : Nat],
         NEW e, IsEndOf(i, e), NEW idx \in Nat, idx <= e
  PROVE  LET j == advance(i, idx)
         IN  /\ j \in Nat /\ idx <= j /\ j <= e
             /\ j # e => j \in bf.bits /\ Overlaps(Day(j), i)
             /\ \A k \in bf.bits : idx <= k /\ Overlaps(Day(k), i) => j <= k
<1> DEFINE j == advance(i, idx)
           Stops(k) == DAY * (bf.first + k) > i.end \/ Overlaps(bf.first + k, i)
<1>1. bf \in Bitfields
  BY DEF TypeOK
<1>2. /\ j \in Nat
      /\ (j \in bf.bits /\ idx <= j /\ Stops(j)) \/ j = get_end_idx(bf)
      /\ \A k \in bf.bits : idx <= k /\ Stops(k) => j <= k
      /\ j <= get_end_idx(bf)
  BY <1>1, AdvanceFinds
<1> HIDE DEF j
<1>3. e \in Nat /\ get_end_idx(bf) \in Nat /\ e <= get_end_idx(bf)
  BY <1>1, EndIdxType DEF IsEndOf
<1>4. idx <= j
  BY <1>2, <1>3
<1>5. j <= e
  <2>1. CASE e = get_end_idx(bf)
    BY <1>2, <2>1
  <2>2. CASE e # get_end_idx(bf)
    <3>1. e \in bf.bits /\ Stops(e)
      BY <2>2 DEF IsEndOf, Day
    <3> QED BY <1>2, <3>1
  <2> QED BY <2>1, <2>2
<1>6. ASSUME j # e PROVE j \in bf.bits /\ Overlaps(Day(j), i)
  <2>1. j < e
    BY <1>2, <1>3, <1>5, <1>6
  <2>2. j \in bf.bits /\ Stops(j)
    BY <1>2, <1>3, <2>1
  <2>3. DAY * Day(j) <= i.end
    BY <2>1, <2>2 DEF IsEndOf
  <2>4. DAY * Day(j) \in Nat /\ i.end \in Nat
    BY <2>2, DayTimes
  <2>5. ~(DAY * Day(j) > i.end)
    BY <2>3, <2>4
  <2> QED BY <2>2, <2>5 DEF Day
<1>7. \A k \in bf.bits : idx <= k /\ Overlaps(Day(k), i) => j <= k
  BY <1>2 DEF Day
<1> QED BY <1>2, <1>4, <1>5, <1>6, <1>7 DEF j

\* from is the first set day that is not before the interval's first day.
LEMMA FromFinds ==
  ASSUME TypeOK, InRange(bf), NEW m \in Nat
  PROVE  LET f == from(bf, m)
         IN  /\ f \in Nat /\ f <= get_end_idx(bf)
             /\ \A k \in bf.bits : m <= Day(k) => f <= k
             /\ \A k \in bf.bits : f <= k => m <= Day(k)
<1> DEFINE f == from(bf, m)
<1>1. bf \in Bitfields /\ bf.first \in Nat
  BY DEF TypeOK, Bitfields
<1>2. \A k \in bf.bits : k \in Nat /\ k < get_end_idx(bf)
  BY <1>1, EndIdxType
<1>3. get_end_idx(bf) \in Nat
  BY <1>1, EndIdxType
<1>4. CASE m <= bf.first
  <2>1. f = SetFrom(bf, 0)
    BY <1>4 DEF from
  <2> QED BY <1>1, <1>2, <1>3, <1>4, <2>1, SetFromFinds DEF Day
<1>5. CASE ~(m <= bf.first) /\ m - bf.first >= get_end_idx(bf)
  <2>1. f = get_end_idx(bf)
    BY <1>5 DEF from, distance
  <2>2. \A k \in bf.bits : ~(m <= Day(k))
    BY <1>1, <1>2, <1>3, <1>5 DEF Day
  <2>3. \A k \in bf.bits : ~(f <= k)
    BY <1>2, <1>3, <2>1
  <2> QED BY <1>3, <2>1, <2>2, <2>3
<1>6. CASE ~(m <= bf.first) /\ ~(m - bf.first >= get_end_idx(bf))
  <2>1. f = SetFrom(bf, m - bf.first) /\ m - bf.first \in Nat
    BY <1>1, <1>6 DEF from, distance
  <2>2. \A k \in bf.bits : m <= Day(k) <=> m - bf.first <= k
    BY <1>1, <1>2 DEF Day
  <2>3. /\ f \in Nat /\ f <= get_end_idx(bf)
        /\ (f \in bf.bits /\ m - bf.first <= f) \/ f = get_end_idx(bf)
        /\ \A k \in bf.bits : m - bf.first <= k => f <= k
    BY <1>1, <2>1, SetFromFinds
  <2>4. ASSUME NEW k \in bf.bits, f <= k PROVE m - bf.first <= k
    BY <1>1, <1>2, <1>3, <2>1, <2>3, <2>4
  <2> QED BY <2>2, <2>3, <2>4
<1> QED BY <1>4, <1>5, <1>6

\* The first iterator is the first departure in the interval.
LEMMA BeginIsFirst ==
  ASSUME TypeOK, InRange(bf), NEW i \in [start : Nat, end : Nat], i.start <= i.end
  PROVE  LET b == begin_of(i)
             e == end_of(i)
         IN  /\ b \in Nat /\ b <= e
             /\ b # e => b \in bf.bits /\ Overlaps(Day(b), i)
             /\ \A k \in bf.bits :
                  b <= k => Midnight(i.start) <= Day(k)
             /\ \A k \in bf.bits :
                  Midnight(i.start) <= Day(k) /\ Overlaps(Day(k), i) => b <= k
<1> DEFINE m == Midnight(i.start)
           f == from(bf, m)
           e == end_of(i)
<1>1. m \in Nat
  BY DayAssumption DEF Midnight
<1>2. /\ f \in Nat /\ f <= get_end_idx(bf)
      /\ \A k \in bf.bits : m <= Day(k) => f <= k
      /\ \A k \in bf.bits : f <= k => m <= Day(k)
  BY <1>1, FromFinds
<1>3. IsEndOf(i, e)
  BY EndIsEnd
<1>4. begin_of(i) = advance(i, f)
  BY DEF begin_of
<1> HIDE DEF f, e
<1>5. f <= e
  <2>1. CASE e = get_end_idx(bf)
    BY <1>2, <2>1
  <2>2. CASE e # get_end_idx(bf)
    <3>1. e \in bf.bits /\ DAY * Day(e) > i.end
      BY <1>3, <2>2 DEF IsEndOf
    <3>2. Day(e) \in Nat /\ DAY * Day(e) \in Nat /\ i.start \in Nat /\ i.end \in Nat
      BY <3>1, DayTimes
    <3>3. ~(DAY * Day(e) <= i.start)
      BY <3>1, <3>2
    <3>4. ~(Day(e) <= m)
      BY <3>2, <3>3, MidnightFloors
    <3>5. m <= Day(e)
      BY <1>1, <3>2, <3>4
    <3> QED BY <1>2, <3>1, <3>5
  <2> QED BY <2>1, <2>2
<1> HIDE DEF m
<1> DEFINE b == advance(i, f)
<1>6. /\ b \in Nat /\ f <= b /\ b <= e
      /\ b # e => b \in bf.bits /\ Overlaps(Day(b), i)
      /\ \A k \in bf.bits : f <= k /\ Overlaps(Day(k), i) => b <= k
  BY <1>2, <1>3, <1>5, AdvanceMeetsEnd
<1> HIDE DEF b
<1>7. \A k \in bf.bits : k \in Nat
  BY DayTimes
<1>8. \A k \in bf.bits : b <= k => m <= Day(k)
  BY <1>2, <1>6, <1>7
<1>9. \A k \in bf.bits : m <= Day(k) /\ Overlaps(Day(k), i) => b <= k
  BY <1>2, <1>6
<1> QED BY <1>4, <1>6, <1>8, <1>9 DEF b, e, m
-----------------------------------------------------------------------------
(***************************************************************************)
(* The inductive invariant: end is the end of the interval, and it is the  *)
(* next departure or has met the end.                                      *)
(***************************************************************************)
Departing ==
  pc = "departing" =>
    /\ IsEndOf(interval, end)
    /\ it <= end
    /\ it # end => it \in bf.bits /\ Overlaps(Day(it), interval)

Inv ==
  /\ TypeOK
  /\ BitsInRange
  /\ ok \/ bf.bits = {}
  /\ Departing

\* The invariant holds before the first service is read.
LEMMA InitInv == Init => Inv
<1> SUFFICES ASSUME Init PROVE Inv
  OBVIOUS
<1>1. bf \in Bitfields /\ InRange(bf)
  BY BitsizeAssumption
     DEF Init, NoBitfield, Bitfields, InRange, Fits, distance, Indices
<1>2. services \in 0..MaxServices
  BY MaxServicesAssumption DEF Init
<1>3. interval \in [start : Nat, end : Nat]
  BY DEF Init, NoInterval
<1>4. departures \in Seq(Nat)
  BY DEF Init
<1>5. TypeOK
  <2>1. /\ checked \in BOOLEAN /\ journey \in Journeys /\ ok \in BOOLEAN
        /\ pc \in {"services", "failed", "accepted", "departing", "done"}
    BY DEF Init
  <2>2. total \in Int /\ it \in Nat /\ end \in Nat
    BY DEF Init
  <2> QED BY <1>1, <1>2, <1>3, <1>4, <2>1, <2>2 DEF TypeOK
<1>6. bf.bits = {} /\ pc # "departing"
  BY DEF Init, NoBitfield
<1> QED BY <1>1, <1>5, <1>6 DEF Inv, BitsInRange, Departing

ReadAnyService ==
  \E first, last \in Dates, mask \in SUBSET Dates :
    /\ first <= last /\ Fits(first, last)
    /\ mask \subseteq first..last
    /\ ReadService(first, last, mask)

\* A service adds the days of its mask.
LEMMA ReadServiceStep ==
  Inv /\ ReadAnyService =>
    Inv' /\ \E S \in SUBSET Dates : get_set_days(bf)' = get_set_days(bf) \cup S
<1> SUFFICES ASSUME Inv,
                    NEW first \in Dates, NEW last \in Dates, NEW mask \in SUBSET Dates,
                    first <= last, Fits(first, last), mask \subseteq first..last,
                    ReadService(first, last, mask)
             PROVE  Inv' /\ get_set_days(bf)' = get_set_days(bf) \cup mask
  BY DEF ReadAnyService
<1> DEFINE new == make_bitfield(first, last, mask)
<1>1. first \in Nat /\ last \in Nat
  BY DatesAssumption
<1>2. new \in Bitfields /\ InRange(new) /\ get_set_days(new) = mask
  BY <1>1, MakeDays
<1>3. bf \in Bitfields /\ InRange(bf)
  BY DEF Inv, TypeOK, BitsInRange
<1>4. new.first = first /\ new.last = last
  BY DEF make_bitfield
<1> HIDE DEF new
<1>5. /\ bf' \in Bitfields /\ InRange(bf)'
      /\ get_set_days(bf)' = get_set_days(bf) \cup mask
  <2>1. CASE ok
    <3>1. bf' = merge(bf, new)
      BY <2>1 DEF ReadService, new
    <3>2. Fits(Earlier(new.first, bf.first), Later(new.last, bf.last))
      BY <1>4, <2>1 DEF ReadService
    <3>3. /\ Earlier(new.first, bf.first) = Earlier(bf.first, new.first)
          /\ Later(new.last, bf.last) = Later(bf.last, new.last)
      BY <1>1, <1>3, <1>4 DEF Earlier, Later, Bitfields
    <3>4. Fits(Earlier(bf.first, new.first), Later(bf.last, new.last))
      BY <3>2, <3>3
    <3>5. /\ merge(bf, new) \in Bitfields /\ InRange(merge(bf, new))
          /\ get_set_days(merge(bf, new)) = get_set_days(bf) \cup get_set_days(new)
      BY <1>2, <1>3, <3>4, MergeDays
    <3> QED BY <1>2, <3>1, <3>5 DEF InRange, get_set_days
  <2>2. CASE ~ok
    <3>1. bf' = new
      BY <2>2 DEF ReadService, new
    <3>2. get_set_days(bf) = {}
      BY <2>2 DEF Inv, get_set_days
    <3> QED BY <1>2, <3>1, <3>2 DEF InRange, get_set_days
  <2> QED BY <2>1, <2>2
<1>6. Cardinality(mask) \in Nat
  <2>1. IsFiniteSet(first..last)
    BY <1>1, FS_Interval
  <2>2. IsFiniteSet(mask)
    BY <2>1, FS_Subset
  <2> QED BY <2>2, FS_CardinalityType
<1>7. total' \in Int
  BY <1>6 DEF Inv, TypeOK, ReadService
<1>8. services' \in 0..MaxServices
  BY MaxServicesAssumption DEF Inv, TypeOK, ReadService, Read
<1>9. TypeOK'
  BY <1>5, <1>7, <1>8 DEF Inv, TypeOK, ReadService, Read, asking
<1>10. ok' /\ pc' # "departing"
  BY DEF ReadService, Read
<1> QED BY <1>5, <1>9, <1>10 DEF Inv, BitsInRange, Departing

ReadAnySpecial ==
  \E day \in Dates, include \in BOOLEAN : ReadSpecial(day, include)

\* A special date adds or removes its day.
LEMMA ReadSpecialStep ==
  Inv /\ ReadAnySpecial =>
    /\ Inv'
    /\ \/ \E S \in SUBSET Dates : get_set_days(bf)' = get_set_days(bf) \cup S
       \/ \E d \in Dates : get_set_days(bf)' = get_set_days(bf) \ {d}
<1> SUFFICES ASSUME Inv, NEW day \in Dates, NEW include \in BOOLEAN,
                    ReadSpecial(day, include)
             PROVE  /\ Inv'
                    /\ get_set_days(bf)' = IF include THEN get_set_days(bf) \cup {day}
                                                     ELSE get_set_days(bf) \ {day}
  BY DEF ReadAnySpecial
<1>1. day \in Nat /\ bf \in Bitfields /\ InRange(bf)
  BY DatesAssumption DEF Inv, TypeOK, BitsInRange
<1>2. /\ set(bf, day, include) \in Bitfields /\ InRange(set(bf, day, include))
      /\ get_set_days(set(bf, day, include)) =
           IF include THEN get_set_days(bf) \cup {day} ELSE get_set_days(bf) \ {day}
  BY <1>1, SetDays DEF ReadSpecial
<1>3. bf' = set(bf, day, include)
  BY DEF ReadSpecial
<1>4. InRange(bf)' /\ get_set_days(bf)' = get_set_days(set(bf, day, include))
  BY <1>2, <1>3 DEF InRange, get_set_days
<1>5. total' \in Int
  BY DEF Inv, TypeOK, ReadSpecial
<1>6. services' \in 0..MaxServices
  BY MaxServicesAssumption DEF Inv, TypeOK, ReadSpecial, Read
<1>7. TypeOK'
  BY <1>2, <1>3, <1>5, <1>6 DEF Inv, TypeOK, ReadSpecial, Read, asking
<1>8. ok' /\ pc' # "departing"
  BY DEF ReadSpecial, Read
<1> QED BY <1>2, <1>4, <1>7, <1>8 DEF Inv, BitsInRange, Departing

\* What a request starts: the set days of the interval, from the first on.
LEMMA AskStep ==
  ASSUME Inv, NEW i \in [start : Nat, end : Nat], i.start <= i.end, Ask(i)
  PROVE  /\ Inv'
         /\ interval' = i
         /\ \A k \in bf.bits :
              Overlaps(Day(k), i) => (it' <= k <=> Midnight(i.start) <= Day(k))
<1>1. TypeOK /\ InRange(bf)
  BY DEF Inv, BitsInRange
<1>2. it' = begin_of(i) /\ end' = end_of(i) /\ interval' = i /\ pc' = "departing"
  BY DEF Ask
<1>3. UNCHANGED <<checked, journey, services, ok, bf, total, departures>>
  BY DEF Ask, parsing
<1>4. IsEndOf(i, end_of(i))
  BY <1>1, EndIsEnd
<1>5. /\ begin_of(i) \in Nat /\ begin_of(i) <= end_of(i)
      /\ begin_of(i) # end_of(i) =>
           begin_of(i) \in bf.bits /\ Overlaps(Day(begin_of(i)), i)
      /\ \A k \in bf.bits : begin_of(i) <= k => Midnight(i.start) <= Day(k)
      /\ \A k \in bf.bits :
           Midnight(i.start) <= Day(k) /\ Overlaps(Day(k), i) => begin_of(i) <= k
  BY <1>1, BeginIsFirst
<1>6. end_of(i) \in Nat
  BY <1>4 DEF IsEndOf
<1>7. TypeOK'
  BY <1>1, <1>2, <1>3, <1>5, <1>6 DEF TypeOK
<1>8. Departing'
  BY <1>2, <1>3, <1>4, <1>5 DEF Departing, IsEndOf, Day, Overlaps
<1>9. Inv'
  BY <1>3, <1>7, <1>8 DEF Inv, BitsInRange, InRange
<1> QED BY <1>2, <1>5, <1>9

\* The days of an interval: what is left to depart on.
LEMMA WantedDays ==
  ASSUME Inv, pc = "departing"
  PROVE  Wanted = {Day(k) : k \in {l \in bf.bits : it <= l /\ Overlaps(Day(l), interval)}}
<1>1. bf.first \in Nat /\ bf.bits \subseteq Nat /\ it \in Nat
  BY EndIdxType DEF Inv, TypeOK, BitsInRange
<1>2. \A k \in bf.bits : bf.first + k >= bf.first + it <=> it <= k
  BY <1>1
<1> QED BY <1>2 DEF Wanted, get_set_days, Day

\* A step of the iterator is a departure of the calendar.
LEMMA DepartStep ==
  ASSUME Inv, Depart
  PROVE  /\ Inv'
         /\ Wanted # {} /\ Calendar!First(Wanted) = Day(it)
         /\ Wanted' = Wanted \ {Day(it)}
<1>1. TypeOK /\ InRange(bf) /\ bf \in Bitfields
  BY DEF Inv, BitsInRange, TypeOK
<1>2. /\ pc = "departing" /\ it # end
      /\ departures' = Append(departures, bf.first + it)
      /\ it' = advance(interval, SetFrom(bf, it + 1))
      /\ UNCHANGED <<checked, journey, pc, services, ok, bf, total, interval, end>>
  BY DEF Depart, parsing
<1>3. /\ IsEndOf(interval, end) /\ it <= end
      /\ it \in bf.bits /\ Overlaps(Day(it), interval)
  BY <1>2 DEF Inv, Departing
<1>4. /\ it \in Nat /\ end \in Nat /\ interval \in [start : Nat, end : Nat]
      /\ get_end_idx(bf) \in Nat /\ bf.bits \subseteq Nat /\ bf.first \in Nat
      /\ end <= get_end_idx(bf)
  BY <1>1, <1>3, EndIdxType DEF TypeOK, IsEndOf
<1> DEFINE n == SetFrom(bf, it + 1)
<1>5. /\ n \in Nat /\ n <= get_end_idx(bf)
      /\ (n \in bf.bits /\ it + 1 <= n) \/ n = get_end_idx(bf)
      /\ \A k \in bf.bits : it + 1 <= k => n <= k
  BY <1>1, <1>4, SetFromFinds
<1> HIDE DEF n
<1>6. it + 1 <= end
  BY <1>2, <1>3, <1>4
<1>7. n <= end
  <2>1. CASE end = get_end_idx(bf)
    BY <1>5, <2>1
  <2>2. CASE end # get_end_idx(bf)
    <3>1. end \in bf.bits
      BY <1>3, <2>2 DEF IsEndOf
    <3> QED BY <1>5, <1>6, <3>1
  <2> QED BY <2>1, <2>2
<1>8. it < n
  BY <1>3, <1>4, <1>5, <1>6, <1>7
<1>9. it' = advance(interval, n)
  BY <1>2 DEF n
<1>10. /\ it' \in Nat /\ n <= it' /\ it' <= end
       /\ it' # end => it' \in bf.bits /\ Overlaps(Day(it'), interval)
       /\ \A k \in bf.bits : n <= k /\ Overlaps(Day(k), interval) => it' <= k
  BY <1>1, <1>3, <1>4, <1>5, <1>7, <1>9, AdvanceMeetsEnd
<1>11. departures' \in Seq(Nat)
  BY <1>1, <1>2, <1>4 DEF TypeOK
<1>12. TypeOK'
  BY <1>1, <1>2, <1>10, <1>11 DEF TypeOK
<1>13. IsEndOf(interval, end)'
  BY <1>2, <1>3 DEF IsEndOf, Day
<1>14. it' # end => it' \in bf.bits /\ Overlaps(Day(it), interval)'
  BY <1>2, <1>10 DEF Day, Overlaps
<1>15. Inv'
  BY <1>2, <1>10, <1>12, <1>13, <1>14 DEF Inv, Departing, BitsInRange, InRange
<1> DEFINE L == {l \in bf.bits : it <= l /\ Overlaps(Day(l), interval)}
           M == {l \in bf.bits : it' <= l /\ Overlaps(Day(l), interval)}
<1>16. Wanted = {Day(k) : k \in L}
  BY <1>2, WantedDays
<1>17. Wanted' = {Day(k) : k \in M}
  <2>1. Wanted' = {d \in get_set_days(bf) : d >= bf.first + it' /\ Overlaps(d, interval)}
    BY <1>2 DEF Wanted, get_set_days, Overlaps
  <2>2. \A k \in bf.bits : bf.first + k >= bf.first + it' <=> it' <= k
    BY <1>4, <1>10
  <2> QED BY <2>1, <2>2 DEF get_set_days, Day
<1>18. M = L \ {it}
  <2>1. \A k \in bf.bits : it' <= k => it <= k /\ k # it
    BY <1>4, <1>5, <1>8, <1>10
  <2>2. \A k \in bf.bits : it <= k /\ k # it /\ Overlaps(Day(k), interval) => it' <= k
    BY <1>4, <1>5, <1>10
  <2> QED BY <2>1, <2>2
<1>19. it \in L /\ \A k \in L : it <= k
  BY <1>3, <1>4
<1>20. \A k, l \in bf.bits :
         Day(k) \in Nat /\ (Day(k) = Day(l) => k = l) /\ (k <= l => Day(k) <= Day(l))
  BY <1>4 DEF Day
<1>21. L \subseteq bf.bits
  OBVIOUS
<1> HIDE DEF L, M
<1>22. Day(it) \in Wanted /\ \A d \in Wanted : Day(it) <= d
  BY <1>3, <1>16, <1>19, <1>20, <1>21
<1>23. \A d \in Wanted : d \in Nat
  BY <1>16, <1>20, <1>21
<1>24. \A x \in Wanted : (\A y \in Wanted : x <= y) => x = Day(it)
  BY <1>22, <1>23
<1>25. Calendar!First(Wanted) = Day(it)
  BY <1>22, <1>24 DEF Calendar!First
<1>26. Wanted' = Wanted \ {Day(it)}
  BY <1>3, <1>16, <1>17, <1>18, <1>20, <1>21
<1> QED BY <1>15, <1>22, <1>25, <1>26

\* A request starts with the departures the calendar wants.
LEMMA AskedDays ==
  ASSUME Inv, NEW i \in [start : Nat, end : Nat], i.start <= i.end, Ask(i)
  PROVE  /\ UNCHANGED <<journey, departures>> /\ get_set_days(bf)' = get_set_days(bf)
         /\ interval' = i /\ Phase' = "departing"
         /\ Wanted' = {d \in get_set_days(bf) : d >= Midnight(i.start) /\ Overlaps(d, i)}
<1>1. /\ interval' = i /\ pc' = "departing"
      /\ UNCHANGED <<checked, journey, services, ok, bf, total, departures>>
  BY DEF Ask, parsing
<1>2. \A k \in bf.bits :
        Overlaps(Day(k), i) => (it' <= k <=> Midnight(i.start) <= Day(k))
  BY AskStep
<1>3. Inv'
  BY AskStep
<1>4. bf.first \in Nat /\ bf.bits \subseteq Nat /\ it' \in Nat /\ Midnight(i.start) \in Int
  <2>1. bf.first \in Nat /\ bf.bits \subseteq Nat
    BY EndIdxType DEF Inv, TypeOK, BitsInRange
  <2>2. it' \in Nat
    BY <1>3 DEF Inv, TypeOK
  <2> QED BY <2>1, <2>2, DayAssumption DEF Midnight
<1>5. \A k \in bf.bits : /\ bf.first + k >= bf.first + it' <=> it' <= k
                         /\ bf.first + k >= Midnight(i.start) <=> Midnight(i.start) <= Day(k)
  BY <1>4 DEF Day
<1>6. Wanted' = {d \in get_set_days(bf) : d >= bf.first + it' /\ Overlaps(d, i)}
  BY <1>1 DEF Wanted, get_set_days, Overlaps
<1>7. \A d \in get_set_days(bf) :
        Overlaps(d, i) => (d >= bf.first + it' <=> d >= Midnight(i.start))
  BY <1>2, <1>5 DEF get_set_days, Day
<1>8. Wanted' = {d \in get_set_days(bf) : d >= Midnight(i.start) /\ Overlaps(d, i)}
  BY <1>6, <1>7
<1> QED BY <1>1, <1>8 DEF get_set_days, Phase

\* Bits and days go together.
LEMMA DaysOfBits == HasDays <=> get_set_days(bf) # {}
BY DEF HasDays, get_set_days

\* The filter of a request is one of the intervals.
LEMMA AskIntervalStep == Inv /\ AskInterval => Inv' /\ Calendar!AskInterval
<1> SUFFICES ASSUME Inv, pc = "accepted", HasDays,
                    NEW i \in Intervals, i.start <= i.end, Ask(i)
             PROVE  Inv' /\ Calendar!AskInterval
  BY DEF AskInterval
<1>1. i \in [start : Nat, end : Nat]
  BY IntervalsAssumption
<1>2. Inv'
  BY <1>1, AskStep
<1>3. /\ UNCHANGED <<journey, departures>> /\ get_set_days(bf)' = get_set_days(bf)
      /\ interval' = i /\ Phase' = "departing"
      /\ Wanted' = {d \in get_set_days(bf) : d >= Midnight(i.start) /\ Overlaps(d, i)}
  BY <1>1, AskedDays
<1> QED BY <1>2, <1>3, DaysOfBits
        DEF Calendar!AskInterval, Phase, Midnight, Overlaps, Calendar!Midnight, Calendar!Overlaps

\* The interval of the timetable holds every journey of the train.
LEMMA TimetableHoldsAll ==
  ASSUME Inv, HasDays, NEW other \in Intervals
  PROVE  LET i == get_interval(other)
         IN  /\ i \in [start : Nat, end : Nat] /\ i.start <= i.end
             /\ \A k \in bf.bits : Overlaps(Day(k), i) /\ Midnight(i.start) <= Day(k)
<1>0. bf.bits # {}
  BY DEF HasDays
<1>1. TypeOK /\ InRange(bf) /\ other \in [start : Nat, end : Nat]
  BY IntervalsAssumption DEF Inv, BitsInRange
<1>2. /\ \A k \in bf.bits : k \in Nat /\ Day(k) \in Nat /\ DAY * Day(k) \in Nat
      /\ journey.departure \in Nat /\ journey.arrival \in Nat
      /\ journey.departure <= journey.arrival /\ journey.departure < DAY
      /\ DAY \in Nat /\ bf \in Bitfields
  BY <1>1, DayTimes
<1> DEFINE lo == Least(bf.bits)
           hi == CHOOSE k \in bf.bits :
                   \A j \in bf.bits : j <= distance(bf.first, bf.last) => j <= k
<1>3. lo \in bf.bits /\ \A k \in bf.bits : lo <= k
  BY <1>0, <1>2, LeastIsLeast
<1>4. hi \in bf.bits /\ \A k \in bf.bits : k <= hi
  <2>1. bf.first \in Nat /\ bf.last \in Nat /\ bf.first <= bf.last
        /\ \A k \in bf.bits : k <= distance(bf.first, bf.last)
    BY <1>1, <1>2 DEF Bitfields, InRange
  <2>2. bf.bits \in SUBSET Nat /\ \A k \in bf.bits : k <= distance(bf.first, bf.last)
    BY <1>2, <2>1
  <2>3. distance(bf.first, bf.last) \in Nat
    BY <2>1 DEF distance
  <2>4. \E k \in bf.bits : \A j \in bf.bits : j <= k
    BY <1>0, <2>2, <2>3, GreatestNat
  <2>5. \E k \in bf.bits : \A j \in bf.bits : j <= distance(bf.first, bf.last) => j <= k
    BY <2>4
  <2>6. hi \in bf.bits /\ \A j \in bf.bits : j <= distance(bf.first, bf.last) => j <= hi
    BY <2>5
  <2> QED BY <2>1, <2>6
<1>5. /\ get_interval(other).start = Earlier(other.start, DAY * Day(lo) + journey.departure)
      /\ get_interval(other).end = Later(other.end, DAY * Day(hi) + journey.arrival)
      /\ get_interval(other) =
           [start |-> get_interval(other).start, end |-> get_interval(other).end]
  BY DEF get_interval, first_set_date, last_set_date, Day
<1> DEFINE s == get_interval(other).start
           e == get_interval(other).end
           ti(k) == DAY * Day(k)
<1>6. \A k, l \in bf.bits : k <= l => ti(k) <= ti(l)
  <2> SUFFICES ASSUME NEW k \in bf.bits, NEW l \in bf.bits, k <= l PROVE ti(k) <= ti(l)
    OBVIOUS
  <2>1. Day(k) <= Day(l) /\ Day(k) \in Nat /\ Day(l) \in Nat
    BY <1>1, <1>2, EndIdxType DEF Day
  <2> QED BY <2>1, DayAssumption
<1>7. \A k \in bf.bits : ti(k) \in Nat
  BY <1>2
<1> HIDE DEF lo, hi, ti
<1>8. /\ s = Earlier(other.start, ti(lo) + journey.departure)
      /\ e = Later(other.end, ti(hi) + journey.arrival)
  BY <1>5 DEF ti
<1> HIDE DEF s, e
<1>9. s \in Nat /\ e \in Nat /\ s <= ti(lo) + journey.departure
      /\ ti(hi) + journey.arrival <= e
  BY <1>1, <1>2, <1>3, <1>4, <1>7, <1>8 DEF Earlier, Later
<1>10. ti(lo) <= ti(hi)
  BY <1>3, <1>4, <1>6
<1>11. s <= e
  BY <1>2, <1>3, <1>4, <1>7, <1>9, <1>10
<1>12. get_interval(other) \in [start : Nat, end : Nat]
  BY <1>5, <1>9 DEF s, e
<1>13. ASSUME NEW k \in bf.bits
       PROVE  s <= ti(k) + journey.arrival /\ ti(k) + journey.departure <= e
  <2>1. ti(lo) <= ti(k) /\ ti(k) <= ti(hi)
    BY <1>3, <1>4, <1>6
  <2> QED BY <1>2, <1>3, <1>4, <1>7, <1>9, <2>1
<1>14. ASSUME NEW k \in bf.bits PROVE Midnight(s) <= Day(k)
  <2>1. s < DAY * (Day(k) + 1)
    <3>1. ti(lo) <= ti(k)
      BY <1>3, <1>6
    <3>2. s < ti(k) + DAY
      BY <1>2, <1>3, <1>7, <1>9, <3>1
    <3>3. DAY * (Day(k) + 1) = ti(k) + DAY
      BY <1>2, DayAssumption DEF ti
    <3> QED BY <3>2, <3>3
  <2>2. DAY * (Day(k) + 1) \in Nat /\ Day(k) + 1 \in Nat /\ Day(k) \in Nat
    BY <1>2, DayAssumption
  <2>3. ~(DAY * (Day(k) + 1) <= s)
    <3> DEFINE x == DAY * (Day(k) + 1)
    <3>1. x \in Nat /\ s < x
      BY <2>1, <2>2
    <3> HIDE DEF x
    <3>2. ~(x <= s)
      BY <1>9, <3>1
    <3> QED BY <3>2 DEF x
  <2>4. ~(Day(k) + 1 <= Midnight(s))
    BY <1>9, <2>2, <2>3, MidnightFloors
  <2>5. Midnight(s) \in Int
    BY <1>9, DayAssumption DEF Midnight
  <2> QED BY <2>2, <2>4, <2>5
<1> QED BY <1>11, <1>12, <1>13, <1>14 DEF s, e, ti, Overlaps

\* In the interval of the timetable the train departs on every service day.
LEMMA AskTimetableStep == Inv /\ AskTimetable => Inv' /\ Calendar!AskTimetable
<1> SUFFICES ASSUME Inv, pc = "accepted", HasDays, NEW other \in Intervals,
                    Ask(get_interval(other))
             PROVE  Inv' /\ Calendar!AskTimetable
  BY DEF AskTimetable
<1> DEFINE i == get_interval(other)
<1>1. /\ i \in [start : Nat, end : Nat] /\ i.start <= i.end
      /\ \A k \in bf.bits : Overlaps(Day(k), i) /\ Midnight(i.start) <= Day(k)
  BY TimetableHoldsAll
<1>2. Ask(i)
  OBVIOUS
<1> HIDE DEF i
<1>3. Inv'
  BY <1>1, <1>2, AskStep
<1>4. /\ UNCHANGED <<journey, departures>> /\ get_set_days(bf)' = get_set_days(bf)
      /\ interval' = i /\ Phase' = "departing"
      /\ Wanted' = {d \in get_set_days(bf) : d >= Midnight(i.start) /\ Overlaps(d, i)}
  BY <1>1, <1>2, AskedDays
<1>5. \A k \in bf.bits : Day(k) >= Midnight(i.start)
  <2>1. \A k \in bf.bits : Day(k) \in Nat
    BY DayTimes DEF Inv, BitsInRange
  <2>2. Midnight(i.start) \in Int
    BY <1>1, DayAssumption DEF Midnight
  <2> QED BY <1>1, <2>1, <2>2
<1>6. \A d \in get_set_days(bf) : d >= Midnight(i.start) /\ Overlaps(d, i)
  BY <1>1, <1>5 DEF get_set_days, Day
<1>7. Wanted' = get_set_days(bf)
  BY <1>4, <1>6
<1>8. Phase = "accepted"
  BY DEF Phase
<1> QED BY <1>1, <1>3, <1>4, <1>7, <1>8, DaysOfBits DEF Calendar!AskTimetable

\* Iteration ends when no wanted day is left.
LEMMA EndStep == Inv /\ End => Inv' /\ Calendar!End
<1> SUFFICES ASSUME Inv, End PROVE Inv' /\ Calendar!End
  OBVIOUS
<1>1. TypeOK /\ InRange(bf) /\ IsEndOf(interval, end) /\ it = end /\ pc = "departing"
  BY DEF Inv, BitsInRange, End, Departing
<1>2. pc' = "done" /\ UNCHANGED <<checked, journey, services, ok, bf, total>>
      /\ UNCHANGED <<interval, it, end, departures>>
  BY DEF End, parsing, asking
<1>3. Inv'
  BY <1>2 DEF Inv, TypeOK, BitsInRange, InRange, Departing
<1>4. ASSUME NEW k \in bf.bits, it <= k PROVE ~Overlaps(Day(k), interval)
  <2>1. bf \in Bitfields /\ interval \in [start : Nat, end : Nat] /\ end \in Nat
    BY <1>1 DEF TypeOK
  <2>2. end # get_end_idx(bf)
    BY <1>1, <1>4, <2>1, EndIdxType
  <2>3. end \in bf.bits /\ DAY * Day(end) > interval.end
    BY <1>1, <2>2 DEF IsEndOf
  <2>4. Day(end) <= Day(k) /\ Day(end) \in Nat /\ Day(k) \in Nat
    BY <1>1, <1>4, <2>1, EndIdxType DEF Day
  <2>5. DAY * Day(end) <= DAY * Day(k)
    BY <2>4, DayAssumption
  <2>6. DAY * Day(k) > interval.end
    <3> DEFINE x == DAY * Day(end)
               y == DAY * Day(k)
    <3>1. x \in Nat /\ y \in Nat /\ interval.end \in Nat
      BY <2>1, <2>4, DayAssumption
    <3>2. x > interval.end /\ x <= y
      BY <2>3, <2>5
    <3> HIDE DEF x, y
    <3>3. y > interval.end
      BY <3>1, <3>2
    <3> QED BY <3>3 DEF y
  <2> QED BY <1>1, <2>1, <2>6, BehindDoesNotOverlap
<1>5. Wanted = {}
  BY <1>1, <1>4, WantedDays
<1>6. Wanted' = {} /\ Phase' = "done" /\ Phase = "departing"
  BY <1>1, <1>2 DEF Wanted, Phase
<1>7. UNCHANGED get_set_days(bf)
  BY <1>2 DEF get_set_days
<1> QED BY <1>2, <1>3, <1>5, <1>6, <1>7 DEF Calendar!End

\* A read that fails changes no day.
LEMMA FailReadStep == Inv /\ FailRead => Inv' /\ UNCHANGED Calendar!vars
<1> SUFFICES ASSUME Inv, FailRead PROVE Inv' /\ UNCHANGED Calendar!vars
  OBVIOUS
<1>1. /\ pc = "services" /\ pc' = "failed" /\ services < MaxServices
      /\ services' = services + 1
      /\ UNCHANGED <<checked, journey, ok, bf, total, interval, it, end, departures>>
  BY DEF FailRead, Read, asking
<1>2. services' \in 0..MaxServices
  BY <1>1, MaxServicesAssumption DEF Inv, TypeOK
<1>3. Inv'
  BY <1>1, <1>2 DEF Inv, TypeOK, BitsInRange, InRange, Departing
<1> QED BY <1>1, <1>3 DEF Calendar!vars, Phase, Wanted, get_set_days

\* Nor do the assertions behind the last service.
LEMMA FinishStep ==
  Inv /\ (FinishServices \/ FailServices) =>
    Inv' /\ (Calendar!Accept \/ UNCHANGED Calendar!vars)
<1> SUFFICES ASSUME Inv, FinishServices \/ FailServices
             PROVE  Inv' /\ (Calendar!Accept \/ UNCHANGED Calendar!vars)
  OBVIOUS
<1>1. /\ pc = "services" /\ pc' \in {"failed", "accepted"}
      /\ UNCHANGED <<checked, journey, services, ok, bf, total>>
      /\ UNCHANGED <<interval, it, end, departures>>
  BY DEF FinishServices, FailServices, parsing, asking
<1>2. Inv'
  BY <1>1 DEF Inv, TypeOK, BitsInRange, InRange, Departing
<1>3. UNCHANGED <<Wanted, get_set_days(bf)>>
  BY <1>1 DEF Wanted, get_set_days
<1> QED BY <1>1, <1>2, <1>3 DEF Calendar!vars, Calendar!Accept, Phase

\* There is no timetable with a train that has no service day.
LEMMA FailTimetableStep == Inv /\ FailTimetable => Inv' /\ Calendar!NoTimetable
<1> SUFFICES ASSUME Inv, FailTimetable PROVE Inv' /\ Calendar!NoTimetable
  OBVIOUS
<1>1. /\ pc = "accepted" /\ pc' \in {"terminated", "searching"} /\ ~HasDays
      /\ UNCHANGED <<checked, journey, services, ok, bf, total>>
      /\ UNCHANGED <<interval, it, end, departures>>
  BY DEF FailTimetable, parsing, asking
<1>2. Inv'
  BY <1>1 DEF Inv, TypeOK, BitsInRange, InRange, Departing
<1>3. UNCHANGED <<Wanted, get_set_days(bf)>>
  BY <1>1 DEF Wanted, get_set_days
<1>4. get_set_days(bf) = {}
  BY <1>1, DaysOfBits
<1> QED BY <1>1, <1>2, <1>3, <1>4 DEF Calendar!NoTimetable, Phase

\* Every step keeps the invariant and is one of the calendar or none.
LEMMA NextStep ==
  Inv /\ [Next]_vars => Inv' /\ [Calendar!Next]_(Calendar!vars)
<1> SUFFICES ASSUME Inv, [Next]_vars
             PROVE  Inv' /\ [Calendar!Next]_(Calendar!vars)
  OBVIOUS
<1>1. CASE ReadAnyService
  <2>1. Inv' /\ \E S \in SUBSET Dates : get_set_days(bf)' = get_set_days(bf) \cup S
    BY <1>1, ReadServiceStep
  <2>2. pc = "services" /\ pc' = "services"
        /\ UNCHANGED <<journey, interval, departures>>
    BY <1>1 DEF ReadAnyService, ReadService, Read, asking
  <2>3. Phase = "services" /\ UNCHANGED <<Phase, Wanted>>
    BY <2>2 DEF Phase, Wanted
  <2> QED BY <2>1, <2>2, <2>3 DEF Calendar!Next, Calendar!Change
<1>2. CASE ReadAnySpecial
  <2>1. /\ Inv'
        /\ \/ \E S \in SUBSET Dates : get_set_days(bf)' = get_set_days(bf) \cup S
           \/ \E d \in Dates : get_set_days(bf)' = get_set_days(bf) \ {d}
    BY <1>2, ReadSpecialStep
  <2>2. pc = "services" /\ pc' = "services"
        /\ UNCHANGED <<journey, interval, departures>>
    BY <1>2 DEF ReadAnySpecial, ReadSpecial, Read, asking
  <2>3. Phase = "services" /\ UNCHANGED <<Phase, Wanted>>
    BY <2>2 DEF Phase, Wanted
  <2> QED BY <2>1, <2>2, <2>3 DEF Calendar!Next, Calendar!Change
<1>3. CASE FailRead
  BY <1>3, FailReadStep
<1>4. CASE FinishServices \/ FailServices
  BY <1>4, FinishStep DEF Calendar!Next
<1>5. CASE AskInterval
  BY <1>5, AskIntervalStep DEF Calendar!Next
<1>6. CASE AskTimetable
  BY <1>6, AskTimetableStep DEF Calendar!Next
<1>7. CASE Depart
  <2>1. /\ Inv' /\ Wanted # {} /\ Calendar!First(Wanted) = Day(it)
        /\ Wanted' = Wanted \ {Day(it)}
    BY <1>7, DepartStep
  <2>2. /\ pc = "departing" /\ departures' = Append(departures, Day(it))
        /\ UNCHANGED <<journey, pc, bf, interval>>
    BY <1>7 DEF Depart, parsing, Day
  <2>3. Phase = "departing" /\ UNCHANGED <<Phase, get_set_days(bf)>>
    BY <2>2 DEF Phase, get_set_days
  <2> QED BY <2>1, <2>2, <2>3 DEF Calendar!Next, Calendar!Depart
<1>8. CASE End
  BY <1>8, EndStep DEF Calendar!Next
<1>9. CASE FailTimetable
  BY <1>9, FailTimetableStep DEF Calendar!Next
<1>10. CASE UNCHANGED vars
  <2>1. /\ UNCHANGED <<checked, journey, pc, services, ok, bf, total>>
        /\ UNCHANGED <<interval, it, end, departures>>
    BY <1>10 DEF vars
  <2>2. Inv'
    BY <2>1 DEF Inv, TypeOK, BitsInRange, InRange, Departing, IsEndOf, Day, Overlaps
  <2>3. UNCHANGED <<get_set_days(bf), Phase, Wanted>>
    BY <2>1 DEF get_set_days, Phase, Wanted, Overlaps
  <2> QED BY <2>1, <2>2, <2>3 DEF Calendar!vars
<1> QED BY <1>1, <1>2, <1>3, <1>4, <1>5, <1>6, <1>7, <1>8, <1>9,
          <1>10
        DEF Next, ReadAnyService, ReadAnySpecial

-----------------------------------------------------------------------------
\* The invariant holds in every state.
THEOREM Invariant == Spec => []Inv
<1>1. Inv /\ [Next]_vars => Inv'
  BY NextStep
<1> QED BY InitInv, <1>1, PTL DEF Spec

\* Types: the bitfield, its iterators and the sequence of departures are what
\* the code takes them for, whatever the services and the intervals are.
THEOREM TypeCorrect == Spec => []TypeOK
<1>1. Inv => TypeOK
  BY DEF Inv
<1> QED BY Invariant, <1>1, PTL

\* operator|= and set leave no set bit outside the range of the bitfield.
THEOREM BitsStayInRange == Spec => []BitsInRange
<1>1. Inv => BitsInRange
  BY DEF Inv
<1> QED BY Invariant, <1>1, PTL

\* The iterator of train::departures always meets the end iterator.
THEOREM IteratorMeetsEnd == Spec => []NeverPastEnd
<1>1. Inv => NeverPastEnd
  BY DEF Inv, Departing, NeverPastEnd, IsEndOf, Day
<1> QED BY Invariant, <1>1, PTL

\* The bitfield with its iterators implements the calendar: the services add
\* up to their days, and train::departures yields the wanted ones in order.
THEOREM CalendarImplemented == Spec => ImplementsCalendar
<1>1. Init => Calendar!Init
  <2> SUFFICES ASSUME Init PROVE Calendar!Init
    OBVIOUS
  <2>1. get_set_days(bf) = {}
    BY DEF Init, NoBitfield, get_set_days
  <2>2. interval \in [start : Nat, end : Nat]
    BY DEF Init, NoInterval
  <2>3. Phase = "services" /\ Wanted = {}
    BY DEF Init, Phase, Wanted
  <2> QED BY <2>1, <2>2, <2>3 DEF Init, Calendar!Init
<1>2. Inv /\ [Next]_vars => [Calendar!Next]_(Calendar!vars)
  BY NextStep
<1> QED BY <1>1, <1>2, Invariant, PTL DEF Spec, ImplementsCalendar, Calendar!Spec
=============================================================================
