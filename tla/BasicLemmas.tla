---------------------------- MODULE BasicLemmas -----------------------------
(***************************************************************************)
(* Lemmas that need no model: least and greatest members of sets of        *)
(* natural numbers and induction over them, sequences and their joins,     *)
(* sums, sets of pairs, ordered sets and rising lists, and reachability,   *)
(* with the theorem that the transitive reduction of                       *)
(* remove_transitive_edges.cc rests on.                                    *)
(***************************************************************************)
EXTENDS Integers, SequencesExt, WellFoundedInduction, SequenceTheorems,
        FiniteSetTheorems, Reachability, TLAPS

(***************************************************************************)
(* Sets of natural numbers.                                                *)
(***************************************************************************)
\* Every non-empty set of naturals has a least member.
LEMMA LeastNat ==
  ASSUME NEW T \in SUBSET Nat, T # {}
  PROVE  \E x \in T : \A y \in T : x <= y
<1> DEFINE R == OpToRel(<, Nat)
<1>1. IsWellFoundedOn(R, Nat)
  BY NatLessThanWellFounded
<1>2. PICK x \in T : \A y \in T : <<y, x>> \notin R
  <2> HIDE DEF R
  <2> QED BY <1>1, WFMin
<1>3. \A y \in T : ~(y < x)
  BY <1>2 DEF OpToRel
<1> QED BY <1>3

\* A non-empty set of naturals below a bound has a greatest member.
LEMMA GreatestNat ==
  ASSUME NEW T \in SUBSET Nat, T # {}, NEW B \in Nat, \A x \in T : x <= B
  PROVE  \E x \in T : \A y \in T : y <= x
<1> DEFINE U == {k \in Nat : \E x \in T : k = B - x}
<1>1. U # {}
  <2>1. PICK x \in T : TRUE
    OBVIOUS
  <2>2. B - x \in Nat
    OBVIOUS
  <2> QED BY <2>2
<1>2. PICK k \in U : \A j \in U : k <= j
  <2> HIDE DEF U
  <2>1. U \in SUBSET Nat
    BY DEF U
  <2> QED BY <1>1, <2>1, LeastNat
<1>3. PICK x \in T : k = B - x
  OBVIOUS
<1>4. ASSUME NEW y \in T PROVE y <= x
  <2>1. B - y \in U
    OBVIOUS
  <2> QED BY <2>1, <1>2, <1>3
<1> QED BY <1>4

\* A set that holds 0 and with each number the next one holds them all.
LEMMA AllNaturals ==
  ASSUME NEW T, 0 \in T, \A n \in Nat : n \in T => n + 1 \in T
  PROVE  Nat \subseteq T
<1> DEFINE bad == {n \in Nat : n \notin T}
<1> SUFFICES ASSUME bad # {} PROVE FALSE
  OBVIOUS
<1>1. PICK n \in bad : \A y \in bad : n <= y
  BY LeastNat
<1>2. n - 1 \in Nat /\ n - 1 \notin bad
  BY <1>1
<1> QED BY <1>1, <1>2

-----------------------------------------------------------------------------
(***************************************************************************)
(* Sequences: what their operations return.                                *)
(***************************************************************************)
\* A sequence of numbers with one more.
LEMMA AppendFacts ==
  ASSUME NEW q \in Seq(Nat), NEW s \in Nat
  PROVE  /\ Append(q, s) \in Seq(Nat) /\ Len(q) \in Nat /\ Len(Append(q, s)) = Len(q) + 1
         /\ \A j \in 1..Len(q) : Append(q, s)[j] = q[j]
         /\ Append(q, s)[Len(q) + 1] = s
  BY AppendProperties

\* The members of a concatenation.
LEMMA ConcatAt ==
  ASSUME NEW T, NEW a \in Seq(T), NEW b \in Seq(T)
  PROVE  /\ a \o b \in Seq(T) /\ Len(a) \in Nat /\ Len(b) \in Nat
         /\ Len(a \o b) = Len(a) + Len(b)
         /\ \A i \in 1..Len(a) : (a \o b)[i] = a[i]
         /\ \A j \in 1..Len(b) : (a \o b)[Len(a) + j] = b[j]
         /\ \A i \in 1..Len(a \o b) :
              i \in 1..Len(a) \/ \E j \in 1..Len(b) : i = Len(a) + j
<1>1. a \o b \in Seq(T) /\ Len(a \o b) = Len(a) + Len(b)
  BY ConcatProperties
<1>2. Len(a) \in Nat /\ Len(b) \in Nat
  BY LenProperties
<1>3. \A i \in 1..(Len(a) + Len(b)) : (a \o b)[i] = IF i <= Len(a) THEN a[i] ELSE b[i - Len(a)]
  BY ConcatProperties
<1>4. ASSUME NEW i \in 1..Len(a) PROVE (a \o b)[i] = a[i]
  BY <1>2, <1>3
<1>5. ASSUME NEW j \in 1..Len(b) PROVE (a \o b)[Len(a) + j] = b[j]
  <2>1. /\ Len(a) + j \in 1..(Len(a) + Len(b))
        /\ ~(Len(a) + j <= Len(a)) /\ (Len(a) + j) - Len(a) = j
    BY <1>2
  <2> QED BY <1>3, <2>1
<1>6. ASSUME NEW i \in 1..Len(a \o b), i \notin 1..Len(a)
      PROVE \E j \in 1..Len(b) : i = Len(a) + j
  <2>1. i - Len(a) \in 1..Len(b) /\ i = Len(a) + (i - Len(a))
    BY <1>1, <1>2, <1>6
  <2> QED BY <2>1
<1> QED BY <1>1, <1>2, <1>4, <1>5, <1>6

\* The members of a tail.
LEMMA TailAt ==
  ASSUME NEW T, NEW s \in Seq(T), s # <<>>
  PROVE  /\ Tail(s) \in Seq(T) /\ Len(Tail(s)) = Len(s) - 1 /\ Len(s) \in Nat \ {0}
         /\ \A i \in 1..(Len(s) - 1) : Tail(s)[i] = s[i + 1] /\ i + 1 \in 1..Len(s)
<1>1. Len(s) \in Nat /\ Len(s) # 0
  BY LenProperties, EmptySeq
<1>2. /\ Tail(s) \in Seq(T) /\ Len(Tail(s)) = Len(s) - 1
      /\ \A i \in 1..Len(Tail(s)) : Tail(s)[i] = s[i + 1]
  BY HeadTailProperties
<1> QED BY <1>1, <1>2

\* The sequence c continues p.
Prefix(p, c) == Len(p) <= Len(c) /\ \A j \in 1..Len(p) : c[j] = p[j]

\* What continues a sequence with one more member, and what it continues.
LEMMA PrefixOfAppend ==
  ASSUME NEW q \in Seq(Nat), NEW s \in Nat, NEW c \in Seq(Nat)
  PROVE  /\ Prefix(Append(q, s), c) => Prefix(q, c)
         /\ Prefix(c, Append(q, s)) => (Prefix(c, q) \/ Prefix(q, c))
<1>1. /\ Len(q) \in Nat /\ Len(c) \in Nat /\ Len(Append(q, s)) = Len(q) + 1
      /\ \A j \in 1..Len(q) : Append(q, s)[j] = q[j]
      /\ Append(q, s)[Len(q) + 1] = s
  BY AppendFacts, LenProperties
<1>2. ASSUME Prefix(Append(q, s), c) PROVE Prefix(q, c)
  <2>1. Len(q) + 1 <= Len(c) /\ \A j \in 1..(Len(q) + 1) : c[j] = Append(q, s)[j]
    BY <1>1, <1>2 DEF Prefix
  <2>2. \A j \in 1..Len(q) : c[j] = q[j]
    <3>1. \A j \in 1..Len(q) : j \in 1..(Len(q) + 1)
      BY <1>1
    <3> QED BY <1>1, <2>1, <3>1
  <2> QED BY <1>1, <2>1, <2>2 DEF Prefix
<1>3. ASSUME Prefix(c, Append(q, s)) PROVE Prefix(c, q) \/ Prefix(q, c)
  <2>1. Len(c) <= Len(q) + 1 /\ \A j \in 1..Len(c) : Append(q, s)[j] = c[j]
    BY <1>1, <1>3 DEF Prefix
  <2>2. CASE Len(c) <= Len(q)
    <3>1. \A j \in 1..Len(c) : q[j] = c[j]
      BY <1>1, <2>1, <2>2
    <3> QED BY <2>2, <3>1 DEF Prefix
  <2>3. CASE Len(c) = Len(q) + 1
    <3>1. \A j \in 1..Len(q) : c[j] = q[j]
      BY <1>1, <2>1, <2>3
    <3> QED BY <1>1, <2>3, <3>1 DEF Prefix
  <2> QED BY <1>1, <2>1, <2>2, <2>3
<1> QED BY <1>2, <1>3

\* A member of a sequence is replaced.
LEMMA ReplacedIsSequence ==
  ASSUME NEW s, \E S : s \in Seq(S), NEW i, NEW v
  PROVE  \E S : [s EXCEPT ![i] = v] \in Seq(S)
<1>1. PICK S : s \in Seq(S)
  OBVIOUS
<1> DEFINE t == [s EXCEPT ![i] = v]
<1>2. s \in [1..Len(s) -> S] /\ Len(s) \in Nat
  BY <1>1
<1>3. t \in [1..Len(s) -> S \cup {v}]
  BY <1>2
<1>4. t \in Seq(S \cup {v})
  <2> HIDE DEF t
  <2> QED BY <1>2, <1>3, SeqDef
<1> QED BY <1>4

\* A member is appended.
LEMMA AppendedIsSequence ==
  ASSUME NEW s, \E S : s \in Seq(S), NEW v
  PROVE  /\ \E S : Append(s, v) \in Seq(S)
         /\ DOMAIN Append(s, v) = DOMAIN s \cup {Len(s) + 1}
         /\ Len(s) + 1 \notin DOMAIN s /\ Len(s) + 1 # 0
         /\ Append(s, v)[Len(s) + 1] = v
         /\ \A i \in DOMAIN s : Append(s, v)[i] = s[i]
<1>1. PICK S : s \in Seq(S)
  OBVIOUS
<1>2. s \in Seq(S \cup {v}) /\ v \in S \cup {v} /\ Len(s) \in Nat /\ DOMAIN s = 1..Len(s)
  BY <1>1
<1>3. Append(s, v) \in Seq(S \cup {v}) /\ Len(Append(s, v)) = Len(s) + 1
  BY <1>2
<1>4. DOMAIN Append(s, v) = 1..(Len(s) + 1)
  BY <1>2, <1>3
<1> QED BY <1>2, <1>3, <1>4

\* A list whose members are given by a formula.
LEMMA MappedIsSequence ==
  ASSUME NEW n \in Nat, NEW f, f = [k \in 1..n |-> f[k]]
  PROVE  Len(f) = n /\ DOMAIN f = 1..n /\ \E S : f \in Seq(S)
<1> DEFINE S == {f[k] : k \in 1..n}
<1>1. f \in [1..n -> S]
  OBVIOUS
<1>2. f \in Seq(S)
  <2> HIDE DEF S
  <2> QED BY <1>1, SeqDef
<1>3. Len(f) = n /\ DOMAIN f = 1..n
  BY <1>2, LenProperties
<1> QED BY <1>2, <1>3

\* A sequence and its members.
LEMMA MembersOf ==
  ASSUME NEW S, NEW s \in Seq(S)
  PROVE  /\ Len(s) \in Nat /\ DOMAIN s = 1..Len(s)
         /\ \A x : x \in Range(s) <=> \E i \in 1..Len(s) : s[i] = x
<1>1. Len(s) \in Nat /\ DOMAIN s = 1..Len(s)
  BY LenProperties
<1> QED BY <1>1 DEF Range

\* A member of a concatenation is a member of one of its parts.
LEMMA ConcatMembers ==
  ASSUME NEW S, NEW a \in Seq(S), NEW b \in Seq(S), NEW x
  PROVE  x \in Range(a \o b) <=> x \in Range(a) \/ x \in Range(b)
<1>1. /\ a \o b \in Seq(S) /\ Len(a) \in Nat /\ Len(b) \in Nat
      /\ Len(a \o b) = Len(a) + Len(b)
      /\ \A i \in 1..Len(a) : (a \o b)[i] = a[i]
      /\ \A i \in 1..Len(b) : (a \o b)[Len(a) + i] = b[i]
  BY ConcatProperties, LenProperties
<1>2. ASSUME x \in Range(a \o b) PROVE x \in Range(a) \/ x \in Range(b)
  <2>1. PICK i \in 1..Len(a \o b) : (a \o b)[i] = x
    BY <1>1, <1>2, MembersOf
  <2>2. CASE i <= Len(a)
    <3>1. i \in 1..Len(a)
      BY <1>1, <2>2
    <3> QED BY <1>1, <2>1, <3>1, MembersOf
  <2>3. CASE ~(i <= Len(a))
    <3>1. i - Len(a) \in 1..Len(b) /\ Len(a) + (i - Len(a)) = i
      BY <1>1, <2>3
    <3>2. b[i - Len(a)] = x
      BY <1>1, <2>1, <3>1
    <3> QED BY <3>1, <3>2, MembersOf
  <2> QED BY <2>2, <2>3
<1>3. ASSUME x \in Range(a) PROVE x \in Range(a \o b)
  <2>1. PICK i \in 1..Len(a) : a[i] = x
    BY <1>3, MembersOf
  <2>2. i \in 1..Len(a \o b) /\ (a \o b)[i] = x
    BY <1>1, <2>1
  <2> QED BY <1>1, <2>2, MembersOf
<1>4. ASSUME x \in Range(b) PROVE x \in Range(a \o b)
  <2>1. PICK i \in 1..Len(b) : b[i] = x
    BY <1>4, MembersOf
  <2>2. Len(a) + i \in 1..Len(a \o b) /\ (a \o b)[Len(a) + i] = x
    BY <1>1, <2>1
  <2> QED BY <1>1, <2>2, MembersOf
<1> QED BY <1>2, <1>3, <1>4

\* The ends of a concatenation.
LEMMA ConcatEnds ==
  ASSUME NEW S, NEW a \in Seq(S), NEW b \in Seq(S)
  PROVE  /\ a \o b \in Seq(S) /\ Len(a \o b) = Len(a) + Len(b)
         /\ Len(a) \in Nat /\ Len(b) \in Nat
         /\ Len(a) >= 1 => (a \o b)[1] = a[1]
         /\ Len(b) >= 1 => (a \o b)[Len(a \o b)] = b[Len(b)]
         /\ a = <<>> => a \o b = b
<1>1. /\ a \o b \in Seq(S) /\ Len(a) \in Nat /\ Len(b) \in Nat
      /\ Len(a \o b) = Len(a) + Len(b)
      /\ \A i \in 1..Len(a) : (a \o b)[i] = a[i]
      /\ \A i \in 1..Len(b) : (a \o b)[Len(a) + i] = b[i]
  BY ConcatProperties, LenProperties
<1>2. Len(a) >= 1 => 1 \in 1..Len(a)
  BY <1>1
<1>3. Len(b) >= 1 => Len(b) \in 1..Len(b)
  BY <1>1
<1>4. a = <<>> => a \o b = b
  OBVIOUS
<1> QED BY <1>1, <1>2, <1>3, <1>4

\* Sequences of different things are sequences of things.
LEMMA CommonMembers ==
  ASSUME NEW n \in Nat, NEW f, \A k \in 1..n : f[k] \in Seq(Range(f[k]))
  PROVE  \E S : \A k \in 1..n : f[k] \in Seq(S)
<1> DEFINE S == UNION {Range(f[k]) : k \in 1..n}
<1>1. ASSUME NEW k \in 1..n PROVE f[k] \in Seq(S)
  <2>1. Range(f[k]) \subseteq S
    OBVIOUS
  <2> HIDE DEF S
  <2>2. Seq(Range(f[k])) \subseteq Seq(S)
    BY <2>1, SeqMonotonic
  <2> QED BY <2>2
<1> HIDE DEF S
<1> QED BY <1>1

-----------------------------------------------------------------------------
(***************************************************************************)
(* Joining sequences: that there is one join of any number of sequences,   *)
(* what is in it, how long it is and where it begins and ends.             *)
(***************************************************************************)
\* FlattenSeq joins its sequences one by one.
Joins(h, f, n) ==
  /\ DOMAIN h = 0..n /\ h[0] = <<>>
  /\ \A k \in 1..n : h[k] = h[k - 1] \o f[k]

\* The sequences f[1], f[2], ... can be joined one after the other.
LEMMA JoinExists ==
  ASSUME NEW n \in Nat, NEW f
  PROVE  \E h : Joins(h, f, n)
<1> DEFINE T == {k \in Nat : \E h : Joins(h, f, k)}
<1>1. 0 \in T
  <2> DEFINE h == [k \in 0..0 |-> <<>>]
  <2>1. Joins(h, f, 0)
    BY DEF Joins
  <2> QED BY <2>1
<1>2. ASSUME NEW k \in T PROVE k + 1 \in T
  <2>1. PICK h : Joins(h, f, k)
    OBVIOUS
  <2> DEFINE g == [i \in 0..(k + 1) |-> IF i = k + 1 THEN h[k] \o f[k + 1] ELSE h[i]]
  <2>2. k \in Nat
    OBVIOUS
  <2>3. DOMAIN g = 0..(k + 1) /\ g[0] = <<>>
    BY <2>1, <2>2 DEF Joins
  <2>4. ASSUME NEW i \in 1..(k + 1) PROVE g[i] = g[i - 1] \o f[i]
    <3>1. CASE i = k + 1
      <4>1. g[k + 1] = h[k] \o f[k + 1] /\ g[k] = h[k]
        BY <2>2
      <4> QED BY <3>1, <4>1, <2>2
    <3>2. CASE i # k + 1
      <4>1. i \in 1..k /\ g[i] = h[i] /\ g[i - 1] = h[i - 1]
        BY <2>2, <3>2
      <4> QED BY <4>1, <2>1 DEF Joins
    <3> QED BY <3>1, <3>2
  <2>5. Joins(g, f, k + 1)
    <3> HIDE DEF g
    <3> QED BY <2>3, <2>4 DEF Joins
  <2> QED BY <2>2, <2>5
<1>3. T = Nat
  <2> HIDE DEF T
  <2>1. T \subseteq Nat
    BY DEF T
  <2> QED BY <1>1, <1>2, <2>1, AllNaturals
<1> QED BY <1>3

\* Flattening is joining one after the other.
LEMMA FlattenJoins ==
  ASSUME NEW n \in Nat, NEW f, NEW S, \A k \in 1..n : f[k] \in Seq(S),
         NEW h, Joins(h, f, n)
  PROVE  FlattenSeq([k \in 1..n |-> f[k]]) = h[n]
<1> DEFINE ss == [k \in 1..n |-> f[k]]
<1>1. Len(ss) = n /\ DOMAIN ss = 1..n /\ \A k \in 1..n : ss[k] = f[k]
  <2>1. ss \in Seq(Seq(S))
    OBVIOUS
  <2> QED BY <2>1
<1>2. CASE n = 0
  <2>1. ss = <<>>
    BY <1>2
  <2>2. FlattenSeq(ss) = ss
    BY <1>1, <1>2 DEF FlattenSeq
  <2> QED BY <2>1, <2>2, <1>2 DEF Joins
<1>3. CASE n # 0
  <2> HIDE DEF ss
  <2> DEFINE Follows(g) == g = [i \in 1..n |-> IF i = 1 THEN ss[i] ELSE g[i - 1] \o ss[i]]
             g0 == CHOOSE g : Follows(g)
  <2>1. FlattenSeq(ss) = g0[n]
    <3>1. ~(Len(ss) = 0)
      BY <1>1, <1>3
    <3> QED BY <1>1, <3>1, Zenon DEF FlattenSeq
  <2>9. h[1] = <<>> \o f[1] /\ f[1] \in Seq(S)
    <3>1. 1 \in 1..n /\ 1 - 1 = 0
      BY <1>3
    <3>2. h[1] = h[1 - 1] \o f[1] /\ f[1] \in Seq(S) /\ h[0] = <<>>
      BY <3>1 DEF Joins
    <3> QED BY <3>1, <3>2
  <2>2. \E g : Follows(g)
    <3> DEFINE g == [i \in 1..n |-> h[i]]
    <3>1. ASSUME NEW i \in 1..n
          PROVE  g[i] = IF i = 1 THEN ss[i] ELSE g[i - 1] \o ss[i]
      <4>1. h[i] = h[i - 1] \o ss[i]
        BY <1>1 DEF Joins
      <4>2. CASE i = 1
        <5>1. h[1] = <<>> \o ss[1] /\ ss[1] \in Seq(S)
          BY <2>9, <1>3, <1>1
        <5>2. h[1] = ss[1]
          BY <5>1
        <5> QED BY <4>2, <5>2
      <4>3. CASE i # 1
        <5>1. g[i - 1] = h[i - 1]
          BY <4>3
        <5> QED BY <4>1, <4>3, <5>1
      <4> QED BY <4>2, <4>3
    <3>2. Follows(g)
      <4>1. g = [i \in 1..n |-> IF i = 1 THEN ss[i] ELSE g[i - 1] \o ss[i]]
        <5>1. g = [i \in 1..n |-> g[i]]
          OBVIOUS
        <5> HIDE DEF g
        <5> QED BY <3>1, <5>1
      <4> QED BY <4>1
    <3> HIDE DEF Follows
    <3> QED BY <3>2
  <2>3. Follows(g0)
    <3> HIDE DEF Follows
    <3> QED BY <2>2
  <2>4. \A i \in 1..n : g0[i] = IF i = 1 THEN ss[i] ELSE g0[i - 1] \o ss[i]
    <3> HIDE DEF g0
    <3> QED BY <2>3
  <2> HIDE DEF g0
  <2> DEFINE T == {k \in Nat : k + 1 \in 1..n => g0[k + 1] = h[k + 1]}
  <2>5. 0 \in T
    <3>1. g0[1] = ss[1]
      BY <2>4, <1>3
    <3>2. h[1] = <<>> \o ss[1] /\ ss[1] \in Seq(S)
      BY <2>9, <1>3, <1>1
    <3>3. h[1] = ss[1]
      BY <3>2
    <3> QED BY <3>1, <3>3
  <2>6. ASSUME NEW k \in Nat, k \in T PROVE k + 1 \in T
    <3> SUFFICES ASSUME k + 2 \in 1..n PROVE g0[k + 2] = h[k + 2]
      OBVIOUS
    <3>1. g0[k + 2] = g0[k + 1] \o ss[k + 2]
      <4>1. (k + 2) - 1 = k + 1 /\ k + 2 # 1
        OBVIOUS
      <4> QED BY <2>4, <4>1
    <3>2. h[k + 2] = h[k + 1] \o ss[k + 2]
      <4>1. (k + 2) - 1 = k + 1
        OBVIOUS
      <4> QED BY <1>1, <4>1 DEF Joins
    <3>3. g0[k + 1] = h[k + 1]
      BY <2>6
    <3> QED BY <3>1, <3>2, <3>3
  <2>7. Nat \subseteq T
    <3> HIDE DEF T
    <3> QED BY <2>5, <2>6, AllNaturals
  <2>8. n - 1 \in T
    BY <2>7, <1>3
  <2>10. g0[n] = h[n]
    BY <2>8, <1>3
  <2> QED BY <2>1, <2>10 DEF ss
<1> QED BY <1>2, <1>3

\* What it joins is a sequence.
LEMMA JoinTyped ==
  ASSUME NEW n \in Nat, NEW f, NEW S, \A k \in 1..n : f[k] \in Seq(S),
         NEW h, Joins(h, f, n)
  PROVE  \A k \in 0..n : h[k] \in Seq(S)
<1> DEFINE T == {k \in Nat : k \in 0..n => h[k] \in Seq(S)}
<1>1. 0 \in T
  BY DEF Joins
<1>2. ASSUME NEW k \in Nat, k \in T PROVE k + 1 \in T
  <2> SUFFICES ASSUME k + 1 \in 0..n PROVE h[k + 1] \in Seq(S)
    OBVIOUS
  <2>1. h[k + 1] = h[k] \o f[k + 1]
    <3>1. (k + 1) - 1 = k /\ k + 1 \in 1..n
      OBVIOUS
    <3> QED BY <3>1 DEF Joins
  <2>2. h[k] \in Seq(S) /\ f[k + 1] \in Seq(S)
    BY <1>2
  <2> QED BY <2>1, <2>2
<1>3. Nat \subseteq T
  <2> HIDE DEF T
  <2> QED BY <1>1, <1>2, AllNaturals
<1> QED BY <1>3

\* The prefix of a join joins the prefix.
LEMMA FlattenUpTo ==
  ASSUME NEW n \in Nat, NEW f, NEW S, \A k \in 1..n : f[k] \in Seq(S),
         NEW h, Joins(h, f, n), NEW m \in 0..n
  PROVE  /\ FlattenSeq([k \in 1..m |-> f[k]]) = h[m]
         /\ h[m] \in Seq(S)
<1> DEFINE g == [i \in 0..m |-> h[i]]
<1>1. Joins(g, f, m)
  BY DEF Joins
<1>2. g[m] = h[m] /\ m \in Nat /\ \A k \in 1..m : f[k] \in Seq(S)
  OBVIOUS
<1> HIDE DEF g
<1>3. FlattenSeq([k \in 1..m |-> f[k]]) = g[m]
  BY <1>1, <1>2, FlattenJoins
<1>4. h[m] \in Seq(S)
  BY JoinTyped
<1> QED BY <1>2, <1>3, <1>4

\* The elements of a flattened sequence are those of its parts.
LEMMA FlattenTyped ==
  ASSUME NEW n \in Nat, NEW f, NEW S, \A k \in 1..n : f[k] \in Seq(S)
  PROVE  FlattenSeq([k \in 1..n |-> f[k]]) \in Seq(S)
<1>1. PICK h : Joins(h, f, n)
  BY JoinExists
<1>2. n \in 0..n
  OBVIOUS
<1>3. FlattenSeq([k \in 1..n |-> f[k]]) = h[n] /\ h[n] \in Seq(S)
  BY <1>1, <1>2, FlattenUpTo
<1> QED BY <1>3

\* Flattening no sequence.
LEMMA FlattenEmpty ==
  ASSUME NEW f
  PROVE  FlattenSeq([k \in 1..0 |-> f[k]]) = <<>>
<1>1. PICK h : Joins(h, f, 0)
  BY JoinExists
<1>2. \A k \in 1..0 : f[k] \in Seq({})
  OBVIOUS
<1>3. FlattenSeq([k \in 1..0 |-> f[k]]) = h[0]
  BY <1>1, <1>2, FlattenJoins
<1> QED BY <1>1, <1>3 DEF Joins

\* Flattening one sequence more appends it.
LEMMA FlattenOneMore ==
  ASSUME NEW n \in Nat, NEW f, NEW S, \A k \in 1..(n + 1) : f[k] \in Seq(S)
  PROVE  /\ FlattenSeq([k \in 1..(n + 1) |-> f[k]])
              = FlattenSeq([k \in 1..n |-> f[k]]) \o f[n + 1]
         /\ FlattenSeq([k \in 1..n |-> f[k]]) \in Seq(S)
<1>1. n + 1 \in Nat /\ n \in 0..(n + 1) /\ n + 1 \in 0..(n + 1)
  OBVIOUS
<1>2. PICK h : Joins(h, f, n + 1)
  BY <1>1, JoinExists
<1>3. FlattenSeq([k \in 1..(n + 1) |-> f[k]]) = h[n + 1]
  BY <1>1, <1>2, FlattenUpTo
<1>4. FlattenSeq([k \in 1..n |-> f[k]]) = h[n] /\ h[n] \in Seq(S)
  BY <1>1, <1>2, FlattenUpTo
<1>5. h[n + 1] = h[n] \o f[n + 1]
  <2>1. n + 1 \in 1..(n + 1) /\ (n + 1) - 1 = n
    OBVIOUS
  <2> QED BY <1>2, <2>1 DEF Joins
<1> QED BY <1>3, <1>4, <1>5

\* What has been joined has the members of the parts joined.
LEMMA JoinMembers ==
  ASSUME NEW n \in Nat, NEW f, NEW S, \A k \in 1..n : f[k] \in Seq(S),
         NEW h, Joins(h, f, n), NEW x
  PROVE  x \in Range(h[n]) <=> \E k \in 1..n : x \in Range(f[k])
<1> DEFINE T == {m \in Nat : m \in 0..n =>
                   (x \in Range(h[m]) <=> \E k \in 1..m : x \in Range(f[k]))}
<1>1. 0 \in T
  <2>1. h[0] = <<>> /\ <<>> \in Seq(S)
    BY DEF Joins
  <2>2. x \notin Range(<<>>)
    BY DEF Range
  <2> QED BY <2>1, <2>2
<1>2. ASSUME NEW m \in Nat, m \in T PROVE m + 1 \in T
  <2> SUFFICES ASSUME m + 1 \in 0..n
               PROVE  x \in Range(h[m + 1]) <=> \E k \in 1..(m + 1) : x \in Range(f[k])
    OBVIOUS
  <2>1. h[m + 1] = h[m] \o f[m + 1]
    <3>1. (m + 1) - 1 = m /\ m + 1 \in 1..n
      OBVIOUS
    <3> QED BY <3>1 DEF Joins
  <2>2. h[m] \in Seq(S) /\ f[m + 1] \in Seq(S)
    <3>1. m \in 0..n /\ m + 1 \in 1..n
      OBVIOUS
    <3> QED BY <3>1, JoinTyped
  <2>3. x \in Range(h[m]) <=> \E k \in 1..m : x \in Range(f[k])
    BY <1>2
  <2>4. x \in Range(h[m + 1]) <=> x \in Range(h[m]) \/ x \in Range(f[m + 1])
    BY <2>1, <2>2, ConcatMembers
  <2>5. 1..(m + 1) = (1..m) \cup {m + 1}
    OBVIOUS
  <2> QED BY <2>3, <2>4, <2>5
<1>3. n \in T
  <2> HIDE DEF T
  <2> QED BY <1>1, <1>2, AllNaturals
<1> QED BY <1>3

\* The members of a flattened sequence are those of its parts.
LEMMA FlattenMembers ==
  ASSUME NEW n \in Nat, NEW f, NEW S, \A k \in 1..n : f[k] \in Seq(S), NEW x
  PROVE  x \in Range(FlattenSeq([k \in 1..n |-> f[k]]))
           <=> \E k \in 1..n : x \in Range(f[k])
<1>1. PICK h : Joins(h, f, n)
  BY JoinExists
<1>2. FlattenSeq([k \in 1..n |-> f[k]]) = h[n]
  BY <1>1, FlattenJoins
<1> QED BY <1>1, <1>2, JoinMembers

\* Its length is the sum of their lengths.
LEMMA FlattenLength ==
  ASSUME NEW n \in Nat, NEW f, NEW S, \A k \in 1..n : f[k] \in Seq(S),
         NEW sum, sum[0] = 0, \A k \in 1..n : sum[k] = sum[k - 1] + Len(f[k])
  PROVE  Len(FlattenSeq([k \in 1..n |-> f[k]])) = sum[n]
<1>1. PICK h : Joins(h, f, n)
  BY JoinExists
<1>2. FlattenSeq([k \in 1..n |-> f[k]]) = h[n]
  BY <1>1, FlattenJoins
<1> DEFINE T == {m \in Nat : m \in 0..n => Len(h[m]) = sum[m]}
<1>3. 0 \in T
  BY <1>1 DEF Joins
<1>4. ASSUME NEW m \in Nat, m \in T PROVE m + 1 \in T
  <2> SUFFICES ASSUME m + 1 \in 0..n PROVE Len(h[m + 1]) = sum[m + 1]
    OBVIOUS
  <2>1. (m + 1) - 1 = m /\ m + 1 \in 1..n /\ m \in 0..n
    OBVIOUS
  <2>2. h[m + 1] = h[m] \o f[m + 1]
    BY <1>1, <2>1 DEF Joins
  <2>3. h[m] \in Seq(S) /\ f[m + 1] \in Seq(S)
    BY <1>1, <2>1, JoinTyped
  <2>4. Len(h[m + 1]) = Len(h[m]) + Len(f[m + 1])
    BY <2>2, <2>3, ConcatEnds
  <2>5. Len(h[m]) = sum[m] /\ sum[m + 1] = sum[m] + Len(f[m + 1])
    BY <1>4, <2>1
  <2> QED BY <2>4, <2>5
<1>5. n \in T
  <2> HIDE DEF T
  <2> QED BY <1>3, <1>4, AllNaturals
<1> QED BY <1>2, <1>5

\* It begins with the first part and ends with the last one.
LEMMA FlattenEnds ==
  ASSUME NEW n \in Nat, n >= 1, NEW f, NEW S, \A k \in 1..n : f[k] \in Seq(S),
         Len(f[1]) >= 1, Len(f[n]) >= 1
  PROVE  LET s == FlattenSeq([k \in 1..n |-> f[k]])
         IN  /\ s \in Seq(S) /\ Len(s) >= 1
             /\ s[1] = f[1][1] /\ s[Len(s)] = f[n][Len(f[n])]
<1>1. PICK h : Joins(h, f, n)
  BY JoinExists
<1>2. FlattenSeq([k \in 1..n |-> f[k]]) = h[n]
  BY <1>1, FlattenJoins
<1>3. ASSUME NEW m \in 1..n
      PROVE  h[m] = h[m - 1] \o f[m] /\ h[m - 1] \in Seq(S) /\ f[m] \in Seq(S)
  <2>1. m - 1 \in 0..n
    OBVIOUS
  <2> QED BY <1>1, <2>1, JoinTyped DEF Joins
<1> DEFINE T == {m \in Nat : m + 1 \in 1..n => Len(h[m + 1]) >= 1 /\ h[m + 1][1] = f[1][1]}
<1>4. 0 \in T
  <2>1. 1 \in 1..n /\ 1 - 1 = 0
    OBVIOUS
  <2>2. h[1] = h[0] \o f[1] /\ h[0] = <<>> /\ h[0] \in Seq(S) /\ f[1] \in Seq(S)
    BY <1>1, <1>3, <2>1 DEF Joins
  <2>3. h[1] = f[1]
    BY <2>2, ConcatEnds
  <2> QED BY <2>3
<1>5. ASSUME NEW m \in Nat, m \in T PROVE m + 1 \in T
  <2> SUFFICES ASSUME m + 1 + 1 \in 1..n
               PROVE  Len(h[m + 1 + 1]) >= 1 /\ h[m + 1 + 1][1] = f[1][1]
    OBVIOUS
  <2> DEFINE i == m + 1 + 1
  <2>1. i \in 1..n /\ i - 1 = m + 1 /\ m + 1 \in 1..n
    OBVIOUS
  <2>2. h[i] = h[m + 1] \o f[i] /\ h[m + 1] \in Seq(S) /\ f[i] \in Seq(S)
    BY <1>3, <2>1
  <2>3. Len(h[m + 1]) >= 1 /\ h[m + 1][1] = f[1][1]
    BY <1>5, <2>1
  <2> HIDE DEF i
  <2> DEFINE a == h[m + 1]
             b == f[i]
  <2>4. /\ Len(a \o b) = Len(a) + Len(b) /\ Len(a) \in Nat /\ Len(b) \in Nat
        /\ (a \o b)[1] = a[1]
    <3>1. a \in Seq(S) /\ b \in Seq(S) /\ Len(a) >= 1
      BY <2>2, <2>3
    <3> HIDE DEF a, b
    <3> QED BY <3>1, ConcatEnds
  <2>5. Len(a \o b) >= 1
    <3> HIDE DEF a, b
    <3>1. Len(a) >= 1
      BY <2>3 DEF a
    <3> QED BY <2>4, <3>1
  <2>6. Len(h[i]) >= 1 /\ h[i][1] = f[1][1]
    BY <2>2, <2>3, <2>4, <2>5
  <2> QED BY <2>6 DEF i
<1>6. n - 1 \in T
  <2> HIDE DEF T
  <2> QED BY <1>4, <1>5, AllNaturals
<1>7. Len(h[n]) >= 1 /\ h[n][1] = f[1][1]
  BY <1>6
<1>8. h[n][Len(h[n])] = f[n][Len(f[n])] /\ h[n] \in Seq(S)
  <2> DEFINE a == h[n - 1]
             b == f[n]
  <2>1. n \in 1..n
    OBVIOUS
  <2>2. h[n] = a \o b /\ a \in Seq(S) /\ b \in Seq(S) /\ Len(b) >= 1
    BY <1>3, <2>1
  <2>3. (a \o b)[Len(a \o b)] = b[Len(b)] /\ a \o b \in Seq(S)
    <3> HIDE DEF a, b
    <3> QED BY <2>2, ConcatEnds
  <2> QED BY <2>2, <2>3
<1> QED BY <1>2, <1>7, <1>8

-----------------------------------------------------------------------------
(***************************************************************************)
(* Sums.                                                                   *)
(***************************************************************************)
\* A sum of any length: the model names it by CHOOSE.
Sums(f, n, g) ==
  f = [j \in 0..n |-> IF j = 0 THEN 0 ELSE f[j - 1] + g[j]]

\* There is such an f of any length.
LEMMA SumExists ==
  ASSUME NEW n \in Nat, NEW g
  PROVE  \E f : Sums(f, n, g)
<1> DEFINE T == {k \in Nat : \E f : Sums(f, k, g)}
<1>1. 0 \in T
  <2> DEFINE f == [k \in 0..0 |-> 0]
  <2>1. Sums(f, 0, g)
    BY DEF Sums
  <2> QED BY <2>1
<1>2. ASSUME NEW k \in T PROVE k + 1 \in T
  <2>1. PICK f : Sums(f, k, g)
    OBVIOUS
  <2> DEFINE h == [j \in 0..(k + 1) |-> IF j = k + 1 THEN f[k] + g[k + 1] ELSE f[j]]
  <2>2. k \in Nat
    OBVIOUS
  <2>6. \A j \in 0..k : f[j] = IF j = 0 THEN 0 ELSE f[j - 1] + g[j]
    BY <2>1 DEF Sums
  <2>3. ASSUME NEW j \in 0..(k + 1)
        PROVE  h[j] = IF j = 0 THEN 0 ELSE h[j - 1] + g[j]
    <3>1. CASE j = k + 1
      <4>1. h[k + 1] = f[k] + g[k + 1] /\ h[k] = f[k] /\ j # 0 /\ j - 1 = k
        BY <2>2, <3>1
      <4> HIDE DEF h
      <4> QED BY <3>1, <4>1
    <3>2. CASE j # k + 1
      <4>1. j \in 0..k /\ h[j] = f[j] /\ (j # 0 => h[j - 1] = f[j - 1])
        BY <2>2, <3>2
      <4> HIDE DEF h
      <4> QED BY <4>1, <2>6
    <3> QED BY <3>1, <3>2
  <2>4. h = [j \in 0..(k + 1) |-> h[j]]
    OBVIOUS
  <2>5. Sums(h, k + 1, g)
    <3> HIDE DEF h
    <3> QED BY <2>3, <2>4 DEF Sums
  <2> QED BY <2>2, <2>5
<1>3. n \in T
  <2> HIDE DEF T
  <2>1. \A k \in Nat : k \in T => k + 1 \in T
    BY <1>2
  <2> QED BY <1>1, <2>1, AllNaturals
<1> QED BY <1>3

-----------------------------------------------------------------------------
(***************************************************************************)
(* Sets of pairs, to count with: of every member d of a set D as many as m *)
(* says.                                                                   *)
(***************************************************************************)
\* The pairs of the members of D and the numbers up to theirs.
Pairs(D, m) == UNION {{d} \X (1..m[d]) : d \in D}

\* What is in a set of pairs.
LEMMA PairsHas ==
  ASSUME NEW D, NEW m, NEW x
  PROVE  x \in Pairs(D, m) <=> \E d \in D : \E k \in 1..m[d] : x = <<d, k>>
  BY DEF Pairs

\* Finitely many members with finitely many each are finitely many pairs.
LEMMA PairsFinite ==
  ASSUME NEW D, IsFiniteSet(D), NEW m, \A d \in D : m[d] \in Nat
  PROVE  IsFiniteSet(Pairs(D, m))
<1> DEFINE R == {{d} \X (1..m[d]) : d \in D}
<1>1. IsFiniteSet(R)
  <2> DEFINE f == [d \in D |-> {d} \X (1..m[d])]
  <2>1. f \in Surjection(D, R)
    <3>1. f \in [D -> R] /\ \A r \in R : \E d \in D : f[d] = r
      OBVIOUS
    <3> HIDE DEF f, R
    <3> QED BY <3>1 DEF Surjection
  <2> HIDE DEF f, R
  <2> QED BY <2>1, FS_Surjection
<1>2. ASSUME NEW d \in D PROVE IsFiniteSet({d} \X (1..m[d]))
  <2>1. IsFiniteSet({d})
    BY FS_Singleton
  <2>2. IsFiniteSet(1..m[d])
    <3> DEFINE n == m[d]
    <3>1. n \in Nat /\ n \in Int /\ 1 \in Int
      OBVIOUS
    <3> HIDE DEF n
    <3>2. IsFiniteSet(1..n)
      BY <3>1, FS_Interval
    <3> QED BY <3>2 DEF n
  <2> QED BY <2>1, <2>2, FS_Product
<1>3. \A r \in R : IsFiniteSet(r)
  BY <1>2
<1>4. IsFiniteSet(UNION R)
  <2> HIDE DEF R
  <2> QED BY <1>1, <1>3, FS_UNION
<1> QED BY <1>4 DEF Pairs

\* The number of one member grows by one, or a new member comes in.
LEMMA PairsGrow ==
  ASSUME NEW D, NEW m, NEW d, NEW D2, NEW m2, D2 = D \cup {d},
         \A e \in D : m[e] \in Nat, \A e \in D : e # d => m2[e] = m[e],
         m2[d] = (IF d \in D THEN m[d] ELSE 0) + 1
  PROVE  /\ Pairs(D2, m2) = Pairs(D, m) \cup {<<d, m2[d]>>}
         /\ <<d, m2[d]>> \notin Pairs(D, m)
<1> DEFINE n == IF d \in D THEN m[d] ELSE 0
<1>1. n \in Nat /\ m2[d] = n + 1
  OBVIOUS
<1>2. d \in D => n = m[d]
  OBVIOUS
<1>3. d \notin D => n = 0
  OBVIOUS
<1> HIDE DEF n
<1>4. ASSUME NEW x, x \in Pairs(D2, m2)
      PROVE  x \in Pairs(D, m) \cup {<<d, m2[d]>>}
  <2>1. PICK e \in D2 : \E k \in 1..m2[e] : x = <<e, k>>
    BY <1>4, PairsHas
  <2>2. PICK k \in 1..m2[e] : x = <<e, k>>
    BY <2>1
  <2>3. CASE e # d
    <3>1. e \in D /\ m2[e] = m[e]
      BY <2>1, <2>3
    <3>2. \E c \in D : \E j \in 1..m[c] : x = <<c, j>>
      BY <2>2, <3>1
    <3> QED BY <3>2, PairsHas
  <2>4. CASE e = d /\ k = m2[d]
    BY <2>2, <2>4
  <2>5. CASE e = d /\ k # m2[d]
    <3>1. k \in 1..n
      BY <2>2, <2>5, <1>1
    <3>2. d \in D /\ k \in 1..m[d]
      BY <3>1, <1>2, <1>3
    <3>3. \E c \in D : \E j \in 1..m[c] : x = <<c, j>>
      BY <2>2, <2>5, <3>2
    <3> QED BY <3>3, PairsHas
  <2> QED BY <2>3, <2>4, <2>5
<1>5. ASSUME NEW x, x \in Pairs(D, m)
      PROVE  x \in Pairs(D2, m2) /\ x # <<d, m2[d]>>
  <2>1. PICK e \in D : \E k \in 1..m[e] : x = <<e, k>>
    BY <1>5, PairsHas
  <2>2. PICK k \in 1..m[e] : x = <<e, k>>
    BY <2>1
  <2>3. e \in D2 /\ k \in 1..m2[e]
    <3>1. CASE e # d
      BY <2>2, <3>1
    <3>2. CASE e = d
      <4>1. k \in 1..n /\ m2[e] = n + 1
        BY <2>2, <3>2, <1>1, <1>2
      <4> QED BY <4>1, <1>1
    <3> QED BY <3>1, <3>2
  <2>4. \E c \in D2 : \E j \in 1..m2[c] : x = <<c, j>>
    BY <2>2, <2>3
  <2>5. x \in Pairs(D2, m2)
    BY <2>4, PairsHas
  <2>6. x # <<d, m2[d]>>
    <3> SUFFICES ASSUME e = d, k = m2[d] PROVE FALSE
      BY <2>2
    <3>1. k \in 1..n
      BY <2>2, <1>2
    <3> QED BY <3>1, <1>1
  <2> QED BY <2>5, <2>6
<1>6. <<d, m2[d]>> \in Pairs(D2, m2)
  <2>1. d \in D2 /\ m2[d] \in 1..m2[d]
    BY <1>1
  <2>2. \E c \in D2 : \E j \in 1..m2[c] : <<d, m2[d]>> = <<c, j>>
    BY <2>1
  <2> QED BY <2>2, PairsHas
<1> QED BY <1>4, <1>5, <1>6

-----------------------------------------------------------------------------
(***************************************************************************)
(* The order of a finite set: every place in it is taken, once.            *)
(***************************************************************************)
\* below[x] are the members of S that come before x.
Orders(below, S) ==
  /\ below \in [S -> SUBSET S]
  /\ \A x \in S : x \notin below[x]
  /\ \A x, y, z \in S : x \in below[y] /\ y \in below[z] => x \in below[z]
  /\ \A x, y \in S : x = y \/ x \in below[y] \/ y \in below[x]

\* In a finite ordered set every place is taken.
LEMMA EveryRankTaken ==
  ASSUME NEW S, IsFiniteSet(S), NEW below, Orders(below, S),
         NEW rank, rank = [x \in S |-> Cardinality(below[x])]
  PROVE  /\ rank \in [S -> 0..(Cardinality(S) - 1)]
         /\ \A x, y \in S : x \in below[y] => rank[x] < rank[y]
         /\ \A x, y \in S : rank[x] = rank[y] => x = y
         /\ \A i \in 1..Cardinality(S) : \E x \in S : rank[x] = i - 1
<1> DEFINE n == Cardinality(S)
<1>1. n \in Nat
  BY FS_CardinalityType
<1>2. ASSUME NEW x \in S
      PROVE  /\ IsFiniteSet(below[x]) /\ Cardinality(below[x]) \in Nat
             /\ rank[x] = Cardinality(below[x])
  <2>1. below[x] \in SUBSET S
    BY DEF Orders
  <2>2. IsFiniteSet(below[x])
    BY <2>1, FS_Subset
  <2> QED BY <2>2, FS_CardinalityType
<1>3. ASSUME NEW x \in S, NEW y \in S, x \in below[y]
      PROVE  rank[x] < rank[y]
  <2> DEFINE U == below[x] \cup {x}
  <2>1. x \notin below[x]
    BY DEF Orders
  <2>2. IsFiniteSet(U) /\ Cardinality(U) = Cardinality(below[x]) + 1
    BY <1>2, <2>1, FS_AddElement
  <2>3. U \in SUBSET below[y]
    BY <1>3 DEF Orders
  <2>4. Cardinality(U) <= Cardinality(below[y])
    BY <1>2, <2>3, FS_Subset
  <2> HIDE DEF U
  <2> QED BY <1>2, <2>2, <2>4
<1>4. ASSUME NEW x \in S PROVE rank[x] \in 0..(n - 1)
  <2> DEFINE U == below[x] \cup {x}
  <2>1. x \notin below[x] /\ U \in SUBSET S
    BY DEF Orders
  <2>2. IsFiniteSet(U) /\ Cardinality(U) = Cardinality(below[x]) + 1
    BY <1>2, <2>1, FS_AddElement
  <2>3. Cardinality(U) <= n
    BY <2>1, FS_Subset
  <2> HIDE DEF U, n
  <2> QED BY <1>1, <1>2, <2>2, <2>3
<1>5. ASSUME NEW x \in S, NEW y \in S, rank[x] = rank[y] PROVE x = y
  <2>1. ~(rank[x] < rank[y]) /\ ~(rank[y] < rank[x])
    BY <1>2, <1>5
  <2>2. x \notin below[y] /\ y \notin below[x]
    BY <1>3, <2>1
  <2> QED BY <2>2 DEF Orders
<1>6. rank \in Injection(S, 0..(n - 1))
  <2> HIDE DEF n
  <2>1. rank \in [S -> 0..(n - 1)]
    BY <1>4
  <2> QED BY <1>5, <2>1 DEF Injection, IsInjective
<1>7. IsFiniteSet(0..(n - 1)) /\ Cardinality(0..(n - 1)) = n
  <2> HIDE DEF n
  <2>1. n - 1 \in Int /\ 0 \in Int
    BY <1>1
  <2>2. CASE n = 0
    BY <2>1, <2>2, FS_Interval
  <2>3. CASE n # 0
    BY <1>1, <2>1, <2>3, FS_Interval
  <2> QED BY <2>2, <2>3
<1>8. rank \in Surjection(S, 0..(n - 1))
  BY <1>6, <1>7, FS_Injection
<1>9. ASSUME NEW i \in 1..n PROVE \E x \in S : rank[x] = i - 1
  <2> HIDE DEF n
  <2>1. i - 1 \in 0..(n - 1)
    BY <1>1, <1>9
  <2> QED BY <1>8, <2>1 DEF Surjection
<1> QED BY <1>3, <1>4, <1>5, <1>9

\* s lists the members of S in their order.
Lists(s, S, below) ==
  /\ s \in Seq(S) /\ Len(s) \in Nat /\ DOMAIN s = 1..Len(s)
  /\ \A i \in 1..Len(s) : s[i] \in S
  /\ \A i, j \in 1..Len(s) : i < j => s[i] \in below[s[j]]
  /\ \A i, j \in 1..Len(s) : s[i] = s[j] => i = j
  /\ \A x \in S : \E i \in 1..Len(s) : s[i] = x

\* A list that takes the k-th member of an ordered set for its k-th place
\* is the set in order.
LEMMA RanksList ==
  ASSUME NEW S, IsFiniteSet(S), NEW below, Orders(below, S),
         NEW s, s = [i \in 1..Cardinality(S) |-> s[i]],
         \A i \in 1..Cardinality(S) :
           (\E x \in S : Cardinality(below[x]) = i - 1)
             => (s[i] \in S /\ Cardinality(below[s[i]]) = i - 1)
  PROVE  Lists(s, S, below)
<1> DEFINE rank == [x \in S |-> Cardinality(below[x])]
           n == Cardinality(S)
<1>1. n \in Nat
  BY FS_CardinalityType
<1>2. \A x \in S : rank[x] = Cardinality(below[x])
  OBVIOUS
<1>3. rank = [x \in S |-> Cardinality(below[x])]
  OBVIOUS
<1> HIDE DEF rank
<1>4. /\ rank \in [S -> 0..(n - 1)]
      /\ \A x, y \in S : x \in below[y] => rank[x] < rank[y]
      /\ \A x, y \in S : rank[x] = rank[y] => x = y
      /\ \A i \in 1..n : \E x \in S : rank[x] = i - 1
  BY <1>3, EveryRankTaken
<1>5. \A i \in 1..n : s[i] \in S /\ rank[s[i]] = i - 1
  BY <1>2, <1>4
<1>6. s = [i \in 1..n |-> s[i]]
  OBVIOUS
<1>60. Orders(below, S)
  OBVIOUS
<1> HIDE DEF n
<1>7. Len(s) = n /\ s \in Seq(S) /\ DOMAIN s = 1..n
  <2>1. s \in Seq(S)
    <3>1. s \in [1..n -> S]
      BY ONLY <1>5, <1>6
    <3> QED BY ONLY <1>1, <3>1, SeqDef
  <2>2. DOMAIN s = 1..n
    BY ONLY <1>6
  <2> QED BY ONLY <1>1, <2>1, <2>2, LenProperties
<1>8. ASSUME NEW i \in 1..n, NEW j \in 1..n, s[i] = s[j] PROVE i = j
  <2>1. i - 1 = j - 1
    BY ONLY <1>5, <1>8
  <2> QED BY ONLY <1>1, <2>1, i \in 1..n, j \in 1..n
<1>9. ASSUME NEW i \in 1..n, NEW j \in 1..n, i < j PROVE s[i] \in below[s[j]]
  <2>1. s[i] \in S /\ s[j] \in S /\ rank[s[i]] = i - 1 /\ rank[s[j]] = j - 1
    BY ONLY <1>5, i \in 1..n, j \in 1..n
  <2>2. s[i] # s[j] /\ ~(rank[s[j]] < rank[s[i]])
    BY ONLY <1>9, <1>1, <2>1, i \in 1..n, j \in 1..n
  <2>3. s[j] \notin below[s[i]]
    BY ONLY <1>4, <2>1, <2>2
  <2> QED BY ONLY <1>60, <2>1, <2>2, <2>3 DEF Orders
<1>10. ASSUME NEW x \in S PROVE \E i \in 1..n : s[i] = x
  <2> DEFINE i == rank[x] + 1
  <2>1. i \in 1..n /\ i - 1 = rank[x]
    BY ONLY <1>1, <1>4, x \in S
  <2> HIDE DEF i
  <2>2. s[i] \in S /\ rank[s[i]] = rank[x]
    BY ONLY <2>1, <1>5
  <2>3. s[i] = x
    BY ONLY <2>2, <1>4, x \in S
  <2> QED BY <2>1, <2>3
<1> QED BY ONLY <1>1, <1>5, <1>7, <1>8, <1>9, <1>10 DEF Lists

-----------------------------------------------------------------------------
(***************************************************************************)
(* Lists of different numbers, and rising ones.                            *)
(***************************************************************************)
\* A list of different numbers of 1..n.
IsList(s, n) ==
  /\ s \in Seq(1..n) /\ Len(s) \in Nat /\ DOMAIN s = 1..Len(s)
  /\ \A i \in 1..Len(s) : s[i] \in 1..n
  /\ \A i, j \in 1..Len(s) : s[i] = s[j] => i = j

\* A rising list of numbers of 1..n.
IsRising(s, n) ==
  IsList(s, n) /\ \A i, j \in 1..Len(s) : i < j => s[i] < s[j]

\* The members of a rising list below a number are its first ones, and as many
\* as there are.
LEMMA BelowAreFirst ==
  ASSUME NEW n \in Nat, NEW s, IsRising(s, n), NEW x \in Nat
  PROVE  LET c == Cardinality({k \in DOMAIN s : s[k] < x})
         IN  /\ c \in 0..Len(s)
             /\ \A i \in 1..Len(s) : s[i] < x <=> i <= c
<1>1. /\ Len(s) \in Nat /\ DOMAIN s = 1..Len(s)
      /\ \A i \in 1..Len(s) : s[i] \in 1..n
      /\ \A i, j \in 1..Len(s) : i < j => s[i] < s[j]
  BY DEF IsRising, IsList
<1>2. \A i \in 1..Len(s) : s[i] \in Nat
  BY <1>1
<1>3. \E c \in 0..Len(s) : \A i \in 1..Len(s) : s[i] < x <=> i <= c
  <2> DEFINE B == {i \in 1..Len(s) : ~(s[i] < x)}
  <2>1. CASE B = {}
    <3>1. \A i \in 1..Len(s) : s[i] < x
      BY <2>1
    <3>2. Len(s) \in 0..Len(s) /\ \A i \in 1..Len(s) : i <= Len(s)
      BY <1>1
    <3> QED BY <3>1, <3>2
  <2>2. CASE B # {}
    <3>1. B \in SUBSET Nat
      BY <1>1
    <3>2. PICK b \in B : \A y \in B : b <= y
      <4> HIDE DEF B
      <4> QED BY <2>2, <3>1, LeastNat
    <3>3. b \in 1..Len(s) /\ ~(s[b] < x) /\ b - 1 \in 0..Len(s)
      BY <1>1
    <3>4. ASSUME NEW i \in 1..Len(s) PROVE s[i] < x <=> i <= b - 1
      <4>1. CASE i <= b - 1
        <5>1. ~(b <= i)
          BY <1>1, <3>3, <4>1
        <5> QED BY <3>2, <4>1, <5>1
      <4>2. CASE ~(i <= b - 1)
        <5>1. i = b \/ b < i
          BY <1>1, <3>3, <4>2
        <5>2. s[i] = s[b] \/ s[b] < s[i]
          BY <1>1, <3>3, <5>1
        <5>3. s[i] \in Nat /\ s[b] \in Nat
          BY <1>2, <3>3
        <5> QED BY <3>3, <4>2, <5>2, <5>3
      <4> QED BY <4>1, <4>2
    <3> QED BY <3>3, <3>4
  <2> QED BY <2>1, <2>2
<1>4. PICK c \in 0..Len(s) : \A i \in 1..Len(s) : s[i] < x <=> i <= c
  BY <1>3
<1>5. {k \in DOMAIN s : s[k] < x} = 1..c
  BY <1>1, <1>4
<1>6. Cardinality(1..c) = c
  BY <1>1, FS_Interval
<1> QED BY <1>4, <1>5, <1>6

-----------------------------------------------------------------------------
(***************************************************************************)
(* Merging rising lists, as multi_set_merge does.                          *)
(***************************************************************************)
\* Rising lists, none of them empty.
IsRanges(R, N) ==
  /\ N \in Nat /\ Len(R) \in Nat /\ DOMAIN R = 1..Len(R)
  /\ \A k \in DOMAIN R : IsRising(R[k], N) /\ Len(R[k]) # 0

\* v is a member of the list s.
IsIn(v, s) == \E j \in 1..Len(s) : s[j] = v

(***************************************************************************)
(* What holds while ranges are merged: the result has members of the       *)
(* ranges only, and all that the merge has passed or that are not greater  *)
(* than its last.                                                          *)
(***************************************************************************)
MergeOK(R, m) ==
  /\ m.at = [k \in DOMAIN R |-> m.at[k]]
  /\ \A k \in DOMAIN R : m.at[k] \in 1..(Len(R[k]) + 1)
  /\ m.result \in Seq(Nat) /\ Len(m.result) \in Nat /\ Len(m.result) # 0
  /\ \A j \in 1..Len(m.result) :
       \E k \in DOMAIN R : \E p \in 1..Len(R[k]) : m.result[j] = R[k][p]
  /\ \A k \in DOMAIN R : \A p \in 1..Len(R[k]) :
       p < m.at[k] \/ R[k][p] <= Last(m.result) => IsIn(R[k][p], m.result)

\* The members of ranges.
LEMMA RangeFacts ==
  ASSUME NEW N, NEW R, IsRanges(R, N), NEW k \in DOMAIN R
  PROVE  /\ Len(R[k]) \in Nat \ {0} /\ DOMAIN R[k] = 1..Len(R[k])
         /\ \A p \in 1..Len(R[k]) : R[k][p] \in Nat
         /\ \A p, q \in 1..Len(R[k]) : p < q => R[k][p] < R[k][q]
BY DEF IsRanges, IsRising, IsList

\* What a step of the merge makes of the result.
LEMMA ResultGrows ==
  ASSUME NEW s \in Seq(Nat), Len(s) \in Nat, Len(s) # 0, NEW h \in Nat,
         NEW r, h > Last(s) => r = Append(s, h), ~(h > Last(s)) => r = s
  PROVE  /\ r \in Seq(Nat) /\ Len(r) \in Nat /\ Len(r) # 0
         /\ \A v : IsIn(v, s) => IsIn(v, r)
         /\ \A v : IsIn(v, r) => v = h \/ IsIn(v, s)
         /\ Last(s) \in Nat /\ Last(r) \in Nat /\ h <= Last(r)
         /\ h > Last(s) => Last(r) = h /\ IsIn(h, r)
         /\ ~(h > Last(s)) => r = s
<1> DEFINE n == Len(s)
           a == Append(s, h)
<1>1. /\ a \in Seq(Nat) /\ Len(a) = n + 1 /\ a[n + 1] = h
      /\ \A j \in 1..n : a[j] = s[j]
  BY AppendFacts
<1>2. Last(s) = s[n] /\ n \in 1..n /\ s[n] \in Nat
  <2>1. n \in 1..n
    OBVIOUS
  <2>2. \A j \in 1..n : s[j] \in Nat
    BY LenProperties
  <2> QED BY <2>1, <2>2 DEF Last
<1>3. Last(a) = h
  BY <1>1 DEF Last
<1>4. IsIn(h, a) /\ \A v : IsIn(v, s) => IsIn(v, a)
  <2>1. n + 1 \in 1..Len(a) /\ \A j \in 1..n : j \in 1..Len(a)
    BY <1>1
  <2> QED BY <1>1, <2>1 DEF IsIn
<1>5. \A v : IsIn(v, a) => v = h \/ IsIn(v, s)
  <2> SUFFICES ASSUME NEW v, NEW j \in 1..Len(a), a[j] = v
               PROVE  v = h \/ IsIn(v, s)
    BY DEF IsIn
  <2>1. j = n + 1 \/ j \in 1..n
    BY <1>1
  <2> QED BY <1>1, <2>1 DEF IsIn
<1> HIDE DEF a, n
<1>6. CASE h > Last(s)
  <2>1. r = a
    BY <1>6 DEF a
  <2>2. Len(r) \in Nat /\ Len(r) # 0
    BY <2>1, <1>1, <1>2
  <2>3. Last(r) = h /\ IsIn(h, r)
    BY <2>1, <1>3, <1>4
  <2>5. h <= Last(r)
    BY <2>3
  <2>4. /\ \A v : IsIn(v, s) => IsIn(v, r)
        /\ \A v : IsIn(v, r) => v = h \/ IsIn(v, s)
    BY <2>1, <1>4, <1>5
  <2> QED BY <2>1, <2>2, <2>3, <2>4, <2>5, <1>1, <1>2, <1>6
<1>7. CASE ~(h > Last(s))
  <2>1. r = s
    BY <1>7
  <2> QED BY <2>1, <1>2, <1>7
<1> QED BY <1>6, <1>7

\* Where the range goes on.
LEMMA BeyondRight ==
  ASSUME NEW n \in Nat, NEW a \in 1..n, NEW s, NEW bound \in Nat,
         \A p \in 1..n : s[p] \in Nat, s[a] <= bound,
         NEW beyond, \A p : p \in beyond <=> p \in a..n /\ s[p] > bound,
         NEW next, beyond = {} => next = n + 1, beyond # {} => next = Min(beyond)
  PROVE  /\ next \in 1..(n + 1) /\ next > a
         /\ \A p \in a..n : p < next => s[p] <= bound
<1>1. CASE beyond = {}
  <2>1. \A p \in a..n : p \in 1..n
    OBVIOUS
  <2>2. \A p \in a..n : s[p] <= bound
    BY <1>1, <2>1
  <2> QED BY <1>1, <2>2
<1>2. CASE beyond # {}
  <2>1. beyond \in SUBSET Nat
    OBVIOUS
  <2>2. \E x \in beyond : \A y \in beyond : x <= y
    BY <1>2, <2>1, LeastNat
  <2>3. next \in beyond /\ \A y \in beyond : next <= y
    BY <1>2, <2>2 DEF Min
  <2>4. next \in a..n /\ s[next] > bound
    BY <2>3
  <2>5. next # a
    BY <2>4
  <2>6. ASSUME NEW p \in a..n, p < next PROVE s[p] <= bound
    <3>1. p \notin beyond
      BY <2>3, <2>4, <2>6
    <3>2. s[p] \in Nat
      BY <2>6
    <3> QED BY <3>1, <3>2
  <2> QED BY <2>4, <2>5, <2>6
<1> QED BY <1>1, <1>2

-----------------------------------------------------------------------------
(***************************************************************************)
(* Facts about Reachability that hold for every graph.                     *)
(***************************************************************************)
IsGraph(e, N) == e \in [N -> SUBSET N]

(***************************************************************************)
(* R orders N strictly, and every non-empty set of nodes has a minimal and *)
(* a maximal member.                                                       *)
(***************************************************************************)
IsOrder(R, N) ==
  /\ \A x \in N : <<x, x>> \notin R
  /\ \A x, y, z \in N : <<x, y>> \in R /\ <<y, z>> \in R => <<x, z>> \in R
  /\ \A T \in SUBSET N : T # {} => \E x \in T : \A y \in T : <<y, x>> \notin R
  /\ \A T \in SUBSET N : T # {} => \E x \in T : \A y \in T : <<x, y>> \notin R

Respects(e, R, N) == \A x \in N : \A y \in e[x] : <<x, y>> \in R

-----------------------------------------------------------------------------
\* An edge is a path.
LEMMA EdgeReaches ==
  ASSUME NEW N, NEW e, IsGraph(e, N), NEW x \in N, NEW y \in e[x]
  PROVE  Reaches(e, x, y)
BY DEF IsGraph, Reaches

\* Paths compose.
LEMMA ReachesTransitive ==
  ASSUME NEW N, NEW e, IsGraph(e, N), NEW x \in N, NEW y \in N, NEW z,
         Reaches(e, x, y), Reaches(e, y, z)
  PROVE  Reaches(e, x, z)
BY DEF IsGraph, Reaches, IsClosed

\* More edges, more paths.
LEMMA ReachesMonotone ==
  ASSUME NEW N, NEW d, NEW e, IsGraph(d, N), IsGraph(e, N),
         \A x \in N : d[x] \subseteq e[x],
         NEW x \in N, NEW y, Reaches(d, x, y)
  PROVE  Reaches(e, x, y)
<1> SUFFICES ASSUME NEW S \in SUBSET N, e[x] \subseteq S, IsClosed(e, S)
             PROVE  y \in S
  BY DEF Reaches, IsGraph
<1>1. d[x] \subseteq S /\ IsClosed(d, S)
  BY DEF IsClosed
<1> QED BY <1>1 DEF Reaches, IsGraph

\* What is reached is a node.
LEMMA ReachesNode ==
  ASSUME NEW N, NEW e, IsGraph(e, N), NEW x \in N, NEW y, Reaches(e, x, y)
  PROVE  y \in N
<1>1. N \in SUBSET DOMAIN e /\ e[x] \subseteq N /\ IsClosed(e, N)
  BY DEF IsGraph, IsClosed
<1> QED BY <1>1 DEF Reaches

\* If every edge follows an order, every path does.
LEMMA ReachesRespects ==
  ASSUME NEW N, NEW e, IsGraph(e, N), NEW R, IsOrder(R, N),
         Respects(e, R, N), NEW x \in N, NEW y, Reaches(e, x, y)
  PROVE  <<x, y>> \in R
<1> DEFINE S == {z \in N : <<x, z>> \in R}
<1>1. S \in SUBSET DOMAIN e
  BY DEF IsGraph
<1>2. e[x] \subseteq S
  BY DEF IsGraph, Respects
<1>3. IsClosed(e, S)
  <2> SUFFICES ASSUME NEW v \in S, NEW w \in e[v] PROVE w \in S
    BY DEF IsClosed
  <2>1. w \in N /\ <<v, w>> \in R
    BY DEF IsGraph, Respects
  <2> QED BY <2>1 DEF IsOrder
<1>4. y \in S
  BY <1>1, <1>2, <1>3 DEF Reaches
<1> QED BY <1>4

\* If every edge follows an order, the graph has no cycle.
LEMMA OrderAcyclic ==
  ASSUME NEW N, NEW e, IsGraph(e, N), NEW R, IsOrder(R, N), Respects(e, R, N)
  PROVE  IsAcyclic(e)
<1> SUFFICES ASSUME NEW S \in SUBSET N, S # {}
             PROVE  \E m \in S : \A n \in S : m \notin e[n]
  BY DEF IsAcyclic, IsGraph
<1>1. PICK m \in S : \A n \in S : <<n, m>> \notin R
  BY DEF IsOrder
<1> QED BY <1>1 DEF Respects

\* A chain of edges joins any earlier member to any later one.
LEMMA ChainReaches ==
  ASSUME NEW N, NEW e, IsGraph(e, N), NEW k \in Nat, NEW s \in [1..k -> N],
         \A i \in 1..k : i + 1 \in 1..k => s[i + 1] \in e[s[i]],
         NEW i \in 1..k, NEW j \in 1..k, i < j
  PROVE  Reaches(e, s[i], s[j])
<1> DEFINE T == {l \in Nat : l \in 1..k /\ i < l /\ ~Reaches(e, s[i], s[l])}
<1> SUFFICES ASSUME T # {} PROVE FALSE
  OBVIOUS
<1>1. PICK l \in T : \A x \in T : l <= x
  <2>1. T \in SUBSET Nat
    OBVIOUS
  <2> HIDE DEF T
  <2> QED BY <2>1, LeastNat
<1>2. l - 1 \in 1..k /\ l - 1 >= i /\ s[l] \in e[s[l - 1]]
  <2>1. l - 1 \in 1..k /\ l = (l - 1) + 1 /\ l - 1 >= i
    OBVIOUS
  <2> QED BY <2>1
<1>3. Reaches(e, s[l - 1], s[l])
  BY <1>2, EdgeReaches
<1>4. CASE l - 1 = i
  BY <1>3, <1>4
<1>5. CASE l - 1 > i
  <2>1. l - 1 \notin T
    BY <1>1, <1>2
  <2>2. Reaches(e, s[i], s[l - 1])
    BY <2>1, <1>2, <1>5
  <2>3. s[i] \in N /\ s[l - 1] \in N
    BY <1>2
  <2> QED BY <2>2, <2>3, <1>3, ReachesTransitive
<1> QED BY <1>2, <1>4, <1>5

-----------------------------------------------------------------------------
\* d is e without some of its transitive edges.
IsReduction(d, e, N) ==
  \A x \in N : /\ d[x] \subseteq e[x]
               /\ e[x] \ d[x] \subseteq TransitiveTargets(e, x)

(***************************************************************************)
(* A set that is closed under the remaining edges is closed under all of   *)
(* them.  Of the edges that leave it take one to a minimal y, and of its   *)
(* predecessors inside a maximal x: the detour that makes the edge         *)
(* transitive gives a later predecessor inside.                            *)
(***************************************************************************)
LEMMA ReductionClosed ==
  ASSUME NEW N, NEW d, NEW e, IsGraph(d, N), IsGraph(e, N), NEW R,
         IsOrder(R, N), Respects(e, R, N), IsReduction(d, e, N),
         NEW S \in SUBSET N, IsClosed(d, S)
  PROVE  IsClosed(e, S)
<1> DEFINE Left == {y \in N : y \notin S /\ \E x \in S : y \in e[x]}
<1> SUFFICES ASSUME Left # {} PROVE FALSE
  BY DEF IsClosed, IsGraph
<1>1. PICK y \in Left : \A z \in Left : <<z, y>> \notin R
  BY DEF IsOrder
<1> DEFINE Pred == {x \in S : y \in e[x]}
<1>2. PICK x \in Pred : \A z \in Pred : <<x, z>> \notin R
  <2>1. Pred \in SUBSET N /\ Pred # {}
    OBVIOUS
  <2> HIDE DEF Pred
  <2> QED BY <2>1 DEF IsOrder
<1>3. y \in TransitiveTargets(e, x)
  <2>1. y \notin d[x]
    BY DEF IsClosed
  <2> QED BY <2>1 DEF IsReduction
<1>4. PICK via \in N : Reaches(e, x, via) /\ y \in e[via]
  BY <1>3 DEF TransitiveTargets, ReachableFrom, IsGraph
<1>5. <<via, y>> \in R
  BY <1>4 DEF Respects
<1> DEFINE T == S \cup {w \in N : <<w, y>> \notin R}
<1>6. ASSUME NEW w \in T, NEW v \in e[w] PROVE v \in T
  <2>1. v \in N /\ <<w, v>> \in R
    BY DEF IsGraph, Respects
  <2>2. CASE w \in S
    <3>1. v \notin S => v \in Left
      BY <2>1, <2>2
    <3> QED BY <3>1, <2>1, <1>1
  <2>3. CASE w \notin S
    <3>1. w \in N /\ <<w, y>> \notin R /\ y \in N
      BY <2>3
    <3>2. <<v, y>> \notin R
      BY <2>1, <3>1 DEF IsOrder
    <3> QED BY <2>1, <3>2
  <2> QED BY <2>2, <2>3
<1>7. via \in T
  <2>1. T \in SUBSET DOMAIN e
    BY DEF IsGraph
  <2>2. e[x] \subseteq T /\ IsClosed(e, T)
    BY <1>6 DEF IsClosed
  <2> HIDE DEF T
  <2> QED BY <2>1, <2>2, <1>4 DEF Reaches
<1>8. via \in Pred
  BY <1>7, <1>5, <1>4
<1>9. <<x, via>> \in R
  <2>1. x \in N
    OBVIOUS
  <2> QED BY <2>1, <1>4, ReachesRespects
<1> QED BY <1>2, <1>8, <1>9

(***************************************************************************)
(* Erasing transitive edges of a graph whose edges follow an order changes *)
(* no path: the correctness of remove_transitive_edges.                    *)
(***************************************************************************)
THEOREM ReductionKeepsReaches ==
  ASSUME NEW N, NEW d, NEW e, IsGraph(d, N), IsGraph(e, N), NEW R,
         IsOrder(R, N), Respects(e, R, N), IsReduction(d, e, N),
         NEW x \in N, NEW y \in N
  PROVE  Reaches(d, x, y) <=> Reaches(e, x, y)
<1>1. ASSUME Reaches(d, x, y) PROVE Reaches(e, x, y)
  BY <1>1, ReachesMonotone DEF IsReduction
<1>2. ASSUME Reaches(e, x, y) PROVE Reaches(d, x, y)
  <2> SUFFICES ASSUME NEW S \in SUBSET N, d[x] \subseteq S, IsClosed(d, S)
               PROVE  y \in S
    BY DEF Reaches, IsGraph
  <2> DEFINE T == S \cup {x}
  <2>1. T \in SUBSET N /\ IsClosed(d, T)
    BY DEF IsClosed
  <2>2. IsClosed(e, T)
    <3> HIDE DEF T
    <3> QED BY <2>1, ReductionClosed
  <2>3. e[x] \subseteq T
    BY <2>2 DEF IsClosed
  <2>4. y \in T
    <3> HIDE DEF T
    <3> QED BY <1>2, <2>1, <2>2, <2>3 DEF Reaches, IsGraph
  <2>5. <<x, y>> \in R
    BY <1>2, ReachesRespects
  <2>6. x # y
    BY <2>5 DEF IsOrder
  <2> QED BY <2>4, <2>6
<1> QED BY <1>1, <1>2

(***************************************************************************)
(* Erasing all of them leaves none: the reduction is complete after one    *)
(* pass over a graph that is not changed while the edges are collected.    *)
(***************************************************************************)
THEOREM ReductionIsComplete ==
  ASSUME NEW N, NEW d, NEW e, IsGraph(d, N), IsGraph(e, N),
         \A x \in N : d[x] = e[x] \ TransitiveTargets(e, x),
         NEW x \in N
  PROVE  TransitiveTargets(d, x) = {}
<1> SUFFICES ASSUME NEW y \in d[x], NEW via \in N, Reaches(d, x, via),
                    y \in d[via]
             PROVE  FALSE
  BY DEF TransitiveTargets, ReachableFrom, IsGraph
<1>1. \A z \in N : d[z] \subseteq e[z]
  OBVIOUS
<1>2. Reaches(e, x, via)
  BY <1>1, ReachesMonotone
<1>3. y \in TransitiveTargets(e, x)
  BY <1>1, <1>2 DEF TransitiveTargets, ReachableFrom, IsGraph
<1> QED BY <1>3

=============================================================================
