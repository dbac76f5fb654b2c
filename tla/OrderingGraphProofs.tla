------------------------- MODULE OrderingGraphProofs -------------------------
(***************************************************************************)
(* Theorems of OrderingGraph, for any number of trains, any paths, any     *)
(* departures and any exclusion sets.                                      *)
(***************************************************************************)
EXTENDS OrderingGraph, BasicLemmas, FiniteSetTheorems

\* Node ids are natural numbers.
LEMMA IdsNat == ASSUME Typed PROVE Ids \subseteq Nat
BY DEF Typed, Ids

\* A sequence over a set is one over every larger set.
LEMMA SeqGrows ==
  ASSUME NEW S, NEW T, S \subseteq T, NEW s \in Seq(S)
  PROVE  s \in Seq(T)
<1>1. s \in [1..Len(s) -> T] /\ Len(s) \in Nat
  OBVIOUS
<1> QED BY <1>1

\* A member of a sequence is in the set the sequence is over.
LEMMA SeqMember ==
  ASSUME NEW S, NEW s \in Seq(S), NEW i \in 1..Len(s)
  PROVE  s[i] \in S
<1>1. s \in [1..Len(s) -> S]
  OBVIOUS
<1> QED BY <1>1

\* An exclusion set has finitely many usages.
LEMMA UsagesFinite ==
  ASSUME Typed, NEW es \in ExclusionSets
  PROVE  IsFiniteSet(usages[es]) /\ Cardinality(usages[es]) \in Nat
<1>1. IsFiniteSet(0..(count - 1))
  BY FS_Interval DEF Typed
<1>2. usages[es] \subseteq 0..(count - 1)
  BY DEF Typed, Ids
<1> QED BY <1>1, <1>2, FS_Subset, FS_CardinalityType

\* The shape of the train the generation loop is at.
LEMMA CurrentTrain ==
  ASSUME Typed, train \in Trains
  PROVE  /\ IsTrain(timetable[train])
         /\ IsMonotone(timetable[train])
         /\ Len(timetable[train].path) \in Nat \ {0}
         /\ timetable[train].path \in
              [1..Len(timetable[train].path) -> IRs]
BY TimetablesAssumption DEF Typed, IsTrain

\* A node the generation adds is a node.
LEMMA NewNodeType ==
  ASSUME Typed, train \in Trains,
         departure <= Len(timetable[train].anchors),
         NEW n \in NewIds(train)
  PROVE  NewNode(train, n) \in [train : Trains, ir : IRs, from : Nat]
<1>1. n - count + 1 \in 1..Len(timetable[train].path)
  BY CurrentTrain DEF NewIds, Typed
<1>2. timetable[train].offset[n - count + 1] \in Nat
  BY <1>1, CurrentTrain DEF IsTrain
<1>3. timetable[train].anchors[departure] \in Nat
  BY CurrentTrain DEF IsTrain, Typed
<1>4. timetable[train].path[n - count + 1] \in IRs
  BY <1>1, CurrentTrain
<1> QED BY <1>2, <1>3, <1>4 DEF NewNode

-----------------------------------------------------------------------------
(***************************************************************************)
(* The types, and with them that every edge of out_ and in_ and every      *)
(* transitive edge is between allocated nodes.                             *)
(***************************************************************************)
LEMMA InitType == Init => Typed
<1> SUFFICES ASSUME Init PROVE Typed
  OBVIOUS
<1>1. Ids = {}
  BY DEF Init, Ids
<1>2. /\ nodes \in [Ids -> [train : Trains, ir : IRs, from : Nat]]
      /\ out \in [Ids -> SUBSET Ids]
      /\ in \in [Ids -> SUBSET Ids]
  BY <1>1 DEF Init
<1>3. train \in 1..(NumTrains + 1)
  BY NumTrainsAssumption DEF Init
<1>4. order \in [ExclusionSets -> Seq(Ids)]
  BY DEF Init
<1> QED BY <1>2, <1>3, <1>4 DEF Init, Typed

\* Every step keeps the types.
LEMMA NextType == Typed /\ [Next]_vars => Typed'
<1> SUFFICES ASSUME Typed, [Next]_vars PROVE Typed'
  OBVIOUS
<1>1. CASE NextTrain
  BY <1>1, NumTrainsAssumption DEF NextTrain, Typed, Ids, Trains
<1>2. CASE AddTrip
  <2> DEFINE len == Len(timetable[train].path)
             all == 0..(count + len - 1)
             new == NewIds(train)
  <2>1. len \in Nat \ {0} /\ count \in Nat /\ train \in Trains
    BY <1>2, CurrentTrain DEF AddTrip, Typed
  <2>2. count' = count + len /\ Ids' = all
    <3>1. count' = count + len
      BY <1>2 DEF AddTrip
    <3> QED BY <2>1, <3>1 DEF Ids
  <2>3. all = Ids \cup new /\ Ids \subseteq all
    BY <2>1 DEF Ids, NewIds
  <2>4. departure <= Len(timetable[train].anchors)
    BY <1>2 DEF AddTrip
  <2>5. nodes' \in [Ids' -> [train : Trains, ir : IRs, from : Nat]]
    <3>1. nodes' = [n \in all |-> IF n \in new THEN NewNode(train, n)
                                               ELSE nodes[n]]
      BY <1>2 DEF AddTrip
    <3>2. ASSUME NEW n \in all PROVE nodes'[n] \in [train : Trains, ir : IRs, from : Nat]
      <4>1. CASE n \in new
        BY <4>1, <3>1, <2>1, <2>4, NewNodeType
      <4>2. CASE n \notin new
        BY <4>2, <3>1, <2>3 DEF Typed
      <4> QED BY <4>1, <4>2
    <3> QED BY <3>1, <3>2, <2>2
  <2>6. ASSUME NEW n \in new
        PROVE  NewOut(train, n) \subseteq all /\ NewIn(train, n) \subseteq all
    BY <2>3 DEF NewOut, NewIn
  <2>7. out' \in [Ids' -> SUBSET Ids'] /\ in' \in [Ids' -> SUBSET Ids']
    <3>1. /\ out' = [n \in all |-> IF n \in new THEN NewOut(train, n) ELSE out[n]]
          /\ in' = [n \in all |-> IF n \in new THEN NewIn(train, n) ELSE in[n]]
      BY <1>2 DEF AddTrip
    <3>2. ASSUME NEW n \in all PROVE out'[n] \subseteq all /\ in'[n] \subseteq all
      BY <3>1, <2>3, <2>6 DEF Typed
    <3> QED BY <3>1, <3>2, <2>2
  <2>8. usages' \in [ExclusionSets -> SUBSET Ids']
    BY <1>2, <2>2, <2>3 DEF AddTrip, Typed
  <2>9. trips' \subseteq [train : Trains, anchor : Nat, first : Nat, end : Nat]
    <3>1. timetable[train].anchors[departure] \in Nat
      BY <2>1, <2>4, CurrentTrain DEF IsTrain, Typed
    <3> QED BY <1>2, <2>1, <3>1 DEF AddTrip, NewTrip, Typed
  <2>10. transitive' \subseteq Ids' \X Ids'
    BY <1>2, <2>2, <2>3 DEF AddTrip, Typed
  <2>11. order' \in [ExclusionSets -> Seq(Ids')]
    <3>1. order' = order /\ Ids \subseteq Ids'
      BY <1>2, <2>2, <2>3 DEF AddTrip
    <3>2. ASSUME NEW es \in ExclusionSets PROVE order[es] \in Seq(Ids')
      BY <3>1, SeqGrows DEF Typed
    <3> QED BY <3>1, <3>2 DEF Typed
  <2>12. departure' \in Nat \ {0} /\ count' \in Nat
    BY <1>2, <2>1, <2>2 DEF AddTrip, Typed
  <2>13. UNCHANGED <<timetable, pc, train, sorted, cursor>>
    BY <1>2 DEF AddTrip
  <2> QED BY <2>5, <2>7, <2>8, <2>9, <2>10, <2>11, <2>12, <2>13 DEF Typed
<1>3. CASE FinishGeneration
  BY <1>3 DEF FinishGeneration, Typed, Ids
<1>4. ASSUME NEW es \in ExclusionSets, SortOrdering(es) PROVE Typed'
  <2>1. PICK s \in [1..Cardinality(usages[es]) -> usages[es]] :
          order' = [order EXCEPT ![es] = s]
    BY <1>4 DEF SortOrdering
  <2>2. s \in [1..Cardinality(usages[es]) -> Ids]
    BY DEF Typed
  <2>3. s \in Seq(Ids)
    BY <2>2, UsagesFinite
  <2>4. order' \in [ExclusionSets -> Seq(Ids)]
    BY <2>1, <2>3 DEF Typed
  <2> QED BY <1>4, <2>4 DEF SortOrdering, Typed, Ids
<1>5. CASE FinishSort
  BY <1>5 DEF FinishSort, Typed, Ids
<1>6. CASE CreateEdges
  <2>1. ASSUME NEW n \in Ids
        PROVE  /\ Successors(order[cursor], n) \subseteq Ids
               /\ Predecessors(order[cursor], n) \subseteq Ids
    <3>1. order[cursor] \in Seq(Ids)
      BY <1>6 DEF CreateEdges, Typed
    <3>2. \A i \in DOMAIN order[cursor] : order[cursor][i] \in Ids
      BY <3>1
    <3> QED BY <3>2 DEF Successors, Predecessors
  <2>2. out' \in [Ids -> SUBSET Ids] /\ in' \in [Ids -> SUBSET Ids]
    BY <1>6, <2>1 DEF CreateEdges, Typed
  <2>3. cursor' \in Nat
    BY <1>6 DEF CreateEdges, Typed
  <2> QED BY <1>6, <2>2, <2>3 DEF CreateEdges, Typed, Ids
<1>7. CASE FinishEdges
  BY <1>7 DEF FinishEdges, Typed, Ids
<1>8. CASE CollectTransitiveEdges
  <2>1. TransitiveTargets(out, cursor) \subseteq Ids /\ cursor \in Ids
    BY <1>8 DEF CollectTransitiveEdges, TransitiveTargets, Typed
  <2>2. transitive' \subseteq Ids \X Ids
    BY <1>8, <2>1 DEF CollectTransitiveEdges, Typed
  <2>3. cursor' \in Nat
    BY <1>8 DEF CollectTransitiveEdges, Typed
  <2> QED BY <1>8, <2>2, <2>3 DEF CollectTransitiveEdges, Typed, Ids
<1>9. CASE EraseTransitiveEdges
  <2>1. out' \in [Ids -> SUBSET Ids] /\ in' \in [Ids -> SUBSET Ids]
    BY <1>9 DEF EraseTransitiveEdges, Typed
  <2> QED BY <1>9, <2>1 DEF EraseTransitiveEdges, Typed, Ids
<1>10. CASE UNCHANGED vars
  BY <1>10 DEF vars, Typed, Ids
<1> QED BY <1>1, <1>2, <1>3, <1>4, <1>5, <1>6, <1>7, <1>8, <1>9, <1>10 DEF Next

\* Every reachable state has the declared types, for every timetable.
LEMMA AlwaysTyped == Spec => []Typed
<1> QED BY InitType, NextType, PTL DEF Spec

-----------------------------------------------------------------------------
(***************************************************************************)
(* The inductive invariant behind the properties of the finished graph.    *)
(***************************************************************************)

\* The order every edge follows: start time, ids within the same second.
Before ==
  {p \in Ids \X Ids : \/ nodes[p[1]].from < nodes[p[2]].from
                      \/ /\ nodes[p[1]].from = nodes[p[2]].from
                         /\ p[1] < p[2]}

Bounded == \E B \in Nat : \A n \in Ids : nodes[n].from <= B

EdgesForward == NoTies => Respects(out, Before, Ids)

UsagesExact ==
  \A es \in ExclusionSets : \A n \in Ids :
    n \in usages[es] <=> es \in SetsOf[nodes[n].ir]

OrdersSorted ==
  \A es \in sorted :
    /\ order[es] \in [1..Cardinality(usages[es]) -> usages[es]]
    /\ IsSorting(order[es], usages[es])

Phases ==
  /\ pc = "generate" => sorted = {}
  /\ pc \in {"edges", "collect", "done"} => sorted = ExclusionSets
  /\ pc \in {"generate", "sort"} => cursor = 1
  /\ pc = "edges" => cursor \in Nat \ {0}

\* The usages of a set whose edges have been created form a chain.
Chained(es) ==
  \A i \in DOMAIN order[es] :
    i + 1 \in DOMAIN order[es] => order[es][i + 1] \in out[order[es][i]]

ChainsComplete ==
  \A es \in ExclusionSets :
    pc = "collect" \/ (pc = "edges" /\ es < cursor) => Chained(es)

TripEdges ==
  pc # "done" =>
    \A tr \in trips : \A n \in tr.first..(tr.end - 2) :
      n \in Ids /\ n + 1 \in Ids /\ n + 1 \in out[n]

CollectedExactly ==
  pc = "collect" =>
    \A n \in Ids : \A m \in Ids :
      <<n, m>> \in transitive <=> n < cursor /\ m \in TransitiveTargets(out, n)

NothingCollected == pc \in {"generate", "sort", "edges"} => transitive = {}

Inv ==
  /\ Typed
  /\ Bounded
  /\ EdgesForward
  /\ UsagesExact
  /\ OrdersSorted
  /\ Phases
  /\ ChainsComplete
  /\ TripEdges
  /\ CollectedExactly
  /\ NothingCollected

-----------------------------------------------------------------------------
\* Start times are bounded, so Before has minimal and maximal elements.
LEMMA BeforeIsOrder ==
  ASSUME Typed, Bounded
  PROVE  IsOrder(Before, Ids)
<1>1. \A n \in Ids : n \in Nat /\ nodes[n].from \in Nat
  BY IdsNat DEF Typed
<1>2. \A x \in Ids : <<x, x>> \notin Before
  BY <1>1 DEF Before
<1>3. \A x, y, z \in Ids :
        <<x, y>> \in Before /\ <<y, z>> \in Before => <<x, z>> \in Before
  BY <1>1 DEF Before
<1>4. ASSUME NEW T \in SUBSET Ids, T # {}
      PROVE  \E x \in T : \A y \in T : <<y, x>> \notin Before
  <2> DEFINE F == {f \in Nat : \E n \in T : f = nodes[n].from}
  <2>1. F # {} /\ F \in SUBSET Nat
    BY <1>1, <1>4
  <2>2. PICK f \in F : \A g \in F : f <= g
    <3> HIDE DEF F
    <3> QED BY <2>1, LeastNat
  <2> DEFINE G == {n \in T : nodes[n].from = f}
  <2>3. G # {} /\ G \in SUBSET Nat
    BY <1>1
  <2>4. PICK x \in G : \A y \in G : x <= y
    <3> HIDE DEF G
    <3> QED BY <2>3, LeastNat
  <2>5. ASSUME NEW y \in T, <<y, x>> \in Before PROVE FALSE
    <3>1. nodes[y].from \in F
      BY <1>1
    <3>2. f <= nodes[y].from /\ nodes[x].from = f /\ f \in Nat
      BY <2>2, <3>1
    <3>3. nodes[y].from = f /\ y < x
      BY <1>1, <2>5, <3>2 DEF Before
    <3> QED BY <1>1, <2>4, <3>3
  <2> QED BY <2>5
<1>5. ASSUME NEW T \in SUBSET Ids, T # {}
      PROVE  \E x \in T : \A y \in T : <<x, y>> \notin Before
  <2> DEFINE F == {f \in Nat : \E n \in T : f = nodes[n].from}
  <2>1. F # {} /\ F \in SUBSET Nat
    BY <1>1, <1>5
  <2>2. PICK f \in F : \A g \in F : g <= f
    <3>1. PICK B \in Nat : \A n \in Ids : nodes[n].from <= B
      BY DEF Bounded
    <3>2. \A g \in F : g <= B
      BY <3>1
    <3> HIDE DEF F
    <3> QED BY <2>1, <3>2, GreatestNat
  <2> DEFINE G == {n \in T : nodes[n].from = f}
  <2>3. G # {} /\ G \in SUBSET Nat /\ \A n \in G : n <= count
    <3>1. PICK n \in T : f = nodes[n].from
      BY <2>2
    <3>2. \A k \in Ids : k \in Nat /\ k <= count
      BY DEF Ids, Typed
    <3> QED BY <3>1, <3>2
  <2>4. PICK x \in G : \A y \in G : y <= x
    <3>1. count \in Nat
      BY DEF Typed
    <3> HIDE DEF G
    <3> QED BY <2>3, <3>1, GreatestNat
  <2>5. ASSUME NEW y \in T, <<x, y>> \in Before PROVE FALSE
    <3>1. nodes[y].from \in F
      BY <1>1
    <3>2. nodes[y].from <= f /\ nodes[x].from = f /\ f \in Nat
      BY <2>2, <3>1
    <3>3. nodes[y].from = f /\ x < y
      BY <1>1, <2>5, <3>2 DEF Before
    <3> QED BY <1>1, <2>4, <3>3
  <2> QED BY <2>5
<1> QED BY <1>2, <1>3, <1>4, <1>5 DEF IsOrder

\* out_ is a graph over the allocated nodes.
LEMMA OutIsGraph == ASSUME Typed PROVE IsGraph(out, Ids) /\ DOMAIN out = Ids
BY DEF Typed, IsGraph

-----------------------------------------------------------------------------
\* The invariant holds when the constructor starts.
LEMMA InitInv == Init => Inv
<1> SUFFICES ASSUME Init PROVE Inv
  OBVIOUS
<1>1. Typed
  BY InitType
<1>2. Ids = {}
  BY DEF Init, Ids
<1>3. Bounded /\ EdgesForward /\ UsagesExact
  BY <1>2 DEF Bounded, EdgesForward, UsagesExact, Respects
<1>4. OrdersSorted /\ Phases /\ ChainsComplete /\ TripEdges
  BY DEF Init, OrdersSorted, Phases, ChainsComplete, TripEdges
<1>5. CollectedExactly /\ NothingCollected
  BY DEF Init, CollectedExactly, NothingCollected
<1> QED BY <1>1, <1>3, <1>4, <1>5 DEF Inv

\* What AddTrip leaves of the old nodes and what the new ones look like.
LEMMA AddTripNodes ==
  ASSUME Typed, AddTrip
  PROVE  /\ Ids' = Ids \cup NewIds(train)
         /\ Ids \cap NewIds(train) = {}
         /\ \A n \in Ids : nodes'[n] = nodes[n] /\ out'[n] = out[n]
         /\ \A n \in NewIds(train) : /\ nodes'[n] = NewNode(train, n)
                                     /\ out'[n] = NewOut(train, n)
<1> DEFINE len == Len(timetable[train].path)
           all == 0..(count + len - 1)
           new == NewIds(train)
<1>1. len \in Nat \ {0} /\ count \in Nat
  BY CurrentTrain DEF AddTrip, Typed
<1>2. count' = count + len
  BY DEF AddTrip
<1>3. Ids' = all
  BY <1>1, <1>2 DEF Ids
<1>4. all = Ids \cup new /\ Ids \cap new = {}
  BY <1>1 DEF Ids, NewIds
<1>5. /\ nodes' = [n \in all |-> IF n \in new THEN NewNode(train, n) ELSE nodes[n]]
      /\ out' = [n \in all |-> IF n \in new THEN NewOut(train, n) ELSE out[n]]
  BY DEF AddTrip
<1> QED BY <1>3, <1>4, <1>5

\* The start times along a new trip never decrease.
LEMMA NewNodesMonotone ==
  ASSUME Typed, AddTrip, NEW n \in NewIds(train), NEW m \in NewIds(train),
         n <= m
  PROVE  NewNode(train, n).from <= NewNode(train, m).from
<1> DEFINE i == n - count + 1
           j == m - count + 1
<1>0. train \in Trains /\ departure \in 1..Len(timetable[train].anchors)
  BY DEF AddTrip, Typed
<1>5. /\ IsTrain(timetable[train]) /\ IsMonotone(timetable[train])
      /\ Len(timetable[train].path) \in Nat
  BY <1>0, CurrentTrain
<1>1. i \in 1..Len(timetable[train].path) /\ j \in 1..Len(timetable[train].path)
      /\ i <= j
  BY <1>5 DEF NewIds, Typed
<1>2. timetable[train].offset[i] <= timetable[train].offset[j]
  BY <1>1, <1>5 DEF IsMonotone
<1>3. timetable[train].offset[i] \in Nat /\ timetable[train].offset[j] \in Nat
  BY <1>1, <1>5 DEF IsTrain
<1>4. timetable[train].anchors[departure] \in Nat
  <2>1. timetable[train].anchors \in Seq(Nat)
    BY <1>5 DEF IsTrain
  <2> QED BY <2>1, <1>0, SeqMember
<1> QED BY <1>2, <1>3, <1>4 DEF NewNode

-----------------------------------------------------------------------------
\* Generating a trip keeps the invariant: its edges follow the node ids.
LEMMA AddTripInv == Inv /\ AddTrip => Inv'
<1> SUFFICES ASSUME Inv, AddTrip PROVE Inv'
  OBVIOUS
<1> DEFINE new == NewIds(train)
<1>1. Typed /\ Typed'
  BY NextType DEF Inv, Next
<1>2. /\ Ids' = Ids \cup new
      /\ Ids \cap new = {}
      /\ \A n \in Ids : nodes'[n] = nodes[n] /\ out'[n] = out[n]
      /\ \A n \in new : nodes'[n] = NewNode(train, n) /\ out'[n] = NewOut(train, n)
  BY <1>1, AddTripNodes
<1>3. /\ pc = "generate" /\ pc' = "generate" /\ sorted' = sorted
      /\ sorted = {} /\ cursor' = cursor /\ transitive' = transitive
      /\ cursor = 1
  BY DEF AddTrip, Inv, Phases
<1>4. \A n \in new : n \in Nat /\ n >= count
  BY <1>1, CurrentTrain DEF NewIds, AddTrip, Typed
<1>5. Bounded'
  <2>1. PICK B \in Nat : \A n \in Ids : nodes[n].from <= B
    BY DEF Inv, Bounded
  <2> DEFINE last == count + Len(timetable[train].path) - 1
             top  == NewNode(train, last).from
  <2>2. last \in new /\ \A n \in new : n <= last
    BY <1>1, CurrentTrain DEF NewIds, AddTrip, Typed
  <2>3. \A n \in new : NewNode(train, n).from <= top
    BY <1>1, <2>2, NewNodesMonotone
  <2>4. \A n \in new : NewNode(train, n).from \in Nat
    BY <1>1, NewNodeType DEF AddTrip
  <2>5. \A n \in Ids : nodes[n].from \in Nat
    BY <1>1 DEF Typed
  <2> DEFINE C == B + top
  <2>6. C \in Nat /\ top \in Nat
    BY <2>2, <2>4
  <2>7. ASSUME NEW n \in Ids' PROVE nodes'[n].from <= C
    <3>1. CASE n \in Ids
      BY <3>1, <1>2, <2>1, <2>5, <2>6
    <3>2. CASE n \in new
      BY <3>2, <1>2, <2>3, <2>4, <2>6
    <3> QED BY <3>1, <3>2, <1>2
  <2> HIDE DEF C
  <2> QED BY <2>6, <2>7 DEF Bounded
<1>6. \A es \in ExclusionSets :
        usages'[es] = usages[es] \cup
                        {n \in new : es \in SetsOf[NewNode(train, n).ir]}
  BY DEF AddTrip
<1>7. UsagesExact'
  <2> SUFFICES ASSUME NEW es \in ExclusionSets, NEW n \in Ids'
               PROVE  n \in usages'[es] <=> es \in SetsOf[nodes'[n].ir]
    BY DEF UsagesExact
  <2>1. CASE n \in Ids
    BY <2>1, <1>2, <1>6 DEF Inv, UsagesExact
  <2>2. CASE n \in new
    <3>1. n \notin usages[es]
      BY <2>2, <1>1, <1>2 DEF Typed
    <3> QED BY <2>2, <3>1, <1>2, <1>6
  <2> QED BY <2>1, <2>2, <1>2
<1>8. EdgesForward'
  <2> SUFFICES ASSUME NoTies', NEW x \in Ids', NEW y \in out'[x]
               PROVE  <<x, y>> \in Before'
    BY DEF EdgesForward, Respects
  <2>1. NoTies
    <3> SUFFICES ASSUME NEW es \in ExclusionSets,
                        NEW n \in usages[es], NEW m \in usages[es], n # m
                 PROVE  nodes[n].from # nodes[m].from
      BY DEF NoTies
    <3>1. n \in usages'[es] /\ m \in usages'[es]
      BY <1>6
    <3>2. n \in Ids /\ m \in Ids
      BY <1>1 DEF Typed
    <3> QED BY <3>1, <3>2, <1>2 DEF NoTies
  <2>2. CASE x \in Ids
    <3>1. y \in out[x] /\ y \in Ids
      BY <2>2, <1>1, <1>2 DEF Typed
    <3>2. <<x, y>> \in Before
      BY <2>1, <2>2, <3>1 DEF Inv, EdgesForward, Respects
    <3> QED BY <2>2, <3>1, <3>2, <1>2 DEF Before
  <2>3. CASE x \in new
    <3>1. y = x + 1 /\ y \in new
      BY <2>3, <1>2 DEF NewOut
    <3>2. x \in Nat /\ x < y /\ x <= y
      <4>1. x \in Nat
        BY <2>3, <1>4
      <4> QED BY <3>1, <4>1
    <3>3. NewNode(train, x).from <= NewNode(train, y).from
      BY <1>1, <2>3, <3>1, <3>2, NewNodesMonotone
    <3>4. NewNode(train, x).from \in Nat /\ NewNode(train, y).from \in Nat
      BY <1>1, <2>3, <3>1, NewNodeType DEF AddTrip
    <3>5. /\ nodes'[x].from <= nodes'[y].from
          /\ nodes'[x].from \in Nat /\ nodes'[y].from \in Nat
      BY <2>3, <3>1, <3>3, <3>4, <1>2
    <3>6. x \in Ids' /\ y \in Ids'
      BY <2>3, <3>1, <1>2
    <3> QED BY <3>2, <3>5, <3>6 DEF Before
  <2> QED BY <2>2, <2>3, <1>2
<1>9. OrdersSorted' /\ Phases' /\ ChainsComplete'
  BY <1>3 DEF OrdersSorted, Phases, ChainsComplete
<1>10. CollectedExactly' /\ NothingCollected'
  BY <1>3 DEF CollectedExactly, NothingCollected, Inv
<1>11. TripEdges'
  <2> SUFFICES ASSUME NEW tr \in trips', NEW n \in tr.first..(tr.end - 2)
               PROVE  n \in Ids' /\ n + 1 \in Ids' /\ n + 1 \in out'[n]
    BY DEF TripEdges
  <2>1. CASE tr \in trips
    <3>1. n \in Ids /\ n + 1 \in Ids /\ n + 1 \in out[n]
      BY <2>1, <1>3 DEF Inv, TripEdges
    <3> QED BY <3>1, <1>2
  <2>2. CASE tr \notin trips
    <3>1. tr.first = count /\ tr.end = count + Len(timetable[train].path)
      BY <2>2 DEF AddTrip, NewTrip
    <3>2. n \in new /\ n + 1 \in new
      BY <3>1, <1>1, CurrentTrain DEF NewIds, AddTrip, Typed
    <3> QED BY <3>2, <1>2 DEF NewOut
  <2> QED BY <2>1, <2>2
<1> QED BY <1>1, <1>5, <1>7, <1>8, <1>9, <1>10, <1>11 DEF Inv

\* Sorting keeps the invariant: a sorted ordering lists its usages by time.
LEMMA SortOrderingInv ==
  ASSUME Inv, NEW es \in ExclusionSets, SortOrdering(es)
  PROVE  Inv'
<1>1. Typed /\ Typed'
  BY NextType DEF Inv, Next
<1>2. UNCHANGED <<nodes, usages, out, trips, transitive, cursor, pc, count>>
      /\ pc = "sort" /\ sorted' = sorted \cup {es}
  BY DEF SortOrdering
<1>3. PICK s \in [1..Cardinality(usages[es]) -> usages[es]] :
        IsSorting(s, usages[es]) /\ order' = [order EXCEPT ![es] = s]
  BY DEF SortOrdering
<1>4. OrdersSorted'
  <2> SUFFICES ASSUME NEW o \in sorted'
               PROVE  /\ order'[o] \in [1..Cardinality(usages[o]) -> usages[o]]
                      /\ IsSorting(order'[o], usages[o])
    BY <1>2 DEF OrdersSorted, IsSorting
  <2>1. CASE o = es
    BY <2>1, <1>1, <1>3 DEF Typed
  <2>2. CASE o # es
    <3>1. o \in sorted /\ o \in ExclusionSets /\ order'[o] = order[o]
      BY <2>2, <1>1, <1>2, <1>3 DEF Typed
    <3> QED BY <3>1 DEF Inv, OrdersSorted
  <2> QED BY <2>1, <2>2
<1>5. Bounded' /\ EdgesForward' /\ UsagesExact' /\ TripEdges'
  <2>1. Ids' = Ids /\ Before' = Before /\ NoTies' = NoTies
    BY <1>2 DEF Ids, Before, NoTies
  <2>2. Bounded' /\ EdgesForward'
    BY <1>2, <2>1 DEF Inv, Bounded, EdgesForward, Respects
  <2>3. UsagesExact' /\ TripEdges'
    BY <1>2, <2>1 DEF Inv, UsagesExact, TripEdges
  <2> QED BY <2>2, <2>3
<1>6. Phases' /\ ChainsComplete' /\ CollectedExactly' /\ NothingCollected'
  BY <1>2 DEF Inv, Phases, ChainsComplete, CollectedExactly, NothingCollected
<1> QED BY <1>1, <1>4, <1>5, <1>6 DEF Inv

\* Joining the usages of a set keeps the invariant: its edges follow Before.
LEMMA CreateEdgesInv == Inv /\ CreateEdges => Inv'
<1> SUFFICES ASSUME Inv, CreateEdges PROVE Inv'
  OBVIOUS
<1>1. Typed /\ Typed'
  BY NextType DEF Inv, Next
<1>2. /\ UNCHANGED <<nodes, usages, trips, transitive, order, sorted, pc, count>>
      /\ pc = "edges" /\ cursor' = cursor + 1 /\ cursor \in ExclusionSets
      /\ out' = [n \in Ids |-> out[n] \cup Successors(order[cursor], n)]
  BY DEF CreateEdges
<1>3. /\ order[cursor] \in [1..Cardinality(usages[cursor]) -> usages[cursor]]
      /\ IsSorting(order[cursor], usages[cursor])
      /\ usages[cursor] \subseteq Ids
      /\ Cardinality(usages[cursor]) \in Nat
  BY <1>1, <1>2, UsagesFinite DEF Inv, Phases, OrdersSorted, Typed
<1>4. Ids' = Ids
  BY <1>2 DEF Ids
<1>5. EdgesForward'
  <2> SUFFICES ASSUME NoTies', NEW x \in Ids, NEW y \in out'[x]
               PROVE  <<x, y>> \in Before'
    BY <1>4 DEF EdgesForward, Respects
  <2>1. NoTies /\ Before' = Before
    BY <1>2, <1>4 DEF NoTies, Before
  <2>2. CASE y \in out[x]
    BY <2>1, <2>2 DEF Inv, EdgesForward, Respects
  <2>3. CASE y \in Successors(order[cursor], x)
    <3>1. PICK i \in DOMAIN order[cursor] :
            /\ i + 1 \in DOMAIN order[cursor]
            /\ order[cursor][i] = x /\ order[cursor][i + 1] = y
      BY <2>3 DEF Successors
    <3>2. i \in Nat /\ i < i + 1
      BY <1>3, <3>1
    <3>3. x # y /\ nodes[x].from <= nodes[y].from
      BY <1>3, <3>1, <3>2 DEF IsSorting
    <3>4. x \in usages[cursor] /\ y \in usages[cursor]
      BY <1>3, <3>1
    <3>5. nodes[x].from # nodes[y].from
      BY <2>1, <3>3, <3>4, <1>2 DEF NoTies
    <3>6. x \in Ids /\ y \in Ids
      BY <1>3, <3>4
    <3>7. nodes[x].from \in Nat /\ nodes[y].from \in Nat
      BY <1>1, <3>6 DEF Typed
    <3> QED BY <2>1, <3>3, <3>5, <3>6, <3>7 DEF Before
  <2> QED BY <1>2, <2>2, <2>3
<1>6. \A n \in Ids : out[n] \subseteq out'[n]
  BY <1>2
<1>7. ChainsComplete'
  <2> SUFFICES ASSUME NEW es \in ExclusionSets, es < cursor + 1,
                      NEW i \in DOMAIN order[es], i + 1 \in DOMAIN order[es]
               PROVE  order[es][i + 1] \in out'[order[es][i]]
    BY <1>2 DEF ChainsComplete, Chained
  <2>1. order[es][i] \in Ids
    <3>1. order[es] \in Seq(Ids)
      BY <1>1 DEF Typed
    <3> QED BY <3>1
  <2>2. CASE es < cursor
    <3>1. order[es][i + 1] \in out[order[es][i]]
      BY <2>2, <1>2 DEF Inv, ChainsComplete, Chained
    <3> QED BY <3>1, <2>1, <1>6
  <2>3. CASE es = cursor
    BY <2>1, <2>3, <1>2 DEF Successors
  <2>4. es < cursor \/ es = cursor
    BY <1>2 DEF ExclusionSets
  <2> QED BY <2>2, <2>3, <2>4
<1>8. TripEdges'
  <2> SUFFICES ASSUME NEW tr \in trips, NEW n \in tr.first..(tr.end - 2)
               PROVE  n \in Ids /\ n + 1 \in Ids /\ n + 1 \in out'[n]
    BY <1>2, <1>4 DEF TripEdges
  <2>1. n \in Ids /\ n + 1 \in Ids /\ n + 1 \in out[n]
    BY <1>2 DEF Inv, TripEdges
  <2> QED BY <2>1, <1>6
<1>9. Bounded' /\ UsagesExact' /\ OrdersSorted'
  BY <1>2, <1>4 DEF Inv, Bounded, UsagesExact, OrdersSorted, IsSorting
<1>10. Phases' /\ CollectedExactly' /\ NothingCollected'
  BY <1>2 DEF Inv, Phases, CollectedExactly, NothingCollected
<1> QED BY <1>1, <1>5, <1>7, <1>8, <1>9, <1>10 DEF Inv

\* Collecting keeps the invariant: transitive holds what the search finds.
LEMMA CollectInv == Inv /\ CollectTransitiveEdges => Inv'
<1> SUFFICES ASSUME Inv, CollectTransitiveEdges PROVE Inv'
  OBVIOUS
<1>1. Typed /\ Typed'
  BY NextType DEF Inv, Next
<1>2. /\ UNCHANGED <<nodes, usages, trips, order, sorted, pc, count, out>>
      /\ pc = "collect" /\ cursor' = cursor + 1 /\ cursor \in Ids
      /\ transitive' = transitive \cup
                         ({cursor} \X TransitiveTargets(out, cursor))
  BY DEF CollectTransitiveEdges
<1>3. Ids' = Ids
  BY <1>2 DEF Ids
<1>4. CollectedExactly'
  <2> SUFFICES ASSUME NEW n \in Ids, NEW m \in Ids
               PROVE  <<n, m>> \in transitive' <=>
                        n < cursor + 1 /\ m \in TransitiveTargets(out, n)
    BY <1>2, <1>3 DEF CollectedExactly
  <2>1. <<n, m>> \in transitive <=>
          n < cursor /\ m \in TransitiveTargets(out, n)
    BY <1>2 DEF Inv, CollectedExactly
  <2>2. n < cursor + 1 <=> n < cursor \/ n = cursor
    BY <1>1, <1>2, IdsNat
  <2> QED BY <2>1, <2>2, <1>2
<1>5. Bounded' /\ EdgesForward' /\ UsagesExact' /\ TripEdges'
  BY <1>2, <1>3 DEF Inv, Bounded, EdgesForward, NoTies, Respects, Before,
                    UsagesExact, TripEdges
<1>6. OrdersSorted' /\ Phases' /\ ChainsComplete' /\ NothingCollected'
  BY <1>2 DEF Inv, OrdersSorted, IsSorting, Phases, ChainsComplete, Chained,
              NothingCollected
<1> QED BY <1>1, <1>4, <1>5, <1>6 DEF Inv

\* The graph before the erasure, without exactly its transitive edges.
LEMMA ErasedEdges ==
  ASSUME Inv, EraseTransitiveEdges
  PROVE  /\ Ids' = Ids
         /\ \A x \in Ids : out'[x] = out[x] \ TransitiveTargets(out, x)
<1>1. Typed
  BY DEF Inv
<1>2. Ids' = Ids /\ pc = "collect"
  BY DEF EraseTransitiveEdges, Ids
<1>3. \A n \in Ids : n < cursor
  BY <1>1 DEF EraseTransitiveEdges, Ids, Typed
<1>4. ASSUME NEW x \in Ids
      PROVE  out'[x] = out[x] \ TransitiveTargets(out, x)
  <2>1. out'[x] = {m \in out[x] : <<x, m>> \notin transitive}
    BY DEF EraseTransitiveEdges
  <2>2. out[x] \subseteq Ids
    BY <1>1 DEF Typed
  <2>3. \A m \in out[x] : <<x, m>> \in transitive <=>
                            m \in TransitiveTargets(out, x)
    BY <1>2, <1>3, <2>2 DEF Inv, CollectedExactly
  <2> QED BY <2>1, <2>3
<1> QED BY <1>2, <1>4

\* Erasing edges keeps the invariant: fewer edges still follow Before.
LEMMA EraseInv == Inv /\ EraseTransitiveEdges => Inv'
<1> SUFFICES ASSUME Inv, EraseTransitiveEdges PROVE Inv'
  OBVIOUS
<1>1. Typed /\ Typed'
  BY NextType DEF Inv, Next
<1>2. /\ UNCHANGED <<nodes, usages, trips, order, sorted, count, cursor>>
      /\ pc = "collect" /\ pc' = "done"
      /\ \A x \in Ids : out'[x] \subseteq out[x]
  BY DEF EraseTransitiveEdges
<1>3. Ids' = Ids
  BY <1>2 DEF Ids
<1>4. EdgesForward'
  <2> SUFFICES ASSUME NoTies', NEW x \in Ids, NEW y \in out'[x]
               PROVE  <<x, y>> \in Before'
    BY <1>3 DEF EdgesForward, Respects
  <2>1. NoTies /\ Before' = Before
    BY <1>2, <1>3 DEF NoTies, Before
  <2> QED BY <2>1, <1>2 DEF Inv, EdgesForward, Respects
<1>5. Bounded' /\ UsagesExact' /\ OrdersSorted'
  BY <1>2, <1>3 DEF Inv, Bounded, UsagesExact, OrdersSorted, IsSorting
<1>6. Phases' /\ ChainsComplete' /\ TripEdges' /\ CollectedExactly'
      /\ NothingCollected'
  BY <1>2 DEF Inv, Phases, ChainsComplete, TripEdges, CollectedExactly,
              NothingCollected
<1> QED BY <1>1, <1>4, <1>5, <1>6 DEF Inv

\* Steps that only move from phase to phase or from train to train.
LEMMA FrameInv ==
  ASSUME Inv, Typed',
         UNCHANGED <<nodes, usages, trips, order, sorted, count, out>>,
         pc = "done" => pc' = "done"
  PROVE  /\ Bounded' /\ EdgesForward' /\ UsagesExact'
         /\ OrdersSorted' /\ TripEdges'
<1>1. Ids' = Ids
  BY DEF Ids
<1>2. Before' = Before /\ NoTies' = NoTies
  BY <1>1 DEF Before, NoTies
<1>3. Bounded' /\ EdgesForward' /\ UsagesExact'
  BY <1>1, <1>2 DEF Inv, Bounded, EdgesForward, Respects, UsagesExact
<1>4. OrdersSorted' /\ TripEdges'
  BY <1>1 DEF Inv, OrdersSorted, IsSorting, TripEdges
<1> QED BY <1>3, <1>4

\* The end of the sorting keeps the invariant.
LEMMA FinishSortInv == Inv /\ FinishSort => Inv'
<1> SUFFICES ASSUME Inv, FinishSort PROVE Inv'
  OBVIOUS
<1>1. Typed'
  BY NextType DEF Inv, Next
<1>2. /\ UNCHANGED <<nodes, usages, trips, order, sorted, count, cursor, out,
                     transitive>>
      /\ pc = "sort" /\ pc' = "edges" /\ sorted = ExclusionSets /\ cursor = 1
  BY DEF FinishSort, Inv, Phases
<1>3. ChainsComplete' /\ Phases'
  BY <1>2 DEF ChainsComplete, Phases, ExclusionSets
<1>4. CollectedExactly' /\ NothingCollected'
  BY <1>2 DEF Inv, CollectedExactly, NothingCollected
<1> QED BY <1>1, <1>2, <1>3, <1>4, FrameInv DEF Inv

\* The end of the edge creation keeps the invariant.
LEMMA FinishEdgesInv == Inv /\ FinishEdges => Inv'
<1> SUFFICES ASSUME Inv, FinishEdges PROVE Inv'
  OBVIOUS
<1>1. Typed'
  BY NextType DEF Inv, Next
<1>2. /\ UNCHANGED <<nodes, usages, trips, order, sorted, count, out,
                     transitive>>
      /\ pc = "edges" /\ pc' = "collect" /\ cursor' = 0
      /\ cursor \notin ExclusionSets /\ cursor \in Nat \ {0}
      /\ transitive = {}
  BY DEF FinishEdges, Inv, Phases, NothingCollected
<1>3. \A es \in ExclusionSets : es < cursor
  BY <1>2, NumSetsAssumption DEF ExclusionSets
<1>4. ChainsComplete' /\ Phases'
  BY <1>2, <1>3 DEF Inv, ChainsComplete, Chained, Phases
<1>5. CollectedExactly' /\ NothingCollected'
  <2>1. \A n \in Ids' : ~(n < cursor')
    BY <1>2 DEF Ids
  <2>2. transitive' = {}
    BY <1>2
  <2> QED BY <1>2, <2>1, <2>2 DEF CollectedExactly, NothingCollected
<1> QED BY <1>1, <1>2, <1>4, <1>5, FrameInv DEF Inv

\* Every step keeps the invariant.
LEMMA NextInv == Inv /\ [Next]_vars => Inv'
<1> SUFFICES ASSUME Inv, [Next]_vars PROVE Inv'
  OBVIOUS
<1>1. Typed'
  BY NextType DEF Inv
<1>2. ASSUME UNCHANGED <<nodes, usages, trips, order, sorted, count, cursor, out,
                         transitive>>,
             \/ pc' = pc
             \/ pc = "generate" /\ pc' = "sort"
      PROVE  Inv'
  <2>1. ChainsComplete' /\ Phases'
    BY <1>2 DEF Inv, ChainsComplete, Chained, Phases
  <2>2. CollectedExactly' /\ NothingCollected'
    BY <1>2 DEF Inv, CollectedExactly, NothingCollected, Ids
  <2> QED BY <1>1, <1>2, <2>1, <2>2, FrameInv DEF Inv
<1>3. CASE NextTrain
  BY <1>2, <1>3 DEF NextTrain
<1>4. CASE FinishGeneration
  BY <1>2, <1>4 DEF FinishGeneration
<1>5. CASE UNCHANGED vars
  BY <1>2, <1>5 DEF vars
<1> QED BY <1>3, <1>4, <1>5, AddTripInv, SortOrderingInv, FinishSortInv,
           CreateEdgesInv, FinishEdgesInv, CollectInv, EraseInv DEF Next

\* The inductive invariant holds in every reachable state.
THEOREM Invariant == Spec => []Inv
BY InitInv, NextInv, PTL DEF Spec

-----------------------------------------------------------------------------
(***************************************************************************)
(* As long as no two usages of an exclusion set start in the same second,  *)
(* no phase of the construction closes a cycle.                            *)
(***************************************************************************)
LEMMA InvAcyclic == Inv => Acyclic
<1> SUFFICES ASSUME Inv, NoTies PROVE IsAcyclic(out)
  BY DEF Acyclic
<1>1. IsGraph(out, Ids) /\ IsOrder(Before, Ids) /\ Respects(out, Before, Ids)
  BY OutIsGraph, BeforeIsOrder DEF Inv, EdgesForward
<1> QED BY <1>1, OrderAcyclic

\* The graph is acyclic in every phase, if no usages tie.
THEOREM AlwaysAcyclic == Spec => []Acyclic
BY Invariant, InvAcyclic, PTL

(***************************************************************************)
(* The erasure of transitive edges changes no path.                        *)
(***************************************************************************)
LEMMA EraseKeepsPaths ==
  ASSUME Inv, EraseTransitiveEdges, NoTies, NEW n \in Ids, NEW m \in Ids
  PROVE  Reaches(out', n, m) <=> Reaches(out, n, m)
<1>1. Typed /\ Typed'
  BY NextType DEF Inv, Next
<1>2. Ids' = Ids
  BY ErasedEdges
<1>3. IsGraph(out, Ids) /\ IsGraph(out', Ids)
  BY <1>1, <1>2, OutIsGraph DEF Typed, IsGraph
<1>4. IsOrder(Before, Ids) /\ Respects(out, Before, Ids)
  BY BeforeIsOrder DEF Inv, EdgesForward
<1>5. IsReduction(out', out, Ids)
  BY ErasedEdges DEF IsReduction
<1> QED BY <1>3, <1>4, <1>5, ReductionKeepsReaches

\* The transitive reduction keeps every path, if no usages tie.
THEOREM PathsSurvive == Spec => ReductionKeepsPaths
<1>1. Inv /\ [Next]_vars =>
        [pc = "collect" /\ pc' = "done" /\ NoTies =>
           \A n, m \in Ids : Reaches(out, n, m) <=> Reaches(out', n, m)]_vars
  <2> SUFFICES ASSUME Inv, Next, pc = "collect", pc' = "done", NoTies,
                      NEW n \in Ids, NEW m \in Ids
               PROVE  Reaches(out, n, m) <=> Reaches(out', n, m)
    OBVIOUS
  <2>1. EraseTransitiveEdges
    BY DEF Next, NextTrain, AddTrip, FinishGeneration, SortOrdering, FinishSort,
           CreateEdges, FinishEdges, CollectTransitiveEdges
  <2> QED BY <2>1, EraseKeepsPaths
<1> QED BY <1>1, Invariant, PTL DEF Spec, ReductionKeepsPaths

-----------------------------------------------------------------------------
\* Two usages of one exclusion set are joined as soon as its edges exist.
LEMMA ChainOrders ==
  ASSUME Inv, pc = "collect", NEW es \in ExclusionSets,
         NEW n \in usages[es], NEW m \in usages[es], n # m
  PROVE  Ordered(n, m)
<1> DEFINE k == Cardinality(usages[es])
           s == order[es]
<1>1. k \in Nat /\ usages[es] \subseteq Ids
  BY UsagesFinite DEF Inv, Typed
<1>2. s \in [1..k -> usages[es]] /\ IsSorting(s, usages[es])
  BY DEF Inv, Phases, OrdersSorted
<1>3. s \in [1..k -> Ids] /\ DOMAIN s = 1..k
  BY <1>1, <1>2
<1>4. PICK i \in 1..k, j \in 1..k : s[i] = n /\ s[j] = m
  BY <1>2, <1>3 DEF IsSorting
<1>5. IsGraph(out, Ids)
  BY OutIsGraph DEF Inv
<1>6. \A l \in 1..k : l + 1 \in 1..k => s[l + 1] \in out[s[l]]
  BY <1>3 DEF Inv, ChainsComplete, Chained
<1>7. ASSUME NEW x \in 1..k, NEW y \in 1..k, x < y
      PROVE  Reaches(out, s[x], s[y])
  <2> HIDE DEF k, s
  <2> QED BY <1>1, <1>3, <1>5, <1>6, <1>7, ChainReaches
<1>8. i < j \/ j < i
  BY <1>4
<1> QED BY <1>4, <1>7, <1>8 DEF Ordered

(***************************************************************************)
(* What holds of the finished graph, carried from the step that finishes   *)
(* it: nothing changes the graph afterwards.                               *)
(***************************************************************************)
Finished == ExclusionPaths /\ TripsStayConnected /\ PathsFollowTime /\ Reduced

\* The erasure establishes what is claimed of the finished graph.
LEMMA EraseFinishes == Inv /\ EraseTransitiveEdges => Finished'
<1> SUFFICES ASSUME Inv, EraseTransitiveEdges, NoTies'
             PROVE  Finished'
  BY DEF Finished, ExclusionPaths, TripsStayConnected, PathsFollowTime, Reduced
<1>1. /\ UNCHANGED <<nodes, usages, trips, count>> /\ Ids' = Ids
      /\ pc = "collect"
  BY DEF EraseTransitiveEdges, Ids
<1>2. NoTies
  BY <1>1 DEF NoTies
<1>3. Typed /\ Typed'
  BY NextType DEF Inv, Next
<1>4. \A n, m \in Ids : Reaches(out', n, m) <=> Reaches(out, n, m)
  BY <1>2, EraseKeepsPaths
<1>5. IsGraph(out, Ids) /\ IsGraph(out', Ids)
  BY <1>1, <1>3, OutIsGraph DEF Typed, IsGraph
<1>6. ExclusionPaths'
  <2> SUFFICES ASSUME NEW n \in Ids, NEW m \in Ids, n # m, Exclude(n, m)'
               PROVE  Ordered(n, m)'
    BY <1>1 DEF ExclusionPaths
  <2>1. PICK es \in ExclusionSets :
          es \in SetsOf[nodes[n].ir] /\ es \in SetsOf[nodes[m].ir]
    <3>1. nodes[n].ir \in IRs
      BY <1>3 DEF Typed
    <3> QED BY <3>1, <1>1, SetsOfAssumption DEF Exclude
  <2>2. n \in usages[es] /\ m \in usages[es]
    BY <2>1 DEF Inv, UsagesExact
  <2>3. Ordered(n, m)
    BY <1>1, <2>2, ChainOrders
  <2> QED BY <2>3, <1>4 DEF Ordered
<1>7. TripsStayConnected'
  <2> SUFFICES ASSUME NEW tr \in trips, NEW n \in tr.first..(tr.end - 2)
               PROVE  Reaches(out', n, n + 1)
    BY <1>1 DEF TripsStayConnected
  <2>1. n \in Ids /\ n + 1 \in Ids /\ n + 1 \in out[n]
    BY <1>1 DEF Inv, TripEdges
  <2>2. Reaches(out, n, n + 1)
    BY <2>1, <1>5, EdgeReaches
  <2> QED BY <2>1, <2>2, <1>4
<1>8. PathsFollowTime'
  <2> SUFFICES ASSUME NEW n \in Ids, NEW m \in Ids, Reaches(out', n, m)
               PROVE  nodes[n].from <= nodes[m].from
    BY <1>1 DEF PathsFollowTime
  <2>1. Reaches(out, n, m)
    BY <1>4
  <2>2. IsOrder(Before, Ids) /\ Respects(out, Before, Ids)
    BY <1>2, BeforeIsOrder DEF Inv, EdgesForward
  <2>3. <<n, m>> \in Before
    BY <2>1, <2>2, <1>5, ReachesRespects
  <2> QED BY <2>3, <1>3 DEF Before, Typed
<1>9. Reduced'
  <2> SUFFICES ASSUME NEW n \in Ids
               PROVE  TransitiveTargets(out', n) = {}
    BY <1>1 DEF Reduced
  <2> QED BY <1>5, ErasedEdges, ReductionIsComplete
<1> QED BY <1>6, <1>7, <1>8, <1>9 DEF Finished

\* Every step keeps the claims about the finished graph.
LEMMA NextFinished == Inv /\ Finished /\ [Next]_vars => Finished'
<1> SUFFICES ASSUME Inv, Finished, [Next]_vars PROVE Finished'
  OBVIOUS
<1>1. CASE EraseTransitiveEdges
  BY <1>1, EraseFinishes
<1>2. CASE ~EraseTransitiveEdges /\ Next
  <2>1. pc' # "done"
    BY <1>2 DEF Next, NextTrain, AddTrip, FinishGeneration, SortOrdering,
           FinishSort, CreateEdges, FinishEdges, CollectTransitiveEdges
  <2> QED BY <2>1 DEF Finished, ExclusionPaths, TripsStayConnected,
                      PathsFollowTime, Reduced
<1>3. CASE UNCHANGED vars
  <2>1. UNCHANGED <<nodes, usages, trips, out, count, pc>>
    BY <1>3 DEF vars
  <2> QED BY <2>1 DEF Finished, ExclusionPaths, TripsStayConnected,
                      PathsFollowTime, Reduced, NoTies, Ids, Exclude, Ordered
<1> QED BY <1>1, <1>2, <1>3

\* The claims about the finished graph hold, vacuously, at the start.
LEMMA InitFinished == Init => Finished
BY DEF Init, Finished, ExclusionPaths, TripsStayConnected, PathsFollowTime,
       Reduced

\* The claims about the finished graph hold in every reachable state.
LEMMA AlwaysFinished == Spec => []Finished
BY InitFinished, NextFinished, Invariant, PTL DEF Spec

(***************************************************************************)
(* The promise of the ordering graph: two usages whose routes exclude each *)
(* other are ordered by a path, for any timetable and infrastructure in    *)
(* which no two usages of an exclusion set start in the same second.       *)
(***************************************************************************)
THEOREM UsagesOrdered == Spec => []ExclusionPaths
<1>1. Finished => ExclusionPaths
  BY DEF Finished
<1> QED BY <1>1, AlwaysFinished, PTL

\* A trip runs along its path in the finished graph.
THEOREM TripsConnected == Spec => []TripsStayConnected
<1>1. Finished => TripsStayConnected
  BY DEF Finished
<1> QED BY <1>1, AlwaysFinished, PTL

\* No path of the finished graph leads back in time.
THEOREM NoPathBackInTime == Spec => []PathsFollowTime
<1>1. Finished => PathsFollowTime
  BY DEF Finished
<1> QED BY <1>1, AlwaysFinished, PTL

\* No edge of the finished graph is transitive.
THEOREM NothingLeftToReduce == Spec => []Reduced
<1>1. Finished => Reduced
  BY DEF Finished
<1> QED BY <1>1, AlwaysFinished, PTL

-----------------------------------------------------------------------------
\* The edges along a new trip are entered at both of their ends.
LEMMA AddTripMirror ==
  ASSUME Typed, InMirrorsOut, AddTrip, NEW n \in Ids', NEW m \in Ids'
  PROVE  m \in out'[n] <=> n \in in'[m]
<1> DEFINE new == NewIds(train)
<1>1. /\ Ids' = Ids \cup new /\ Ids \cap new = {}
      /\ \A k \in Ids : out'[k] = out[k]
      /\ \A k \in new : out'[k] = NewOut(train, k)
  BY AddTripNodes
<1>2. /\ \A k \in Ids : in'[k] = in[k]
      /\ \A k \in new : in'[k] = NewIn(train, k)
  <2> DEFINE all == 0..(count + Len(timetable[train].path) - 1)
  <2>1. in' = [k \in all |-> IF k \in new THEN NewIn(train, k) ELSE in[k]]
    BY DEF AddTrip
  <2>2. train \in Trains /\ count \in Nat
    BY DEF AddTrip, Typed
  <2>3. Len(timetable[train].path) \in Nat
    BY <2>2, CurrentTrain
  <2>4. Ids \subseteq all /\ new \subseteq all
    BY <2>2, <2>3 DEF Ids, NewIds
  <2> QED BY <1>1, <2>1, <2>4
<1>3. n \in Int /\ m \in Int
  BY DEF Ids
<1>4. CASE n \in Ids /\ m \in Ids
  BY <1>1, <1>2, <1>4 DEF InMirrorsOut
<1>5. CASE n \in new /\ m \in new
  <2>1. m \in NewOut(train, n) <=> m = n + 1
    BY <1>5 DEF NewOut
  <2>2. n \in NewIn(train, m) <=> n = m - 1
    BY <1>5 DEF NewIn
  <2>3. m = n + 1 <=> n = m - 1
    BY <1>3
  <2> QED BY <1>1, <1>2, <1>5, <2>1, <2>2, <2>3
<1>6. CASE n \in Ids /\ m \in new
  <2>1. m \notin out[n]
    BY <1>1, <1>6 DEF Typed
  <2>2. n \notin NewIn(train, m)
    BY <1>1, <1>6 DEF NewIn
  <2> QED BY <1>1, <1>2, <1>6, <2>1, <2>2
<1>7. CASE n \in new /\ m \in Ids
  <2>1. n \notin in[m]
    BY <1>1, <1>7 DEF Typed
  <2>2. m \notin NewOut(train, n)
    BY <1>1, <1>7 DEF NewOut
  <2> QED BY <1>1, <1>2, <1>7, <2>1, <2>2
<1> QED BY <1>1, <1>4, <1>5, <1>6, <1>7

\* Every step keeps in_ the mirror image of out_.
LEMMA NextMirror == Typed /\ InMirrorsOut /\ [Next]_vars => InMirrorsOut'
<1> SUFFICES ASSUME Typed, InMirrorsOut, [Next]_vars,
                    NEW n \in Ids', NEW m \in Ids'
             PROVE  m \in out'[n] <=> n \in in'[m]
  BY DEF InMirrorsOut
<1>1. CASE AddTrip
  BY <1>1, AddTripMirror
<1>2. CASE CreateEdges
  <2>1. n \in Ids /\ m \in Ids
    BY <1>2 DEF CreateEdges, Ids
  <2>2. m \in Successors(order[cursor], n) <=>
          n \in Predecessors(order[cursor], m)
    BY DEF Successors, Predecessors
  <2> QED BY <1>2, <2>1, <2>2 DEF CreateEdges, InMirrorsOut
<1>3. CASE EraseTransitiveEdges
  <2>1. n \in Ids /\ m \in Ids
    BY <1>3 DEF EraseTransitiveEdges, Ids
  <2> QED BY <1>3, <2>1 DEF EraseTransitiveEdges, InMirrorsOut
<1>4. ASSUME UNCHANGED <<out, in, count>>
      PROVE  m \in out'[n] <=> n \in in'[m]
  BY <1>4 DEF InMirrorsOut, Ids
<1> QED BY <1>1, <1>2, <1>3, <1>4 DEF Next, NextTrain, FinishGeneration,
           SortOrdering, FinishSort, FinishEdges, CollectTransitiveEdges, vars

(***************************************************************************)
(* The variables keep their types, and in_ and out_ describe the same      *)
(* edges, in every phase and for every timetable                           *)
(* (ordering_graph.cc:122, :196, :202, remove_transitive_edges.cc:61).      *)
(***************************************************************************)
THEOREM TypeCorrect == Spec => []TypeOK
<1>1. Init => InMirrorsOut
  BY DEF Init, InMirrorsOut, Ids
<1>2. Typed /\ InMirrorsOut <=> TypeOK
  BY DEF TypeOK
<1> QED BY <1>1, <1>2, NextMirror, AlwaysTyped, PTL DEF Spec

-----------------------------------------------------------------------------
TripsBounded == \A tr \in trips : tr.end <= count

\* Every step keeps the node ranges of the trips a partition.
LEMMA NextTrips ==
  Typed /\ TripsBounded /\ TripsPartitionNodes /\ [Next]_vars =>
    TripsBounded' /\ TripsPartitionNodes'
<1> SUFFICES ASSUME Typed, TripsBounded, TripsPartitionNodes, [Next]_vars
             PROVE  TripsBounded' /\ TripsPartitionNodes'
  OBVIOUS
<1>1. CASE AddTrip
  <2> DEFINE new == NewIds(train)
             len == Len(timetable[train].path)
             trip == [train  |-> train,
                      anchor |-> timetable[train].anchors[departure],
                      first  |-> count, end |-> count + len]
  <2>1. /\ Ids' = Ids \cup new /\ Ids \cap new = {}
        /\ \A k \in Ids : nodes'[k] = nodes[k]
        /\ \A k \in new : nodes'[k] = NewNode(train, k)
    BY <1>1, AddTripNodes
  <2>2. trips' = trips \cup {trip} /\ count' = count + len
    BY <1>1 DEF AddTrip, NewTrip
  <2>3. len \in Nat \ {0} /\ count \in Nat
    BY <1>1, CurrentTrain DEF AddTrip, Typed
  <2>4. \A tr \in trips : tr.end \in Nat /\ tr.first \in Nat
    BY DEF Typed
  <2>5. trip.train = train /\ trip.first = count /\ trip.end = count + len
    OBVIOUS
  <2>6. TripsBounded'
    <3> HIDE DEF trip, len
    <3> QED BY <2>2, <2>3, <2>4, <2>5 DEF TripsBounded
  <2>7. new = trip.first..(trip.end - 1)
    <3> HIDE DEF trip
    <3> QED BY <2>3, <2>5 DEF NewIds
  <2>8. \A tr \in trips : \A k \in new : k \notin tr.first..(tr.end - 1)
    BY <2>3, <2>4 DEF TripsBounded, NewIds
  <2>9. ASSUME NEW n \in Ids'
        PROVE  \E tr \in trips' :
                 /\ n \in tr.first..(tr.end - 1)
                 /\ nodes'[n].train = tr.train
                 /\ \A other \in trips' :
                      n \in other.first..(other.end - 1) => other = tr
    <3>1. CASE n \in Ids
      <4>1. PICK tr \in trips :
              /\ n \in tr.first..(tr.end - 1)
              /\ nodes[n].train = tr.train
              /\ \A other \in trips :
                   n \in other.first..(other.end - 1) => other = tr
        BY <3>1 DEF TripsPartitionNodes
      <4>2. n \notin trip.first..(trip.end - 1)
        BY <2>1, <2>7, <3>1
      <4> HIDE DEF trip
      <4> QED BY <2>1, <2>2, <3>1, <4>1, <4>2
    <3>2. CASE n \in new
      <4>1. nodes'[n].train = trip.train
        <5>1. NewNode(train, n).train = train
          BY DEF NewNode
        <5> HIDE DEF trip
        <5> QED BY <2>1, <2>5, <3>2, <5>1
      <4> HIDE DEF trip
      <4> QED BY <2>2, <2>7, <2>8, <3>2, <4>1
    <3> QED BY <2>1, <3>1, <3>2
  <2>10. TripsPartitionNodes'
    BY <2>9 DEF TripsPartitionNodes
  <2> QED BY <2>6, <2>10
<1>2. ASSUME UNCHANGED <<trips, nodes, count>>
      PROVE  TripsBounded' /\ TripsPartitionNodes'
  BY <1>2 DEF TripsBounded, TripsPartitionNodes, Ids
<1> QED BY <1>1, <1>2 DEF Next, NextTrain, FinishGeneration, SortOrdering,
           FinishSort, CreateEdges, FinishEdges, CollectTransitiveEdges,
           EraseTransitiveEdges, vars

(***************************************************************************)
(* Every node belongs to the range of exactly one trip.                    *)
(***************************************************************************)
THEOREM TripsPartition == Spec => []TripsPartitionNodes
<1>1. Init => TripsBounded /\ TripsPartitionNodes
  BY DEF Init, TripsBounded, TripsPartitionNodes, Ids
<1> QED BY <1>1, NextTrips, AlwaysTyped, PTL DEF Spec
=============================================================================
