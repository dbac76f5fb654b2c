---------------------------- MODULE OrderingGraph ----------------------------
(***************************************************************************)
(* The construction of the ordering graph in                               *)
(* src/simulation/ordering/ordering_graph.cc and the transitive reduction  *)
(* in src/simulation/ordering/remove_transitive_edges.cc.                  *)
(*                                                                         *)
(* A node of the graph is the usage of one interlocking route by one trip, *)
(* a trip being a train together with the midnight it is anchored at.  For *)
(* every exclusion set (a set of interlocking routes that must not be used *)
(* together) the usages of its routes are sorted by the time at which they *)
(* start, and consecutive usages are joined by an edge.  The promise of    *)
(* the graph is that two usages that exclude each other are ordered by a   *)
(* path, and that the paths never close a cycle.                           *)
(*                                                                         *)
(* out_ and in_ are sets here: between their creation and the call of      *)
(* erase_duplicates the code only appends to them, and erase_duplicates    *)
(* leaves them sorted and free of duplicates, so that a set determines the *)
(* vector and its minimum is front().  The end of a usage, to_, is written *)
(* and never read by the code; it is left out.                             *)
(***************************************************************************)
EXTENDS Integers, Sequences, FiniteSets, Reachability

CONSTANTS
  NumTrains,    \* tt->trains_ holds the trains 1..NumTrains
  IRs,          \* the interlocking routes
  NumSets,      \* infra->exclusion_.exclusion_sets_ holds the sets 1..NumSets
  SetsOf,       \* irs_to_exclusion_sets_: the exclusion sets of a route
  Timetables,   \* the timetables the construction may be started with
  Selected      \* filter.trains_; the empty set selects every train

Trains        == 1..NumTrains
ExclusionSets == 1..NumSets

(***************************************************************************)
(* A train: its path of interlocking routes, the second (relative to the   *)
(* anchor) at which it starts to use each of them, and the anchors of its  *)
(* departures in the filter interval.                                      *)
(***************************************************************************)
IsTrain(t) ==
  /\ DOMAIN t = {"path", "offset", "anchors"}
  /\ t.path \in Seq(IRs) /\ Len(t.path) > 0
  /\ t.offset \in [1..Len(t.path) -> Nat]
  /\ t.anchors \in Seq(Nat)

\* A train never reaches a signal before the one ahead of it on its path.
IsMonotone(t) ==
  \A i, j \in 1..Len(t.path) : i <= j => t.offset[i] <= t.offset[j]

ASSUME NumTrainsAssumption == NumTrains \in Nat
ASSUME NumSetsAssumption   == NumSets \in Nat
ASSUME SetsOfAssumption    == SetsOf \in [IRs -> SUBSET ExclusionSets]
ASSUME TimetablesAssumption ==
  \A tt \in Timetables :
    /\ DOMAIN tt = Trains
    /\ \A t \in Trains : IsTrain(tt[t]) /\ IsMonotone(tt[t])

VARIABLES
  timetable,   \* the input of the constructor; never changes
  pc,          \* the phase of the constructor
  train,       \* the train the generation loop is at
  departure,   \* index of the departure of that train it is at
  count,       \* glob_current_node_id, also nodes_.size()
  nodes,       \* train, route and start time of each node
  trips,       \* trip_to_nodes_
  usages,      \* orderings, before sorting: the nodes that use a set
  order,       \* orderings, after sorting
  sorted,      \* the exclusion sets parallel_for has sorted
  cursor,      \* the position of the loop of the current phase
  out, in,     \* out_ and in_ of each node
  transitive   \* the transitive edges collected so far

vars == <<timetable, pc, train, departure, count, nodes, trips, usages, order,
          sorted, cursor, out, in, transitive>>

Ids == 0..(count - 1)

Init ==
  /\ timetable \in Timetables
  /\ pc = "generate"
  /\ train = 1
  /\ departure = 1
  /\ count = 0
  /\ nodes = [n \in {} |-> 0]
  /\ trips = {}
  /\ usages = [es \in ExclusionSets |-> {}]
  /\ order = [es \in ExclusionSets |-> <<>>]
  /\ sorted = {}
  /\ cursor = 1
  /\ out = [n \in {} |-> {}]
  /\ in = [n \in {} |-> {}]
  /\ transitive = {}

-----------------------------------------------------------------------------
(***************************************************************************)
(* Generation: the nodes, the edges along a trip, and the usages.          *)
(***************************************************************************)
IsSelected(t) == Selected = {} \/ t \in Selected

(***************************************************************************)
(* The running time calculation yields one time per main signal, one less  *)
(* than there are routes on the path: none for a path of a single route,   *)
(* in which case the whole train is left out with a warning.               *)
(***************************************************************************)
HasTimes(t) == Len(timetable[t].path) > 1

NextTrain ==
  /\ pc = "generate"
  /\ train \in Trains
  /\ \/ ~IsSelected(train)
     \/ departure > Len(timetable[train].anchors)
     \/ ~HasTimes(train)
  /\ train' = train + 1
  /\ departure' = 1
  /\ UNCHANGED <<timetable, pc, count, nodes, trips, usages, order, sorted,
                 cursor, out, in, transitive>>

\* The node ids of the trip generated next: one for every route on the path.
NewIds(t) == count..(count + Len(timetable[t].path) - 1)

NewNode(t, n) ==
  LET i == n - count + 1
  IN  [train |-> t,
       ir    |-> timetable[t].path[i],
       from  |-> timetable[t].anchors[departure] + timetable[t].offset[i]]

\* A mutant of NewOut: no edge to the last node.
NewOutShort(t, n) == IF n + 2 \in NewIds(t) THEN {n + 1} ELSE {}

NewOut(t, n) == IF n + 1 \in NewIds(t) THEN {n + 1} ELSE {}
NewIn(t, n)  == IF n - 1 \in NewIds(t) THEN {n - 1} ELSE {}

\* A mutant of NewTrip: the end one past the last node's successor.
NewTripTooLong(t) ==
  [train  |-> t,
   anchor |-> timetable[t].anchors[departure],
   first  |-> count,
   end    |-> count + Len(timetable[t].path) + 1]

NewTrip(t) ==
  [train  |-> t,
   anchor |-> timetable[t].anchors[departure],
   first  |-> count,
   end    |-> count + Len(timetable[t].path)]

AddTrip ==
  /\ pc = "generate"
  /\ train \in Trains
  /\ IsSelected(train)
  /\ departure <= Len(timetable[train].anchors)
  /\ HasTimes(train)
  /\ LET new == NewIds(train)
         all == 0..(count + Len(timetable[train].path) - 1)
     IN  /\ count' = count + Len(timetable[train].path)
         /\ nodes' = [n \in all |-> IF n \in new THEN NewNode(train, n)
                                                 ELSE nodes[n]]
         /\ out' = [n \in all |-> IF n \in new THEN NewOut(train, n)
                                               ELSE out[n]]
         /\ in' = [n \in all |-> IF n \in new THEN NewIn(train, n)
                                              ELSE in[n]]
         /\ usages' = [es \in ExclusionSets |-> usages[es] \cup
                         {n \in new : es \in SetsOf[NewNode(train, n).ir]}]
         /\ trips' = trips \cup {NewTrip(train)}
  /\ departure' = departure + 1
  /\ UNCHANGED <<timetable, pc, train, order, sorted, cursor, transitive>>

FinishGeneration ==
  /\ pc = "generate"
  /\ train \notin Trains
  /\ pc' = "sort"
  /\ UNCHANGED <<timetable, train, departure, count, nodes, trips, usages,
                 order, sorted, cursor, out, in, transitive>>

-----------------------------------------------------------------------------
(***************************************************************************)
(* Sorting: parallel_for sorts the orderings in any order.  The comparison *)
(* looks at from_ only and the sort is not stable, so usages that start in *)
(* the same second end up in any order.                                    *)
(***************************************************************************)
\* Mutants of IsSorting: no sort at all, the comparison the wrong way round.
IsShuffle(s, S) ==
  /\ \A n \in S : \E i \in DOMAIN s : s[i] = n
  /\ \A i, j \in DOMAIN s : i < j => s[i] # s[j]

IsSortingBackwards(s, S) ==
  /\ IsShuffle(s, S)
  /\ \A i, j \in DOMAIN s : i < j => nodes[s[i]].from >= nodes[s[j]].from

IsSorting(s, S) ==
  /\ \A n \in S : \E i \in DOMAIN s : s[i] = n
  /\ \A i, j \in DOMAIN s :
       i < j => s[i] # s[j] /\ nodes[s[i]].from <= nodes[s[j]].from

SortOrdering(es) ==
  /\ pc = "sort"
  /\ es \notin sorted
  /\ \E s \in [1..Cardinality(usages[es]) -> usages[es]] :
       /\ IsSorting(s, usages[es])
       /\ order' = [order EXCEPT ![es] = s]
  /\ sorted' = sorted \cup {es}
  /\ UNCHANGED <<timetable, pc, train, departure, count, nodes, trips, usages,
                 cursor, out, in, transitive>>

FinishSort ==
  /\ pc = "sort"
  /\ sorted = ExclusionSets
  /\ pc' = "edges"
  /\ UNCHANGED <<timetable, train, departure, count, nodes, trips, usages,
                 order, sorted, cursor, out, in, transitive>>

-----------------------------------------------------------------------------
(***************************************************************************)
(* Edges: one from every usage to the one behind it in its exclusion set.  *)
(***************************************************************************)
\* Mutants: the loop ends one edge early, the in-edge is forgotten.
SuccessorsShort(s, n) ==
  {s[i + 1] : i \in {j \in DOMAIN s : j + 2 \in DOMAIN s /\ s[j] = n}}

PredecessorsForgotten(s, n) == {}

Successors(s, n) ==
  {s[i + 1] : i \in {j \in DOMAIN s : j + 1 \in DOMAIN s /\ s[j] = n}}

Predecessors(s, n) ==
  {s[i] : i \in {j \in DOMAIN s : j + 1 \in DOMAIN s /\ s[j + 1] = n}}

CreateEdges ==
  /\ pc = "edges"
  /\ cursor \in ExclusionSets
  /\ out' = [n \in Ids |-> out[n] \cup Successors(order[cursor], n)]
  /\ in' = [n \in Ids |-> in[n] \cup Predecessors(order[cursor], n)]
  /\ cursor' = cursor + 1
  /\ UNCHANGED <<timetable, pc, train, departure, count, nodes, trips, usages,
                 order, sorted, transitive>>

\* A mutant of FinishEdges: the reduction skips the first node.
FinishEdgesAtOne ==
  /\ pc = "edges"
  /\ cursor \notin ExclusionSets
  /\ pc' = "collect"
  /\ cursor' = 1
  /\ UNCHANGED <<timetable, train, departure, count, nodes, trips, usages,
                 order, sorted, out, in, transitive>>

FinishEdges ==
  /\ pc = "edges"
  /\ cursor \notin ExclusionSets
  /\ pc' = "collect"
  /\ cursor' = 0
  /\ UNCHANGED <<timetable, train, departure, count, nodes, trips, usages,
                 order, sorted, out, in, transitive>>

-----------------------------------------------------------------------------
(***************************************************************************)
(* Reduction.  The depth first search from start gives a node the depth 1  *)
(* when it is pushed and a greater depth with every edge from a node it    *)
(* has visited other than by the start of the search.  A successor of      *)
(* start is deeper than 1 exactly when it also is the successor of a node  *)
(* reached from start; if start lies on a cycle it is reached itself, and  *)
(* every edge from it counts.                                              *)
(***************************************************************************)
\* A mutant of CollectTransitiveEdges: depth 1 is taken for deeper than 1.
CollectEveryEdge ==
  /\ pc = "collect"
  /\ cursor \in Ids
  /\ transitive' = transitive \cup ({cursor} \X out[cursor])
  /\ cursor' = cursor + 1
  /\ UNCHANGED <<timetable, pc, train, departure, count, nodes, trips, usages,
                 order, sorted, out, in>>

CollectTransitiveEdges ==
  /\ pc = "collect"
  /\ cursor \in Ids
  /\ transitive' = transitive \cup
                     ({cursor} \X TransitiveTargets(out, cursor))
  /\ cursor' = cursor + 1
  /\ UNCHANGED <<timetable, pc, train, departure, count, nodes, trips, usages,
                 order, sorted, out, in>>

EraseTransitiveEdges ==
  /\ pc = "collect"
  /\ cursor \notin Ids
  /\ out' = [n \in Ids |-> {m \in out[n] : <<n, m>> \notin transitive}]
  /\ in' = [m \in Ids |-> {n \in in[m] : <<n, m>> \notin transitive}]
  /\ pc' = "done"
  /\ UNCHANGED <<timetable, train, departure, count, nodes, trips, usages,
                 order, sorted, cursor, transitive>>

-----------------------------------------------------------------------------
Next ==
  \/ NextTrain
  \/ AddTrip
  \/ FinishGeneration
  \/ \E es \in ExclusionSets : SortOrdering(es)
  \/ FinishSort
  \/ CreateEdges
  \/ FinishEdges
  \/ CollectTransitiveEdges
  \/ EraseTransitiveEdges

Spec == Init /\ [][Next]_vars

-----------------------------------------------------------------------------
\* Two nodes whose routes are in a common exclusion set.
Exclude(n, m) == SetsOf[nodes[n].ir] \cap SetsOf[nodes[m].ir] # {}

\* No two usages of an exclusion set start in the same second: the bet the
\* comment on the edge creation in ordering_graph.cc makes.
NoTies ==
  \A es \in ExclusionSets : \A n, m \in usages[es] :
    n # m => nodes[n].from # nodes[m].from

\* The types of the variables.
Typed ==
  /\ timetable \in Timetables
  /\ pc \in {"generate", "sort", "edges", "collect", "done"}
  /\ train \in 1..(NumTrains + 1)
  /\ departure \in Nat \ {0}
  /\ count \in Nat
  /\ nodes \in [Ids -> [train : Trains, ir : IRs, from : Nat]]
  /\ trips \subseteq [train : Trains, anchor : Nat, first : Nat, end : Nat]
  /\ usages \in [ExclusionSets -> SUBSET Ids]
  /\ order \in [ExclusionSets -> Seq(Ids)]
  /\ sorted \subseteq ExclusionSets
  /\ cursor \in Nat
  /\ out \in [Ids -> SUBSET Ids]
  /\ in \in [Ids -> SUBSET Ids]
  /\ transitive \subseteq Ids \X Ids

\* in_ is out_ seen from the other end.
InMirrorsOut == \A n, m \in Ids : m \in out[n] <=> n \in in[m]

(***************************************************************************)
(* The variables keep their types, and in_ stays out_ seen from the other  *)
(* end, although the two are written by separate statements in the         *)
(* generation, the edge creation and the erasure of transitive edges       *)
(* (ordering_graph.cc:122, :196, :202, remove_transitive_edges.cc:61).      *)
(***************************************************************************)
TypeOK == Typed /\ InMirrorsOut

(***************************************************************************)
(* The node ranges of trip_to_nodes_ neither overlap nor leave a gap, and  *)
(* the nodes of a range belong to the train of the trip (trip_nodes hands  *)
(* out the range as a span).                                               *)
(***************************************************************************)
TripsPartitionNodes ==
  \A n \in Ids : \E tr \in trips :
    /\ n \in tr.first..(tr.end - 1)
    /\ nodes[n].train = tr.train
    /\ \A other \in trips : n \in other.first..(other.end - 1) => other = tr

(***************************************************************************)
(* The graph is acyclic in every phase if no usages tie: every non-empty   *)
(* set of nodes has a member without a predecessor in the set.             *)
(***************************************************************************)
Acyclic == NoTies => IsAcyclic(out)

(***************************************************************************)
(* What has_exclusion_paths checks: of two usages whose routes exclude     *)
(* each other one is reachable from the other in the finished graph.       *)
(***************************************************************************)
Ordered(n, m) == Reaches(out, n, m) \/ Reaches(out, m, n)

ExclusionPaths ==
  pc = "done" /\ NoTies =>
    \A n, m \in Ids : n # m /\ Exclude(n, m) => Ordered(n, m)

(***************************************************************************)
(* A trip still runs along its path: removing transitive edges may drop    *)
(* the edge between two consecutive usages of a trip, but never the path.  *)
(***************************************************************************)
TripsStayConnected ==
  pc = "done" /\ NoTies =>
    \A tr \in trips : \A n \in tr.first..(tr.end - 2) : Reaches(out, n, n + 1)

(***************************************************************************)
(* Of two ordered usages that exclude each other the one that starts first *)
(* comes first: no path leads back in time.                                *)
(***************************************************************************)
PathsFollowTime ==
  pc = "done" /\ NoTies =>
    \A n, m \in Ids : Reaches(out, n, m) => nodes[n].from <= nodes[m].from

(***************************************************************************)
(* The reduction is complete: no edge of the finished graph is bypassed by *)
(* a longer path.                                                          *)
(***************************************************************************)
Reduced ==
  pc = "done" /\ NoTies => \A n \in Ids : TransitiveTargets(out, n) = {}

\* The erasure leaves exactly the same nodes reachable from every node.
ReductionKeepsPaths ==
  [][pc = "collect" /\ pc' = "done" /\ NoTies =>
       \A n, m \in Ids : Reaches(out, n, m) <=> Reaches(out', n, m)]_vars

(***************************************************************************)
(* A claim the test makes without the premise NoTies: "all exclusion paths *)
(* have to exist", check_ordering_graph.                                   *)
(***************************************************************************)
AllExclusionPaths ==
  pc = "done" => \A n, m \in Ids : n # m /\ Exclude(n, m) => Ordered(n, m)
=============================================================================
