------------------------------ MODULE Exclusion ------------------------------
(***************************************************************************)
(* Which interlocking routes exclude each other: exclusion_elements.cc,    *)
(* get_exclusion.cc, get_exclusion_graph.cc and read_cliques.cc in         *)
(* src/infrastructure/exclusion, and utls/algo/multi_set_merge.h.          *)
(*                                                                         *)
(* Every interlocking route claims elements (its closed exclusion          *)
(* elements).  Threads turn the lists of claims into the lists of users of *)
(* an element; two routes exclude each other if they claim the same        *)
(* element and neither follows the other.  Threads share nothing but what  *)
(* they read: each has its own results, which are combined when all have   *)
(* been joined.                                                            *)
(*                                                                         *)
(* Vectors that erase_duplicates has left sorted and without duplicates    *)
(* are sets of ids here.  thread_results is indexed by the code's t_id     *)
(* plus one.                                                               *)
(***************************************************************************)
EXTENDS Interlocking

CONSTANTS
  ThreadCounts, \* the possible values of std::thread::hardware_concurrency()
  CliqueFiles   \* the contents of the clique file: sequences of lines of ids

ASSUME ThreadsAssumption == ThreadCounts \subseteq Nat \ {0}

VARIABLES
  closed,          \* the elements each route claims
  open,            \* the same without those at its ends
  thread_count,
  next_ir,         \* the next route of each thread
  thread_results,  \* thread -> element -> users found
  used_by,         \* closed_element_used_by: element -> users
  exclusion_graph,
  exclusion_sets,
  irs_to_exclusion_sets

used_by_vars == <<closed, thread_count, next_ir, thread_results, used_by>>
graph_of_exclusion_vars == <<exclusion_graph, exclusion_sets, irs_to_exclusion_sets>>
exclusion_vars == <<used_by_vars, open, graph_of_exclusion_vars>>

-----------------------------------------------------------------------------
(***************************************************************************)
(* exclusion_elements.cc                                                   *)
(***************************************************************************)
valid_ends == {"MAIN_SIGNAL", "HALT", "BORDER", "BUMPER", "TRACK_END"}

\* A mutant of is_exclusion_element: only switches and crosses count.
is_exclusion_element_switch(id) == joins_tracks(graph.elements[id])

is_exclusion_element(id) ==
  LET e == graph.elements[id] IN joins_tracks(e) \/ e.type \in valid_ends

ExclusionElements(order) ==
  {id \in DOMAIN graph.elements : id \in Range(order) /\ is_exclusion_element(id)}

order_in(section, dir) == IF dir THEN section.rising_order ELSE section.falling_order

PlaceOf(order, id) == CHOOSE k \in DOMAIN order : order[k] = id

elements_from(section, from, dir) ==
  LET order == order_in(section, dir)
  IN  SubSeq(order, PlaceOf(order, from), Len(order))

elements_to(section, to, dir) ==
  LET order == order_in(section, dir) IN SubSeq(order, 1, PlaceOf(order, to))

elements_from_to(section, from, to, dir) ==
  LET order == order_in(section, dir)
  IN  SubSeq(order, PlaceOf(order, from), PlaceOf(order, to))

\* The sections a route uses, in order: those of the track elements it passes.
get_used_sections(ir) ==
  FoldLeft(LAMBDA used, rn :
             LET e == graph.elements[rn.node[1]]
             IN  IF \/ ~is_track_element(e)
                    \/ used # <<>> /\ Last(used) = e.sections[1]
                 THEN used ELSE Append(used, e.sections[1]),
           <<>>, iterate_route(ir))

get_exclusion_elements_one_section(section, first, last) ==
  LET e   == graph.elements[first]
      f   == graph.elements[last]
      dir == IF is_track_element(e) THEN rising(e)
             ELSE IF is_track_element(f) THEN rising(f) ELSE TRUE
  IN  ExclusionElements(elements_from_to(section, first, last, dir))

get_exclusion_elements(ir) ==
  LET used  == get_used_sections(ir)
      first == first_node(ir)[1]
      last  == last_node(ir)[1]
      sec(j) == graph.sections[used[j]]
      Whole(j) == ExclusionElements(sec(j).rising_order)
      e == graph.elements[first]
      f == graph.elements[last]
  IN  IF Len(used) = 1
      THEN get_exclusion_elements_one_section(sec(1), first, last)
      ELSE (IF is_track_element(e)
            THEN ExclusionElements(elements_from(sec(1), first, rising(e)))
            ELSE Whole(1))
           \cup (UNION {Whole(j) : j \in 2..(Len(used) - 1)})
           \cup (IF is_track_element(f)
                 THEN ExclusionElements(elements_to(sec(Len(used)), last, rising(f)))
                 ELSE Whole(Len(used)))

get_closed_exclusion_elements ==
  [id \in DOMAIN interlocking.routes |->
     get_exclusion_elements(interlocking.routes[id])]

get_open_exclusion_elements(closed_elements) ==
  [id \in DOMAIN interlocking.routes |->
     LET ir == interlocking.routes[id]
     IN  closed_elements[id] \ {first_node(ir)[1], last_node(ir)[1]}]

-----------------------------------------------------------------------------
(***************************************************************************)
(* get_closed_element_used_by.                                             *)
(***************************************************************************)
IrCount  == Len(closed)
Elements == DOMAIN graph.elements
Threads  == 1..thread_count

batch_size == IrCount \div thread_count

\* The routes of thread t: from(t) to last_of_batch(t).
from(t) == (t - 1) * batch_size + 1

\* A mutant of last_of_batch: the last thread has a batch like the others.
last_of_batch_equal(t) == t * batch_size

last_of_batch(t) == IF t = thread_count THEN IrCount ELSE t * batch_size

NoUsers == [e \in Elements |-> {}]

start_threads ==
  /\ stage = "exclusion"
  /\ LET elements == get_closed_exclusion_elements
     IN  /\ closed' = elements
         /\ open'   = get_open_exclusion_elements(elements)
  /\ thread_count' \in ThreadCounts
  /\ next_ir' = [t \in Threads' |-> from(t)']
  /\ thread_results' = [t \in Threads' |-> NoUsers]
  /\ used_by' = NoUsers
  /\ stage' = "threads"
  /\ UNCHANGED <<graph_vars, route_vars, ir_vars, graph_of_exclusion_vars>>

Finished(t) == next_ir[t] > last_of_batch(t)

\* Route ir is added to the users of the elements it claims.
add_user(results, ir) ==
  [e \in Elements |-> IF e \in closed[ir] THEN results[e] \cup {ir} ELSE results[e]]

generate_used_by(t) ==
  /\ stage = "threads" /\ ~Finished(t)
  /\ thread_results' = [thread_results EXCEPT ![t] = add_user(@, next_ir[t])]
  /\ next_ir' = [next_ir EXCEPT ![t] = @ + 1]
  /\ UNCHANGED <<graph_vars, route_vars, ir_vars, graph_of_exclusion_vars,
                 stage, closed, open, thread_count, used_by>>

combine_thread_results ==
  /\ stage = "threads"
  /\ \A t \in Threads : Finished(t)
  /\ used_by' = [e \in Elements |-> UNION {thread_results[t][e] : t \in Threads}]
  /\ stage' = "exclusion_graph"
  /\ UNCHANGED <<graph_vars, route_vars, ir_vars, graph_of_exclusion_vars,
                 closed, open, thread_count, next_ir, thread_results>>

-----------------------------------------------------------------------------
(***************************************************************************)
(* multi_set_merge: the range with the least head is taken from the        *)
(* queue, its head is added unless it is there already, and the range      *)
(* goes back behind what is there.  at[k] is the position at which         *)
(* range k has come; it is in the queue while it is not at its end.        *)
(***************************************************************************)
queue(ranges, at) == {k \in DOMAIN ranges : at[k] \in DOMAIN ranges[k]}

top(ranges, at) ==
  CHOOSE k \in queue(ranges, at) :
    \A j \in queue(ranges, at) : ranges[k][at[k]] <= ranges[j][at[j]]

merge_step(ranges, m) ==
  LET k      == top(ranges, m.at)
      head   == ranges[k][m.at[k]]
      result == IF head > Last(m.result) THEN Append(m.result, head) ELSE m.result
      beyond == {p \in m.at[k]..Len(ranges[k]) : ranges[k][p] > Last(result)}
  IN  IF queue(ranges, m.at) = {} THEN m
      ELSE [result |-> result,
            at     |-> [m.at EXCEPT ![k] = IF beyond = {} THEN Len(ranges[k]) + 1
                                           ELSE Min(beyond)]]

\* Where the heads of the ranges may be.
places(ranges) == UNION {{k} \X DOMAIN ranges[k] : k \in DOMAIN ranges}

first_merge(ranges) ==
  LET first == [k \in DOMAIN ranges |-> 1]
  IN  [result |-> <<ranges[top(ranges, first)][1]>>, at |-> first]

merge_all(ranges) ==
  LET steps == Cardinality(places(ranges))
      merge[i \in 0..steps] ==
        IF i = 0 THEN first_merge(ranges) ELSE merge_step(ranges, merge[i - 1])
  IN  merge[steps].result

multi_set_merge(all_ranges) ==
  LET ranges == Selected(all_ranges, LAMBDA r : r # <<>>)
  IN  IF ranges = <<>> THEN <<>>
      ELSE IF Len(ranges) = 1 THEN ranges[1]
      ELSE merge_all(ranges)

\* A mutant of followers: only those behind the route.
followers_behind(ir) == Range(interlocking.starting_at[last_node(ir)])

\* The routes that follow a route or that it follows.
followers(ir) ==
  Range(interlocking.starting_at[last_node(ir)])
    \cup Range(interlocking.ending_at[first_node(ir)])

excluded_by(id) ==
  LET claims == SetAsVector(closed[id])
      ranges == [k \in DOMAIN claims |-> SetAsVector(used_by[claims[k]])]
  IN  Range(multi_set_merge(ranges)) \ followers(interlocking.routes[id])

get_exclusion_graph ==
  /\ stage = "exclusion_graph"
  /\ exclusion_graph' = [id \in 1..IrCount |-> excluded_by(id)]
  /\ stage' = "cliques"
  /\ UNCHANGED <<graph_vars, route_vars, ir_vars, used_by_vars, open,
                 exclusion_sets, irs_to_exclusion_sets>>

-----------------------------------------------------------------------------
(***************************************************************************)
(* read_cliques and get_irs_to_exclusion_sets.                             *)
(***************************************************************************)
\* The order of vectors: by the first member in which they differ.
VectorLess(a, b) ==
  \E k \in 1..(Len(b)) :
    /\ \A j \in 1..(k - 1) : j \in DOMAIN a /\ a[j] = b[j]
    /\ k = Len(a) + 1 \/ (k \in DOMAIN a /\ a[k] < b[k])

read_cliques(lines) ==
  SortSeq([k \in DOMAIN lines |-> SortSeq(lines[k], LAMBDA a, b : a < b)],
          VectorLess)

get_irs_to_exclusion_sets(sets, ir_count) ==
  [ir \in 1..ir_count |-> Indices(sets, LAMBDA set : ir \in Range(set))]

read_exclusion_sets ==
  /\ stage = "cliques"
  /\ \E lines \in CliqueFiles :
       LET sets == read_cliques(lines) IN
       /\ \A k \in DOMAIN sets : Range(sets[k]) \subseteq 1..IrCount
       /\ exclusion_sets' = sets
       /\ irs_to_exclusion_sets' = get_irs_to_exclusion_sets(sets, IrCount)
  /\ stage' = "done"
  /\ UNCHANGED <<graph_vars, route_vars, ir_vars, used_by_vars, open, exclusion_graph>>

-----------------------------------------------------------------------------
ExclusionInit ==
  /\ InterlockingInit
  /\ closed = <<>> /\ open = <<>>
  /\ thread_count = 1 /\ next_ir = <<>> /\ thread_results = <<>>
  /\ used_by = <<>>
  /\ exclusion_graph = <<>> /\ exclusion_sets = <<>>
  /\ irs_to_exclusion_sets = <<>>

ExclusionNext ==
  \/ InterlockingNext /\ UNCHANGED exclusion_vars
  \/ start_threads
  \/ \E t \in Threads : generate_used_by(t)
  \/ combine_thread_results
  \/ get_exclusion_graph
  \/ read_exclusion_sets

infrastructure_vars == <<graph_vars, route_vars, ir_vars, exclusion_vars, stage>>

\* The infrastructure is complete, and is not changed any more.
Complete ==
  /\ stage = "done" \/ (stage = "interlocking" /\ ~HasInterlocking)
  /\ UNCHANGED infrastructure_vars

ExclusionSpec ==
  ExclusionInit /\ [][ExclusionNext \/ Complete]_infrastructure_vars

-----------------------------------------------------------------------------
HasUsers == stage \in {"exclusion_graph", "cliques", "done"}
HasExclusionGraph == stage \in {"cliques", "done"}

(***************************************************************************)
(* Whatever the number of threads and the number of routes, and however    *)
(* the threads run, the users of an element are exactly the routes that    *)
(* claim it (get_exclusion.cc:46: the last thread takes the rest of the    *)
(* routes, and there may be fewer routes than threads).                    *)
(***************************************************************************)
UsedByExact ==
  HasUsers =>
    \A e \in Elements : used_by[e] = {ir \in 1..IrCount : e \in closed[ir]}

(***************************************************************************)
(* Routes exclude each other if and only if they claim a common element    *)
(* and neither follows the other: merging the lists of users loses none,   *)
(* and adds none (get_exclusion_graph.cc:45).                              *)
(***************************************************************************)
ExclusionByClaims ==
  HasExclusionGraph =>
    LET irs == interlocking.routes
    IN  \A a, b \in 1..IrCount :
          b \in exclusion_graph[a] <=>
            /\ closed[a] \cap closed[b] # {}
            /\ ~follows(irs[a], irs[b]) /\ ~follows(irs[b], irs[a])

(***************************************************************************)
(* Routes exclude each other mutually, although each list is computed on   *)
(* its own (exclusion_graph_test.cc:11).                                   *)
(***************************************************************************)
ExclusionSymmetric ==
  HasExclusionGraph =>
    \A a, b \in 1..IrCount :
      a \in exclusion_graph[b] <=> b \in exclusion_graph[a]

(***************************************************************************)
(* The exclusion graph (get_exclusion_graph.cc:48): between the routes     *)
(* with common claims, and mutual.                                         *)
(***************************************************************************)
ExclusionGraphRight == ExclusionByClaims /\ ExclusionSymmetric

(***************************************************************************)
(* Every interlocking route can be driven: its station routes are linked   *)
(* over the borders, and each node leads to the next one                   *)
(* (station_route_graph.cc:9, interlocking_route.cc:127).                  *)
(***************************************************************************)
RoutesAreLinked ==
  stage = "exclusion" => \A ir \in Range(interlocking.routes) : IsLinked(ir)

\* The elements that the route with this id passes.
Passes(id) == {rn.node[1] : rn \in Range(iterate_route(interlocking.routes[id]))}

(***************************************************************************)
(* Two routes over a common element exclude each other, or one follows the *)
(* other: also routes that meet head on between two signals, and routes    *)
(* that cross each other's section without a common signal                 *)
(* (exclusion_elements.cc:71, 96).  The claims are found section by        *)
(* section and in one direction, not along the route.                      *)
(***************************************************************************)
CommonTrackExcludes ==
  stage = "cliques" =>
    LET irs == interlocking.routes
        passing == {<<id, Passes(id)>> : id \in 1..IrCount}
    IN  \A a, b \in passing :
          \/ a[2] \cap b[2] = {}
          \/ follows(irs[a[1]], irs[b[1]]) \/ follows(irs[b[1]], irs[a[1]])
          \/ b[1] \in exclusion_graph[a[1]]

(***************************************************************************)
(* The routes are routes on the track: each leads along it, and those over *)
(* common track exclude each other (interlocking_route.cc:127,             *)
(* exclusion_elements.cc:71).                                              *)
(***************************************************************************)
RoutesOnTracks == RoutesAreLinked /\ CommonTrackExcludes

(***************************************************************************)
(* The types of what is built from the graph: every id and index is one of *)
(* something that exists.                                                  *)
(***************************************************************************)
TypeOK ==
  LET nodes == DOMAIN next_node
      ks    == DOMAIN station_routes
      irs   == DOMAIN interlocking.routes
  IN  /\ stage \in {"sections", "borders", "nodes", "routes",
                     "station_route_graph", "interlocking", "fill_paths",
                     "mappings", "exclusion", "threads", "exclusion_graph",
                     "cliques", "done", "work", "parsed",
                     "crashed"}
      /\ GraphTypeOK
      /\ \A k \in ks :
           LET sr == station_routes[k] IN
           /\ Range(sr.path.nodes) \subseteq nodes
           /\ {sr.passenger_halt, sr.freight_halt} \subseteq 0..size(sr)
      /\ \A k \in DOMAIN successors :
           Range(successors[k]) \cup Range(predecessors[k]) \subseteq ks
      /\ \A id \in irs :
           LET ir == interlocking.routes[id] IN
           /\ Range(ir.station_routes) \subseteq ks
           /\ ir.start \in 1..size(first_sr(ir))
           /\ ir.end \in 1..size(last_sr(ir))
      /\ current \in Nat \ {0}
      /\ \A id \in DOMAIN closed : open[id] \subseteq closed[id] /\ closed[id] \subseteq Elements
      /\ thread_count \in Nat \ {0}
      /\ \A t \in DOMAIN next_ir : next_ir[t] \in 1..(last_of_batch(t) + 1)
      /\ \A id \in DOMAIN exclusion_graph : exclusion_graph[id] \subseteq irs
      /\ \A id \in DOMAIN irs_to_exclusion_sets :
           \A k \in DOMAIN exclusion_sets :
             k \in Range(irs_to_exclusion_sets[id]) <=> id \in Range(exclusion_sets[k])

=============================================================================
