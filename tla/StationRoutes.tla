---------------------------- MODULE StationRoutes ----------------------------
(***************************************************************************)
(* The station routes: get_station_route_paths and calculate_station_      *)
(* routes in src/infrastructure/parsers/iss/parse_iss.cc, station_route.cc *)
(* and station_route_graph.cc in src/infrastructure/station.               *)
(*                                                                         *)
(* A station route of the rail plan names its first and last element and   *)
(* its course through the switches.  Its path is found in the graph; equal *)
(* paths are shared.  Then the routes are linked over the borders.         *)
(*                                                                         *)
(* Indices into a route start at 1, and an offset that in the code points  *)
(* behind the last node is the length plus one.  NoIdx is no index.  The   *)
(* attributes of a route, its length and its name but for its place among  *)
(* the names of its station are left out.  The speed limits of a route are *)
(* the ids of the elements they stand at.                                  *)
(***************************************************************************)
EXTENDS ElementGraph

\* The name of a route is its place among the names.
ASSUME RoutesAssumption ==
  \A plan \in Networks :
    /\ plan.routes \in Seq(Range(plan.routes))
    /\ \A r \in Range(plan.routes) : r.name \in Nat

VARIABLES
  paths,          \* station_route_id_to_path_id_: the path of each route
  station_routes, \* station_routes_
  successors,     \* station_route_graph_
  predecessors

route_vars == <<paths, station_routes, successors, predecessors>>

NoIdx     == 0
NoStation == 0

element_of(rp) == graph.elements[graph.id_of[rp]]
is_type(n, type) == graph.elements[n[1]].type = type

\* The station whose rail plan the element belongs to.
element_to_station(id) ==
  network.sections[graph.elements[id].sections[1]].station

\* The intermediate station routes: those that are not published only.
intermediate == Selected(network.routes, LAMBDA r : ~r.publish_only)

-----------------------------------------------------------------------------
(***************************************************************************)
(* Paths.                                                                  *)
(***************************************************************************)
\* The node of a first (start) or last element of a route.
get_border_node(rp, start) ==
  LET id == graph.id_of[rp]
      e  == graph.elements[id]
  IN  <<id, IF is_track_element(e) THEN "node"
            ELSE Choice(start = rising(e), "bot", "top")>>

\* Where the k-th decision of the course leads to from n.
ahead_on_course(n, course, k) ==
  IF branch_node[n] = NoNode \/ course[k] = "STEM"
  THEN next_node[n] ELSE branch_node[n]

(***************************************************************************)
(* get_path: follow the course from the first node until the last is met.  *)
(* walk(r)[k] is the node reached after k steps, if it is one, and the     *)
(* number of the decision it may need.  A path is not longer than twice    *)
(* the graph.                                                              *)
(***************************************************************************)
last_node_of(r) == get_border_node(r.end, FALSE)

Steps == 0..(2 * Cardinality(DOMAIN next_node))

walk(r) ==
  LET step[k \in Steps] ==
        IF k = 0 THEN <<get_border_node(r.start, TRUE), 1>>
        ELSE LET at == step[k - 1]
             IN  IF at[1] = last_node_of(r) \/ at[1] \notin DOMAIN next_node THEN at
                 ELSE <<ahead_on_course(at[1], r.course, at[2]),
                        at[2] + IF is_switch(graph.elements[at[1][1]]) THEN 1 ELSE 0>>
  IN  step

\* The steps after which the last node is reached.
Arrivals(r) ==
  LET steps == walk(r) IN {k \in Steps : steps[k][1] = last_node_of(r)}

get_path(r) ==
  LET steps == walk(r)
  IN  [k \in 1..(Min(Arrivals(r)) + 1) |-> steps[k - 1][1]]

omitted_main_signals(r) ==
  {rp \in r.omitted : network.type[rp] = "MAIN_SIGNAL"}

get_main_signals(r, nodes) ==
  Indices(nodes, LAMBDA n :
            /\ is_type(n, "MAIN_SIGNAL")
            /\ n[1] \notin {graph.id_of[rp] : rp \in omitted_main_signals(r)})

\* A mutant of same_path: omitted main signals are not compared.
same_path_whole(a, b) ==
  a.start = b.start /\ a.end = b.end /\ a.course = b.course

same_path(a, b) ==
  /\ a.start = b.start /\ a.end = b.end /\ a.course = b.course
  /\ omitted_main_signals(a) = omitted_main_signals(b)

make_path(r) ==
  LET nodes == get_path(r)
  IN  [nodes        |-> nodes,
       main_signals |-> get_main_signals(r, nodes),
       etcs_starts  |-> Indices(nodes, LAMBDA n : is_type(n, "ETCS_START"))]

\* The first route with the path of the k-th, in which it is stored.
path_owner(k) ==
  Min({j \in 1..k : same_path(intermediate[j], intermediate[k])})

\* The path of each route.
get_station_route_paths ==
  LET owners == {path_owner(k) : k \in DOMAIN intermediate}
      stored == [k \in owners |-> make_path(intermediate[k])]
  IN  [k \in DOMAIN intermediate |-> stored[path_owner(k)]]

-----------------------------------------------------------------------------
(***************************************************************************)
(* Routes.                                                                 *)
(***************************************************************************)
\* The last place of an element of the rail plan in the nodes of a route.
IndexOf(nodes, rp) ==
  LET at == {k \in DOMAIN nodes : rp # Null /\ nodes[k][1] = graph.id_of[rp]}
  IN  IF at = {} THEN NoIdx ELSE Max(at)

Beyond(station, id) ==
  LET s == element_to_station(id) IN IF s = station THEN NoStation ELSE s

\* The speed limits of a route in the order of their nodes.
sorted_speed_limits(nodes, limits) ==
  LET key(id) == <<CHOOSE k \in DOMAIN nodes :
                     nodes[k][1] = id /\ \A j \in 1..(k - 1) : nodes[j][1] # id,
                   0, 0>>
  IN  Sorted(limits, key, TRUE)

make_station_route(r, path) ==
  LET nodes == path.nodes
      next  == next_node[nodes[Len(nodes)]]
      prev  == reverse_edges[nodes[1]]
  IN  [path           |-> path,
       station        |-> r.station,
       name           |-> r.name,
       to_station     |-> IF next = NoNode THEN NoStation
                          ELSE Beyond(r.station, next[1]),
       from_station   |-> IF prev = <<>> THEN NoStation
                          ELSE Beyond(r.station, prev[1][1]),
       passenger_halt |-> IndexOf(nodes, r.passenger_halt),
       freight_halt   |-> IndexOf(nodes, r.freight_halt),
       runtime_checkpoint |-> IndexOf(nodes, r.runtime_checkpoint),
       omitted_nodes  |-> Indices(nodes, LAMBDA n :
                            n[1] \in {graph.id_of[rp] : rp \in r.omitted}),
       speed_limits   |-> sorted_speed_limits(
                            nodes, {graph.id_of[rp] : rp \in r.speed_limits})]

(***************************************************************************)
(* The parser throws for a route that names an element of no section; that *)
(* starts or ends with something else than a border, an end of the track   *)
(* or a directed track element, or omits something else than the last; or  *)
(* whose course does not lead to its end.                                  *)
(***************************************************************************)
IsKnown(rp) == rp \in DOMAIN graph.id_of /\ graph.id_of[rp] # Null

IsPossible(r) ==
  /\ \A rp \in {r.start, r.end} \cup r.omitted : IsKnown(rp)
  /\ \A rp \in {r.start, r.end} :
       element_of(rp).type \in EndTypes \cup {"BORDER"} \/ is_directed(element_of(rp))
  /\ \A rp \in r.omitted : is_directed(element_of(rp))
  /\ Arrivals(r) # {}

calculate_station_routes ==
  /\ stage = "routes"
  /\ \A r \in Range(intermediate) : IsPossible(r)
  /\ paths' = get_station_route_paths
  /\ station_routes' = [k \in DOMAIN intermediate |->
                          make_station_route(intermediate[k], paths'[k])]
  /\ stage' = "station_route_graph"
  /\ UNCHANGED <<graph_vars, successors, predecessors>>

-----------------------------------------------------------------------------
(***************************************************************************)
(* The kinds of routes, and the graph.                                     *)
(***************************************************************************)
first_of(sr) == sr.path.nodes[1]
last_of(sr)  == sr.path.nodes[Len(sr.path.nodes)]
size(sr)     == Len(sr.path.nodes)

is_boundary(n) == is_type(n, "BORDER") \/ is_type(n, "TRACK_END")

is_in_route(sr) == is_boundary(first_of(sr)) /\ ~is_boundary(last_of(sr))

\* The last transition to ETCS on the route is to a line without signals.
requires_etcs(sr) ==
  LET starts == sr.path.etcs_starts
  IN  /\ starts # <<>>
      /\ LET e == graph.elements[sr.path.nodes[starts[Len(starts)]][1]]
         IN  <<e.line["track"], e.km["track"]>> \in network.unsignalled

can_start_an_interlocking(k) ==
  station_routes[k].path.main_signals # <<>> \/ predecessors[k] = <<>>

can_end_an_interlocking(k) ==
  station_routes[k].path.main_signals # <<>> \/ successors[k] = <<>>

\* The routes of a station that start at an element, in the order of names.
element_to_routes(station, id) ==
  LET key(k) == <<station_routes[k].name, 0, k>>
  IN  Sorted({k \in DOMAIN station_routes :
                /\ station_routes[k].station = station
                /\ first_of(station_routes[k])[1] = id}, key, TRUE)

(***************************************************************************)
(* get_successors: the routes of the next station that start where a       *)
(* through or out route leaves to; a contained route is treated as an out  *)
(* route, and an in route has no successors.                               *)
(***************************************************************************)
get_successors(sr) ==
  IF \/ is_in_route(sr)
     \/ is_type(last_of(sr), "TRACK_END")
     \/ sr.to_station = NoStation
  THEN <<>>
  ELSE element_to_routes(sr.to_station, next_node[last_of(sr)][1])

get_station_route_graph ==
  /\ stage = "station_route_graph"
  /\ successors' = [k \in DOMAIN station_routes |->
                      get_successors(station_routes[k])]
  /\ predecessors' = [k \in DOMAIN station_routes |->
                        Indices(successors', LAMBDA s : k \in Range(s))]
  /\ stage' = "interlocking"
  /\ UNCHANGED <<graph_vars, paths, station_routes>>

-----------------------------------------------------------------------------
(***************************************************************************)
(* from_to: the nodes from index from to index to - 1, each with its speed *)
(* limit and whether it is omitted.  The indices into omitted_nodes and    *)
(* speed_limits are moved along with the node; fast_forward_indices says   *)
(* where they stand at from.  The code keeps a speed limit for the nodes   *)
(* that follow it (extra_spl_ is not reset), and passes over the limit of  *)
(* an omitted node.                                                        *)
(***************************************************************************)
\* A mutant of fast_forward_indices: nothing is skipped.
fast_forward_nothing(sr, from) == <<1, 1>>

fast_forward_indices(sr, from) ==
  <<1 + Cardinality({k \in DOMAIN sr.omitted_nodes : sr.omitted_nodes[k] < from}),
    1 + Cardinality({k \in DOMAIN sr.speed_limits :
                       \E j \in 1..(from - 1) :
                         sr.path.nodes[j][1] = sr.speed_limits[k]})>>

At(s, k) == IF k \in DOMAIN s THEN s[k] ELSE NoIdx

route_node(sr, acc, idx) ==
  LET omitted == At(sr.omitted_nodes, acc.omit) = idx
      limit   == ~omitted /\ At(sr.speed_limits, acc.spl) = sr.path.nodes[idx][1]
      spl     == IF limit THEN sr.speed_limits[acc.spl] ELSE acc.last
  IN  [omit |-> acc.omit + IF omitted THEN 1 ELSE 0,
       spl  |-> acc.spl + IF limit THEN 1 ELSE 0,
       last |-> spl,
       out  |-> Append(acc.out, [node |-> sr.path.nodes[idx],
                                 omitted |-> omitted, extra_spl |-> spl])]

from_to(sr, from, to) ==
  LET ff == fast_forward_indices(sr, from)
      seen[k \in 0..(to - from)] ==
        IF k = 0 THEN [omit |-> ff[1], spl |-> ff[2], last |-> Null, out |-> <<>>]
        ELSE route_node(sr, seen[k - 1], from + k - 1)
  IN  IF from > size(sr) \/ from > to THEN <<>> ELSE seen[to - from].out

-----------------------------------------------------------------------------
RoutesInit ==
  /\ GraphInit
  /\ paths = <<>> /\ station_routes = <<>>
  /\ successors = <<>> /\ predecessors = <<>>

RoutesNext ==
  \/ GraphNext /\ UNCHANGED route_vars
  \/ calculate_station_routes
  \/ get_station_route_graph

(***************************************************************************)
(* A path of the route r: it runs from the first to the last element along *)
(* the graph, and takes the decisions of the course one after the other,   *)
(* and its active main signals are those the route does not omit.          *)
(***************************************************************************)
FollowsCourse(r, path) ==
  LET n     == path.nodes
      \* the nodes after which a decision is taken
      forks == {j \in 1..(Len(n) - 1) : branch_node[n[j]] # NoNode}
      passed(j) == Cardinality({i \in 1..j : is_switch(graph.elements[n[i][1]])})
  IN  /\ n[1][1] = graph.id_of[r.start]
      /\ n[Len(n)][1] = graph.id_of[r.end]
      /\ \A j \in 1..(Len(n) - 1) :
           n[j + 1] = IF j \in forks /\ r.course[passed(j)] # "STEM"
                      THEN branch_node[n[j]] ELSE next_node[n[j]]
      /\ {n[j][1] : j \in Range(path.main_signals)}
           = {n[j][1] : j \in {i \in DOMAIN n : is_type(n[i], "MAIN_SIGNAL")}}
             \ {graph.id_of[rp] : rp \in r.omitted}

(***************************************************************************)
(* Every station route has a path of its own, although paths are shared    *)
(* between routes (parse_iss.cc:536).                                      *)
(***************************************************************************)
PathsFollowCourses ==
  stage = "station_route_graph" =>
    \A k \in DOMAIN station_routes :
      FollowsCourse(intermediate[k], station_routes[k].path)

=============================================================================
