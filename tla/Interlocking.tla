----------------------------- MODULE Interlocking -----------------------------
(***************************************************************************)
(* The interlocking: src/infrastructure/interlocking.                      *)
(*                                                                         *)
(* An interlocking route leads over linked station routes from one active  *)
(* main signal to the next.  The routes that begin with a station route    *)
(* are found by a recursion over its successors; calls holds the calls of  *)
(* fill_paths that are still to be made, innermost first.  Then the        *)
(* mappings of the interlocking are filled.                                *)
(*                                                                         *)
(* Station routes and interlocking routes are named by their position.     *)
(* start is the first index of a route in its first station route and end  *)
(* the last in its last one: the code's end_offset_ is one behind it.      *)
(***************************************************************************)
EXTENDS StationRoutes

VARIABLES
  interlocking,  \* the routes and mappings
  current,       \* the station route at hand
  calls          \* the calls of fill_paths to come

ir_vars == <<interlocking, current, calls>>

main_signals(k) == station_routes[k].path.main_signals

Route(start, end, srs) == [start |-> start, end |-> end, station_routes |-> srs]

first_sr(ir) == station_routes[ir.station_routes[1]]
last_sr(ir)  == station_routes[Last(ir.station_routes)]
first_node(ir) == first_sr(ir).path.nodes[ir.start]
last_node(ir)  == last_sr(ir).path.nodes[ir.end]

-----------------------------------------------------------------------------
(***************************************************************************)
(* get_interlocking_routes, one station route at a time.                   *)
(***************************************************************************)
(***************************************************************************)
(* The option interlocking_.  It is off for a rail plan without station    *)
(* routes: the statistics divide by the number of interlocking routes.     *)
(***************************************************************************)
HasInterlocking == station_routes # <<>>

Calls(k, ir) == [j \in DOMAIN successors[k] |-> [sr |-> successors[k][j], ir |-> ir]]

start_station_route ==
  /\ stage = "interlocking" /\ HasInterlocking
  /\ calls' =
       IF can_start_an_interlocking(current) /\ ~requires_etcs(station_routes[current])
       THEN Calls(current,
                  Route(IF main_signals(current) = <<>> THEN 1
                        ELSE Last(main_signals(current)),
                        size(station_routes[current]), <<current>>))
       ELSE <<>>
  /\ stage' = "fill_paths"
  /\ UNCHANGED <<graph_vars, route_vars, interlocking, current>>

\* A mutant of completed: the route goes on to the last signal of its last
\* station route.
completed_late(ir, k) ==
  Route(ir.start,
        IF main_signals(k) = <<>> THEN size(station_routes[k])
        ELSE Last(main_signals(k)),
        Append(ir.station_routes, k))

completed(ir, k) ==
  Route(ir.start,
        IF main_signals(k) = <<>> THEN size(station_routes[k])
        ELSE main_signals(k)[1],
        Append(ir.station_routes, k))

fill_paths ==
  /\ stage = "fill_paths" /\ calls # <<>>
  /\ LET k  == calls[1].sr
         ir == calls[1].ir
     IN  \/ /\ requires_etcs(station_routes[k])
            /\ calls' = Tail(calls)
            /\ UNCHANGED interlocking
         \/ /\ ~requires_etcs(station_routes[k])
            /\ can_end_an_interlocking(k)
            /\ interlocking' = [interlocking EXCEPT
                                  !.routes = Append(@, completed(ir, k))]
            /\ calls' = Tail(calls)
         \/ /\ ~requires_etcs(station_routes[k])
            /\ ~can_end_an_interlocking(k)
            /\ calls' = Calls(k, [ir EXCEPT !.station_routes = Append(@, k)])
                        \o Tail(calls)
            /\ UNCHANGED interlocking
  /\ UNCHANGED <<graph_vars, route_vars, stage, current>>

get_internal_interlocking_route(k) ==
  [j \in 1..(Len(main_signals(k)) - 1) |->
     Route(main_signals(k)[j], main_signals(k)[j + 1], <<k>>)]

get_leading_interlocking_route(k) ==
  IF main_signals(k) = <<>> \/ predecessors[k] # <<>> THEN <<>>
  ELSE <<Route(1, main_signals(k)[1], <<k>>)>>

\* A mutant of get_trailing_interlocking_route: it ends behind the last node.
get_trailing_interlocking_route_past(k) ==
  IF main_signals(k) = <<>> \/ successors[k] # <<>> THEN <<>>
  ELSE <<Route(Last(main_signals(k)), size(station_routes[k]) + 1, <<k>>)>>

get_trailing_interlocking_route(k) ==
  IF main_signals(k) = <<>> \/ successors[k] # <<>> THEN <<>>
  ELSE <<Route(Last(main_signals(k)), size(station_routes[k]), <<k>>)>>

finish_station_route ==
  /\ stage = "fill_paths" /\ calls = <<>>
  /\ interlocking' = [interlocking EXCEPT
       !.routes = @ \o get_internal_interlocking_route(current)
                    \o get_leading_interlocking_route(current)
                    \o get_trailing_interlocking_route(current)]
  /\ IF current = Len(station_routes)
     THEN stage' = "mappings" /\ UNCHANGED current
     ELSE stage' = "interlocking" /\ current' = current + 1
  /\ UNCHANGED <<graph_vars, route_vars, calls>>

-----------------------------------------------------------------------------
(***************************************************************************)
(* Views of a route: the parts of its station routes, and its nodes.       *)
(***************************************************************************)
iterate_station_routes(ir) ==
  LET srs == ir.station_routes
  IN  [j \in DOMAIN srs |->
         [sr   |-> srs[j],
          from |-> IF j = 1 THEN ir.start ELSE 1,
          to   |-> IF j = Len(srs) THEN ir.end ELSE size(station_routes[srs[j]])]]

part_contains(part, idx) == part.from <= idx /\ idx <= part.to

contains(ir, k, idx) ==
  LET srs == ir.station_routes
  IN  IF Len(srs) = 1
      THEN srs[1] = k /\ ir.start <= idx /\ idx <= ir.end
      ELSE \/ srs[1] = k /\ ir.start <= idx
           \/ Last(srs) = k /\ idx <= ir.end
           \/ k \in Range(SubSeq(srs, 2, Len(srs) - 1))

ir_size(ir) ==
  LET srs == ir.station_routes
      sum[j \in 0..Len(srs)] ==
        IF j = 0 THEN 0 ELSE sum[j - 1] + size(station_routes[srs[j]])
  IN  IF Len(srs) = 1 THEN ir.end - ir.start + 1
      ELSE sum[Len(srs)] - (ir.start - 1) - (size(last_sr(ir)) - ir.end)

\* The nodes of a route, each with its speed limit and whether it is omitted.
iterate_route(ir) ==
  FlattenSeq([j \in DOMAIN ir.station_routes |->
    LET part == iterate_station_routes(ir)[j]
    IN  from_to(station_routes[part.sr], part.from, part.to + 1)])

follows(a, b) == first_node(a) = last_node(b)

\* The nodes at which trains can halt on a route: the same node twice if
\* it is the halt of both passenger and freight trains.
halts_of(ir) ==
  FlattenSeq([j \in DOMAIN ir.station_routes |->
    LET part  == iterate_station_routes(ir)[j]
        sr    == station_routes[part.sr]
        halts == Selected(<<sr.passenger_halt, sr.freight_halt>>,
                          LAMBDA h : h # NoIdx /\ part_contains(part, h))
    IN  [h \in DOMAIN halts |-> sr.path.nodes[halts[h]]]])

(***************************************************************************)
(* The mappings.  The ids of the routes are given in order, so that the    *)
(* lists are sorted.                                                       *)
(***************************************************************************)
get_starting_at(n) == Indices(interlocking.routes, LAMBDA ir : first_node(ir) = n)

get_ending_at(n) == Indices(interlocking.routes, LAMBDA ir : last_node(ir) = n)

\* A route is listed as often as it meets what it is listed for.
Occurrences(s, x) == Cardinality({k \in DOMAIN s : s[k] = x})
Repeated(id, times) == [j \in 1..times |-> id]

get_halting_at(n) ==
  FlattenSeq([id \in DOMAIN interlocking.routes |->
    Repeated(id, Occurrences(halts_of(interlocking.routes[id]), n))])

get_sr_to_participating_irs(k) ==
  FlattenSeq([id \in DOMAIN interlocking.routes |->
    Repeated(id, Occurrences(interlocking.routes[id].station_routes, k))])

get_station_to_interlocking_routes(station) ==
  Indices(interlocking.routes,
          LAMBDA ir : \E k \in Range(ir.station_routes) :
                        station_routes[k].station = station)

\* The stations of the rail plan.
stations == {x.station : x \in Range(network.sections) \cup Range(network.routes)}

get_interlocking ==
  /\ stage = "mappings"
  /\ interlocking' = [interlocking EXCEPT
       !.halting_at  = [n \in DOMAIN next_node |-> get_halting_at(n)],
       !.starting_at = [n \in DOMAIN next_node |-> get_starting_at(n)],
       !.ending_at   = [n \in DOMAIN next_node |-> get_ending_at(n)],
       !.sr_to_participating_irs =
          [k \in DOMAIN station_routes |-> get_sr_to_participating_irs(k)],
       !.station_to_irs =
          [s \in stations |-> get_station_to_interlocking_routes(s)]]
  /\ stage' = "exclusion"
  /\ UNCHANGED <<graph_vars, route_vars, current, calls>>

-----------------------------------------------------------------------------
InterlockingInit ==
  /\ RoutesInit
  /\ interlocking = [routes |-> <<>>, halting_at |-> <<>>,
                     starting_at |-> <<>>, ending_at |-> <<>>,
                     sr_to_participating_irs |-> <<>>, station_to_irs |-> <<>>]
  /\ current = 1 /\ calls = <<>>

InterlockingNext ==
  \/ RoutesNext /\ UNCHANGED ir_vars
  \/ start_station_route \/ fill_paths \/ finish_station_route
  \/ get_interlocking

-----------------------------------------------------------------------------
(***************************************************************************)
(* The interlocking routes by what they are.  A stop is a place at which   *)
(* one ends: an active main signal, or the end of the data.                *)
(***************************************************************************)
IsStop(k, idx) ==
  \/ idx \in Range(main_signals(k))
  \/ idx = 1 /\ predecessors[k] = <<>>
  \/ idx = size(station_routes[k]) /\ successors[k] = <<>>

\* Linked station routes.
IsChain(c) ==
  /\ c \in Seq(DOMAIN station_routes) /\ c # <<>>
  /\ \A j \in 1..(Len(c) - 1) : c[j + 1] \in Range(successors[c[j]])

\* A route leads from one stop to another, and nothing stops in between.
LeadsToNextStop(ir) ==
  LET c == ir.station_routes
  IN  /\ IsStop(c[1], ir.start) /\ IsStop(c[Len(c)], ir.end)
      /\ \A j \in DOMAIN c : \A idx \in 1..size(station_routes[c[j]]) :
           ((j = 1 => idx > ir.start) /\ (j = Len(c) => idx < ir.end))
             => ~IsStop(c[j], idx)

IsInterlockingRoute(ir) ==
  LET c == ir.station_routes
      k == c[1]
  IN  /\ ir = Route(ir.start, ir.end, c) /\ IsChain(c)
      /\ ir.start \in 1..size(first_sr(ir)) /\ ir.end \in 1..size(last_sr(ir))
      /\ LeadsToNextStop(ir)
      /\ IF Len(c) > 1
         THEN \A j \in DOMAIN c : ~requires_etcs(station_routes[c[j]])
         ELSE /\ ir.start <= ir.end /\ main_signals(k) # <<>>
              \* a signal at the end of the data is a route of a single node
              /\ ir.start = ir.end =>
                   /\ ir.start \in Range(main_signals(k))
                   /\ \/ ir.start = 1 /\ predecessors[k] = <<>>
                      \/ ir.end = size(station_routes[k]) /\ successors[k] = <<>>

\* The routes over at most four station routes.
ExpectedRoutes ==
  LET n == Len(station_routes)
      chains == {c \in UNION {[1..m -> 1..n] : m \in 1..Min({n, 4})} :
                   /\ IsChain(c)
                   /\ \A j \in 2..(Len(c) - 1) : main_signals(c[j]) = <<>>}
  IN  UNION {{ir \in {Route(s, e, c) : s \in 1..size(station_routes[c[1]]),
                                      e \in 1..size(station_routes[Last(c)])} :
                IsInterlockingRoute(ir)} : c \in chains}

\* From each node of a route a train comes to the next one.
IsLinked(ir) ==
  LET nodes == [j \in DOMAIN iterate_route(ir) |-> iterate_route(ir)[j].node]
  IN  \A j \in 1..(Len(nodes) - 1) :
        nodes[j + 1] \in {next_node[nodes[j]], branch_node[nodes[j]]}

(***************************************************************************)
(* The recursion finds every way from a main signal, or the end of the     *)
(* data, to the next one, and nothing else (get_interlocking.cc:164;       *)
(* check_interlocking_routes and check_interlocking_route_count in         *)
(* interlocking_route_test.cc look at the ends and count from below).  It  *)
(* finds each of them once, but for the signal that is all of a station    *)
(* route without neighbours, which leads and trails.                       *)
(***************************************************************************)
RoutesFromSignalToSignal ==
  stage = "mappings" =>
    LET irs == interlocking.routes
    IN  /\ \A ir \in Range(irs) : IsInterlockingRoute(ir)
        /\ ExpectedRoutes \subseteq Range(irs)
        /\ \A a, b \in DOMAIN irs :
             irs[a] = irs[b] => (a = b \/ size(first_sr(irs[a])) = 1)

(***************************************************************************)
(* All views of an interlocking route show the same nodes.  Its size and   *)
(* contains() count what is iterated over, a node is omitted on it exactly *)
(* if its station route omits it, wherever the iteration starts, and the   *)
(* mappings lead to the nodes and station routes that are on the route     *)
(* (interlocking_route.cc:28, 46, station_route.cc:106,                    *)
(* get_interlocking.cc:23).                                                *)
(***************************************************************************)
ViewsAgree ==
  stage = "exclusion" =>
    \A id \in DOMAIN interlocking.routes :
      LET ir     == interlocking.routes[id]
          nodes  == iterate_route(ir)
          places == {p \in UNION {{k} \X (1..size(station_routes[k])) :
                                    k \in DOMAIN station_routes} :
                       contains(ir, p[1], p[2])}
          node_at(p) == station_routes[p[1]].path.nodes[p[2]]
          Of(map) == {x \in DOMAIN map : id \in Range(map[x])}
      IN  /\ Len(nodes) = ir_size(ir)
          /\ {nodes[j].node : j \in DOMAIN nodes} = {node_at(p) : p \in places}
          /\ {nodes[j].node : j \in {i \in DOMAIN nodes : nodes[i].omitted}}
               = {node_at(p) : p \in {q \in places :
                    q[2] \in Range(station_routes[q[1]].omitted_nodes)}}
          /\ Of(interlocking.starting_at) = {nodes[1].node}
          /\ Of(interlocking.ending_at) = {Last(nodes).node}
          /\ Of(interlocking.halting_at)
               = {node_at(p) : p \in {q \in places :
                    q[2] \in {station_routes[q[1]].passenger_halt,
                              station_routes[q[1]].freight_halt}}}
          /\ Of(interlocking.sr_to_participating_irs) = {p[1] : p \in places}
          /\ Of(interlocking.station_to_irs)
               = {station_routes[p[1]].station : p \in places}

=============================================================================
