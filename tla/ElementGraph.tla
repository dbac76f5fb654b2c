----------------------------- MODULE ElementGraph -----------------------------
(***************************************************************************)
(* The graph of the infrastructure: parse_section_into_network and         *)
(* complete_borders in src/infrastructure/parsers/iss/parse_iss.cc, and    *)
(* src/infrastructure/graph/graph_creation.cc.                             *)
(*                                                                         *)
(* Every section of the rail plan is scanned twice, once in rising and     *)
(* once in falling kilometre order, and every element learns its           *)
(* neighbours: one for each of its ports and directions.  The borders of   *)
(* neighbouring stations are joined.  Then the nodes of an element are     *)
(* connected: a node stands for passing its element in one direction, and  *)
(* has a next node and, where the track forks, a branch node.              *)
(*                                                                         *)
(* An element is named by its id, its position in elements_, and a node    *)
(* by its element and top, bot, left, right or node.  The element of the   *)
(* rail plan with the id rp is element id_of[rp].  The flag rising_ of the *)
(* code is rising[Main(type)], end_rising_, stem_rising_ and so on are the *)
(* flags of the other ports.  Kilometre points are integers; the data of   *)
(* an element (names, limits) plays no part and is left out.               *)
(***************************************************************************)
EXTENDS Integers, Sequences, FiniteSets, SequencesExt

CONSTANT Networks   \* the rail plans a run starts from

VARIABLES
  network,       \* the rail plan
  graph,         \* elements_, rp_id_to_element_id_, sections_ and borders_
  next_node,     \* node -> its next_node_
  branch_node,   \* node -> its branch_node_
  reverse_edges, \* node -> its reverse_edges_
  stage          \* the step of parse_iss that comes next

graph_vars == <<network, graph, next_node, branch_node, reverse_edges>>

Null     == 0
NoNode   == <<Null, "none">>
NoLine   == 0

-----------------------------------------------------------------------------
(***************************************************************************)
(* Elements.                                                               *)
(***************************************************************************)
EndTypes        == {"BUMPER", "TRACK_END"}
SimpleTypes     == {"KM_JUMP", "LINE_SWITCH", "BORDER"}
SectionTypes    == EndTypes \cup SimpleTypes \cup {"SIMPLE_SWITCH", "CROSS"}
UndirectedTypes ==
  {"TUNNEL", "SLOPE", "ENTRY", "TRACK_NAME", "LEVEL_CROSSING",
   "RUNTIME_CHECKPOINT_UNDIRECTED"}

Ports(type) ==
  CASE type \in EndTypes -> {"end"}
    [] type \in SimpleTypes \cup UndirectedTypes -> {"start", "end"}
    [] type = "SIMPLE_SWITCH" -> {"start", "stem", "branch"}
    [] type = "CROSS" -> {"start_left", "end_left", "start_right", "end_right"}
    [] OTHER -> {"track"}

Main(type) ==
  CASE type \in EndTypes -> "end"
    [] type = "CROSS" -> "start_left"
    [] type \in SectionTypes \cup UndirectedTypes -> "start"
    [] OTHER -> "track"

\* The ends of a section name ports that the elements there have.
ASSUME PlansAssumption ==
  \A plan \in Networks : \A s \in Range(plan.sections) :
    /\ IsFiniteSet(s.track)
    /\ \A end \in {s.start, s.end} :
         end.rp \in DOMAIN plan.type /\ end.port \in Ports(plan.type[end.rp])

NodeNames(type) ==
  CASE type = "CROSS" -> {"top", "bot", "left", "right"}
    [] type \in SectionTypes \cup UndirectedTypes -> {"top", "bot"}
    [] OTHER -> {"node"}

is_track_element(e)    == e.type \notin SectionTypes
is_undirected(e)       == e.type \in UndirectedTypes
is_directed(e)         == is_track_element(e) /\ ~is_undirected(e)
is_switch(e) == e.type = "SIMPLE_SWITCH" \/ (e.type = "CROSS" /\ e.arcs # {})
joins_tracks(e) == e.type \in {"SIMPLE_SWITCH", "CROSS"}

rising(e) == e.rising[Main(e.type)]

create_element_t(g, type, is_rising) ==
  [g EXCEPT !.elements = Append(@,
    [type       |-> type,
     rising     |-> [p \in Ports(type) |-> p = Main(type) /\ is_rising],
     line       |-> [p \in Ports(type) |-> NoLine],
     km         |-> [p \in Ports(type) |-> 0],
     neighbours |-> [s \in Ports(type) \X BOOLEAN |-> Null],
     arcs       |-> {},
     sections   |-> <<>>])]

create_element(g, rp, type, is_rising) ==
  [create_element_t(g, type, is_rising) EXCEPT
     !.id_of[rp] = Len(g.elements) + 1]

get_or_create_element(g, rp, type) ==
  IF g.id_of[rp] = Null THEN create_element(g, rp, type, FALSE) ELSE g

set_km_point_and_line(g, id, port, km, line) ==
  LET e  == g.elements[id]
      at == IF e.type \in {"BORDER"} \cup UndirectedTypes
            THEN Ports(e.type) ELSE {port}
  IN  [g EXCEPT !.elements[id].km   = [p \in at |-> km] @@ @,
                !.elements[id].line = [p \in at |-> line] @@ @]

(***************************************************************************)
(* The slot of neighbours_ that set_neighbour writes.  The ones of an      *)
(* undirected track element are filled in this order; a border is named    *)
(* alike at both its ports, and its section lies at end_ if it closes it.  *)
(***************************************************************************)
\* A mutant of UndirectedSlots: rising and falling are mixed up.
UndirectedSlotsMixed ==
  <<<<"start", TRUE>>, <<"end", TRUE>>, <<"start", FALSE>>, <<"end", FALSE>>>>

UndirectedSlots ==
  <<<<"end", TRUE>>, <<"start", TRUE>>, <<"start", FALSE>>, <<"end", FALSE>>>>

neighbour_slot(e, port, dir) ==
  IF is_undirected(e)
  THEN SelectSeq(UndirectedSlots, LAMBDA s : e.neighbours[s] = Null)[1]
  ELSE IF e.type = "BORDER"
  THEN <<IF rising(e) THEN "end" ELSE "start", dir>>
  ELSE <<port, dir>>

set_neighbour(g, id, port, neigh, dir) ==
  [g EXCEPT !.elements[id].neighbours[
     neighbour_slot(g.elements[id], port, dir)] = neigh]

PortsTo(e, neigh) ==
  {p \in Ports(e.type) : \E d \in BOOLEAN : e.neighbours[<<p, d>>] = neigh}

\* The ports of an element in the order the code looks at them.
PortOrder ==
  <<"start", "stem", "branch", "start_left", "end_left", "start_right",
    "end_right", "end", "track">>

FirstPortTo(e, neigh) ==
  SelectSeq(PortOrder, LAMBDA p : p \in PortsTo(e, neigh))[1]

get_km(e, neigh) ==
  e.km[IF is_track_element(e) THEN Main(e.type) ELSE FirstPortTo(e, neigh)]

-----------------------------------------------------------------------------
(***************************************************************************)
(* The order of track elements: by kilometre point, then by type, then by  *)
(* id.                                                                     *)
(***************************************************************************)
TypeOrder ==
  <<"TUNNEL", "SLOPE", "ENTRY", "RUNTIME_CHECKPOINT_UNDIRECTED",
    "RUNTIME_CHECKPOINT", "HALT", "MAIN_SIGNAL", "APPROACH_SIGNAL",
    "PROTECTION_SIGNAL", "EOTD", "LZB_START", "LZB_BLOCK_SIGN", "LZB_END",
    "ETCS_START", "ETCS_BLOCK_SIGN", "ETCS_END", "SPEED_LIMIT", "FORCED_HALT",
    "POINT_SPEED", "BRAKE_PATH", "TRACK_NAME", "LEVEL_CROSSING", "META">>

get_type_order_key(type, is_rising) ==
  2 * (CHOOSE i \in DOMAIN TypeOrder : TypeOrder[i] = type)
  + (IF is_rising \/ type \in UndirectedTypes \cup {"META"} THEN 0 ELSE 1)

\* a comes before b in a scan in direction dir: <<km, key, id>>.
order_impl(a, b, dir) ==
  \/ IF dir THEN a[1] < b[1] ELSE a[1] > b[1]
  \/ a[1] = b[1] /\ a[2] < b[2]
  \/ a[1] = b[1] /\ a[2] = b[2] /\ a[3] < b[3]

\* The members of S in the order of their keys.
Sorted(S, key(_), dir) ==
  [i \in 1..Cardinality(S) |->
     CHOOSE x \in S :
       Cardinality({y \in S : order_impl(key(y), key(x), dir)}) = i - 1]

\* The members of a set of numbers in order.
SetAsVector(S) == LET key(x) == <<x, 0, 0>> IN Sorted(S, key, TRUE)

\* The indices at which Test holds, in order, and the members there.
Indices(s, Test(_)) == SetAsVector({k \in DOMAIN s : Test(s[k])})

Selected(s, Test(_)) ==
  LET at == Indices(s, Test) IN [k \in DOMAIN at |-> s[at[k]]]

element_order_from_nodes(S, dir) ==
  LET key(rp) == <<network.km[rp],
                   get_type_order_key(network.type[rp], network.rising[rp]),
                   rp>>
  IN  Sorted(S, key, dir)

element_order(g, S, dir) ==
  LET key(id) == <<g.elements[id].km[Main(g.elements[id].type)],
                   get_type_order_key(g.elements[id].type,
                                      rising(g.elements[id])),
                   id>>
  IN  Sorted(S, key, dir)

-----------------------------------------------------------------------------
(***************************************************************************)
(* One section.                                                            *)
(***************************************************************************)
ArcAt(port) ==
  CASE port = "start_left" -> {"start_left_end_right"}
    [] port = "end_left"   -> {"start_right_end_left"}
    [] OTHER -> {}

(***************************************************************************)
(* emplace_into_network and the two statements that follow its calls: the  *)
(* element that section i starts or ends with.  end_rising_ is set for     *)
(* line switches only.                                                     *)
(***************************************************************************)
describe_end(g, id, i, s, end, is_start) ==
  [set_km_point_and_line(g, id, end.port, end.km, s.line) EXCEPT
     !.elements[id].rising[end.port] =
        IF g.elements[id].type = "KM_JUMP" /\ end.port = "end" THEN @ ELSE ~is_start,
     !.elements[id].arcs = @ \cup {a \in ArcAt(end.port) : <<end.rp, a>> \in network.arcs},
     !.elements[id].sections = Append(@, i),
     !.borders = IF g.elements[id].type # "BORDER" THEN @
                 ELSE Append(@, [element   |-> id,
                                 station   |-> s.station,
                                 neighbour |-> network.beyond[end.rp],
                                 line      |-> s.line,
                                 low       |-> is_start,
                                 partner   |-> Null])]

emplace_into_network(g, i, s, end, is_start) ==
  LET h == get_or_create_element(g, end.rp, network.type[end.rp])
  IN  describe_end(h, h.id_of[end.rp], i, s, end, is_start)

parse_track_element(g, i, s, rp) ==
  LET g1 == create_element(g, rp, network.type[rp], network.rising[rp])
      id == g1.id_of[rp]
  IN  [set_km_point_and_line(g1, id, "track", network.km[rp], s.line)
         EXCEPT !.elements[id].sections = <<i>>]

(***************************************************************************)
(* create_track_element: the scan in direction dir meets rp after          *)
(* scan.prev, whose port scan.port faces it.  An undirected element is     *)
(* created by the first scan and met again by the second.                  *)
(***************************************************************************)
create_track_element(scan, i, s, rp, dir) ==
  LET g0 == IF scan.g.id_of[rp] = Null
            THEN parse_track_element(scan.g, i, s, rp) ELSE scan.g
      id == g0.id_of[rp]
      g1 == set_neighbour(g0, scan.prev, scan.port, id,
                          dir \/ is_track_element(g0.elements[scan.prev]))
  IN  [g    |-> set_neighbour(g1, id, "track", scan.prev, FALSE),
       prev |-> id,
       port |-> "track"]

insert_in_direction(g, i, s, from, port, dir) ==
  LET met == element_order_from_nodes(
               {rp \in s.track : \/ network.type[rp] \in UndirectedTypes
                                 \/ network.rising[rp] = dir}, dir)
      scan[k \in 0..Len(met)] ==
        IF k = 0 THEN [g |-> g, prev |-> from, port |-> port]
        ELSE create_track_element(scan[k - 1], i, s, met[k], dir)
  IN  scan[Len(met)]

Replace(neighbours, old, new) ==
  [s \in DOMAIN neighbours |->
     IF neighbours[s] = old THEN new ELSE neighbours[s]]

insert_meta_in_empty(g, i, s, e1, e2, is_rising) ==
  LET g1   == create_element_t(g, "META", is_rising)
      meta == Len(g1.elements)
      g2   == set_km_point_and_line(g1, meta, "track",
                                    get_km(g.elements[e1], e2), s.line)
      g3   == [g2 EXCEPT
                 !.elements[meta].neighbours = (<<"track", TRUE>>  :> e2) @@
                                               (<<"track", FALSE>> :> e1),
                 !.elements[meta].sections   = <<i>>]
      g4   == [g3 EXCEPT !.elements[e1].neighbours = Replace(@, e2, meta)]
  IN  [g4 EXCEPT !.elements[e2].neighbours = Replace(@, e1, meta)]

\* A scan comes to the end of the section.
end_of_scan_rising(scan, i, s, first, last) ==
  LET g1 == set_neighbour(scan.g, scan.prev, scan.port, last, TRUE)
      g2 == set_neighbour(g1, last, s.end.port, scan.prev, TRUE)
  IN  IF scan.prev = first THEN insert_meta_in_empty(g2, i, s, first, last, TRUE)
      ELSE g2

scan_rising(g, i, s, first, last) ==
  end_of_scan_rising(insert_in_direction(g, i, s, first, s.start.port, TRUE),
                     i, s, first, last)

end_of_scan_falling(scan, i, s, first, last) ==
  LET g1 == set_neighbour(scan.g, first, s.start.port, scan.prev, FALSE)
      g2 == set_neighbour(g1, scan.prev, scan.port, first,
                          is_track_element(scan.g.elements[scan.prev]))
  IN  IF scan.prev = last THEN insert_meta_in_empty(g2, i, s, last, first, FALSE)
      ELSE g2

scan_falling(g, i, s, first, last) ==
  end_of_scan_falling(insert_in_direction(g, i, s, last, s.end.port, FALSE),
                      i, s, first, last)

add_section(g, i, s, first, last) ==
  LET inner == {id \in DOMAIN g.elements :
                  /\ is_track_element(g.elements[id])
                  /\ g.elements[id].sections = <<i>>}
      order(a, b, dir) == <<a>> \o element_order(g, inner, dir) \o <<b>>
  IN  [g EXCEPT !.sections = Append(@,
         [rising_order  |-> order(first, last, TRUE),
          falling_order |-> order(last, first, FALSE),
          line          |-> s.line])]

scan_section(g, i, s, first, last) ==
  add_section(scan_falling(scan_rising(g, i, s, first, last), i, s, first, last),
              i, s, first, last)

parse_section_into_network(g, i, s) ==
  LET h == emplace_into_network(emplace_into_network(g, i, s, s.start, TRUE),
                                i, s, s.end, FALSE)
  IN  scan_section(h, i, s, h.id_of[s.start.rp], h.id_of[s.end.rp])

parse_section ==
  /\ stage = "sections"
  /\ LET i == Len(graph.sections) + 1
     IN  /\ i \in DOMAIN network.sections
         /\ graph' = parse_section_into_network(graph, i, network.sections[i])
         /\ stage' = IF i = Len(network.sections) THEN "borders" ELSE stage
  /\ UNCHANGED <<network, next_node, branch_node, reverse_edges>>

-----------------------------------------------------------------------------
(***************************************************************************)
(* complete_borders: borders to stations that are not part of the data are *)
(* dropped, the others are joined with the border of the same line and     *)
(* track sign that faces them, by a section of its own.                    *)
(***************************************************************************)
Faces(b, c) ==
  /\ c.station = b.neighbour.station /\ c.neighbour.station = b.station
  /\ c.neighbour.track_sign = b.neighbour.track_sign
  /\ c.line = b.line

\* The tuple that names a pair of borders.
get_id_tuple(b) ==
  <<{b.station, b.neighbour.station}, b.line, b.neighbour.track_sign>>

connect_border(elements, b) ==
  LET port == IF b.low THEN "end" ELSE "start"
  IN  [elements EXCEPT
         ![b.element].neighbours[<<port, TRUE>>]  = b.partner,
         ![b.element].neighbours[<<port, FALSE>>] = b.partner]

\* The section between b and its partner, empty but for the two.
border_section(b) ==
  LET up   == IF b.low THEN <<b.partner, b.element>>
              ELSE <<b.element, b.partner>>
  IN  [rising_order |-> up, falling_order |-> Reverse(up), line |-> b.line]

add_border_section(g, b) ==
  LET i == Len(g.sections) + 1
      h == [g EXCEPT !.sections = Append(@, border_section(b)),
                     !.elements[b.element].sections = Append(@, i)]
  IN  [h EXCEPT !.elements[b.partner].sections = Append(@, i)]

joined_borders ==
  LET known(b)   == b.neighbour.station \in {s.station : s \in Range(network.sections)}
      kept       == Selected(graph.borders, known)
      partner(b) == LET facing == SelectSeq(kept, LAMBDA c : Faces(b, c))
                    IN  facing[Len(facing)].element
  IN  [k \in DOMAIN kept |-> [kept[k] EXCEPT !.partner = partner(kept[k])]]

\* The elements with the joined borders connected.
connect_borders(joined) ==
  LET connected[k \in 0..Len(joined)] ==
        IF k = 0 THEN graph.elements
        ELSE connect_border(connected[k - 1], joined[k])
  IN  connected[Len(joined)]

\* And a section for every pair of borders.
add_border_sections(joined) ==
  LET finished(k) == \E j \in 1..(k - 1) :
                       get_id_tuple(joined[j]) = get_id_tuple(joined[k])
      with[k \in 0..Len(joined)] ==
        IF k = 0 THEN [graph EXCEPT !.borders  = joined,
                                    !.elements = connect_borders(joined)]
        ELSE IF finished(k) THEN with[k - 1]
        ELSE add_border_section(with[k - 1], joined[k])
  IN  with[Len(joined)]

complete_borders ==
  /\ stage = "borders"
  /\ graph' = add_border_sections(joined_borders)
  /\ stage' = "nodes"
  /\ UNCHANGED <<network, next_node, branch_node, reverse_edges>>

-----------------------------------------------------------------------------
(***************************************************************************)
(* connect_nodes.                                                          *)
(***************************************************************************)
\* The lines that meet in a switch or cross differ.
joins_lines(e) ==
  /\ joins_tracks(e)
  /\ Cardinality({e.line[p] : p \in Ports(e.type)}) > 1

\* A mutant of misaligned_join: the right ends of a cross are not looked at.
misaligned_join_left(e) ==
  LET up == Cardinality({p \in Ports(e.type) : e.rising[p]})
  IN  /\ joins_lines(e)
      /\ IF e.type = "CROSS" THEN up # 2
         ELSE up # IF rising(e) THEN 1 ELSE 2

misaligned_join(e) ==
  LET up == Cardinality({p \in Ports(e.type) : e.rising[p]})
  IN  /\ joins_lines(e)
      /\ IF e.type = "CROSS"
         THEN up # 2 \/ e.rising["start_right"] = e.rising["end_right"]
         ELSE up # IF rising(e) THEN 1 ELSE 2

\* The tracks of ports p and q have different lines and run against each other.
Against(e, p, q) == e.line[p] # e.line[q] /\ e.rising[p] = e.rising[q]

Choice(condition, a, b) == IF condition THEN a ELSE b

(***************************************************************************)
(* The node of element id in which a train is that comes from neighbour    *)
(* neigh and runs in direction dir.  It is the other one where the code    *)
(* swaps: where the line at this port runs against the line at the port    *)
(* across.  The far end of a line switch or cross has its own direction.   *)
(***************************************************************************)
get_node(g, id, dir, neigh) ==
  LET e    == g.elements[id]
      p    == FirstPortTo(e, neigh)
      opposite == CASE p \in {"stem", "branch"} -> "start"
                    [] p = "end_left" -> "start_left"
                    [] p = "end_right" -> "start_right"
                    [] OTHER -> p
      swap == IF e.type = "LINE_SWITCH" THEN p = "end" /\ rising(e) = e.rising["end"]
              ELSE misaligned_join(e) /\ Against(e, p, opposite)
      far  == \/ p \in {"end_left", "end_right"}
              \/ e.type = "LINE_SWITCH" /\ p = "end"
      at   == IF far THEN e.rising[p] ELSE dir
      up   == at # swap
  IN  <<id, CASE is_directed(e) -> "node"
              [] p \in {"start_left", "end_left"} -> Choice(up, "left", "right")
              [] OTHER -> Choice(up, "top", "bot")>>

\* The node of an element that a train leaves by port p.
node_towards(e, p) ==
  CASE p \in {"start", "end"} /\ p = Main(e.type) ->
         Choice(e.rising[p], "bot", "top")
    [] p \in {"end", "stem", "branch"} -> Choice(rising(e), "top", "bot")
    [] p = "start_left"  -> Choice(rising(e), "right", "left")
    [] p = "end_left"    -> Choice(rising(e), "left", "right")
    [] p = "start_right" -> Choice(e.rising[p], "bot", "top")
    [] p = "end_right"   -> Choice(e.rising["start_right"], "top", "bot")

(***************************************************************************)
(* The edges that connect_nodes adds for element id.  By neighbour: the    *)
(* neighbour may be missing.  Leaving: the node from which a train leaves  *)
(* by port p gets an edge to the node it is in then (connect of the code). *)
(***************************************************************************)
Edge(id, name, kind, to) == [from |-> <<id, name>>, kind |-> kind, to |-> to]

ByNeighbour(g, id, name, slot, dir) ==
  LET neigh == g.elements[id].neighbours[slot]
  IN  IF neigh = Null THEN {}
      ELSE {Edge(id, name, "next", get_node(g, neigh, dir, id))}

Leaving(g, id, by, kind, p) ==
  LET e   == g.elements[id]
      dir == ~e.rising[p]
  IN  {Edge(id, node_towards(e, by), kind,
            get_node(g, e.neighbours[<<p, dir>>], dir, id))}

\* Each arc of a cross: the branch beside the way out by the first port
\* leads out by the second.
ArcPorts(arc) ==
  IF arc = "start_left_end_right"
  THEN {<<"end_left", "end_right">>, <<"start_right", "start_left">>}
  ELSE {<<"end_right", "end_left">>, <<"start_left", "start_right">>}

connect_nodes(g, id) ==
  LET e == g.elements[id]
  IN  CASE is_directed(e) ->
             ByNeighbour(g, id, "node", <<"track", TRUE>>, rising(e))
        [] is_undirected(e) \/ e.type \in {"KM_JUMP", "BORDER"} ->
             ByNeighbour(g, id, "top", <<"start", TRUE>>, TRUE)
             \cup ByNeighbour(g, id, "bot", <<"end", FALSE>>, FALSE)
        [] e.type = "SIMPLE_SWITCH" ->
             Leaving(g, id, "start", "next", "start")
             \cup Leaving(g, id, "stem", "next", "stem")
             \cup Leaving(g, id, "branch", "branch", "branch")
        [] OTHER ->
             UNION ({Leaving(g, id, p, "next", p) : p \in Ports(e.type)}
                    \cup {UNION {Leaving(g, id, a[1], "branch", a[2])
                                   : a \in ArcPorts(arc)} : arc \in e.arcs})

AllNodes(g) ==
  UNION {{<<id, name>> : name \in NodeNames(g.elements[id].type)}
           : id \in DOMAIN g.elements}

Target(edges, n, kind) ==
  LET out == {x \in edges : x.from = n /\ x.kind = kind}
  IN  IF out = {} THEN NoNode ELSE (CHOOSE x \in out : TRUE).to

\* reverse_edges_ is filled in the order of nodes_, next before branch.
NameOrder == ("top" :> 1) @@ ("node" :> 1) @@ ("bot" :> 2) @@ ("left" :> 3) @@ ("right" :> 4)

reverse_of(edges, n) ==
  LET key(x) == <<x.from[1], NameOrder[x.from[2]],
                  IF x.kind = "next" THEN 0 ELSE 1>>
      into   == Sorted({x \in edges : x.to = n}, key, TRUE)
  IN  [k \in DOMAIN into |-> into[k].from]

connect_all_nodes ==
  /\ stage = "nodes"
  /\ LET edges == UNION {connect_nodes(graph, id) : id \in DOMAIN graph.elements}
     IN  /\ next_node'     = [n \in AllNodes(graph) |-> Target(edges, n, "next")]
         /\ branch_node'   = [n \in AllNodes(graph) |-> Target(edges, n, "branch")]
         /\ reverse_edges' = [n \in AllNodes(graph) |-> reverse_of(edges, n)]
  /\ stage' = "routes"
  /\ UNCHANGED <<network, graph>>

-----------------------------------------------------------------------------
(***************************************************************************)
(* reverse_ahead: the node that a train in n comes from if it came         *)
(* straight.  Fail stands for the exception the code throws.               *)
(***************************************************************************)
Fail == <<Null, "fail">>

default_reverse_ahead(n) ==
  LET straight == SelectSeq(reverse_edges[n], LAMBDA m : next_node[m] = n)
  IN  IF straight = <<>> THEN Fail ELSE straight[1]

\* A mutant of switch_reverse_ahead: the branch is not skipped.
switch_reverse_ahead_any(n) == reverse_edges[n][1]

switch_reverse_ahead(n) ==
  LET edges == reverse_edges[n]
      e     == graph.elements[n[1]]
      good(m) == /\ "branch" \notin PortsTo(e, m[1])
                 /\ \/ graph.elements[m[1]].type = "SIMPLE_SWITCH"
                    \/ next_node[m] = n
      found == SelectSeq(edges, good)
  IN  IF found # <<>> THEN found[1]
      ELSE IF Len(edges) = 2 /\ edges[1] = edges[2] THEN edges[1]
      ELSE Fail

reverse_ahead(n) ==
  CASE reverse_edges[n] = <<>>      -> NoNode
    [] Len(reverse_edges[n]) = 1    -> reverse_edges[n][1]
    [] graph.elements[n[1]].type = "SIMPLE_SWITCH" -> switch_reverse_ahead(n)
    [] OTHER                        -> default_reverse_ahead(n)

-----------------------------------------------------------------------------
GraphInit ==
  /\ network \in Networks
  /\ graph = [elements |-> <<>>, sections |-> <<>>, borders |-> <<>>,
              id_of |-> [rp \in DOMAIN network.type |-> Null]]
  /\ next_node = <<>> /\ branch_node = <<>> /\ reverse_edges = <<>>
  /\ stage = "sections"

GraphNext == parse_section \/ complete_borders \/ connect_all_nodes

-----------------------------------------------------------------------------
(***************************************************************************)
(* The types of the variables: ids, ports and nodes are those of existing  *)
(* elements.                                                               *)
(***************************************************************************)
GraphTypeOK ==
  LET ids == DOMAIN graph.elements IN
  /\ \A rp \in DOMAIN graph.id_of : graph.id_of[rp] \in ids \cup {Null}
  /\ \A id \in ids : LET e == graph.elements[id] IN
       /\ \A p \in Ports(e.type) : e.rising[p] \in BOOLEAN
       /\ \A s \in Ports(e.type) \X BOOLEAN :
            e.neighbours[s] \in ids \cup {Null}
       /\ Range(e.sections) \subseteq DOMAIN graph.sections
  /\ \A k \in DOMAIN graph.borders : graph.borders[k].element \in ids
  /\ \A n \in DOMAIN next_node :
       /\ next_node[n] \in DOMAIN next_node \cup {NoNode}
       /\ branch_node[n] \in DOMAIN next_node \cup {NoNode}
       /\ Range(reverse_edges[n]) \subseteq DOMAIN next_node

\* The elements of a section that a train in direction dir meets.
iterate(sec, dir) ==
  SelectSeq(IF dir THEN sec.rising_order ELSE sec.falling_order,
            LAMBDA id : LET e == graph.elements[id]
                        IN  ~is_directed(e) \/ rising(e) = dir)

\* The node in which a train in direction dir passes a track element.
Passing(id, dir) ==
  IF is_directed(graph.elements[id]) THEN <<id, "node">>
  ELSE <<id, Choice(dir, "top", "bot")>>

IsBorderSection(sec) == Len(sec.rising_order) = 2

(***************************************************************************)
(* The elements of a section, in the order kept for it, are linked by the  *)
(* nodes: a train in either direction meets every undirected element and   *)
(* every element of its direction, in that order, and comes to the         *)
(* element at the end.  The two orders and the links come from different   *)
(* sorts, by the ids of the rail plan and by the ids of the elements       *)
(* (parse_iss.cc:448, 470, 501), and section_test.cc compares them only    *)
(* as neighbours.                                                          *)
(***************************************************************************)
SectionsArePaths ==
  stage = "routes" =>
    \A i \in DOMAIN graph.sections, dir \in BOOLEAN :
      LET o == iterate(graph.sections[i], dir)
          n == Len(o)
      IN  IF IsBorderSection(graph.sections[i])
          THEN next_node[<<o[1], Choice(dir, "top", "bot")>>]
                 = <<o[2], Choice(dir, "top", "bot")>>
          ELSE /\ n > 2
               /\ \A k \in 2..(n - 2) :
                    next_node[Passing(o[k], dir)] = Passing(o[k + 1], dir)
               /\ next_node[Passing(o[n - 1], dir)][1] = o[n]

(***************************************************************************)
(* The tracks of a section element, from the rail plan: a train that comes *)
(* in by port p goes out by Straight(p), or by a member of Aside(p).       *)
(***************************************************************************)
Straight(type, p) ==
  CASE type \in EndTypes -> {}
    [] type \in SimpleTypes -> Ports(type) \ {p}
    [] type = "SIMPLE_SWITCH" -> IF p = "start" THEN {"stem"} ELSE {"start"}
    [] p \in {"start_left", "end_left"} -> {"start_left", "end_left"} \ {p}
    [] OTHER -> {"start_right", "end_right"} \ {p}

Aside(e, p) ==
  IF e.type = "SIMPLE_SWITCH" THEN {q \in {"branch"} : p = "start"}
  ELSE UNION {IF arc = "start_left_end_right"
              THEN {q \in {"start_left", "end_right"} :
                      p \in {"start_left", "end_right"} \ {q}}
              ELSE {q \in {"start_right", "end_left"} :
                      p \in {"start_right", "end_left"} \ {q}}
                : arc \in e.arcs}

\* The section of the rail plan that lies at port p, and whether it starts there.
Lies(id, p) ==
  {x \in (DOMAIN network.sections) \X BOOLEAN :
     LET s   == network.sections[x[1]]
         end == IF x[2] THEN s.start ELSE s.end
     IN  graph.id_of[end.rp] = id /\ end.port = p}

\* Where trains are that came in, or went out, by port p.
ComeIn(id, p) ==
  {LET o == iterate(graph.sections[x[1]], ~x[2])
   IN  next_node[Passing(o[Len(o) - 1], ~x[2])] : x \in Lies(id, p)}

GoOut(id, p) ==
  {Passing(iterate(graph.sections[x[1]], x[2])[2], x[2]) : x \in Lies(id, p)}

(***************************************************************************)
(* A train passes a switch, cross, line switch or jump along the tracks    *)
(* that the rail plan lays there, and its next node is the straight way,   *)
(* its branch node the other: whatever the directions in which the         *)
(* sections that meet are measured, and whatever their lines               *)
(* (graph_creation.cc:228, 279, 424).                                      *)
(***************************************************************************)
ThroughElements ==
  stage = "routes" =>
    \A id \in DOMAIN graph.elements :
      LET e == graph.elements[id] IN
      e.type \in SectionTypes \ {"BORDER"} =>
        \A p \in Ports(e.type) : \A n \in ComeIn(id, p) :
          LET out(ports) == UNION {GoOut(id, q) : q \in ports} IN
          /\ {next_node[n]} \ {NoNode} = out(Straight(e.type, p))
          /\ {branch_node[n]} \ {NoNode} = out(Aside(e, p))

(***************************************************************************)
(* reverse_ahead undoes a step that was taken straight: it never fails, it *)
(* names a predecessor, the one on the stem where a switch is passed from  *)
(* its points, and none exists only for a train that stands at the end of  *)
(* the track (element.cc:117, test/src/infrastructure/                     *)
(* reverse_ahead_test.cc).                                                 *)
(***************************************************************************)
ReverseAheadRight ==
  stage = "routes" =>
    \A n \in DOMAIN next_node :
      LET e == graph.elements[n[1]]
          m == reverse_ahead(n)
          ahead == {x \in DOMAIN next_node : next_node[x] = n}
      IN  /\ m # Fail
          /\ m = NoNode <=>
               \A x \in DOMAIN next_node : n \notin {next_node[x], branch_node[x]}
          /\ m # NoNode =>
               /\ n \in {next_node[m], branch_node[m]}
               /\ ahead # {} => next_node[m] = n
               /\ e.type = "SIMPLE_SWITCH" =>
                    (m[1] \in {e.neighbours[<<"branch", d>>] : d \in BOOLEAN}
                       => \A x \in ahead : x = m)

=============================================================================
