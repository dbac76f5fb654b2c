# Verification of soro

TLA+ models of [soro](../src/README.md), a planning and simulation system for
railways written in C++20, with a TLC configuration for every question that is
model-checked and proofs for TLAPS. Paths below are relative to the repository.

## The system

| part | state | operations | works with |
|---|---|---|---|
| ISS parser, element graph (`src/infrastructure/parsers/iss`, `graph`) | elements, sections, nodes | built from the rail plan, then read only | everything |
| station routes (`src/infrastructure/station`) | one route per path through a station, halts, omitted nodes; who follows whom | built from courses through the graph | interlocking, parser |
| interlocking (`src/infrastructure/interlocking`) | routes as lists of station routes; mappings from nodes, stations and station routes | enumeration between main signals; views | exclusion, route transform |
| exclusion (`src/infrastructure/exclusion`) | claimed elements and their users, exclusion graph, cliques; compressed bitsets of routes | computed in threads over slices of the routes; set, union, difference, comparison | ordering graph |
| KSS timetable parser, route transform (`src/timetable/parsers`) | trains with stops and paths, service days, error statistics | parses all files of a directory in parallel, covers the stops of a train by interlocking routes, numbers the trains | interlocking, station routes |
| service days (`src/timetable/bitfield.cc`, `train.cc`) | a range of days and a bitset per train | set, merge, iterate; departures of a train in an interval | parser, ordering graph, web server |
| running time calculation (`src/runtime`) | intervals with speed limits, time stamps | limits lowered until the train can brake, then a run through the intervals | ordering graph |
| ordering graph (`src/simulation/ordering`) | one node per usage of a route by a trip; `out_`, `in_`; node range of every trip | built in one go, then read only | departures, running times, exclusion sets |
| graph algorithms (`include/soro/utls/graph`, `get_cycle.cc`, `check_exclusion_paths.cc`) | queue or stack, marks, depths | bfs, dfs, cycles, transitive edges, exclusion paths | ordering graph |
| web server (`web/server`) | infrastructures, timetables, tile databases, and their serialised files | loads or regenerates at start-up; read-only handlers in a single thread | web client |
| web client (`web/client/src`) | Vuex stores, the ordering graph on display | asynchronous requests | web server |

What is hard about it, and what the properties are for, is listed line by line
under `hazards` in `PROJECT.json`:

- the **infrastructure** is assembled in passes that each trust what the last
  one left: slots for neighbours are filled in the order of the sections, two
  scans must give one path each way, paths are shared between routes, and the
  views of a route (iteration, size, contains, mappings) count by rules of their
  own;
- **exclusion** and the **parser** split their work among threads and put the
  results together again;
- the **route transform** takes the longest prefix and compares indices of
  different station routes;
- the **running time calculation** is a fixpoint over intervals whose limits
  depend on each other, followed by a run that must never meet a case the
  fixpoint was to exclude;
- the **ordering graph** is assembled from exclusion sets that are sorted
  concurrently and independently of each other with an unstable sort, and then
  reduced with decisions taken on the unreduced graph. Its correctness (no
  cycle, all usages that exclude each other ordered, trips connected) is a
  property of all sets together that no single step establishes;
- the **graph algorithms** end early, share marks between start nodes, and must
  cope with the cyclic graphs they are there to detect;
- **service days** are bits relative to a first day that moves, and a pair of
  iterators that skip days by their own rule and must meet;
- **exclusion sets** keep only the blocks of bits between their first and last
  member, and every operation must move both ends, the size and two markers
  together, at offsets that can have either sign;
- the **server** keeps files that are trusted if they are newer than their
  source, whatever happened while they were written.

## Modules

| module | models | checked by |
|---|---|---|
| `ElementGraph` | sections and borders of `parse_iss.cc`, `graph_creation.cc`, `element.cc` | `MCInfrastructure` |
| `StationRoutes` | station routes of `parse_iss.cc`, `station_route.cc`, `station_route_graph.cc` | `MCInfrastructure` |
| `Interlocking` | `get_interlocking.cc`, `interlocking_route.cc` | `MCInfrastructure` |
| `Exclusion` | `exclusion_elements.cc`, `get_exclusion.cc`, `get_exclusion_graph.cc`, `read_cliques.cc` | `MCInfrastructure` |
| `Timetable` | `parse_kss_timetable.cc`, `station_route_to_interlocking_route.cc`, the iteration of `train.cc` | `MCInfrastructure` |
| `RunningTime` | `interval.cc`, `runtime.cc`, `runtime_physics.cc` | `MCRunningTime` |
| `OrderingGraph` | `ordering_graph.cc`, `remove_transitive_edges.cc` | `MCOrderingGraph` |
| `Reachability` | reachability, acyclicity and transitive edges, defined without recursion | |
| `GraphTraversal` | `traversal.h`, `has_cycle.h`, `get_cycle.cc`, `check_exclusion_paths.cc`, and the search in `remove_transitive_edges.cc` | `MCGraphTraversal` |
| `Bitfield` | the operations of `bitfield.cc` as operators | through `ServiceDays` |
| `ServiceCalendar` | abstract: a set of days, and the departures it promises | as a property of `ServiceDays` |
| `ServiceDays` | `parse_services`, `get_interval`, `train::departures`, `params_to_filter` | `MCServiceDays` |
| `RouteSets` | abstract: variables that hold plain sets of routes | as a property of `ExclusionSet` |
| `ExclusionSet` | `exclusion_set.cc` | `MCExclusionSet` |
| `ServerStart` | `soro_server.cc`, the infrastructure, tiles and timetable modules of the server | `MCServerStart` |
| `MCRailPlans`, `MCTrainPlans` | rail plans and timetables for `MCInfrastructure` | |
| `BasicLemmas` | lemmas that need no model: sets of numbers, sequences and their joins, sums, ordered sets, reachability | TLAPS |
| `OrderingGraphProofs`, `GraphTraversalProofs`, `InfrastructureProofs`, `ExclusionSetProofs`, `ServiceDaysProofs`, `ServerStartProofs`, `RunningTimeProofs` | theorems | TLAPS |

### ElementGraph, StationRoutes, Interlocking, Exclusion, Timetable

Each of these five extends the one before, and so does its specification: one
behaviour parses a rail plan, section by section, joins the borders, connects
the nodes, makes the station routes and their graph, enumerates the interlocking
routes, and then either computes the exclusion or parses a timetable. `stage`
says where it is. The input is the rail plan `network` and the contents of a
timetable directory and of a clique file; their attributes that decide nothing
are left out.

*ElementGraph*. `parse_section` is one section with both scans; the helpers
`scan_rising`, `scan_falling`, `set_neighbour`, `insert_meta` and so on are
operators on the graph made so far. `complete_borders` and `connect_all_nodes`
are one action each. `next_node`, `branch_node` and `reverse_edges` are
functions of pairs of an element and the name of one of its nodes. A section
element has a direction flag for every port, which the first section at that
port sets, as in the source.

*StationRoutes*. `calculate_station_routes` finds the path of every route of the
plan, or takes the one a route with the same ends, course and omitted signals
has (`path_owner`), and the indices that depend on the route;
`fast_forward_indices` and `from_to` translate the iteration with its two
cursors. `get_station_route_graph` links routes over borders.

*Interlocking*. `start_station_route`, `fill_paths` and `finish_station_route`
are the loop of `get_interlocking_routes` over station routes; the recursion of
`fill_paths` is a stack of calls. `get_interlocking` fills the mappings. The
specification of the enumeration, `IsInterlockingRoute`, says what a route is
without the recursion: a chain of linked station routes from one stop to the
next. `ExpectedRoutes` are those over at most four station routes, which TLC can
enumerate.

*Exclusion*. `start_threads` computes the claims and starts a thread per batch;
`generate_used_by(t)` is one route of thread `t`, in any interleaving;
`combine_thread_results` follows the joins. `multi_set_merge` is translated as
the loop it is. `get_exclusion_graph` and `read_exclusion_sets` follow.

*Timetable*. `open_directory` makes one work item per file; a parser thread
takes an item (`take_item`), parses train by train (`parse_train`, or `crash`
where the code reads behind the last stop or its path never ends) and takes the
next. A train is parsed whole, through `get_first_ir`, the loop of
`transform_to_interlocking` and its errors, as one operator each. What a turn of
that loop does hangs on the offset of the stop and the last route alone, so that
a path that is still "running" after a turn for every pair of them (`rounds`)
runs for ever: it is `endless`, the code appends to it until no memory is left,
and nothing but `crash` can follow. `finish_timetable` concatenates the items
and numbers the trains.

`PathsComeToAnEnd` says that no path is endless whose station routes follow each
other (`Consecutive`). For others it is not true: on a ring of two stations with
one interlocking route over stations 2, 1 and 2, the stops 2, 2, 1 are endless.
`TrainsFollowTheirStops` is about stops that follow each other too, and not
about trains on an interlocking route that leads over a station route twice
(`Repeats`): a stop on such a route is counted once for each time.

Assumed of the input: tracks of one line run in one direction through an element
and over a border (`Aligned` in `MCRailPlans`), and every port of an element is
the end of one section.

### RunningTime

`ScanNode` is one turn of the loop that makes the interval list, `AdjustInterval`
one interval of a pass that lowers limits, `NextPass` the next pass, `RunInterval`
one interval of the run. The physics is that of constant acceleration in whole
numbers: a table of results per tick with the cut at the target speed and at the
end of the interval, as in the source. Every check of the code that ends the
calculation with an error is the stage "failed". Assumed of the input: the gaps
between nodes are long enough for a few ticks, a main signal is not at the place
of the node before it (`interval.cc:214` then counts the intervals wrongly), and
halts are apart. The proof of `EventsInOrder` uses only the last of these.

### ServerStart

The disk holds for every file its time, the version of what it was made of, and
whether it is whole. Writing takes two steps, `begin_write` within the step that
computes the content and `finish_write`; `stop` can come at any time, also
between them. `tick` and `change_source` are the environment; versions stand for
contents. A start goes through infrastructures, tiles and timetables; for each
`todo` holds what is left, from the raw file or from the source.
`RegenerateRecovers` is about starts with `--regenerate`. Without the flag the
server trusts every file that is new enough, so files cut off by a crash and
stale tiles are served; the code makes no promise about them.

### OrderingGraph

The state is that of the constructor: `pc` names its phase. `NextTrain` and
`AddTrip` are the turns of the loops over the trains and over the departures of
a train; `AddTrip` makes all nodes of a trip, its entry in `trip_to_nodes_` and
its usages. `SortOrdering(es)` is one task of `parallel_for`: any set may be
sorted next, into any sequence that respects `from_`. `CreateEdges` handles one
exclusion set, `CollectTransitiveEdges` one start node, and
`EraseTransitiveEdges` erases what was collected. The vectors `out_` and `in_`
are sets: `erase_duplicates` sorts them before anyone reads them.

The depth first search of `get_transitive_edges` is abstracted to what it
computes, `TransitiveTargets`. That it computes this is checked step by step in
`GraphTraversal` (`FindsTransitiveEdges`).

Assumed of the input (`TimetablesAssumption`): a train does not reach a signal
before the one ahead of it. `EventsInOrder` of `RunningTime` shows this of the
running time calculation. Several properties have the premise `NoTies`, that no two
usages of an exclusion set start in the same second. The code names it as a bet
(`ordering_graph.cc:192`); run `ordering_ties` shows what happens when it is
lost.

### GraphTraversal

One traversal is `BeginTraversal` (or `Begin` for a search back), then `Pop`
for every turn of the outer loop, `Expand` for every neighbour and `EndOfNode`.
The variable `client` says on whose behalf it runs; `NodeDepth`, `EdgeDepth`,
`NodeStops` and so on are the callbacks of the clients. `CollectTransitive`,
`CollectCycle` and `CheckTargets` are what a client does when its traversal has
ended. `CallOuter`, `CallInner` and `Return` are `has_cycle`, with the recursion
on an explicit stack of frames. `nodeVisits` and `edgeVisits` are history
variables.

### ServiceDays, Bitfield, ServiceCalendar

`Bitfield` translates the operations of the bitfield one by one, the shifts
included (`Shl` drops the bits that leave the bitset). `ServiceDays` reads the
services of a file (`ReadService` for a mask, `ReadSpecial` for a special date)
and then asks for the departures in an interval: one given to the web server
(`AskInterval`, after its check that the interval is valid) or that of the whole
timetable (`AskTimetable`, of this train and any others). The interval of the
timetable comes first, and `get_interval` does not get past a train without a
service day (`FailTimetable`): the assertion of `first_set_date` throws in a
function that is `noexcept`, which ends the program; without assertions its loop
goes on behind the last bit. (The bitset itself, of the library cista, is not in
the repository; no bit behind its end is taken to be set.)

`checked` tells a build with assertions from a release build: only the former
counts the service days of a mask and may end in `failed`. A service or special
date that does not fit the bitset is undefined behaviour in a release build and
left out there. It is assumed (`JourneysAssumption`) that a train departs on its
service day and arrives no earlier than it departs.

`ServiceCalendar` says what all this is for. Services add and remove days; an
interval selects the days whose journey overlaps it, from the midnight of its
start on; they depart once each and in ascending order; and for the interval of
the timetable all days depart. Only a train with a service day is asked for its
departures, any other leaves no timetable (`NoTimetable`). `ServiceDays`
implements it under the mapping `days <- get_set_days(bf)`, `wanted <-` the days
still between the two iterators, `phase <- pc`.

### ExclusionSet, RouteSets

A record has the fields of `exclusion_set` but for `id_`: `first`, `last`,
`first_bit` (`first_bit_set_`), `last_bit` (`last_bit_set_`), and the bits as
their number `size` and the indices `on` of those that are set. Bit `i` stands
for the route `first + i`. The helpers are operators with the names they have in
the source (`lower_first`, `increase_last`, `compact`, `contains_impl`, ...);
`cleared` is the loop over the blocks in `operator-=`, and `subtract` and
`union` are `operator-=` and `operator|=` between different objects. The actions
are calls on a few variables, each of which starts as any set that
`make_exclusion_set` builds: `Clear`, `Set`, `UnionWith`, `Subtract`, and the
binary operators `Union` and `Difference`. Reading (`expanded_set`,
`contains_id` for `operator[]`, `iterated` for the iterator, `compare` for
`operator<=>`) changes nothing and is the subject of properties. "failed" as a
result of `compare` stands for an expectation of `contains_impl` not met.

`Spec` calls `set` on sets that are not empty: on an empty one, whose `first_`
is `INVALID_OFFSET`, every route counts as one before the first. `RouteSets` is
the abstract specification: union, difference, insertion and clearing of plain
sets; its variable is the function of `expanded_set`s. It says that no call
touches another variable and that no set is reached which plain sets would not
reach; `OperationsRight` says of each operation that it is the right one.
`compare` calls two empty sets greater than each other; `Inclusion` says so.

## Runs

| run | expects | question |
|---|---|---|
| `infrastructure` | pass | is what every pass makes of a rail plan right: sections, tracks through elements, the way back, paths, interlocking routes, views, users of elements, exclusion, trains |
| `timetable_stops` | violation of `EveryStopOnPath` | does the path of a train have all its stops |
| `running_time` | pass | does the calculation end at the last halt, and are the time stamps in order |
| `ordering_graph` | pass | is the finished graph acyclic, complete, reduced and in the order of time, whatever order the sets are sorted in |
| `ordering_ties` | violation of `AllExclusionPaths` | the same without `NoTies` |
| `traversal` | pass | do the graph algorithms compute what they claim, on cyclic graphs too, and end |
| `traversal_edges` | violation of `EveryEdgeOnce` | the comment in `traversal.h` |
| `service_days` | pass | do bitfield and iterators implement the calendar |
| `departures_overnight` | violation of `EveryOverlapDeparts` | are all overlapping journeys found |
| `exclusion_set` | pass | do the blocks implement plain sets, and equality and `<=>` equality and inclusion of the members |
| `server_regenerate` | pass | does a start with `--regenerate` recover from every state the starts before have left |
| `server_restart` | violation of `TimetablesServed` | is a timetable that was saved served by the next start |

Bounds. *Infrastructure*: 41379 states over families of small rail plans.
`MCRailPlans` has every element type, sections measured in either direction and
belonging to either of two lines, crosses with and without arcs. The plans of
`MCInfrastructure` have station routes with shared paths, omitted signals and
speed limits, ETCS, publish-only routes, stations without signals, open ends and
a circle. Those of `MCTrainPlans` have in, out and through routes in four
stations, all sets of main signals, and one train for every sequence of routes;
files of trains with every error for two parser threads; and two stations in a
ring, with trains over up to five station routes round it, so that there are
interlocking routes over two and over three station routes and paths that lead
over one of them again and again. `timetable_stops` leaves the ring out.
Exclusion runs with 1, 2 and 3 threads on plans with fewer and with more routes
than threads. *Running time*: trains with up to two nodes of twelve kinds
between two halts, so that up to three intervals depend on each other;
accelerations below and above the braking. *Ordering graph*: three trains (one
filtered out), three routes in two overlapping exclusion sets, times 0 to 3. Two
trains on a common stretch in the same and in opposite directions, a train that
departs twice and one without a main signal are among the timetables;
disagreement between two sets about two trains is the smallest shape of a cycle,
and two sets and two trains are enough for it. *Traversal*: all 1586 loop-free
graphs of four nodes with up to five edges: every cycle up to length four,
chords, diamonds and several components. *Service days*: bitsets of three bits,
four dates, three services, days of four time units, so that ranges that do not
fit, shifts at both ends, masks that overlap or leave no day, and journeys over
midnight occur. *Exclusion sets*: two variables over six routes in blocks of
two: sets within one block, in adjacent blocks, and with an empty block between
them, on either side of each other. All 4096 pairs are initial states, and the
invariant is that operations lead nowhere else. *Server*: one infrastructure
with one timetable that matches and one that does not; the time moves on once
(`MaxTime` 1), so that every source can change once, before, while or after any
file is written, and any number of starts may be killed anywhere.

`CHECK_DEADLOCK FALSE` is set for the traversal, the service days, the ordering
graph and the running time because they are computations that end. The
infrastructure ends in steps that are named (`Complete`, `Parsed`), so that any
other end is a deadlock; the calls on exclusion sets and the starts of the
server never end.

Fairness is assumed in `GraphTraversal` and `RunningTime` only, `WF_vars(Next)`:
the functions run in one thread that takes its next step as long as it has one.

## Findings

1. Ties (`ordering_ties`): two usages that start in the same second may be
   sorted one way in one exclusion set and the other way in another. The graph
   then has a cycle, and the reduction removes every edge of it that another
   path on the cycle seems to replace, so that exclusion paths are lost.
   `check_ordering_graph` in the tests asserts that neither happens.
2. `traversal.h` (`traversal_edges`): "Every edge is visited exactly once" is
   wrong for the edges of a start node on a cycle.
3. `train::departures` (`departures_overnight`): a journey over midnight that
   began the day before the interval is missed although it overlaps.
4. `transform_to_interlocking` (`timetable_stops`): a train that ends on an out
   route behind an in route can lose its last stop, because the index of the
   stop is compared with an index of another station route.
5. The timetable module of the server (`server_restart`): a timetable that is up
   to date on disk is not parsed and not loaded either, so that the second start
   serves none.

Noted while modelling, and not the subject of a run:

- `ordering_node::next` has no caller; its assertion "next node not same train"
  does not hold of every graph, since `out_` is sorted by node id and the
  reduction may drop the edge along the trip.
- `exclusion_set::set` on an empty set grows the bits by almost the whole range
  of their index and fails `ok()`. It has no caller but the tests.
- `interval.cc:214` takes the size of the list for the index of the last main
  signal; if the signal is at the place of the last border, the border is not
  appended and a later limit from the last signal begins one interval late. A
  limit from the last signal overwrites by equality of speeds, also a limit with
  the point of action here that happens to have the same value.
- `station_route.cc`: `from_to` never resets its extra speed limit, and skips
  that of an omitted node, which `fast_forward` counts.
- `parse_track_element.cc` maps the point of action SIGNAL to HERE and HERE to
  LAST_SIGNAL.
- `complete_borders` dereferences the neighbour of a border whose known neighbour
  has no matching border.
- The loop of `transform_to_interlocking` does not end for some stops on a ring
  that do not follow each other (see `PathsComeToAnEnd` above); nothing checks
  that the stops of a file do. On an interlocking route that leads over a
  station route twice, `get_sequence_points` takes a stop for each time.
- A train of a timetable file whose services leave no day ends the program in
  `get_interval`, or keeps it there in a release build, whatever the other
  trains are.
- `get_halting_at` lists a route twice at a node that is the halt of both
  passenger and freight trains.
- `hardware_concurrency()` may be 0, which leaves the lists of users and the
  exclusion graph empty (`ThreadsAssumption` excludes it).
- The version of a timetable is read from the first entry of the directory, even
  if that is not a KSS file, and a train that is rejected with NO_IR may be one
  whose first interlocking route reaches past its last stop.
- One file name is used for a timetable whatever infrastructure it was parsed
  with; a file cut off by a crash is trusted if it is newer than its source; the
  osm file is not made again when the infrastructure has changed.
- The conditions in `web/server/src/main.cc:47` and `:54` (not existing and a
  directory) can never hold.

## Proofs

`OrderingGraphProofs` proves all properties of run `ordering_graph` for any
number of trains, routes, exclusion sets and times. `TypeOK` says besides the
types that `in_` is `out_` seen from the other end. The properties of the
finished graph say little about the phases before it, so they are not inductive.
The invariant `Inv` adds, phase by phase, what the next one relies on: node
ranges are consecutive and times do not decrease along a trip; `usages` holds
the nodes whose route is in the set; a sorted set has an `order` that is a
sorting of them; every edge is an edge along a trip or between consecutive
usages, so with `NoTies` it goes forward in the order "earlier, or at the same
time with a smaller id in the trip"; consecutive usages of every handled set
are joined; `transitive` holds exactly the transitive edges of the nodes
handled. With `NoTies` that order makes the graph acyclic.
`BasicLemmas` then shows for every finite acyclic graph that erasing all
transitive edges at once keeps reachability (`ReductionKeepsReaches`) and leaves
no transitive edge (`ReductionIsComplete`). `Finished` is the part of the
invariant that states all this about the graph after the erasure.

`ServiceDaysProofs` proves the properties of run `service_days` for every size
of the bitset, length of a day, set of dates, journeys and intervals: first
lemmas about the bitfield (`set`, `merge` and `make_bitfield` keep the bits in
range and denote the intended sets of days; `from`, `to` and `advance` return
the least set bit they look for), then an inductive invariant whose main part
says that while departing `it` is a departure or `end`, and that `end` is behind
every overlapping day. The refinement of `ServiceCalendar` follows step by step.

`ExclusionSetProofs` proves the properties of run `exclusion_set` for any set of
routes and any block size above one. None of them is inductive: that a
difference is right depends on the markers, the range and the bits agreeing. The
invariant `IInv` says it in one phrase, every set is `make_exclusion_set(S)` for
some `S`, and the lemmas say what each operation makes of such sets: `set` of
`make(S)` is `make(S \cup {i})` (`SetOfMake`), and likewise `UnionOfMakes`,
`SubtractOfMakes` and `CompareOfMakes`. They rest on rounding to blocks
(`DownUnique`, `BlocksMoved`: moving by a multiple of the block size changes the
block by the quotient), on which bits the block loops reach (`ClearedCommon`),
and on where `compact` stops (`CompactBuilds`). `Canonical` with
`ok()` (`MadeOk`), `ViewsAgree`, `ComparesInclusion`, `OperationsRight` and the
refinement of `RouteSets` are read off.

`InfrastructureProofs` proves `UsedByExact` for any rail plan and any numbers of
routes and threads, for the infrastructure alone (`ExclusionSpec`) and together
with the timetable (`TimetableSpec`). The inductive invariant says of every
thread where in its batch it is and that its results are the users among the
routes of the batch before that. That the batches cover every route, with the
last thread taking what the division leaves, is `EveryRouteInBatch`; that they
stay within the routes is `BatchFacts`. The stages before matter only in that
none of them leads past the start of the threads (`StepsBefore`).

The same module proves `TrainsAreParsedOnce` for any directory and any number of
parser threads. The invariant `ParsingInv` says that what is left of a work item
is the end of its file, that the trains in it are those kept of the trains
parsed before, one behind the other, that as many errors are counted as trains
were parsed and not kept, and that an item which was taken and has something
left is one a thread still works on, so that at the end nothing is left. That
joining the items keeps every train whole follows from lemmas about flattening
(`FlattenJoins` and `FlattenOneMore` of `BasicLemmas`), which is defined
recursively: the sequence of partial results exists by induction over the number
of items. A directory is a sequence of files of sequences of trains
(`DirectoriesAssumption`).

Third, it proves `RoutesFromSignalToSignal` for any rail plan, and without the
bound on the length of a route that the run needs: when the mappings are filled,
`interlocking.routes` are exactly the routes `IsInterlockingRoute` describes
(`RoutesBetweenSignals`, `EveryRouteIsFound`), also on plans whose station routes
form a circle. The invariant `RouteInv` says that the routes found so far are
right and each there once (`AllRight`), that all that begin on a station route
before the one at hand are found (`AllBefore`), and, in the middle of the
recursion, that every route over several station routes that begins with
`current` is found, or its chain continues the chain of exactly one pending call
(`Searching`). No pending chain is the beginning of another, hence "once". A call
that completes a route accounts for all that continue its chain, since nothing
behind it can be inside a route (`CompleteFacts`); one that goes on hands the
rest to its successors; one that meets a station route for ETCS only drops
none. The types this needs of the station routes and their links (`Typed`) hold of
whatever `calculate_station_routes` makes. Of the rail plan only this is assumed:
it has finitely many routes, named by numbers (`RoutesAssumption`).

Fourth, it proves `PathsFollowCourses` for any rail plan
(`EveryPathFollowsItsCourse`). What `get_path` returns is a walk, and each of its
steps follows `ahead_on_course` (`WalkRight`); that it counts decisions as the
course does, once per switch, needs that a node with a branch is one of a switch.
So `GraphInv` says of the graph, section by section while it is built, that an
element keeps the id and the type the rail plan gives it and that only crosses
have arcs (`GraphRight`), whatever is described, inserted or connected
afterwards, and then that only switches have branches (`NodesRight`). A route
that uses the path made for another is served as well as by its own
(`SharedPathFollows`): `same_path` compares what the path depends on. Of the rail
plan it is assumed that sections are finite and end at ports their last elements
have (`PlansAssumption`).

Fifth, it proves `ExclusionGraphRight` for any rail plan and any number of
threads (`ExclusionGraphByClaims`): the exclusion graph joins exactly the routes
that claim a common element and of which neither follows the other
(`ExclusionByClaims`), hence mutually (`ExclusionSymmetric`). The algorithm
behind it is `multi_set_merge`, which skips what is not greater than the end of
its result. `MergeOK` says of every step that the result has members of the
lists only, and all of those that a range has passed or that are not greater
than its last; the places that the ranges have not passed get fewer with each
step while the queue is not empty (`LeftShrinks`), so that after as many steps
as there are places it is (`MergesRight`). Subtracting what follows a route is
right because both ends of a route are nodes of the graph (`EndsKnown`, for
which `GraphInv` is needed again) and the mappings lead from every node to
exactly the routes that start or end there (`Mapped`). `LinkInv` carries these
facts from the station routes to the exclusion graph, `Inv` adds that the users
are the claimers. Whether routes over common track have a common claim
(`CommonTrackExcludes`) stays with TLC.

Sixth, it proves `ViewsAgree` for any rail plan (`AllViewsAgree`): the code has
five ways to say which nodes are on an interlocking route, and each counts by a
rule of its own. `from_to` walks along a station route with a cursor into its
omitted nodes. `SeenOneMore` is the invariant of that walk: the cursor stands
behind exactly the omitted nodes before the walk, so that comparing it by equality
is enough (`FromToRight`; `BelowAreFirst` says that the fast forward starts it
there). The parts of a route are joined (`IterateMembers`, `IterateEnds`),
`ir_size` adds up whole station routes and subtracts what is cut off at the ends
(`IterateSize`), `contains` distinguishes the first, the last and the station
routes between (`ContainsRight`). A mapping lists a route as often as it meets a
place, and hence exactly if it is there (`RepeatedIds`, `GetInterlockingMaps`). All
of them are compared with the places of the route (`PlacesRight`). `ViewInv` keeps,
from the station routes on, that halts and omitted nodes are places on their
station route (`RoutesMade`) and that stations are stations of the rail plan
(`StationsKnown`), and then what the mappings hold (`MapsRight`); that a route
leads over station routes at all is `RouteInv`, that its nodes are nodes `LinkInv`.

`GraphTraversalProofs` proves, for every graph, what the algorithms of run
`traversal` claim. The invariant `Inv` of
the traversal is shared by its clients: what is in `seen` was reached from the
source; no node is in the queue twice; a node in `seen` that is not in the queue
has been called back with once and its edges lead to `seen`, those still
`pending` excepted. A queue that has run empty therefore leaves `seen` closed,
and `seen` is what can be reached (`EmptyQueue`, hence `CallsBackOnce`); neither
argument depends on the queue being a queue or a stack. On top of it each client
has an invariant of its own. `DepthInv` says that a node is deeper than 1 as
soon as a node is handled that was reached over an edge and has it as a
neighbour, and only if there is such a node. `ExclusionInv` says which pairs are
settled, and that a search back that has not stopped has not met `start`.
`CycleInv` says of `has_cycle` that the stack is a path, that finished nodes are
closed and have no cycle among them, and that a neighbour a frame is past is
finished or on top of it. `CyclesInv` is about `get_cycles`, and the one that
needs the queue to be a queue: the depths in it ascend by one at most, so that an
edge leads at most one level down, `prev` leads one level up, and the way back
from the node that met the source is a shortest cycle, without a short cut.

`ServerStartProofs` proves `RegenerateRecovers` for any infrastructures and
timetables, with any number of starts, kills and changed sources before. What
the files hold when the start begins does not occur in the invariant: it says
only of the files the start is past that they hold the version that is served,
whole or still being written (`Made`), and stage by stage which those are.

`RunningTimeProofs` proves `EventsInOrder` for any trains that run from halt to
halt and stand at halts at different places (`TrainsAssumption`). The invariant
follows the events through the calculation. While the nodes are scanned and
while limits are lowered, the borders of the interval list ascend, every recorded
node is in the events of one interval, in order and between its borders, and a
stop is at the border of its interval (`ListInv`); inserting a limit changes
nothing but limits (`InsertOK`, `LoweredOK`). Acceleration, coasting and braking
each give results tick by tick, so that an event further along comes no earlier
(`EventTimeGrows`); and the phases of an interval that does not fail cover its
whole length (`PhasesRight`, `BrakingPhase`), so that the failure "Could not find
event time in phases" (`runtime.cc:178`) cannot occur. `TimesInv` says that the
stamps are those of the intervals that are done, in order, none later than
`current`. The order of the stamps is what an assertion in `runtime.cc:267` says
that is commented out because of elements at the same place; for nodes further
along it holds.

Assumptions are the named `ASSUME`s of the modules, which TLC evaluates in the
runs. The proofs contain no unproved step.

Model-checked only: of the infrastructure, what is computed by recursive
searches over the graph, `SectionsArePaths`, `ThroughElements`,
`ReverseAheadRight` and `RoutesOnTracks` (that the routes are linked along the
tracks, and that those over common track exclude each other),
`TrainsFollowTheirStops` and `PathsComeToAnEnd`; and the types of all five
modules together (`TypeOK` of `Exclusion`). `Terminates` and `Finishes` are
liveness properties. The refuted claims are of course not theorems.

## Not modelled

- Reading XML and CSV (attributes, dates, names), rolling stock, the meta data
  of lines: conversion of data without state.
- Layout and coordinates: geometry on floating point numbers.
- The formulas of the running time calculation: floating point. The model has
  constant acceleration in whole numbers and keeps the control around it.
- `sim_graph` and `dpd`: unfinished, central functions end in an assertion "Not
  implemented".
- The handlers of the web server: they read immutable data one after the other.
- The web client: TypeScript stores in a browser. Answers that arrive out of
  order are a hazard there (see `PROJECT.json`), but nothing of it is kept.
- Printing, statistics and logging everywhere.
- Hazards that no property covers have a note in `PROJECT.json` that says why,
  among them 0 threads, a circle of station routes without any main signal, on
  which `fill_paths` never returns, and starts of the server without
  `--regenerate`.
- Reads behind the end of a container are modelled as a crash or as finding
  nothing (`Timetable`); other undefined behaviour is excluded by assumptions
  that are named above.
