------------------------------ MODULE Timetable ------------------------------
(***************************************************************************)
(* The timetable: parse_kss_timetable.cc in src/timetable/parsers/kss,     *)
(* station_route_to_interlocking_route.cc in src/timetable/parsers, and    *)
(* the iteration of a train in src/timetable/train.cc.                     *)
(*                                                                         *)
(* The files of a directory are parsed by several threads, each into its   *)
(* own work item.  A train of a file is a list of construction trains: all *)
(* of them are taken over, or the first error is counted.  A construction  *)
(* train names its stops by station and station route; the parser looks    *)
(* for the interlocking routes that lead over these station routes, always *)
(* taking the one that agrees with the stops for longest.                  *)
(*                                                                         *)
(* offset and node_idx are the cover of the code: the stop up to which the *)
(* path has come, from 1, and the last index of the path in its station    *)
(* route.  Times matter only as to whether they are given; the service     *)
(* days are the subject of ServiceDays.  Break in and break out are        *)
(* rejected before the path is looked for, and their branches left out.    *)
(* Assertions are those of a release build: none.                          *)
(***************************************************************************)
EXTENDS Exclusion

CONSTANTS
  Directories(_),  \* rail plan -> the timetables to read: sequences of files
  Parsers          \* the threads of parallel_for_run

\* Directories, files and trains hold their parts in order.
InOrder(d) ==
  /\ d \in Seq(Range(d))
  /\ \A f \in Range(d) :
       /\ f.trains \in Seq(Range(f.trains))
       /\ \A x \in Range(f.trains) : x.constructions \in Seq(Range(x.constructions))

ASSUME DirectoriesAssumption ==
  \A plan \in Networks : \A d \in Directories(plan) : InOrder(d)

VARIABLES
  directory,
  work_todo,  \* the work items: trains parsed, and trains left in the file
  taken,      \* the number of work items taken
  item_of,    \* thread -> its work item, or none
  stats,      \* error -> how often it was counted
  timetable   \* the trains, or why there are none

parsing_vars   == <<work_todo, taken, item_of, stats>>
timetable_vars == <<directory, parsing_vars, timetable>>

NoItem == 0

-----------------------------------------------------------------------------
(***************************************************************************)
(* Sequence points.                                                        *)
(***************************************************************************)
is_halt(p) == p.type # "TRANSIT"
has_transit_time(p) == ~is_halt(p) /\ p.departure
is_measurable(p) == has_transit_time(p) \/ is_halt(p)

route_of(p) == station_routes[p.station_route]

get_halt_idx(sr, freight) ==
  IF freight THEN sr.freight_halt ELSE sr.passenger_halt

get_node_idx(p, freight) ==
  IF has_transit_time(p) THEN route_of(p).runtime_checkpoint
  ELSE IF is_halt(p) THEN get_halt_idx(route_of(p), freight)
  ELSE NoIdx

point_node(p, freight) == route_of(p).path.nodes[get_node_idx(p, freight)]

-----------------------------------------------------------------------------
(***************************************************************************)
(* transform_to_interlocking.                                              *)
(***************************************************************************)
get_prefix_length(ir, points, offset) ==
  Max({m \in 0..Min({Len(ir.station_routes), Len(points) - offset + 1}) :
         \A j \in 1..m :
           ir.station_routes[j] = points[offset + j - 1].station_route})

\* The candidates with the longest prefix, and its length.
get_longest_prefix_interlocking_routes(candidates, points, offset) ==
  LET length(id) == get_prefix_length(interlocking.routes[id], points, offset)
      longest    == Max({0} \cup {length(id) : id \in Range(candidates)})
  IN  [length |-> longest,
       routes |-> SelectSeq(candidates, LAMBDA id : length(id) = longest)]

\* The intersection of two sorted lists.
intersect(c1, c2) ==
  LET kept == Indices([k \in DOMAIN c1 |-> k],
                      LAMBDA k : Occurrences(SubSeq(c1, 1, k), c1[k])
                                   <= Occurrences(c2, c1[k]))
  IN  [j \in DOMAIN kept |-> c1[kept[j]]]

\* A mutant of covers: only that the last station route has been reached.
covers_route(t, points, freight) == t.offset \notin 1..(Len(points) - 1)

\* Whether the path has come to the halt of the last stop.
covers(t, points, freight) ==
  /\ t.offset \notin 1..(Len(points) - 1)
  /\ t.node_idx >= get_halt_idx(route_of(Last(points)), freight)

starting_candidates(p, last) ==
  LET participating == interlocking.sr_to_participating_irs[p.station_route]
  IN  IF last = NoNode THEN participating
      ELSE intersect(participating, interlocking.starting_at[last])

halting_candidates(candidates, t, p, freight) ==
  IF \/ Len(candidates) = 1
     \/ ~is_halt(p)
     \/ get_node_idx(p, freight) <= t.node_idx
  THEN candidates
  ELSE intersect(candidates, interlocking.halting_at[point_node(p, freight)])

\* The routes that can come next, last being the node the path ends at.
get_candidates(t, points, last, freight) ==
  halting_candidates(starting_candidates(points[t.offset], last),
                     t, points[t.offset], freight)

get_sequence_points(ir, points, freight, first, last) ==
  SelectSeq(SubSeq(points, first, last), LAMBDA p :
    LET idx == get_node_idx(p, freight)
    IN  idx # NoIdx /\ contains(ir, p.station_route, idx))

\* The path so far, "running", "done" or the error, and whether a stop behind
\* the last one has been read.
NoCover == [status |-> "running", overrun |-> FALSE, path |-> <<>>,
            sequence_points |-> <<>>, offset |-> 1, node_idx |-> NoIdx]

Failed(error) == [NoCover EXCEPT !.status = error]

first_offset(ir, points, length) ==
  IF length > 0 THEN length
  ELSE Len(ir.station_routes)
       - (CHOOSE j \in DOMAIN ir.station_routes :
            /\ ir.station_routes[j] = points[1].station_route
            /\ \A i \in 1..(j - 1) : ir.station_routes[i] # ir.station_routes[j]) + 1

begin_path(id, points, freight, offset) ==
  LET ir == interlocking.routes[id]
  IN  [status          |-> "running",
       overrun         |-> offset > Len(points),
       path            |-> <<id>>,
       sequence_points |-> get_sequence_points(ir, points, freight, 1,
                                               Min({offset, Len(points)})),
       offset          |-> offset,
       node_idx        |-> ir.end]

choose_first_ir(found, points, freight) ==
  IF found.routes = <<>> THEN Failed("NO_FIRST_IR")
  ELSE IF Len(found.routes) > 1 THEN Failed("NO_UNIQUE_FIRST_IR")
  ELSE begin_path(found.routes[1], points, freight,
                  first_offset(interlocking.routes[found.routes[1]], points,
                               found.length))

get_first_ir(points, freight) ==
  choose_first_ir(
    get_longest_prefix_interlocking_routes(
      get_candidates(NoCover, points, NoNode, freight), points, 1),
    points, freight)

ends_align(ir, p) == last_node(ir) = last_of(route_of(p))

\* A mutant of append_route: the last station route is never done with.
append_route_again(t, id, points, freight, length) ==
  LET ir == interlocking.routes[id]
  IN  [t EXCEPT
         !.path = Append(@, id),
         !.sequence_points = @ \o
            get_sequence_points(ir, points, freight, t.offset, t.offset + length - 1),
         !.offset = @ + length - 1,
         !.node_idx = ir.end]

append_route(t, id, points, freight, length) ==
  LET ir    == interlocking.routes[id]
      added == [t EXCEPT
                  !.path = Append(@, id),
                  !.sequence_points = @ \o
                     get_sequence_points(ir, points, freight, t.offset,
                                         t.offset + length - 1)]
  IN  IF t.offset + Len(ir.station_routes) - 1 > Len(points)
      THEN [added EXCEPT !.status = "done"]
      ELSE [added EXCEPT
              !.offset = @ + length - IF ends_align(ir, points[t.offset]) THEN 0 ELSE 1,
              !.node_idx = ir.end]

choose_next_ir(t, found, points, freight) ==
  IF found.routes = <<>> THEN Failed("NO_IR")
  ELSE IF Len(found.routes) > 1 THEN Failed("NO_UNIQUE_IR")
  ELSE append_route(t, found.routes[1], points, freight, found.length)

\* One round of the loop.
transform_round(t, points, freight) ==
  IF t.status # "running" THEN t
  ELSE IF covers(t, points, freight) THEN [t EXCEPT !.status = "done"]
  ELSE IF t.offset \notin DOMAIN points THEN [Failed("NO_IR") EXCEPT !.overrun = TRUE]
  ELSE choose_next_ir(t,
         get_longest_prefix_interlocking_routes(
           get_candidates(t, points,
                          last_node(interlocking.routes[Last(t.path)]), freight),
           points, t.offset),
         points, freight)

\* The loop of the code has no bound.  What follows a round hangs on its offset
\* and its last route only: a path that is still running after a round for each
\* pair of them has come back to one, and runs on for ever.
rounds(points) == Len(points) * Len(interlocking.routes) + 1

transform_to_interlocking(points, freight) ==
  FoldLeft(LAMBDA t, i : transform_round(t, points, freight),
           get_first_ir(points, freight), [i \in 1..rounds(points) |-> i])

-----------------------------------------------------------------------------
(***************************************************************************)
(* Parsing of trains.                                                      *)
(***************************************************************************)
NoError == "none"

FirstError(errors) ==
  LET wrong == {j \in DOMAIN errors : errors[j] # NoError}
  IN  IF wrong = {} THEN NoError ELSE errors[Min(wrong)]

Fails(condition, error) == IF condition THEN error ELSE NoError

\* The station routes of this name.
named(x) ==
  {k \in DOMAIN station_routes : /\ station_routes[k].station = x.station
                                 /\ station_routes[k].name = x.route}

sequence_error(xs) ==
  FirstError([j \in DOMAIN xs |->
    IF \A s \in Range(network.sections) : s.station # xs[j].station
    THEN "STATION_NOT_FOUND"
    ELSE Fails(named(xs[j]) = {}, "STATION_ROUTE_NOT_FOUND")])

parse_sequence(xs) ==
  [j \in DOMAIN xs |->
     [type |-> xs[j].type, departure |-> xs[j].departure,
      station_route |-> CHOOSE k \in named(xs[j]) : TRUE]]

point_error(p, freight) ==
  FirstError(<<
    Fails(is_halt(p) /\ get_halt_idx(route_of(p), freight) = NoIdx,
          "STOP_IS_HALT_BUT_STATION_ROUTE_NO_HALT"),
    Fails(has_transit_time(p) /\ route_of(p).runtime_checkpoint = NoIdx,
          "TRANSIT_TIME_BUT_NO_RUNTIME_CHECKPOINT")>>)

is_supported(c, points) ==
  FirstError(<<
    Fails(c.ctc, "CTC_NOT_SUPPORTED"),
    Fails(Len(points) < 2, "SINGLE_STOP_NOT_SUPPORTED"),
    Fails(c.break_in, "BREAK_IN_NOT_SUPPORTED"),
    Fails(c.break_out, "BREAK_OUT_NOT_SUPPORTED"),
    Fails(points # <<>> /\ ~is_halt(points[1]), "FIRST_STOP_NO_HALT_NOT_SUPPORTED"),
    Fails(points # <<>> /\ ~is_halt(Last(points)), "LAST_STOP_NO_HALT_NOT_SUPPORTED")>>
    \o [j \in DOMAIN points |-> point_error(points[j], c.freight)])

\* The train of a construction train, and the error, whose path has been found.
make_train(c, t) ==
  [overrun |-> t.overrun,
   endless |-> t.status = "running",
   error |-> IF t.status = "done" THEN NoError ELSE t.status,
   train |-> [number |-> c.number, freight |-> c.freight, path |-> t.path,
              sequence_points |-> t.sequence_points]]

NoTrain(error) ==
  [overrun |-> FALSE, endless |-> FALSE, error |-> error, train |-> Null]

transform_if_supported(c, points) ==
  IF is_supported(c, points) # NoError THEN NoTrain(is_supported(c, points))
  ELSE make_train(c, transform_to_interlocking(points, c.freight))

parse_construction_train(c) ==
  IF sequence_error(c.points) # NoError THEN NoTrain(sequence_error(c.points))
  ELSE IF ~c.vehicles_known THEN NoTrain("TRACTION_VEHICLE_NOT_FOUND")
  ELSE transform_if_supported(c, parse_sequence(c.points))

\* A mutant of parse_kss_train: what was parsed before an error is kept.
parse_kss_train_partly(x) ==
  LET parsed == [j \in DOMAIN x.constructions |->
                   parse_construction_train(x.constructions[j])]
      ok     == SelectSeq(parsed, LAMBDA r : r.error = NoError)
  IN  [overrun |-> FALSE, endless |-> FALSE,
       error   |-> IF x.status # "freig" THEN "WORKED_ON_TRAIN"
                   ELSE FirstError([j \in DOMAIN parsed |-> parsed[j].error]),
       trains  |-> [j \in DOMAIN ok |-> ok[j].train]]

\* All trains of an element of the file, or the first error; what is behind it
\* is not parsed any more.
all_or_error(parsed) ==
  LET error   == FirstError([j \in DOMAIN parsed |-> parsed[j].error])
      reached == {j \in DOMAIN parsed : \A i \in 1..(j - 1) : parsed[i].error = NoError}
  IN  [overrun |-> \E j \in reached : parsed[j].overrun,
       endless |-> \E j \in reached : parsed[j].endless,
       error   |-> error,
       trains  |-> IF error # NoError THEN <<>>
                   ELSE [j \in DOMAIN parsed |-> parsed[j].train]]

parse_kss_train(x) ==
  IF x.status # "freig"
  THEN [overrun |-> FALSE, endless |-> FALSE, error |-> "WORKED_ON_TRAIN",
        trains |-> <<>>]
  ELSE all_or_error([j \in DOMAIN x.constructions |->
                       parse_construction_train(x.constructions[j])])

-----------------------------------------------------------------------------
(***************************************************************************)
(* The directory and the threads.  The version that the timetable is made  *)
(* for is that of the first file of the directory, whatever it is.         *)
(***************************************************************************)
is_kss_file(f) == f.kss

kss_files(d) ==
  FlattenSeq([i \in DOMAIN d |-> IF is_kss_file(d[i]) THEN <<d[i]>> ELSE <<>>])

reject(error) ==
  /\ timetable' = [error |-> error, trains |-> <<>>]
  /\ stage' = "parsed"
  /\ UNCHANGED parsing_vars

open_directory ==
  /\ stage = "exclusion"
  /\ directory' \in Directories(network)
  /\ LET files == kss_files(directory') IN
     \/ files = <<>> /\ reject("UNKNOWN_SOURCE_TYPE")
     \/ /\ files # <<>> /\ ~directory'[1].version_matches
        /\ reject("INFRASTRUCTURE_VERSION_MISMATCH")
     \/ /\ files # <<>> /\ directory'[1].version_matches
        /\ work_todo' = [i \in DOMAIN files |->
                           [trains |-> <<>>, left |-> files[i].trains]]
        /\ stage' = "work"
        /\ UNCHANGED <<taken, item_of, stats, timetable>>
  /\ UNCHANGED <<graph_vars, route_vars, ir_vars, exclusion_vars>>

infra_vars == <<graph_vars, route_vars, ir_vars, exclusion_vars>>

take_item(p) ==
  /\ stage = "work" /\ item_of[p] = NoItem /\ taken < Len(work_todo)
  /\ taken' = taken + 1
  /\ item_of' = [item_of EXCEPT ![p] = taken + 1]
  /\ UNCHANGED <<infra_vars, stage, directory, work_todo, stats, timetable>>

\* The number of errors of a kind grows by one.
count(errors, error) ==
  [e \in DOMAIN errors \cup {error} |->
     IF e # error THEN errors[e]
     ELSE IF error \in DOMAIN errors THEN errors[error] + 1 ELSE 1]

(***************************************************************************)
(* A parser parses the next train.  What it reads behind the last stop is  *)
(* undefined: either the program crashes, or it takes it for a stop that   *)
(* no route leads over.  From a path that never ends the parser does not   *)
(* return: the path grows until there is no memory left.                   *)
(***************************************************************************)
next_train(p) == Head(work_todo[item_of[p]].left)

crash(p) ==
  /\ stage = "work" /\ item_of[p] # NoItem
  /\ work_todo[item_of[p]].left # <<>>
  /\ LET result == parse_kss_train(next_train(p))
     IN  result.overrun \/ result.endless
  /\ stage' = "crashed"
  /\ UNCHANGED <<infra_vars, timetable_vars>>

parse_train(p) ==
  /\ stage = "work" /\ item_of[p] # NoItem
  /\ work_todo[item_of[p]].left # <<>>
  /\ LET result == parse_kss_train(next_train(p)) IN
     /\ ~result.endless
     /\ work_todo' = [work_todo EXCEPT ![item_of[p]] =
                        [trains |-> @.trains \o result.trains, left |-> Tail(@.left)]]
     /\ stats' = IF result.error = NoError THEN stats ELSE count(stats, result.error)
  /\ UNCHANGED <<infra_vars, stage, directory, taken, item_of, timetable>>

finish_item(p) ==
  /\ stage = "work" /\ item_of[p] # NoItem
  /\ work_todo[item_of[p]].left = <<>>
  /\ item_of' = [item_of EXCEPT ![p] = NoItem]
  /\ UNCHANGED <<infra_vars, stage, directory, work_todo, taken, stats, timetable>>

set_ids(trains) ==
  [k \in DOMAIN trains |->
     [id |-> k, number |-> trains[k].number, freight |-> trains[k].freight,
      path |-> trains[k].path, sequence_points |-> trains[k].sequence_points]]

finish_timetable ==
  /\ stage = "work" /\ taken = Len(work_todo)
  /\ \A p \in Parsers : item_of[p] = NoItem
  /\ timetable' = [error  |-> NoError,
                   trains |-> set_ids(FlattenSeq([i \in DOMAIN work_todo |->
                                                    work_todo[i].trains]))]
  /\ stage' = "parsed"
  /\ UNCHANGED <<infra_vars, directory, parsing_vars>>

-----------------------------------------------------------------------------
TimetableInit ==
  /\ ExclusionInit
  /\ directory = <<>> /\ work_todo = <<>> /\ taken = 0
  /\ item_of = [p \in Parsers |-> NoItem]
  /\ stats = <<>>
  /\ timetable = [error |-> NoError, trains |-> <<>>]

TimetableNext ==
  \/ (ExclusionNext \/ Complete) /\ UNCHANGED timetable_vars
  \/ open_directory
  \/ \E p \in Parsers : take_item(p) \/ parse_train(p) \/ crash(p) \/ finish_item(p)
  \/ finish_timetable

vars == <<infrastructure_vars, timetable_vars>>

Parsed == stage \in {"parsed", "crashed"} /\ UNCHANGED vars

TimetableSpec == TimetableInit /\ [][TimetableNext \/ Parsed]_vars

-----------------------------------------------------------------------------
(***************************************************************************)
(* The iteration of a train (train.cc).                                    *)
(***************************************************************************)
\* The place of a station route in an interlocking route.
find(ir, k) ==
  CHOOSE j \in DOMAIN ir.station_routes :
    /\ ir.station_routes[j] = k
    /\ \A i \in 1..(j - 1) : ir.station_routes[i] # k

\* The part of station route k, the i-th of n, between first and last.
ir_part(k, i, n, first, last) ==
  from_to(station_routes[k], IF i = 1 THEN first ELSE 1,
          1 + IF i = n THEN last ELSE size(station_routes[k]))

ir_from_to(ir, from_sr, first, to_sr, last) ==
  LET srs == IF Len(ir.station_routes) = 1 THEN ir.station_routes
             ELSE SubSeq(ir.station_routes, find(ir, from_sr), find(ir, to_sr))
  IN  FlattenSeq([i \in DOMAIN srs |->
                    ir_part(srs[i], i, Len(srs), first, last)])

iterate_train(path, start, start_idx, end, end_idx) ==
  LET n == Len(path)
      part(i) ==
        ir_from_to(path[i],
          IF i = 1 THEN start ELSE path[i].station_routes[1],
          IF i = 1 THEN start_idx ELSE path[i].start + 1,
          IF i = n THEN end ELSE Last(path[i].station_routes),
          IF i = n THEN end_idx ELSE path[i].end)
  IN  FlattenSeq([i \in DOMAIN path |-> part(i)])

nodes_of_train(t) ==
  LET first == t.sequence_points[1]
      last  == Last(t.sequence_points)
  IN  iterate_train([i \in DOMAIN t.path |-> interlocking.routes[t.path[i]]],
                    first.station_route, get_node_idx(first, t.freight),
                    last.station_route, get_node_idx(last, t.freight))

\* How many sequence points have been met when node n is passed.
meet_point(met, t, n) ==
  IF /\ met < Len(t.sequence_points)
     /\ point_node(t.sequence_points[met + 1], t.freight) = n
  THEN met + 1 ELSE met

points_met(t, nodes) ==
  FoldLeft(LAMBDA met, rn : meet_point(met, t, rn.node), 0, nodes)

-----------------------------------------------------------------------------
HasTimetable == stage = "parsed" /\ timetable.error = NoError

\* The construction trains of the directory.
Constructions ==
  UNION {UNION {Range(x.constructions) : x \in Range(f.trains)} :
           f \in Range(kss_files(directory))}

StopsOf(t) ==
  parse_sequence((CHOOSE c \in Constructions : c.number = t.number).points)

\* The j-th route begins with the node at which the one before ends.
Joined(points, j) ==
  route_of(points[j]).path.nodes[1] = last_of(route_of(points[j - 1]))

\* Every station route follows the one before in the station route graph, or
\* begins at the halt where that one ends.
Consecutive(points) ==
  \A j \in 2..Len(points) :
    \/ points[j].station_route \in Range(successors[points[j - 1].station_route])
    \/ Joined(points, j)

\* The route leads over a station route twice.
Repeats(id) ==
  LET srs == interlocking.routes[id].station_routes
  IN  Cardinality(Range(srs)) < Len(srs)

\* The nodes from the first halt to the last along the station routes.
Course(points, freight) ==
  LET n == Len(points)
      part(j) ==
        LET sr    == route_of(points[j])
            first == IF j = 1 THEN get_node_idx(points[1], freight)
                     ELSE IF Joined(points, j) THEN 2 ELSE 1
            last  == IF j = n THEN get_node_idx(points[n], freight) ELSE size(sr)
        IN  SubSeq(sr.path.nodes, first, last)
  IN  FlattenSeq([j \in DOMAIN points |-> part(j)])

(***************************************************************************)
(* A train runs along the station routes of its stops, from the first halt *)
(* to the last, node by node, and meets every stop and every transit time  *)
(* that the file gives, in order: although its path was put together of    *)
(* interlocking routes by the longest prefix                               *)
(* (station_route_to_interlocking_route.cc:272, train.cc:168;              *)
(* train_iterator_test.cc compares the nodes of a train with those of its  *)
(* interlocking routes, not with the file).  Stops that do not follow each *)
(* other have no course; nothing keeps a file from giving them on a ring.  *)
(* A train that ends on an out route behind an in route is the subject of  *)
(* EveryStopOnPath; one on an interlocking route that leads over a station *)
(* route twice, round a ring, has the stops on it twice.                   *)
(***************************************************************************)
TrainsFollowTheirStops ==
  HasTimetable =>
    \A t \in Range(timetable.trains) :
      LET points == StopsOf(t)
          nodes  == nodes_of_train(t)
      IN  /\ Consecutive(points)
          /\ ~Joined(points, Len(points))
          /\ ~\E id \in Range(t.path) : Repeats(id)
          =>
            /\ t.sequence_points = SelectSeq(points, is_measurable)
            /\ [j \in DOMAIN nodes |-> nodes[j].node] = Course(points, t.freight)
            /\ points_met(t, nodes) = Len(t.sequence_points)

(***************************************************************************)
(* The path has every stop and every transit time of the sequence, as      *)
(* transform_to_interlocking asserts before it returns                     *)
(* (station_route_to_interlocking_route.cc:279).                           *)
(***************************************************************************)
EveryStopOnPath ==
  HasTimetable =>
    \A t \in Range(timetable.trains) :
      Len(t.sequence_points) = Len(SelectSeq(StopsOf(t), is_measurable))

(***************************************************************************)
(* The search for the path of a train comes to an end, in a ring of        *)
(* stations as well, if its station routes follow each other: although the *)
(* loop goes on as long as station routes are left, and a route may        *)
(* consume none of them (station_route_to_interlocking_route.cc:224,       *)
(* :272).                                                                  *)
(***************************************************************************)
PathsComeToAnEnd ==
  stage = "work" =>
    \A p \in Parsers : item_of[p] # NoItem /\ work_todo[item_of[p]].left # <<>> =>
      \A c \in Range(next_train(p).constructions) :
        parse_construction_train(c).endless => ~Consecutive(parse_sequence(c.points))

\* The errors that were counted, and the trains of the files.
CountedErrors == UNION {{e} \X (1..stats[e]) : e \in DOMAIN stats}

TrainsOf(files) == UNION {{i} \X DOMAIN files[i].trains : i \in DOMAIN files}

\* The numbers of the construction trains of an element, of the n first
\* elements of a file that are kept, and of all that are kept.
Numbers(trains) == [j \in DOMAIN trains |-> trains[j].number]

KeptNumbers(file, i, n, kept) ==
  FlattenSeq([k \in 1..n |-> IF <<i, k>> \in kept
                             THEN Numbers(file.trains[k].constructions) ELSE <<>>])

AllKeptNumbers(files, kept) ==
  FlattenSeq([i \in DOMAIN files |->
                KeptNumbers(files[i], i, Len(files[i].trains), kept)])

(***************************************************************************)
(* No train is lost, and none is there twice or in part: every train of    *)
(* every file is in the timetable with all its construction trains, or it  *)
(* is counted as one error, and the ids follow the order of the files,     *)
(* whatever the threads do (parse_kss_timetable.cc:575).                   *)
(***************************************************************************)
TrainsAreParsedOnce ==
  HasTimetable =>
    /\ \E kept \in SUBSET TrainsOf(kss_files(directory)) :
         /\ Cardinality(TrainsOf(kss_files(directory)) \ kept)
              = Cardinality(CountedErrors)
         /\ Numbers(timetable.trains) = AllKeptNumbers(kss_files(directory), kept)
    /\ \A k \in DOMAIN timetable.trains : timetable.trains[k].id = k

=============================================================================
