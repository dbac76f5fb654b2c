----------------------------- MODULE MCTrainPlans -----------------------------
(***************************************************************************)
(* Rail plans and timetables.  Four stations in a row, all tracks measured *)
(* in the direction of travel.  In the first, two tracks with a halt and a *)
(* main signal each join at a switch.  The second has a halt and a runtime *)
(* checkpoint, the third an in route to a halt, an out route from there    *)
(* and a through route, the last a track end.  Every set of the main       *)
(* signals is there; without those of the second station, a train can pass *)
(* it on one interlocking route.  Or there is a single track only, with a  *)
(* single route through each station.  And two stations in a ring, with    *)
(* main signals in the second and, or not, in the first.                   *)
(*                                                                         *)
(* The timetables: one train for every sequence of routes that follow each *)
(* other and for some that do not, with halts, transit times or nothing    *)
(* in between; and files with trains of every kind of error for several    *)
(* threads.  On the ring, one train for up to five station routes round it,*)
(* and for two sequences that do not follow each other.                    *)
(***************************************************************************)
EXTENDS Integers, SequencesExt

LOCAL Plans == INSTANCE MCRailPlans

StationRoute(station, name, start, end, course) ==
  [station |-> station, name |-> name, start |-> start, end |-> end,
   course |-> course, omitted |-> {}, passenger_halt |-> 0, freight_halt |-> 0,
   runtime_checkpoint |-> 0, speed_limits |-> {}, publish_only |-> FALSE]

TrackType ==
  (20 :> "MAIN_SIGNAL") @@ (21 :> "HALT") @@ (22 :> "MAIN_SIGNAL") @@
  (23 :> "HALT") @@ (24 :> "HALT") @@ (25 :> "RUNTIME_CHECKPOINT") @@
  (26 :> "MAIN_SIGNAL") @@ (27 :> "MAIN_SIGNAL") @@ (28 :> "HALT") @@
  (29 :> "MAIN_SIGNAL") @@ (30 :> "HALT") @@ (31 :> "HALT")

TrackKm ==
  (20 :> 6) @@ (21 :> 4) @@ (22 :> 5) @@ (23 :> 3) @@ (24 :> 7) @@ (25 :> 5) @@
  (26 :> 8) @@ (27 :> 2) @@ (28 :> 4) @@ (29 :> 6) @@ (30 :> 7) @@ (31 :> 5)

Signals == {20, 26, 27, 29}

Halting(r, passenger, freight) ==
  [r EXCEPT !.passenger_halt = passenger, !.freight_halt = freight]

Sections(present) ==
  LET section(station, line, start, end, track) ==
        Plans!Section(station, line, start, end,
                      track \ (Signals \ present), FALSE)
  IN  <<section(1, 1, <<1, "end">>, <<3, "stem">>, {20, 21}),
        section(1, 2, <<2, "end">>, <<3, "branch">>, {22, 23}),
        section(1, 1, <<3, "start">>, <<4, "start">>, {}),
        section(2, 1, <<5, "start">>, <<6, "start">>, {24, 25, 26}),
        section(3, 1, <<7, "start">>, <<8, "start">>, {27, 28, 29, 30}),
        section(4, 1, <<9, "start">>, <<10, "end">>, {31})>>

Routes ==
  <<Halting(StationRoute(1, 1, 1, 4, <<"STEM">>), 21, 21),
    Halting(StationRoute(1, 2, 2, 4, <<"STEM">>), 23, 0),
    [Halting(StationRoute(2, 1, 5, 6, <<>>), 24, 24)
       EXCEPT !.runtime_checkpoint = 25],
    Halting(StationRoute(3, 1, 7, 28, <<>>), 28, 0),
    Halting(StationRoute(3, 2, 28, 8, <<>>), 30, 30),
    Halting(StationRoute(3, 3, 7, 8, <<>>), 30, 28),
    Halting(StationRoute(4, 1, 9, 10, <<>>), 31, 31)>>

SingleTrack == {1, 3, 6, 7}

OnSingleTrack == [j \in 1..4 |-> Routes[<<1, 3, 6, 7>>[j]]]

Neighbour(s) == [station |-> s, track_sign |-> 1]

TrainPlans ==
  {[type        |-> <<"BUMPER", "BUMPER", "SIMPLE_SWITCH", "BORDER", "BORDER",
                      "BORDER", "BORDER", "BORDER", "BORDER", "TRACK_END">>
                    @@ TrackType,
    km          |-> TrackKm, rising |-> [rp \in DOMAIN TrackType |-> TRUE],
    sections    |-> Sections(present), arcs |-> {},
    beyond      |-> (4 :> Neighbour(2)) @@ (5 :> Neighbour(1)) @@
                    (6 :> Neighbour(3)) @@ (7 :> Neighbour(2)) @@
                    (8 :> Neighbour(4)) @@ (9 :> Neighbour(3)),
    routes      |-> routes,
    unsignalled |-> {}]
   : present \in SUBSET Signals, routes \in {Routes, OnSingleTrack}}

\* Two stations in a ring, the second with signals on either side of its halt.
RingPlans ==
  {[type        |-> <<"BORDER", "BORDER", "BORDER", "BORDER">> @@ TrackType,
    km          |-> TrackKm, rising |-> [rp \in DOMAIN TrackType |-> TRUE],
    sections    |->
      <<Plans!Section(1, 1, <<1, "start">>, <<2, "start">>, {24} \cup first, FALSE),
        Plans!Section(2, 1, <<3, "start">>, <<4, "start">>, {28} \cup second, FALSE)>>,
    arcs        |-> {},
    beyond      |-> (1 :> [station |-> 2, track_sign |-> 2]) @@
                    (2 :> Neighbour(2)) @@ (3 :> Neighbour(1)) @@
                    (4 :> [station |-> 1, track_sign |-> 2]),
    routes      |-> <<Halting(StationRoute(1, 1, 1, 2, <<>>), 24, 24),
                      Halting(StationRoute(2, 2, 3, 4, <<>>), 28, 28)>>,
    unsignalled |-> {}]
   : first \in SUBSET {20}, second \in SUBSET {27, 29} \ {{}}}

-----------------------------------------------------------------------------
\* The routes that follow each other, and sequences that no train can run.
Next == {<<1, 3>>, <<2, 3>>, <<3, 4>>, <<3, 6>>, <<4, 5>>, <<5, 7>>, <<6, 7>>}

Chained ==
  {c \in UNION {[1..n -> 1..7] : n \in 2..5} :
     \A j \in 1..(Len(c) - 1) : <<c[j], c[j + 1]>> \in Next}

Unchained == {<<1, 4>>, <<3, 5>>, <<1, 3, 3>>, <<2, 4, 5>>, <<3, 1>>, <<1, 3, 7>>}

Stop(k, type, departure) ==
  [station |-> Routes[k].station, route |-> Routes[k].name, type |-> type,
   departure |-> departure]

Stops(k) ==
  {Stop(k, "PASSENGER", TRUE), Stop(k, "TRANSIT", FALSE)}
  \cup {Stop(k, "TRANSIT", TRUE) : x \in {3} \cap {k}}

Halts(c) == [j \in DOMAIN c |-> Stop(c[j], "PASSENGER", TRUE)]

Sequences(c) ==
  {p \in [DOMAIN c -> UNION {Stops(k) : k \in Range(c)}] :
     \A j \in DOMAIN c : p[j] \in IF j \in {1, Len(c)} THEN {Halts(c)[j]}
                                  ELSE Stops(c[j])}

Construction(number, points, freight) ==
  [number |-> number, points |-> points, freight |-> freight, ctc |-> FALSE,
   break_in |-> FALSE, break_out |-> FALSE, vehicles_known |-> TRUE]

Train(constructions) == [status |-> "freig", constructions |-> constructions]

File(trains) == [kss |-> TRUE, version_matches |-> TRUE, trains |-> trains]

SingleTrains(chains) ==
  {<<File(<<Train(<<Construction(1, p, freight)>>)>>)>> :
     p \in UNION {Sequences(c) : c \in chains}, freight \in BOOLEAN}

Good(number) == Construction(number, Halts(<<1, 3, 6, 7>>), FALSE)

\* One construction train for each error.
Faulty ==
  <<[Good(21) EXCEPT !.ctc = TRUE],
    [Good(22) EXCEPT !.break_in = TRUE],
    [Good(23) EXCEPT !.break_out = TRUE],
    [Good(24) EXCEPT !.vehicles_known = FALSE],
    [Good(25) EXCEPT !.points = <<>>],
    [Good(26) EXCEPT !.points[1].type = "TRANSIT"],
    [Good(27) EXCEPT !.points[4].type = "TRANSIT"],
    [Good(28) EXCEPT !.points[2].station = 9],
    [Good(29) EXCEPT !.points[2].route = 9],
    [Good(30) EXCEPT !.points[3].type = "TRANSIT"]>>

NotKss == [File(<<Train(<<Good(4)>>)>>) EXCEPT !.kss = FALSE]

ManyFiles ==
  <<File(<<Train(<<Good(1), Good(2)>>), Train(<<Good(3), Faulty[1]>>)>>),
    NotKss,
    File([i \in 1..(Len(Faulty) - 1) |-> Train(<<Faulty[i + 1]>>)]),
    File(<<[Train(<<Good(5)>>) EXCEPT !.status = "bearb"], Train(<<Good(6)>>)>>)>>

\* Trains round the ring, and two whose stops do not follow each other.
RingStop(k, type) == [station |-> k, route |-> k, type |-> type, departure |-> FALSE]

Rounds(n) == {[j \in 1..n |-> 1 + ((j + k) % 2)] : k \in 0..1}

RingSequences ==
  {[j \in DOMAIN c |-> RingStop(c[j], IF j \in {1, Len(c)} THEN "PASSENGER" ELSE type)]
   : c \in UNION {Rounds(n) : n \in 2..5} \cup {<<2, 2, 1>>, <<1, 2, 2>>},
     type \in {"PASSENGER", "TRANSIT"}}

RingTrains ==
  {<<File(<<Train(<<Construction(1, p, FALSE)>>)>>)>> : p \in RingSequences}

Timetables(plan) ==
  IF plan \in RingPlans THEN RingTrains
  ELSE IF plan.routes = Routes
  THEN SingleTrains(Chained \cup Unchained) \cup
       {ManyFiles, [ManyFiles EXCEPT ![1].version_matches = FALSE], <<NotKss>>}
  ELSE SingleTrains({c \in Chained : Range(c) \subseteq SingleTrack})
=============================================================================
