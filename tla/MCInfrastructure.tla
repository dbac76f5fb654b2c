--------------------------- MODULE MCInfrastructure ---------------------------
(***************************************************************************)
(* The rail plans of MCRailPlans, those of MCTrainPlans with timetables,   *)
(* and two others with station routes.  Line: two                          *)
(* tracks with bumpers join at a switch and lead over a border to a        *)
(* station without signals and on to a third one, where a switch leads to  *)
(* a bumper and a track end.  Its sections are measured in either          *)
(* direction, so that signals and halts face either way, main signals are  *)
(* omitted or not, and the station in the middle leads to a line without   *)
(* signals or not.  Circle: two stations, each with a signal, that follow  *)
(* each other for ever.                                                    *)
(***************************************************************************)
EXTENDS Timetable

LOCAL Plans == INSTANCE MCRailPlans
LOCAL Trains == INSTANCE MCTrainPlans

Section(station, line, start, end, track, flipped) ==
  Plans!Section(station, line, start, end, track, flipped)

StationRoute(station, name, start, end, course) ==
  Trains!StationRoute(station, name, start, end, course)

TrackType ==
  (20 :> "MAIN_SIGNAL") @@ (21 :> "HALT") @@ (22 :> "MAIN_SIGNAL") @@
  (23 :> "MAIN_SIGNAL") @@ (24 :> "SPEED_LIMIT") @@ (25 :> "ETCS_START") @@
  (26 :> "LEVEL_CROSSING") @@ (27 :> "MAIN_SIGNAL") @@ (28 :> "MAIN_SIGNAL") @@
  (29 :> "HALT") @@ (30 :> "MAIN_SIGNAL") @@ (31 :> "TUNNEL")

TrackKm ==
  (20 :> 6) @@ (21 :> 4) @@ (22 :> 5) @@ (23 :> 3) @@ (24 :> 5) @@ (25 :> 2) @@
  (26 :> 4) @@ (27 :> 6) @@ (28 :> 8) @@ (29 :> 5) @@ (30 :> 5) @@
  (31 :> 7)

TrackRising == [rp \in DOMAIN TrackType |-> rp \notin {23, 30}]

LineSections(f) ==
  <<Section(1, 1, <<1, "end">>, <<3, "stem">>, {20, 21, 28, 31}, f[1]),
    Section(1, 2, <<2, "end">>, <<3, "branch">>, {22}, f[2]),
    Section(1, 1, <<3, "start">>, <<4, "start">>, {23, 24}, f[1]),
    Section(3, 1, <<9, "start">>, <<10, "start">>, {25}, f[1]),
    Section(2, 1, <<5, "start">>, <<6, "start">>, {26, 27}, f[1]),
    Section(2, 1, <<6, "stem">>, <<7, "end">>, {29}, f[1]),
    Section(2, 2, <<6, "branch">>, <<8, "end">>, {30}, f[2])>>

\* The elements a route away from the bumpers of station 1 passes.
Facing(rps, f) == {rp \in rps : TrackRising[rp] # f[1]}

LineRoutes(omitted, f) ==
  <<[StationRoute(1, 1, 1, 4, <<"STEM">>) EXCEPT !.passenger_halt = 21,
                                                 !.freight_halt   = 21],
    [StationRoute(1, 2, 1, 4, <<"STEM">>) EXCEPT !.omitted = Facing(omitted, f),
                                                 !.speed_limits = Facing({24}, f)],
    [StationRoute(1, 3, 1, 4, <<"STEM">>) EXCEPT !.publish_only = TRUE],
    [StationRoute(1, 4, 2, 4, <<"STEM">>) EXCEPT !.omitted = Facing({24}, f)],
    StationRoute(1, 5, 4, 1, <<"STEM">>),
    StationRoute(1, 6, 4, 2, <<"BRANCH">>),
    StationRoute(3, 7, 9, 10, <<>>),
    StationRoute(3, 8, 10, 9, <<>>),
    [StationRoute(2, 9, 5, 7, <<"STEM">>) EXCEPT !.passenger_halt = 29],
    StationRoute(2, 8, 5, 8, <<"BRANCH">>),
    StationRoute(2, 7, 7, 5, <<"STEM">>),
    StationRoute(2, 6, 8, 5, <<"STEM">>)>>

LineNetworks ==
  {[type        |-> <<"BUMPER", "BUMPER", "SIMPLE_SWITCH", "BORDER", "BORDER",
                      "SIMPLE_SWITCH", "BUMPER", "TRACK_END", "BORDER",
                      "BORDER">> @@ TrackType,
    km          |-> TrackKm, rising |-> TrackRising,
    sections    |-> LineSections(f), arcs |-> {},
    beyond      |-> (4 :> [station |-> 3, track_sign |-> 1]) @@
                    (9 :> [station |-> 1, track_sign |-> 1]) @@
                    (10 :> [station |-> 2, track_sign |-> 1]) @@
                    (5 :> [station |-> 3, track_sign |-> 1]),
    routes      |-> LineRoutes(omitted, f),
    unsignalled |-> unsignalled]
   : f \in [1..2 -> BOOLEAN], omitted \in {{20, 24}, {20, 28}, {23}},
     unsignalled \in {{}, {<<1, 2>>}}}

CircleNetworks ==
  {[type        |-> <<"BORDER", "BORDER", "BORDER", "BORDER">> @@ TrackType,
    km          |-> TrackKm, rising |-> TrackRising,
    sections    |-> <<Section(1, 1, <<1, "start">>, <<2, "start">>, {20}, FALSE),
                      Section(2, 1, <<3, "start">>, <<4, "start">>, t, FALSE)>>,
    arcs        |-> {},
    beyond      |-> (1 :> [station |-> 2, track_sign |-> 2]) @@
                    (2 :> [station |-> 2, track_sign |-> 1]) @@
                    (3 :> [station |-> 1, track_sign |-> 1]) @@
                    (4 :> [station |-> 1, track_sign |-> 2]),
    routes      |-> <<StationRoute(1, 1, 1, 2, <<>>), StationRoute(2, 1, 3, 4, <<>>)>>,
    unsignalled |-> {}]
   : t \in {{22}, {21, 22, 27}}}

\* The four stations in a row only.
MCRowNetworks == Trains!TrainPlans

MCNetworks ==
  LineNetworks \cup CircleNetworks \cup Plans!RailPlans \cup Trains!TrainPlans
    \cup Trains!RingPlans

MCDirectories(plan) ==
  IF plan \in Trains!TrainPlans \cup Trains!RingPlans THEN Trains!Timetables(plan) ELSE {}

MCThreadCounts == {1, 2, 3}
MCCliqueFiles == {<<<<2, 1>>, <<1>>, <<2>>>>, <<<<1>>>>}
MCParsers == {1, 2}
=============================================================================
