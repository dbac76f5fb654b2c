------------------------------ MODULE MCRailPlans ------------------------------
(***************************************************************************)
(* Rail plans without station routes, of two kinds.  Plain: a bumper, a    *)
(* switch whose stem leads over a line switch to a second station with a   *)
(* kilometre jump, and whose branch leads to a track end and to a border   *)
(* without a known neighbour.  Crossing: a cross, with and without arcs,   *)
(* in the middle of four tracks.  Sections are measured in either          *)
(* direction and belong to either of two lines.                            *)
(***************************************************************************)
EXTENDS Integers, SequencesExt

Section(station, line, start, end, track, flipped) ==
  LET end_at(x, km) == [rp |-> x[1], port |-> x[2], km |-> km]
  IN  [station |-> station, line |-> line,
       start |-> IF flipped THEN end_at(end, 0) ELSE end_at(start, 0),
       end   |-> IF flipped THEN end_at(start, 9) ELSE end_at(end, 9),
       track |-> track]

\* Track elements: ties of every kind in section 1, one direction only in
\* section 2, undirected ones only in section 4, none in section 3.
TrackType ==
  (20 :> "TUNNEL") @@ (21 :> "MAIN_SIGNAL") @@ (22 :> "HALT") @@
  (23 :> "TUNNEL") @@ (24 :> "LEVEL_CROSSING") @@ (25 :> "MAIN_SIGNAL") @@
  (26 :> "MAIN_SIGNAL") @@ (27 :> "TRACK_NAME") @@ (28 :> "SLOPE")

TrackKm ==
  (20 :> 5) @@ (21 :> 5) @@ (22 :> 5) @@ (23 :> 5) @@ (24 :> 2) @@ (25 :> 7) @@
  (26 :> 4) @@ (27 :> 1) @@ (28 :> 1)

TrackRising ==
  [rp \in DOMAIN TrackType |-> rp \in {21, 26}]

Tracks == <<20..25, {26}, {}, {27, 28}>>

(***************************************************************************)
(* Tracks of the same line run in the same direction through an element.   *)
(***************************************************************************)
Across(p) ==
  CASE p \in {"start", "start_left", "start_right"} -> 0
    [] OTHER -> 1

\* The ends of sections: <<port, line, whether the section ends there>>.
Ends(sections, rp) ==
  {<<x.end.port, x.line, TRUE>> : x \in {s \in Range(sections) : s.end.rp = rp}}
  \cup {<<x.start.port, x.line, FALSE>> :
          x \in {s \in Range(sections) : s.start.rp = rp}}

Aligned(sections, rp) ==
  \A a, b \in Ends(sections, rp) :
    a[2] = b[2] => (a[3] = b[3]) = (Across(a[1]) = Across(b[1]))

\* The stations' sections, in the order of the file and in reverse.
Orders(sections) == {sections, Reverse(sections)}

PlainSections ==
  {<<Section(1, l[1], <<1, "end">>, <<2, "start">>, Tracks[1], f[1]),
     Section(1, l[2], <<2, "stem">>, <<3, "start">>, Tracks[2], f[2]),
     Section(1, l[3], <<2, "branch">>, <<4, "end">>, Tracks[4], f[3]),
     Section(1, 3, <<3, "end">>, <<5, "start">>, Tracks[3], f[4]),
     Section(2, 3, <<6, "start">>, <<7, IF f[4] THEN "start" ELSE "end">>, {}, f[4]),
     Section(2, 3, <<7, IF f[4] THEN "end" ELSE "start">>, <<8, "start">>, {}, f[4])>>
     : l \in [1..3 -> 1..2], f \in [1..4 -> BOOLEAN]}

PlainNetworks ==
  {[type     |-> <<"BUMPER", "SIMPLE_SWITCH", "LINE_SWITCH", "TRACK_END",
                   "BORDER", "BORDER", "KM_JUMP", "BORDER">> @@ TrackType,
    km       |-> TrackKm, rising |-> TrackRising,
    sections |-> s, arcs |-> {},
    routes   |-> <<>>, unsignalled |-> {},
    beyond   |-> (5 :> [station |-> 2, track_sign |-> 1]) @@
                 (6 :> [station |-> 1, track_sign |-> 1]) @@
                 (8 :> [station |-> 3, track_sign |-> 1])]
   : s \in UNION {Orders(x) : x \in {y \in PlainSections : Aligned(y, 2)}}}

CrossSections ==
  {s \in {<<Section(1, 1, <<1, "end">>, <<2, "start_left">>, Tracks[1], f[1]),
            Section(1, l[1], <<2, "end_left">>, <<3, "end">>, Tracks[2], f[2]),
            Section(1, l[2], <<2, "start_right">>, <<4, "end">>, Tracks[4], f[3]),
            Section(1, l[3], <<2, "end_right">>, <<5, "end">>, Tracks[3], f[4])>>
            : l \in [1..3 -> 1..2], f \in [1..4 -> BOOLEAN]} : Aligned(s, 2)}

CrossNetworks ==
  {[type     |-> <<"BUMPER", "CROSS", "TRACK_END", "BUMPER", "BUMPER">>
                 @@ TrackType,
    km       |-> TrackKm, rising |-> TrackRising,
    sections |-> s, arcs |-> {<<2, a>> : a \in arcs},
    routes   |-> <<>>, unsignalled |-> {},
    beyond   |-> <<>>]
   : s \in CrossSections,
     arcs \in SUBSET {"start_left_end_right", "start_right_end_left"}}

RailPlans == PlainNetworks \cup CrossNetworks
=============================================================================
