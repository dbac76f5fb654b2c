--------------------------- MODULE MCOrderingGraph ---------------------------
(***************************************************************************)
(* Small instances of OrderingGraph.  Three routes a, b, c in two          *)
(* exclusion sets that overlap in b; train 1 runs from a to c.             *)
(***************************************************************************)
EXTENDS OrderingGraph, TLC

CONSTANTS a, b, c, MaxTime

MCIRs    == {a, b, c}
MCSetsOf == (a :> {1}) @@ (b :> {1, 2}) @@ (c :> {2})

Times(len) ==
  {f \in [1..len -> 0..MaxTime] : \A i \in 1..(len - 1) : f[i] <= f[i + 1]}

TrainOn(path, anchors) ==
  {[path |-> path, offset |-> f, anchors |-> anchors] : f \in Times(Len(path))}

\* Train 2 follows on the same path, meets train 1, departs twice, or has no
\* main signal on its path.  Train 3 is not selected by the filter.
MCTimetables ==
  {<<t1, t2, [path |-> <<a, b>>, offset |-> <<0, 1>>, anchors |-> <<0>>]>> :
     t1 \in TrainOn(<<a, b, c>>, <<0>>),
     t2 \in TrainOn(<<c, b>>, <<0>>)
              \cup TrainOn(<<a, b>>, <<0>>)
              \cup TrainOn(<<a, c>>, <<0, 2>>)
              \cup TrainOn(<<a>>, <<0>>)}

(***************************************************************************)
(* Two trains that need at least a second for every route and share both   *)
(* exclusion sets of b: for the claims that are made without NoTies.       *)
(***************************************************************************)
MCStrictTimetables ==
  {tt \in {<<t1, t2, [path |-> <<a, b>>, offset |-> <<0, 1>>,
                      anchors |-> <<0>>]>> :
             t1 \in TrainOn(<<a, b, c>>, <<0>>),
             t2 \in TrainOn(<<a, b, c>>, <<0>>) \cup TrainOn(<<c, b>>, <<0>>)} :
     \A t \in {1, 2} : \A i \in 1..(Len(tt[t].path) - 1) :
       tt[t].offset[i] < tt[t].offset[i + 1]}
=============================================================================
