---------------------------- MODULE MCRunningTime ----------------------------
(***************************************************************************)
(* Trains with up to Between nodes between the halt they start from and    *)
(* the halt they end at.  A gap is long enough for two ticks at any speed, *)
(* and for a short run from halt to halt; over a single gap no train can   *)
(* brake from its top speed, so that the limits of up to three intervals   *)
(* have to be lowered.  A main signal is not at the place of the node      *)
(* before it.                                                              *)
(***************************************************************************)
EXTENDS RunningTime

CONSTANTS
  Between,   \* bound: the nodes between the first and the last halt
  Gaps,      \* the distances between two nodes
  MaxSpeed,  \* of every train
  Slow       \* the other speed limit

Node(type, limits) ==
  [type |-> type, gap |-> 0, omitted |-> FALSE, stop |-> NoStop,
   limits |-> limits]

Limit(poa, limit) == [poa |-> poa, limit |-> limit]

Stop(min_stop, departure) ==
  [halts |-> TRUE, min_stop |-> min_stop, departure |-> departure]

Kinds ==
  {Node("MAIN_SIGNAL", <<>>),
   Node("MAIN_SIGNAL", <<Limit("LAST_SIGNAL", Slow)>>),
   [Node("MAIN_SIGNAL", <<>>) EXCEPT !.omitted = TRUE],
   Node("HALT", <<>>),
   [Node("HALT", <<>>) EXCEPT !.stop = Stop(2, 0)],
   [Node("HALT", <<>>) EXCEPT !.stop = Stop(0, 60)],
   Node("OTHER", <<>>),
   Node("SPEED_LIMIT", <<Limit("HERE", Slow)>>),
   Node("SPEED_LIMIT", <<Limit("HERE", Slow), Limit("HERE", MaxSpeed + 1)>>),
   Node("SPEED_LIMIT", <<Limit("LAST_SIGNAL", Slow)>>),
   Node("SPEED_LIMIT", <<Limit("HERE", MaxSpeed), Limit("LAST_SIGNAL", Slow)>>),
   Node("SPEED_LIMIT", <<Limit("HERE", Invalid)>>)}

First1 == [Node("HALT", <<>>) EXCEPT !.stop = Stop(0, 0)]
Last1  == [Node("HALT", <<>>) EXCEPT !.gap = Max(Gaps), !.stop = Stop(0, 0)]

Placed(kinds, gaps) ==
  [n \in DOMAIN kinds |-> [kinds[n] EXCEPT !.gap = gaps[n]]]

\* Two stops are at different places, and a signal is not where a border is.
Apart(nodes) ==
  /\ \A n \in 2..Len(nodes) :
       nodes[n].type = "MAIN_SIGNAL" => nodes[n].gap > 0
  /\ \A m, n \in DOMAIN nodes :
       m < n /\ nodes[m].stop.halts /\ nodes[n].stop.halts =>
         \E k \in (m + 1)..n : nodes[k].gap > 0

NodeLists ==
  UNION {{<<First1>> \o Placed(kinds, gaps) \o <<Last1>> :
            kinds \in [1..n -> Kinds], gaps \in [1..n -> Gaps]} :
         n \in 0..Between}

Backgrounds == {<<>>, <<Limit("HERE", Invalid), Limit("LAST_SIGNAL", Slow)>>}

MCTrains ==
  {[nodes |-> nodes, behind |-> behind, stationary_limit |-> MaxSpeed - 1,
    max_speed |-> MaxSpeed, acceleration |-> acceleration,
    record_types |-> types] :
     nodes \in {nodes \in NodeLists : Apart(nodes)},
     behind \in Backgrounds, acceleration \in {1, 2},
     types \in {{"MAIN_SIGNAL", "HALT", "OTHER", "SPEED_LIMIT"}}}
=============================================================================
