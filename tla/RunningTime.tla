----------------------------- MODULE RunningTime -----------------------------
(***************************************************************************)
(* The calculation of running times: interval.cc, runtime.cc and           *)
(* runtime_physics.cc in src/runtime.                                      *)
(*                                                                         *)
(* The path of a train is cut into intervals at its main signals, halts    *)
(* and speed limits; the limits are lowered until the train can brake in   *)
(* time everywhere; then the train runs through the intervals one by one,  *)
(* accelerating, coasting and braking, and every recorded node gets a time *)
(* stamp.  The ordering graph is built from these stamps.                  *)
(*                                                                         *)
(* A tick is DELTA_T, half a second.  A train brakes by one unit of speed  *)
(* per tick and accelerates by train.acceleration units; a unit of length  *)
(* is what a train covers in half a tick at speed 1, so that every result  *)
(* of the physics is a whole number.  Tractive and resistive force, which  *)
(* make the acceleration depend on the speed, and rounding are left out,   *)
(* and a limit is lowered by one unit where the code does by 1 m/s.        *)
(*                                                                         *)
(* A node of a train: type, gap (the distance from the node before it),    *)
(* omitted, stop (the halt the train makes there, or none) and the speed   *)
(* limits that come with it, its own first and then the extra one.         *)
(***************************************************************************)
EXTENDS Integers, FiniteSetsExt, SequencesExt

CONSTANT
  Trains  \* the trains, with their nodes from the first halt to the last

Stops  == [halts : BOOLEAN, min_stop : Nat, departure : Nat]
Limits == [poa : {"HERE", "LAST_SIGNAL", "NONE"}, limit : Nat]
Nodes  == [type : STRING, gap : Nat, omitted : BOOLEAN, stop : Stops,
           limits : Seq(Limits)]

\* A train runs from a halt to a halt.  It stops at halts, at different places.
IsTrain(t) ==
  /\ t.nodes \in Seq(Nodes) /\ t.behind \in Seq(Limits)
  /\ t.stationary_limit \in Nat /\ t.max_speed \in Nat /\ t.acceleration \in Nat \ {0}
  /\ t.nodes # <<>> /\ t.nodes[1].gap = 0
  /\ \A n \in {1, Len(t.nodes)} : t.nodes[n].type = "HALT" /\ ~t.nodes[n].omitted
  /\ \A n \in DOMAIN t.nodes : t.nodes[n].stop.halts => t.nodes[n].type = "HALT"
  /\ \A m, n \in DOMAIN t.nodes :
       m < n /\ t.nodes[m].stop.halts /\ t.nodes[n].stop.halts =>
         \E k \in (m + 1)..n : t.nodes[k].gap > 0

ASSUME TrainsAssumption == \A t \in Trains : IsTrain(t)

VARIABLES
  train,
  stage,         \* "scan", "adjust", "run", "done" or "failed"
  index,         \* the node or the interval that comes next
  scan,          \* what has been made of the nodes so far, see below
  list,          \* interval_list
  adjusted,      \* whether this pass has lowered a limit
  current,       \* time and speed at the start of it
  times,         \* the time stamps
  halt_indices   \* the stamps of halts

running_vars == <<current, times, halt_indices>>
vars         == <<train, stage, index, scan, list, adjusted, running_vars>>

NoStop  == [halts |-> FALSE, min_stop |-> 0, departure |-> 0]
NoLimit == [poa |-> "NONE", limit |-> 0]
Invalid == 0  \* the speed INVALID; no speed limit is 0 (train::effected_by)

-----------------------------------------------------------------------------
(***************************************************************************)
(* Physics: sequences of results after 0, 1, 2, ... ticks.                 *)
(***************************************************************************)
Result(time, distance, speed) ==
  [time |-> time, distance |-> distance, speed |-> speed]

NoResult == Result(0, 0, 0)

\* Braking from v to w: the distance in closed form, and step by step.
braking_distance(v, w) == v * v - w * w

brake(v, w) ==
  [k \in 1..(v - w + 1) |->
     Result(k - 1,
            IF k = v - w + 1 THEN braking_distance(v, w)
                             ELSE (k - 1) * (2 * v - k + 2),
            v - k + 1)]

\* Accelerating from v for k ticks.
Accelerated(v, k) ==
  Result(k, 2 * v * k + train.acceleration * k * k, v + train.acceleration * k)

\* A tick is calculated while the train is too slow and has not come too far.
Steps(v, target, length) ==
  LET slow(k) == /\ Accelerated(v, k).speed < Min({target, train.max_speed})
                 /\ Accelerated(v, k).distance < length
  IN  CHOOSE n \in 0..target : ~slow(n) /\ \A k \in 0..(n - 1) : slow(k)

\* The last tick may lead too far; it is taken back, and the one before it
\* stretched to the full length.
accelerate(v, target, length) ==
  LET n    == Steps(v, target, length)
      far  == Accelerated(v, n).distance > length
      last == IF far THEN n - 1 ELSE n
  IN  [k \in 1..(last + 1) |->
         IF far /\ k > 1 /\ k = last + 1
         THEN [Accelerated(v, k - 1) EXCEPT !.distance = length]
         ELSE Accelerated(v, k - 1)]

\* The ticks to cover the distance, the last one being cut short.
coast(v, distance) ==
  LET n == (distance + 2 * v - 1) \div (2 * v)
  IN  [k \in 1..(n + 1) |->
         Result(k - 1, IF k = n + 1 THEN distance ELSE 2 * v * (k - 1), v)]

-----------------------------------------------------------------------------
(***************************************************************************)
(* The interval list.                                                      *)
(***************************************************************************)
\* The limits that apply to the train, of the nodes asked from the start
\* backwards; or the default.
get_initial_spl ==
  LET effective == {k \in DOMAIN train.behind : train.behind[k].limit # Invalid}
  IN  IF effective = {} THEN train.stationary_limit
      ELSE train.behind[Min(effective)].limit

\* A later limit with the same point of action overwrites an earlier one.
get_speed_limit(node, poa) ==
  LET effective == {k \in DOMAIN node.limits : /\ node.limits[k].poa = poa
                                               /\ node.limits[k].limit # Invalid}
  IN  IF effective = {} THEN NoLimit ELSE node.limits[Max(effective)]

\* From the interval ms on, the limit is replaced up to the first other one.
insert_last_signal_spl(limit, l, ms) ==
  LET same(k)    == \A j \in ms..k : l[j].limit_right = l[ms].limit_right
      updated    == {k \in ms..Len(l) : same(k)}
      after      == {k \in 2..Len(l) : k - 1 \in updated}
  IN  [updated_to |-> Max({ms} \cup {k + 1 : k \in updated}),
       list |-> [k \in DOMAIN l |->
                   [l[k] EXCEPT
                      !.limit_left  = IF k \in after THEN limit ELSE @,
                      !.limit_right = IF k \in updated THEN limit ELSE @]]]

append(i, j) ==
  [i EXCEPT !.limit_right = j.limit_right,
            !.events = @ \o j.events,
            !.stop = IF j.stop.halts THEN j.stop ELSE @]

push(l, i) ==
  IF l # <<>> /\ Last(l).distance = i.distance
  THEN Front(l) \o <<append(Last(l), i)>>
  ELSE l \o <<i>>

(***************************************************************************)
(* One node.  scan holds the list, the distance, the interval of the last  *)
(* main signal, the limits on both sides of the node, and the events since *)
(* the last border.                                                        *)
(***************************************************************************)
NoScan == [list |-> <<>>, distance |-> 0, last_ms |-> 1, prev_limit |-> Invalid,
           limit |-> get_initial_spl, events |-> <<>>]

to_next_node == [scan EXCEPT !.distance = @ + train.nodes[index].gap]

with_last_signal(s, spl) ==
  IF spl = NoLimit THEN s
  ELSE IF s.last_ms > Len(s.list)
  THEN [s EXCEPT !.prev_limit = spl.limit, !.limit = spl.limit]
  ELSE LET inserted == insert_last_signal_spl(spl.limit, s.list, s.last_ms)
           to_end   == inserted.updated_to > Len(s.list)
       IN  [s EXCEPT !.list = inserted.list,
                     !.prev_limit = IF to_end THEN spl.limit ELSE @,
                     !.limit      = IF to_end THEN spl.limit ELSE @]

with_here(s, spl) ==
  IF spl = NoLimit THEN s
  ELSE [s EXCEPT !.prev_limit = s.limit, !.limit = spl.limit]

with_events(s, node) ==
  [s EXCEPT !.last_ms = IF node.type = "MAIN_SIGNAL" THEN Len(s.list) + 1 ELSE @,
            !.events = IF node.type \in train.record_types
                       THEN Append(@, [node |-> index, distance |-> s.distance])
                       ELSE @]

with_border(s, node, here) ==
  IF node.type \notin {"MAIN_SIGNAL", "HALT"} /\ here = NoLimit THEN s
  ELSE [s EXCEPT !.list = push(@, [distance    |-> s.distance,
                                   limit_left  |-> s.prev_limit,
                                   limit_right |-> s.limit,
                                   stop        |-> node.stop,
                                   events      |-> s.events]),
                 !.prev_limit = s.limit,
                 !.events = <<>>]

-----------------------------------------------------------------------------
(***************************************************************************)
(* Lowering the limits.                                                    *)
(***************************************************************************)
initial_speed(i) == Min({i.limit_left, train.max_speed})

target_speed(i) ==
  Min({IF i.stop.halts THEN 0 ELSE i.limit_right, train.max_speed})

interval_length(k) == list[k].distance - list[k - 1].distance

\* The train cannot brake within the interval.
TooShort(k) ==
  /\ list[k].stop.halts \/ list[k].limit_right < initial_speed(list[k])
  /\ interval_length(k)
       < braking_distance(initial_speed(list[k]), target_speed(list[k]))

\* The highest speed below v to brake from within the length, or the target.
lowered_speed(v, target, length) ==
  Max({target} \cup {w \in (target + 1)..(v - 1) :
                       braking_distance(w, target) < length})

new_speed(k) == lowered_speed(initial_speed(list[k]), target_speed(list[k]),
                              interval_length(k))

\* A mutant of with_limit: the limit at the end of the interval before stays.
with_limit_left(k, speed) == [list EXCEPT ![k].limit_left = speed]

with_limit(k, speed) ==
  [list EXCEPT ![k].limit_left = speed, ![k - 1].limit_right = speed]

-----------------------------------------------------------------------------
(***************************************************************************)
(* The phases of an interval.                                              *)
(***************************************************************************)
Phase(results) == [results |-> results,
                   end |-> IF results = <<>> THEN NoResult ELSE Last(results)]

NoPhase == Phase(<<>>)

\* The speed is cut to the maximum, the distance is not.
accel_phase(length, max) ==
  IF current.speed >= max THEN NoPhase
  ELSE LET p == Phase(accelerate(current.speed, max, length))
       IN  [p EXCEPT !.end.speed = Min({@, max})]

deaccel_phase(speed, target) ==
  IF speed > target THEN Phase(brake(speed, target)) ELSE NoPhase

coast_phase(speed, distance) ==
  IF distance > 0 THEN Phase(coast(speed, distance)) ELSE NoPhase

\* The last result before the final one from which the train can still brake.
Fits(r, target, length) ==
  r.speed <= target \/ r.distance + braking_distance(r.speed, target) <= length

Fitting(accel, target, length) ==
  {j \in 1..(Len(accel.results) - 1) : Fits(accel.results[j], target, length)}

adjust_accel_and_deaccel(accel, target, length) ==
  LET k == Max({1} \cup Fitting(accel, target, length))
  IN  [accel |-> [accel EXCEPT !.end = accel.results[k]],
       deaccel |-> deaccel_phase(accel.results[k].speed, target)]

MustShorten(accel, deaccel, length) ==
  /\ accel # NoPhase /\ deaccel # NoPhase
  /\ accel.end.distance + deaccel.end.distance >= length

before_coast(accel, deaccel, target, length) ==
  IF MustShorten(accel, deaccel, length)
  THEN adjust_accel_and_deaccel(accel, target, length)
  ELSE [accel |-> accel, deaccel |-> deaccel]

speed_after(accel) == IF accel = NoPhase THEN current.speed ELSE accel.end.speed

coast_distance(p, length) == length - p.accel.end.distance - p.deaccel.end.distance

\* The calculation fails, or never ends, if there is no room to brake or no
\* result to go back to, or if it has to coast at speed 0.
PhasesFail(accel, deaccel, p, target, length) ==
  \/ deaccel.end.distance > length
  \/ MustShorten(accel, deaccel, length) /\ Fitting(accel, target, length) = {}
  \/ coast_distance(p, length) > 0 /\ speed_after(p.accel) = 0
  \/ coast_distance(p, length) < 0 /\ p.accel # NoPhase /\ p.deaccel # NoPhase
  \/ p.accel = NoPhase /\ p.deaccel = NoPhase /\ coast_distance(p, length) <= 0

phases(p, length) ==
  [accel |-> p.accel, deaccel |-> p.deaccel,
   coast |-> coast_phase(speed_after(p.accel), coast_distance(p, length))]

speed_at_end(p) ==
  IF p.deaccel # NoPhase THEN p.deaccel.end.speed
  ELSE IF p.coast # NoPhase THEN p.coast.end.speed
  ELSE p.accel.end.speed

duration(p) == p.accel.end.time + p.coast.end.time + p.deaccel.end.time

-----------------------------------------------------------------------------
(***************************************************************************)
(* Time stamps, in seconds; the train starts at 0.                         *)
(***************************************************************************)
si_to_relative_time(t) == t \div 2

\* The first result of a phase at or behind the distance.
FirstReached(results, distance) ==
  results[CHOOSE k \in DOMAIN results :
            /\ results[k].distance >= distance
            /\ \A j \in 1..(k - 1) : results[j].distance < distance]

get_event_time(distance, p) ==
  IF p.accel # NoPhase /\ distance <= p.accel.end.distance
  THEN FirstReached(p.accel.results, distance).time
  ELSE IF p.coast # NoPhase
          /\ distance <= p.accel.end.distance + p.coast.end.distance
  THEN p.accel.end.time
         + FirstReached(p.coast.results, distance - p.accel.end.distance).time
  ELSE p.accel.end.time + p.coast.end.time
         + FirstReached(p.deaccel.results, distance - p.accel.end.distance
                                             - p.coast.end.distance).time

Stamp(arrival, departure, event) ==
  [arrival |-> arrival, departure |-> departure, node |-> event.node,
   distance |-> event.distance]

determine_event_timestamps(prev, i, start, arrival, departure, p) ==
  [e \in DOMAIN i.events |->
     IF i.events[e].distance = i.distance
     THEN Stamp(arrival, departure, i.events[e])
     ELSE LET stamp == start + si_to_relative_time(
                         get_event_time(i.events[e].distance - prev.distance, p))
          IN  Stamp(stamp, stamp, i.events[e])]

event_reached(stamps) ==
  /\ times' = times \o stamps
  /\ halt_indices' = halt_indices \cup
       {Len(times) + k : k \in {j \in DOMAIN stamps :
                                  train.nodes[stamps[j].node].type = "HALT"}}

\* The train leaves a halt as planned, but stops for the minimum time.
departure_of(i, arrival) ==
  IF i.stop.halts THEN Max({i.stop.departure, arrival + i.stop.min_stop})
                  ELSE arrival

\* A mutant of stand_time: the train starts for the next halt at its arrival.
stand_time_lost(i, arrival) == 0

stand_time(i, arrival) == departure_of(i, arrival) - arrival

-----------------------------------------------------------------------------
(***************************************************************************)
(* The steps: one node, one interval of a pass, one interval of the run.   *)
(***************************************************************************)
ScanNode ==
  /\ stage = "scan" /\ index \in DOMAIN train.nodes
  /\ LET node == train.nodes[index]
         here == get_speed_limit(node, "HERE")
         last == get_speed_limit(node, "LAST_SIGNAL")
     IN  IF node.omitted THEN scan' = to_next_node
         ELSE \E s \in {with_last_signal(to_next_node, last)} :
              \E t \in {with_events(with_here(s, here), node)} :
                scan' = with_border(t, node, here)
  /\ index' = index + 1
  /\ UNCHANGED <<train, stage, list, adjusted, running_vars>>

StartPass(l) == list' = l /\ index' = 2 /\ adjusted' = FALSE

FinishScan ==
  /\ stage = "scan" /\ index \notin DOMAIN train.nodes
  /\ StartPass(scan.list)
  /\ stage' = "adjust"
  /\ UNCHANGED <<train, scan, running_vars>>

\* "New speed should not be 0!"
AdjustInterval ==
  /\ stage = "adjust" /\ index \in DOMAIN list
  /\ IF ~TooShort(index) THEN UNCHANGED <<stage, list, adjusted>>
     ELSE IF new_speed(index) = 0
     THEN stage' = "failed" /\ UNCHANGED <<list, adjusted>>
     ELSE /\ list' = with_limit(index, new_speed(index))
          /\ adjusted' = TRUE
          /\ UNCHANGED stage
  /\ index' = index + 1
  /\ UNCHANGED <<train, scan, running_vars>>

NextPass ==
  /\ stage = "adjust" /\ index \notin DOMAIN list /\ adjusted
  /\ StartPass(list)
  /\ UNCHANGED <<train, stage, scan, running_vars>>

Depart ==
  /\ stage = "adjust" /\ index \notin DOMAIN list /\ ~adjusted
  /\ event_reached([e \in DOMAIN list[1].events |->
                      Stamp(0, 0, list[1].events[e])])
  /\ index' = 2 /\ stage' = "run"
  /\ UNCHANGED <<train, scan, list, adjusted, current>>

RunThrough(i, p, arrival) ==
  /\ current' = [speed |-> speed_at_end(p),
                 time |-> current.time + duration(p) + 2 * stand_time(i, arrival)]
  /\ event_reached(determine_event_timestamps(
       list[index - 1], i, si_to_relative_time(current.time), arrival,
       departure_of(i, arrival), p))
  /\ UNCHANGED stage

fail == stage' = "failed" /\ UNCHANGED running_vars

\* "Going over speed limit is not allowed!"
RunInterval ==
  /\ stage = "run" /\ index \in DOMAIN list
  /\ LET i      == list[index]
         length == interval_length(index)
     IN  \E accel \in {accel_phase(length, initial_speed(i))} :
         \E deaccel \in {deaccel_phase(speed_after(accel), target_speed(i))} :
         \E b \in {before_coast(accel, deaccel, target_speed(i), length)} :
           IF PhasesFail(accel, deaccel, b, target_speed(i), length) THEN fail
           ELSE \E p \in {phases(b, length)} :
                  IF speed_at_end(p) > i.limit_right THEN fail
                  ELSE RunThrough(i, p,
                         si_to_relative_time(current.time + duration(p)))
  /\ index' = index + 1
  /\ UNCHANGED <<train, scan, list, adjusted>>

Finish ==
  /\ stage = "run" /\ index \notin DOMAIN list
  /\ stage' = "done"
  /\ UNCHANGED <<train, index, scan, list, adjusted, running_vars>>

Init ==
  /\ train \in Trains
  /\ stage = "scan" /\ index = 1 /\ scan = NoScan
  /\ list = <<>> /\ adjusted = FALSE
  /\ current = [time |-> 0, speed |-> 0]
  /\ times = <<>> /\ halt_indices = {}

Next ==
  \/ ScanNode \/ FinishScan \/ AdjustInterval \/ NextPass
  \/ Depart \/ RunInterval \/ Finish

Spec == Init /\ [][Next]_vars /\ WF_vars(Next)

-----------------------------------------------------------------------------
(***************************************************************************)
(* The calculation ends with the train at its last halt: the limits reach  *)
(* a fixpoint (interval.cc:242), none has to be lowered to 0 (:86), and    *)
(* with these limits the train can always brake in time: none of the       *)
(* checks of the phases and of the speed fires (runtime.cc:98, 113, 127,   *)
(* 252), and no phase lasts for ever (runtime_physics.cc:24).              *)
(***************************************************************************)
Finishes == <>(stage = "done")

(***************************************************************************)
(* Every recorded node that is not omitted has one stamp, in the order of  *)
(* the path; the train arrives before it departs, and at a node further    *)
(* along it arrives no earlier than it has left the one before; it leaves  *)
(* a halt neither before its planned departure nor before the minimum stop *)
(* time is over; and halt_indices_ lists the halts (runtime.cc:181, :242;   *)
(* ordering_graph.cc:88 takes the usages of the routes from the stamps).   *)
(***************************************************************************)
Recorded ==
  {n \in DOMAIN train.nodes : /\ ~train.nodes[n].omitted
                              /\ train.nodes[n].type \in train.record_types}

StopKept(stamp, stop) ==
  stop.halts /\ stamp.distance > 0 =>
    /\ stamp.departure >= stop.departure
    /\ stamp.departure >= stamp.arrival + stop.min_stop

EventsInOrder ==
  stage = "done" =>
    /\ {times[k].node : k \in DOMAIN times} = Recorded
    /\ \A k \in DOMAIN times :
         /\ times[k].arrival <= times[k].departure
         /\ StopKept(times[k], train.nodes[times[k].node].stop)
         /\ \A j \in 1..(k - 1) :
              /\ times[j].node < times[k].node
              /\ times[j].distance < times[k].distance =>
                   times[j].departure <= times[k].arrival
    /\ halt_indices =
         {k \in DOMAIN times : train.nodes[times[k].node].type = "HALT"}
=============================================================================
