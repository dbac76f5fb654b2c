-------------------------- MODULE RunningTimeProofs -------------------------
(***************************************************************************)
(* A theorem about the running times, for any set of trains: the stamps of *)
(* the recorded nodes are complete and in order.                           *)
(*                                                                         *)
(* The proof goes along the calculation.  The interval list is in order,   *)
(* and every event lies in its interval; inserting or lowering limits does *)
(* not change that.  The results of a phase come tick by tick, so that the *)
(* first one at or behind a distance comes no later than the last one, and *)
(* no earlier than that of a shorter distance; and the phases of an        *)
(* interval that does not fail cover its length, so that every event finds *)
(* its time in one of them (runtime.cc:178).                               *)
(***************************************************************************)
EXTENDS RunningTime, BasicLemmas, SequenceTheorems

Events    == [node : Nat, distance : Nat]
Intervals == [distance : Nat, limit_left : Nat, limit_right : Nat, stop : Stops,
              events : Seq(Events)]
Scans     == [list : Seq(Intervals), distance : Nat, last_ms : Nat, prev_limit : Nat,
              limit : Nat, events : Seq(Events)]

stop_at(n) == train.nodes[n].stop

Ascending(events) ==
  \A b \in DOMAIN events : \A a \in 1..(b - 1) : events[a].node < events[b].node

\* The members of a sequence over S.
Members(S, s) == {e \in S : \E k \in DOMAIN s : e = s[k]}

EventsIn(events) == Members(Events, events)

\* The events of the first n intervals.
EventsUpTo(l, n) == {e \in Events : \E k \in 1..n : e \in EventsIn(l[k].events)}

NodesOf(E) == {e.node : e \in E}

\* The distance at which the k-th interval begins.
begins(l, k) == IF k = 1 THEN 0 ELSE l[k - 1].distance

\* An event lies in its interval, and a stop at its end.
EventOK(l, k, e) ==
  /\ e.node \in DOMAIN train.nodes
  /\ begins(l, k) <= e.distance /\ e.distance <= l[k].distance
  /\ stop_at(e.node).halts => e.distance = l[k].distance /\ l[k].stop = stop_at(e.node)

IntervalOK(l, k) ==
  /\ Ascending(l[k].events)
  /\ \A e \in EventsIn(l[k].events) : EventOK(l, k, e)

\* The intervals, and the events of different intervals, are in order.
Follows(l, j, k) ==
  /\ l[j].distance < l[k].distance
  /\ \A d \in EventsIn(l[j].events), e \in EventsIn(l[k].events) : d.node < e.node

ListOK(l) ==
  /\ l \in Seq(Intervals)
  /\ l # <<>> => l[1].distance = 0
  /\ \A k \in DOMAIN l : IntervalOK(l, k)
  /\ \A k \in DOMAIN l : \A j \in 1..(k - 1) : Follows(l, j, k)

(***************************************************************************)
(* The nodes before node n have been scanned.                              *)
(***************************************************************************)
\* No way from event e to the node before n.
SamePlace(e, n) == \A k \in (e.node + 1)..(n - 1) : train.nodes[k].gap = 0

\* The events since the last border come behind it.
OpenOK(s, e) ==
  /\ e.node \in DOMAIN train.nodes /\ e.distance <= s.distance
  /\ s.list # <<>> => Last(s.list).distance <= e.distance
  /\ \A d \in EventsUpTo(s.list, Len(s.list)) : d.node < e.node

Found(s) == EventsUpTo(s.list, Len(s.list)) \cup EventsIn(s.events)

RecordedBefore(n) == {m \in Recorded : m < n}

\* What is made of the nodes before n.
Scanned(s, n) ==
  /\ s \in Scans /\ s.last_ms # 0
  /\ ListOK(s.list)
  /\ s.list = <<>> => s.distance = 0
  /\ s.list # <<>> => Last(s.list).distance <= s.distance
  /\ Ascending(s.events)
  /\ \A e \in EventsIn(s.events) : OpenOK(s, e)
  /\ NodesOf(Found(s)) = RecordedBefore(n)

\* A stop at the distance is at the place of the node before n.
PlaceOK(s, n) ==
  \A d \in EventsUpTo(s.list, Len(s.list)) :
    d.distance = s.distance /\ stop_at(d.node).halts => SamePlace(d, n)

NoOpenStop(s) == \A e \in EventsIn(s.events) : ~stop_at(e.node).halts

ScanOK(s, n) == Scanned(s, n) /\ PlaceOK(s, n) /\ NoOpenStop(s)

(***************************************************************************)
(* The time stamps.                                                        *)
(***************************************************************************)
Stamps == [arrival : Nat, departure : Nat, node : Nat, distance : Nat]

StampsIn(stamps) == Members(Stamps, stamps)

StampOK(s) == s.arrival <= s.departure /\ StopKept(s, stop_at(s.node))

Before(s, t) ==
  /\ s.node < t.node
  /\ s.distance < t.distance => s.departure <= t.arrival

StampsOK(stamps) ==
  /\ stamps \in Seq(Stamps)
  /\ \A k \in DOMAIN stamps : /\ StampOK(stamps[k])
                              /\ \A j \in 1..(k - 1) : Before(stamps[j], stamps[k])

HaltsOf(stamps) == {k \in DOMAIN stamps : train.nodes[stamps[k].node].type = "HALT"}

(***************************************************************************)
(* The inductive invariant.                                                *)
(***************************************************************************)
ScanInv ==
  stage = "scan" =>
    /\ index \in 1..(Len(train.nodes) + 1)
    /\ ScanOK(scan, index)
    /\ index > 1 => scan.list # <<>>
    /\ index > Len(train.nodes) => scan.events = <<>>

ListInv ==
  stage \in {"adjust", "run", "done"} =>
    /\ ListOK(list) /\ list # <<>> /\ index \in 2..(Len(list) + 1)
    /\ NodesOf(EventsUpTo(list, Len(list))) = Recorded

TimesInv ==
  /\ stage \in {"scan", "adjust"} => times = <<>> /\ current.time = 0
  /\ stage \in {"run", "done"} =>
       /\ StampsOK(times)
       /\ NodesOf(StampsIn(times)) = NodesOf(EventsUpTo(list, index - 1))
       /\ \A s \in StampsIn(times) : s.departure <= si_to_relative_time(current.time)
  /\ stage = "done" => index = Len(list) + 1

Inv ==
  /\ train \in Trains /\ current \in [time : Nat, speed : Nat]
  /\ ScanInv /\ ListInv /\ TimesInv
  /\ halt_indices = HaltsOf(times)

-----------------------------------------------------------------------------
(***************************************************************************)
(* Speeds and phases.                                                      *)
(***************************************************************************)
Results == [time : Nat, distance : Int, speed : Nat]

\* The result k of a phase comes after k - 1 ticks.
TicksOK(results) ==
  /\ results \in Seq(Results) /\ results # <<>>
  /\ \A k \in DOMAIN results : results[k].time = k - 1

\* A phase that lasts ends at one of its results, perhaps with its speed cut.
PhaseOK(p) ==
  /\ p = [results |-> p.results, end |-> p.end] /\ p.end \in Results
  /\ \/ p = NoPhase
     \/ /\ TicksOK(p.results)
        /\ \E m \in DOMAIN p.results : /\ p.end.time = p.results[m].time
                                       /\ p.end.distance = p.results[m].distance

(***************************************************************************)
(* Least and greatest members of sets of speeds.                           *)
(***************************************************************************)
\* Min of two speeds is one of them.
LEMMA MinOfTwo ==
  ASSUME NEW a \in Nat, NEW b \in Nat
  PROVE  Min({a, b}) \in Nat /\ Min({a, b}) <= a /\ Min({a, b}) <= b
<1>1. \E x \in {a, b} : \A y \in {a, b} : x <= y
  OBVIOUS
<1>2. Min({a, b}) \in {a, b} /\ \A y \in {a, b} : Min({a, b}) <= y
  BY <1>1 DEF Min
<1> QED BY <1>2

\* Max of a bounded set of naturals is its greatest member.
LEMMA MaxOfSet ==
  ASSUME NEW T \in SUBSET Nat, T # {}, NEW B \in Nat, \A x \in T : x <= B
  PROVE  Max(T) \in T /\ \A y \in T : y <= Max(T)
<1>1. PICK x \in T : \A y \in T : y <= x
  BY GreatestNat
<1>2. \E z \in T : \A y \in T : z >= y
  BY <1>1
<1>3. Max(T) \in T /\ \A y \in T : Max(T) >= y
  BY <1>2 DEF Max
<1>4. \A y \in T : y <= Max(T)
  BY <1>3
<1> QED BY <1>3, <1>4

\* Min of a set of naturals is its least member.
LEMMA MinOfSet ==
  ASSUME NEW T \in SUBSET Nat, T # {}
  PROVE  Min(T) \in T /\ \A y \in T : Min(T) <= y
<1>1. PICK x \in T : \A y \in T : x <= y
  BY LeastNat
<1> QED BY <1>1 DEF Min

(***************************************************************************)
(* The phases.                                                             *)
(***************************************************************************)
\* A phase made of results in order ends at the last of them.
LEMMA PhaseOfTicks ==
  ASSUME NEW results, TicksOK(results)
  PROVE  /\ PhaseOK(Phase(results))
         /\ Phase(results).results = results
         /\ Phase(results).end = results[Len(results)]
<1>1. Len(results) \in DOMAIN results /\ Last(results) = results[Len(results)]
  BY DEF TicksOK, Last
<1>2. Phase(results).results = results /\ Phase(results).end = Last(results)
  BY DEF Phase, TicksOK
<1>3. results[Len(results)] \in Results
  BY <1>1 DEF TicksOK
<1>4. Phase(results) = [results |-> Phase(results).results, end |-> Phase(results).end]
  BY DEF Phase
<1> QED BY <1>1, <1>2, <1>3, <1>4 DEF PhaseOK

\* A phase that does not take place lasts no time and covers no way.
LEMMA NoPhaseOK ==
  PhaseOK(NoPhase) /\ NoPhase.end.time = 0 /\ NoPhase.end.distance = 0
BY DEF NoPhase, PhaseOK, Phase, NoResult, Result, Results

\* A function over 1..n whose results come in order.
LEMMA TicksOfFunction ==
  ASSUME NEW n \in Nat \ {0}, NEW f, f = [k \in 1..n |-> f[k]],
         \A k \in 1..n : f[k] \in Results /\ f[k].time = k - 1
  PROVE  TicksOK(f) /\ Len(f) = n
<1>1. f \in [1..n -> Results]
  OBVIOUS
<1>2. f \in Seq(Results) /\ Len(f) = n /\ DOMAIN f = 1..n
  BY <1>1, SeqDef, LenProperties
<1> QED BY <1>2 DEF TicksOK

\* Braking takes the closed distance.
LEMMA BrakeTicks ==
  ASSUME NEW v \in Nat, NEW w \in Nat, w < v
  PROVE  TicksOK(brake(v, w))
<1> DEFINE n == v - w + 1
           f == brake(v, w)
<1>1. n \in Nat \ {0}
  OBVIOUS
<1>2. f = [k \in 1..n |-> f[k]]
  BY DEF brake
<1>3. ASSUME NEW k \in 1..n PROVE f[k] \in Results /\ f[k].time = k - 1
  <2>1. k - 1 \in Nat /\ v - k + 1 \in Nat
    OBVIOUS
  <2>2. braking_distance(v, w) \in Int /\ (k - 1) * (2 * v - k + 2) \in Int
    BY DEF braking_distance
  <2>3. f[k] = Result(k - 1, IF k = v - w + 1 THEN braking_distance(v, w)
                             ELSE (k - 1) * (2 * v - k + 2), v - k + 1)
    BY DEF brake
  <2> HIDE DEF f
  <2> QED BY <2>1, <2>2, <2>3 DEF Result, Results
<1> HIDE DEF n, f
<1>4. TicksOK(f)
  BY <1>1, <1>2, <1>3, TicksOfFunction
<1> QED BY <1>4 DEF f

\* The braking phase.
LEMMA DeaccelOK ==
  ASSUME NEW v \in Nat, NEW w \in Nat
  PROVE  PhaseOK(deaccel_phase(v, w))
<1>1. CASE v > w
  BY <1>1, BrakeTicks, PhaseOfTicks DEF deaccel_phase
<1>2. CASE ~(v > w)
  BY <1>2, NoPhaseOK DEF deaccel_phase
<1> QED BY <1>1, <1>2

\* The number of ticks to coast.
LEMMA TicksToCoast ==
  ASSUME NEW v \in Nat, v # 0, NEW d \in Nat
  PROVE  (d + 2 * v - 1) \div (2 * v) \in Nat
<1> DEFINE b == 2 * v
           a == d + 2 * v - 1
<1>1. b \in Nat /\ b > 0 /\ a \in Nat
  OBVIOUS
<1> HIDE DEF a, b
<1>2. a \div b \in Nat
  BY <1>1
<1> QED BY <1>2 DEF a, b

\* Coasting covers the distance.
LEMMA CoastOK ==
  ASSUME NEW v \in Nat, NEW d \in Int, d > 0 => v # 0
  PROVE  /\ PhaseOK(coast_phase(v, d))
         /\ d > 0 => coast_phase(v, d) # NoPhase /\ coast_phase(v, d).end.distance = d
         /\ d <= 0 => coast_phase(v, d) = NoPhase
<1>1. CASE d <= 0
  <2>1. ~(d > 0)
    BY <1>1
  <2> QED BY <2>1, NoPhaseOK DEF coast_phase
<1>2. CASE d > 0
  <2> DEFINE n == (d + 2 * v - 1) \div (2 * v)
             f == coast(v, d)
  <2>1. n \in Nat
    BY <1>2, TicksToCoast
  <2>2. f = [k \in 1..(n + 1) |->
               Result(k - 1, IF k = n + 1 THEN d ELSE 2 * v * (k - 1), v)]
    BY DEF coast
  <2> HIDE DEF n, f
  <2>3. ASSUME NEW k \in 1..(n + 1) PROVE f[k] \in Results /\ f[k].time = k - 1
    <3>1. k - 1 \in Nat /\ 2 * v * (k - 1) \in Int
      BY <2>1
    <3>2. f[k] = Result(k - 1, IF k = n + 1 THEN d ELSE 2 * v * (k - 1), v)
      BY <2>2
    <3> QED BY <3>1, <3>2 DEF Result, Results
  <2>4. TicksOK(f) /\ Len(f) = n + 1
    <3>1. f = [k \in 1..(n + 1) |-> f[k]] /\ n + 1 \in Nat \ {0}
      BY <2>1, <2>2
    <3> QED BY <2>3, <3>1, TicksOfFunction
  <2>5. f[n + 1].distance = d
    <3>1. n + 1 \in 1..(n + 1)
      BY <2>1
    <3> QED BY <2>2, <3>1 DEF Result
  <2>6. coast_phase(v, d) = Phase(f)
    BY <1>2 DEF coast_phase, f
  <2>7. PhaseOK(Phase(f)) /\ Phase(f).results = f /\ Phase(f).end.distance = d
    BY <2>4, <2>5, PhaseOfTicks
  <2>8. Phase(f) # NoPhase
    BY <2>4, <2>7 DEF TicksOK, NoPhase, Phase
  <2> QED BY <1>2, <2>6, <2>7, <2>8
<1> QED BY <1>1, <1>2

\* The train and its physics.
LEMMA AcceleratedTyped ==
  ASSUME IsTrain(train), NEW v \in Nat, NEW k \in Nat
  PROVE  /\ Accelerated(v, k) \in Results
         /\ Accelerated(v, k).time = k
         /\ Accelerated(v, k).speed >= v + k
         /\ k = 0 => Accelerated(v, k).distance = 0
<1> DEFINE a == train.acceleration
<1>1. a \in Nat \ {0}
  BY DEF IsTrain
<1> HIDE DEF a
<1>2. a * k \in Nat /\ a * k >= k
  BY <1>1
<1>3. 2 * v * k + a * k * k \in Int
  BY <1>1
<1>4. k = 0 => 2 * v * k + a * k * k = 0
  BY <1>1
<1>5. Accelerated(v, k) = Result(k, 2 * v * k + a * k * k, v + a * k)
  BY DEF Accelerated, a
<1> QED BY <1>2, <1>3, <1>4, <1>5 DEF Result, Results

\* The train is fast enough after finitely many ticks.
LEMMA StepsExist ==
  ASSUME IsTrain(train), NEW v \in Nat, NEW target \in Nat, NEW length \in Int
  PROVE  Steps(v, target, length) \in Nat
<1> DEFINE slow(k) == /\ Accelerated(v, k).speed < Min({target, train.max_speed})
                      /\ Accelerated(v, k).distance < length
           Enough  == {k \in 0..target : ~slow(k)}
<1>1. Min({target, train.max_speed}) \in Nat /\ Min({target, train.max_speed}) <= target
  BY MinOfTwo DEF IsTrain
<1>2. target \in Enough
  <2>1. Accelerated(v, target).speed >= v + target /\ Accelerated(v, target).speed \in Nat
    BY AcceleratedTyped DEF Results
  <2>2. ~(Accelerated(v, target).speed < Min({target, train.max_speed}))
    BY <1>1, <2>1
  <2> QED BY <2>2
<1>3. PICK n \in Enough : \A k \in Enough : n <= k
  <2>1. Enough \in SUBSET Nat
    OBVIOUS
  <2> HIDE DEF Enough
  <2> QED BY <1>2, <2>1, LeastNat
<1>4. n \in 0..target /\ ~slow(n) /\ \A k \in 0..(n - 1) : slow(k)
  <2>1. n \in 0..target /\ ~slow(n)
    OBVIOUS
  <2>2. ASSUME NEW k \in 0..(n - 1) PROVE slow(k)
    <3>1. k \in 0..target /\ ~(n <= k)
      BY <2>1
    <3> QED BY <1>3, <3>1
  <2> QED BY <2>1, <2>2
<1>5. Steps(v, target, length) \in 0..target
  <2> HIDE DEF slow
  <2>1. \E m \in 0..target : ~slow(m) /\ \A k \in 0..(m - 1) : slow(k)
    BY <1>4
  <2>2. Steps(v, target, length)
          = CHOOSE m \in 0..target : ~slow(m) /\ \A k \in 0..(m - 1) : slow(k)
    BY DEF Steps, slow
  <2> QED BY <2>1, <2>2
<1> QED BY <1>5

\* The results of accelerating come tick by tick, also when the last is taken back.
LEMMA AccelerateTicks ==
  ASSUME IsTrain(train), NEW v \in Nat, NEW target \in Nat, NEW length \in Nat
  PROVE  TicksOK(accelerate(v, target, length))
<1> DEFINE n    == Steps(v, target, length)
           far  == Accelerated(v, n).distance > length
           last == IF far THEN n - 1 ELSE n
           f    == accelerate(v, target, length)
<1>1. n \in Nat
  BY StepsExist
<1>2. last \in Nat
  <2> HIDE DEF n
  <2>1. ASSUME n = 0 PROVE ~far
    <3>1. Accelerated(v, 0).distance = 0
      BY AcceleratedTyped
    <3> QED BY <2>1, <3>1
  <2> QED BY <1>1, <2>1
<1>3. f = [k \in 1..(last + 1) |->
             IF far /\ k > 1 /\ k = last + 1
             THEN [Accelerated(v, k - 1) EXCEPT !.distance = length]
             ELSE Accelerated(v, k - 1)]
  BY DEF accelerate
<1> HIDE DEF last, far, f, n
<1>4. ASSUME NEW k \in 1..(last + 1) PROVE f[k] \in Results /\ f[k].time = k - 1
  <2>1. k - 1 \in Nat
    BY <1>2
  <2>2. Accelerated(v, k - 1) \in Results /\ Accelerated(v, k - 1).time = k - 1
    BY <2>1, AcceleratedTyped
  <2>3. \/ f[k] = Accelerated(v, k - 1)
        \/ f[k] = [Accelerated(v, k - 1) EXCEPT !.distance = length]
    BY <1>3
  <2> QED BY <2>2, <2>3 DEF Results
<1>5. f = [k \in 1..(last + 1) |-> f[k]] /\ last + 1 \in Nat \ {0}
  BY <1>2, <1>3
<1>6. TicksOK(f)
  BY <1>4, <1>5, TicksOfFunction
<1> QED BY <1>6 DEF f

\* The acceleration phase, whose speed is cut to the maximum.
LEMMA AccelOK ==
  ASSUME IsTrain(train), current \in [time : Nat, speed : Nat],
         NEW length \in Nat, NEW max \in Nat
  PROVE  PhaseOK(accel_phase(length, max))
<1>1. CASE current.speed >= max
  BY <1>1, NoPhaseOK DEF accel_phase
<1>2. CASE ~(current.speed >= max)
  <2> DEFINE f == accelerate(current.speed, max, length)
             p == Phase(f)
             q == [p EXCEPT !.end.speed = Min({@, max})]
  <2>1. TicksOK(f)
    BY AccelerateTicks
  <2>2. accel_phase(length, max) = q
    BY <1>2 DEF accel_phase
  <2> HIDE DEF f
  <2>3. PhaseOK(p) /\ p.results = f /\ p.end = f[Len(f)]
    BY <2>1, PhaseOfTicks
  <2>4. Len(f) \in DOMAIN f
    BY <2>1 DEF TicksOK
  <2>5. p.end \in Results
    BY <2>3 DEF PhaseOK
  <2>6. Min({p.end.speed, max}) \in Nat
    BY <2>5, MinOfTwo DEF Results
  <2>7. p = [results |-> p.results, end |-> p.end]
    BY DEF Phase
  <2> DEFINE w == Min({p.end.speed, max})
  <2>8. /\ q.results = f /\ q.end = [p.end EXCEPT !.speed = w]
        /\ q = [results |-> q.results, end |-> q.end]
    <3> HIDE DEF p
    <3> QED BY <2>3, <2>7
  <2> HIDE DEF q, p, w
  <2>9. q.end \in Results /\ q.end.time = p.end.time /\ q.end.distance = p.end.distance
    <3>1. w \in Nat
      BY <2>6 DEF w
    <3> QED BY <2>5, <2>8, <3>1 DEF Results
  <2>10. PhaseOK(q)
    BY <2>1, <2>3, <2>4, <2>8, <2>9 DEF PhaseOK
  <2> QED BY <2>2, <2>10 DEF q
<1> QED BY <1>1, <1>2

\* The phases of an interval that does not fail.
LEMMA AdjustOK ==
  ASSUME NEW accel, NEW deaccel, NEW target \in Nat, NEW length \in Nat,
         PhaseOK(accel), PhaseOK(deaccel),
         MustShorten(accel, deaccel, length) => Fitting(accel, target, length) # {}
  PROVE  LET b == before_coast(accel, deaccel, target, length)
         IN  PhaseOK(b.accel) /\ PhaseOK(b.deaccel)
<1>1. CASE ~MustShorten(accel, deaccel, length)
  BY <1>1 DEF before_coast
<1>2. CASE MustShorten(accel, deaccel, length)
  <2> DEFINE T == {1} \cup Fitting(accel, target, length)
             k == Max(T)
             results == accel.results
  <2>1. TicksOK(results)
    BY <1>2 DEF MustShorten, PhaseOK
  <2>2. Len(results) \in Nat
    BY <2>1 DEF TicksOK
  <2>3. PICK j \in Fitting(accel, target, length) : TRUE
    BY <1>2
  <2>4. Len(results) >= 2
    BY <2>2, <2>3 DEF Fitting
  <2>5. T \in SUBSET Nat /\ T # {} /\ \A x \in T : x <= Len(results) - 1 /\ x >= 1
    BY <2>2, <2>4 DEF Fitting
  <2>6. k \in T
    <3> HIDE DEF T
    <3>1. Len(results) - 1 \in Nat /\ \A x \in T : x <= Len(results) - 1
      BY <2>2, <2>4, <2>5
    <3> QED BY <2>5, <3>1, MaxOfSet
  <2>7. k \in 1..Len(results)
    <3> HIDE DEF k, T
    <3> QED BY <2>2, <2>5, <2>6
  <2>8. before_coast(accel, deaccel, target, length)
          = [accel |-> [accel EXCEPT !.end = accel.results[k]],
             deaccel |-> deaccel_phase(accel.results[k].speed, target)]
    BY <1>2 DEF before_coast, adjust_accel_and_deaccel
  <2> HIDE DEF k
  <2>9. results[k] \in Results /\ k \in DOMAIN results
    BY <2>1, <2>7 DEF TicksOK
  <2>10. PhaseOK(deaccel_phase(results[k].speed, target))
    BY <2>9, DeaccelOK DEF Results
  <2> DEFINE a == [accel EXCEPT !.end = accel.results[k]]
  <2>11. PhaseOK(a)
    <3>1. accel = [results |-> accel.results, end |-> accel.end]
      BY DEF PhaseOK
    <3>2. a = [results |-> accel.results, end |-> accel.results[k]]
      BY <3>1
    <3> HIDE DEF a
    <3> QED BY <2>1, <2>9, <3>2 DEF PhaseOK
  <2> QED BY <2>8, <2>10, <2>11
<1> QED BY <1>1, <1>2

\* A result of a phase is one.
LEMMA TicksTyped ==
  ASSUME NEW results, TicksOK(results), NEW k \in DOMAIN results
  PROVE  results[k] \in Results /\ results[k].distance \in Int
<1>1. results[k] \in Results
  BY DEF TicksOK
<1> QED BY <1>1 DEF Results

\* The first result at or behind a distance that is reached.
LEMMA FirstReachedIs ==
  ASSUME NEW results, TicksOK(results), NEW d \in Int,
         NEW m \in DOMAIN results, results[m].distance >= d
  PROVE  \E k \in 1..m : /\ FirstReached(results, d).time = k - 1
                         /\ results[k].distance >= d
                         /\ \A j \in 1..(k - 1) : results[j].distance < d
<1>1. DOMAIN results = 1..Len(results) /\ Len(results) \in Nat /\ m \in 1..Len(results)
  BY DEF TicksOK
<1>2. \A j \in DOMAIN results : results[j].distance \in Int
  BY TicksTyped
<1> DEFINE T == {k \in DOMAIN results : results[k].distance >= d}
           first(k) == /\ results[k].distance >= d
                       /\ \A j \in 1..(k - 1) : results[j].distance < d
<1>3. T \in SUBSET Nat /\ T # {} /\ m \in T
  BY <1>1
<1>4. PICK k \in T : \A y \in T : k <= y
  <2> HIDE DEF T
  <2> QED BY <1>3, LeastNat
<1>5. k \in 1..m /\ first(k)
  <2>1. k <= m /\ k \in 1..Len(results)
    BY <1>1, <1>3, <1>4
  <2>2. ASSUME NEW j \in 1..(k - 1) PROVE results[j].distance < d
    <3>1. j \in DOMAIN results /\ ~(k <= j)
      BY <1>1, <2>1
    <3>2. j \notin T
      BY <1>4, <3>1
    <3> QED BY <1>2, <3>1, <3>2
  <2> QED BY <1>1, <2>1, <2>2
<1> DEFINE f == CHOOSE x \in DOMAIN results : first(x)
<1>6. f \in DOMAIN results /\ first(f)
  <2>1. k \in DOMAIN results
    BY <1>1, <1>5
  <2> HIDE DEF first
  <2> QED BY <1>5, <2>1
<1>7. FirstReached(results, d) = results[f]
  BY DEF FirstReached
<1> HIDE DEF f
<1>8. f <= m
  <2> SUFFICES ASSUME ~(f <= m) PROVE FALSE
    OBVIOUS
  <2>1. m \in 1..(f - 1)
    BY <1>1, <1>6
  <2>2. results[m].distance < d
    BY <1>6, <2>1
  <2> QED BY <1>1, <1>2, <2>2
<1>9. f \in 1..m
  BY <1>1, <1>6, <1>8
<1> QED BY <1>6, <1>7, <1>9 DEF TicksOK

\* The time to a distance that the phase reaches.
LEMMA TimeInPhase ==
  ASSUME NEW p, PhaseOK(p), p # NoPhase, NEW d \in Int, d <= p.end.distance
  PROVE  FirstReached(p.results, d).time \in 0..p.end.time
<1>1. PICK m \in DOMAIN p.results : /\ p.end.time = p.results[m].time
                                    /\ p.end.distance = p.results[m].distance
  BY DEF PhaseOK
<1>2. TicksOK(p.results) /\ p.results[m].distance >= d
  BY <1>1 DEF PhaseOK, Results
<1>3. PICK k \in 1..m : FirstReached(p.results, d).time = k - 1
  BY <1>2, FirstReachedIs
<1>4. p.end.time = m - 1 /\ m \in Nat
  BY <1>1, <1>2 DEF TicksOK
<1> QED BY <1>3, <1>4

\* No event further along comes earlier.
LEMMA TimeGrowsInPhase ==
  ASSUME NEW p, PhaseOK(p), p # NoPhase, NEW c \in Int, NEW d \in Int, c <= d,
         d <= p.end.distance
  PROVE  FirstReached(p.results, c).time <= FirstReached(p.results, d).time
<1>1. PICK m \in DOMAIN p.results : p.end.distance = p.results[m].distance
  BY DEF PhaseOK
<1>2. TicksOK(p.results) /\ p.results[m].distance >= d /\ p.results[m].distance >= c
  BY <1>1 DEF PhaseOK, Results
<1>3. PICK k \in 1..m : /\ FirstReached(p.results, c).time = k - 1
                        /\ p.results[k].distance >= c
                        /\ \A j \in 1..(k - 1) : p.results[j].distance < c
  BY <1>2, FirstReachedIs
<1>4. PICK l \in 1..m : /\ FirstReached(p.results, d).time = l - 1
                        /\ p.results[l].distance >= d
  BY <1>2, FirstReachedIs
<1>5. m \in Nat /\ l \in DOMAIN p.results
  BY <1>2 DEF TicksOK
<1>6. p.results[l].distance \in Int
  BY <1>2, <1>5, TicksTyped
<1>7. ~(l \in 1..(k - 1))
  <2> SUFFICES ASSUME l \in 1..(k - 1) PROVE FALSE
    OBVIOUS
  <2>1. p.results[l].distance < c
    BY <1>3
  <2> QED BY <1>4, <1>6, <2>1
<1>8. k <= l
  BY <1>5, <1>7
<1> QED BY <1>3, <1>4, <1>5, <1>8

PhasesOK(p, length) ==
  /\ PhaseOK(p.accel) /\ PhaseOK(p.coast) /\ PhaseOK(p.deaccel)
  /\ length <= p.accel.end.distance + p.coast.end.distance + p.deaccel.end.distance

\* The branches of get_event_time.
Accelerating(d, p) == p.accel # NoPhase /\ d <= p.accel.end.distance

Coasting(d, p) ==
  ~Accelerating(d, p) /\ p.coast # NoPhase
  /\ d <= p.accel.end.distance + p.coast.end.distance

Braking(d, p) == ~Accelerating(d, p) /\ ~Coasting(d, p)

\* The end of a phase.
LEMMA PhaseTyped ==
  ASSUME NEW p, PhaseOK(p)
  PROVE  /\ p.end.time \in Nat /\ p.end.distance \in Int /\ p.end.speed \in Nat
         /\ p = NoPhase => p.end.time = 0 /\ p.end.distance = 0
BY NoPhaseOK DEF PhaseOK, Results

\* A train that has left the other phases brakes, and stands behind the distance.
LEMMA BrakingPhase ==
  ASSUME NEW length \in Nat, NEW p, PhasesOK(p, length), NEW d \in 0..(length - 1),
         Braking(d, p)
  PROVE  /\ p.deaccel # NoPhase
         /\ d - p.accel.end.distance - p.coast.end.distance \in Int
         /\ d - p.accel.end.distance - p.coast.end.distance <= p.deaccel.end.distance
<1> DEFINE a == p.accel.end.distance
           c == p.coast.end.distance
           b == p.deaccel.end.distance
<1>1. a \in Int /\ c \in Int /\ b \in Int
  BY PhaseTyped DEF PhasesOK
<1>2. a + c + b >= length
  BY <1>1 DEF PhasesOK
<1>3. d >= a + c
  <2>1. CASE p.coast = NoPhase
    <3>1. c = 0
      BY <2>1, PhaseTyped DEF PhasesOK
    <3>2. d >= a
      <4>1. CASE p.accel = NoPhase
        <5>1. a = 0
          BY <4>1, PhaseTyped DEF PhasesOK
        <5> HIDE DEF a
        <5> QED BY <5>1
      <4>2. CASE p.accel # NoPhase
        BY <1>1, <4>2 DEF Braking, Accelerating
      <4> QED BY <4>1, <4>2
    <3> HIDE DEF a, c
    <3> QED BY <1>1, <3>1, <3>2
  <2>2. CASE p.coast # NoPhase
    <3>1. ~(d <= a + c)
      BY <2>2 DEF Braking, Coasting
    <3> HIDE DEF a, c
    <3> QED BY <1>1, <3>1
  <2> QED BY <2>1, <2>2
<1>4. b = 0 \/ p.deaccel # NoPhase
  BY PhaseTyped DEF PhasesOK
<1>5. b > 0 /\ d - a - c \in Int /\ d - a - c <= b
  <2> HIDE DEF a, b, c
  <2> QED BY <1>1, <1>2, <1>3
<1> QED BY <1>4, <1>5

\* The time to a distance lies in the phase that its branch belongs to.
LEMMA EventTimes ==
  ASSUME NEW length \in Nat, NEW p, PhasesOK(p, length), NEW d \in 0..(length - 1)
  PROVE  LET a == p.accel.end.time
             c == p.coast.end.time
         IN  /\ Accelerating(d, p) => get_event_time(d, p) \in 0..a
             /\ Coasting(d, p) => get_event_time(d, p) \in a..(a + c)
             /\ Braking(d, p) => get_event_time(d, p) \in (a + c)..duration(p)
<1> DEFINE a == p.accel.end.time
           c == p.coast.end.time
           b == p.deaccel.end.time
<1>1. a \in Nat /\ c \in Nat /\ b \in Nat /\ p.accel.end.distance \in Int
  BY PhaseTyped DEF PhasesOK
<1>2. ASSUME Accelerating(d, p) PROVE get_event_time(d, p) \in 0..a
  <2>1. get_event_time(d, p) = FirstReached(p.accel.results, d).time
    BY <1>2 DEF get_event_time, Accelerating
  <2> QED BY <1>2, <2>1, TimeInPhase DEF Accelerating, PhasesOK
<1>3. ASSUME Coasting(d, p) PROVE get_event_time(d, p) \in a..(a + c)
  <2> DEFINE t == FirstReached(p.coast.results, d - p.accel.end.distance).time
  <2>1. get_event_time(d, p) = a + t
    BY <1>3 DEF get_event_time, Accelerating, Coasting
  <2>2. t \in 0..c
    <3>1. p.coast.end.distance \in Int
      BY PhaseTyped DEF PhasesOK
    <3>2. d <= p.accel.end.distance + p.coast.end.distance
      BY <1>3 DEF Coasting
    <3>3. d - p.accel.end.distance \in Int
          /\ d - p.accel.end.distance <= p.coast.end.distance
      BY <1>1, <3>1, <3>2
    <3> QED BY <1>3, <3>3, TimeInPhase DEF Coasting, PhasesOK
  <2> HIDE DEF t, a, c
  <2> QED BY <1>1, <2>1, <2>2
<1>4. ASSUME Braking(d, p) PROVE get_event_time(d, p) \in (a + c)..duration(p)
  <2> DEFINE r == d - p.accel.end.distance - p.coast.end.distance
             t == FirstReached(p.deaccel.results, r).time
  <2>1. get_event_time(d, p) = a + c + t
    BY <1>4 DEF get_event_time, Accelerating, Coasting, Braking
  <2>2. t \in 0..b
    <3>1. p.deaccel # NoPhase /\ r \in Int /\ r <= p.deaccel.end.distance
      BY <1>4, BrakingPhase
    <3> HIDE DEF r
    <3> QED BY <3>1, TimeInPhase DEF PhasesOK
  <2>3. duration(p) = a + c + b
    BY DEF duration
  <2> HIDE DEF t, a, c, b
  <2> QED BY <1>1, <2>1, <2>2, <2>3
<1> QED BY <1>2, <1>3, <1>4

\* An event of the interval lies between its start and its end.
LEMMA EventTimeBounded ==
  ASSUME NEW length \in Nat, NEW p, PhasesOK(p, length), NEW d \in 0..(length - 1)
  PROVE  get_event_time(d, p) \in 0..duration(p) /\ duration(p) \in Nat
<1> DEFINE a == p.accel.end.time
           c == p.coast.end.time
           b == p.deaccel.end.time
           t == get_event_time(d, p)
<1>1. a \in Nat /\ c \in Nat /\ b \in Nat /\ duration(p) = a + c + b
  BY PhaseTyped DEF PhasesOK, duration
<1>2. t \in 0..a \/ t \in a..(a + c) \/ t \in (a + c)..duration(p)
  <2>1. Accelerating(d, p) \/ Coasting(d, p) \/ Braking(d, p)
    BY DEF Braking
  <2> QED BY <2>1, EventTimes
<1> HIDE DEF a, b, c, t
<1>3. t \in 0..duration(p) /\ duration(p) \in Nat
  BY <1>1, <1>2
<1> QED BY <1>3 DEF t

\* An event further along comes no earlier (runtime.cc:152).
LEMMA EventTimeGrows ==
  ASSUME NEW length \in Nat, NEW p, PhasesOK(p, length),
         NEW d1 \in 0..(length - 1), NEW d2 \in 0..(length - 1), d1 <= d2
  PROVE  get_event_time(d1, p) <= get_event_time(d2, p)
<1> DEFINE a == p.accel.end.time
           c == p.coast.end.time
           da == p.accel.end.distance
           dc == p.coast.end.distance
           db == p.deaccel.end.distance
<1>1. a \in Nat /\ c \in Nat /\ da \in Int /\ dc \in Int /\ duration(p) \in Nat
  BY PhaseTyped, EventTimeBounded DEF PhasesOK
<1>2. Accelerating(d2, p) => Accelerating(d1, p)
  BY <1>1 DEF Accelerating
<1>3. Coasting(d2, p) => Coasting(d1, p) \/ Accelerating(d1, p)
  <2>1. d2 <= da + dc => d1 <= da + dc
    <3> HIDE DEF da, dc
    <3> QED BY <1>1
  <2> QED BY <2>1 DEF Coasting
<1>4. CASE Accelerating(d1, p) /\ Accelerating(d2, p)
  <2>1. /\ get_event_time(d1, p) = FirstReached(p.accel.results, d1).time
        /\ get_event_time(d2, p) = FirstReached(p.accel.results, d2).time
    BY <1>4 DEF get_event_time, Accelerating
  <2> QED BY <1>4, <2>1, TimeGrowsInPhase DEF Accelerating, PhasesOK
<1>5. CASE Coasting(d1, p) /\ Coasting(d2, p)
  <2> DEFINE t1 == FirstReached(p.coast.results, d1 - da).time
             t2 == FirstReached(p.coast.results, d2 - da).time
  <2>1. get_event_time(d1, p) = a + t1 /\ get_event_time(d2, p) = a + t2
    BY <1>5 DEF get_event_time, Accelerating, Coasting
  <2>2. d2 <= da + dc
    BY <1>5 DEF Coasting
  <2>3. d1 - da \in Int /\ d2 - da \in Int /\ d1 - da <= d2 - da /\ d2 - da <= dc
        /\ d1 - da <= dc
    <3> HIDE DEF da, dc
    <3> QED BY <1>1, <2>2
  <2>4. t1 \in 0..c /\ t2 \in 0..c
    <3> HIDE DEF da
    <3> QED BY <1>5, <2>3, TimeInPhase DEF Coasting, PhasesOK
  <2>5. t1 <= t2
    <3> HIDE DEF da
    <3> QED BY <1>5, <2>3, TimeGrowsInPhase DEF Coasting, PhasesOK
  <2> HIDE DEF t1, t2, a, c
  <2> QED BY <1>1, <2>1, <2>4, <2>5
<1>6. CASE Braking(d1, p) /\ Braking(d2, p)
  <2> DEFINE r1 == d1 - da - dc
             r2 == d2 - da - dc
             t1 == FirstReached(p.deaccel.results, r1).time
             t2 == FirstReached(p.deaccel.results, r2).time
  <2>1. get_event_time(d1, p) = a + c + t1 /\ get_event_time(d2, p) = a + c + t2
    BY <1>6 DEF get_event_time, Accelerating, Coasting, Braking
  <2>2. /\ p.deaccel # NoPhase
        /\ r1 \in Int /\ r1 <= p.deaccel.end.distance
        /\ r2 \in Int /\ r2 <= p.deaccel.end.distance
    BY <1>6, BrakingPhase
  <2>3. r1 <= r2
    <3> HIDE DEF da, dc
    <3> QED BY <1>1
  <2>4. p.deaccel.end.time \in Nat
    BY PhaseTyped DEF PhasesOK
  <2>5. t1 \in 0..p.deaccel.end.time /\ t2 \in 0..p.deaccel.end.time
    <3> HIDE DEF r1, r2
    <3> QED BY <2>2, TimeInPhase DEF PhasesOK
  <2>6. t1 <= t2
    <3> HIDE DEF r1, r2
    <3> QED BY <2>2, <2>3, TimeGrowsInPhase DEF PhasesOK
  <2> HIDE DEF t1, t2, a, c
  <2> QED BY <1>1, <2>1, <2>4, <2>5, <2>6
<1>7. CASE Accelerating(d1, p) /\ ~Accelerating(d2, p)
  <2>1. get_event_time(d1, p) \in 0..a
    BY <1>7, EventTimes
  <2>2. get_event_time(d2, p) \in a..(a + c) \/ get_event_time(d2, p) \in (a + c)..duration(p)
    BY <1>7, EventTimes DEF Braking
  <2> HIDE DEF a, c
  <2> QED BY <1>1, <2>1, <2>2
<1>8. CASE Coasting(d1, p) /\ Braking(d2, p)
  <2>1. get_event_time(d1, p) \in a..(a + c)
    BY <1>8, EventTimes
  <2>2. get_event_time(d2, p) \in (a + c)..duration(p)
    BY <1>8, EventTimes
  <2> HIDE DEF a, c
  <2> QED BY <1>1, <2>1, <2>2
<1>9. Accelerating(d1, p) \/ Coasting(d1, p) \/ Braking(d1, p)
  BY DEF Braking
<1> QED BY <1>2, <1>3, <1>4, <1>5, <1>6, <1>7, <1>8, <1>9 DEF Braking, Coasting

-----------------------------------------------------------------------------
(***************************************************************************)
(* The interval list.                                                      *)
(***************************************************************************)
\* Only the limits of l and m differ.
SameShape(l, m) ==
  /\ m \in Seq(Intervals) /\ Len(m) = Len(l)
  /\ \A k \in DOMAIN l : /\ m[k].distance = l[k].distance
                         /\ m[k].stop = l[k].stop
                         /\ m[k].events = l[k].events

\* A list stays in order when its limits change.
LEMMA ShapeKeepsList ==
  ASSUME NEW l, NEW m, ListOK(l), SameShape(l, m)
  PROVE  /\ ListOK(m)
         /\ \A n \in 0..Len(l) : EventsUpTo(m, n) = EventsUpTo(l, n)
<1>1. l \in Seq(Intervals) /\ m \in Seq(Intervals) /\ Len(m) = Len(l)
  BY DEF ListOK, SameShape
<1>2. DOMAIN l = 1..Len(l) /\ DOMAIN m = 1..Len(l) /\ Len(l) \in Nat
  BY <1>1
<1>3. \A k \in DOMAIN m : /\ m[k].distance = l[k].distance
                          /\ m[k].stop = l[k].stop
                          /\ m[k].events = l[k].events
  BY <1>2 DEF SameShape
<1>4. ASSUME NEW k \in DOMAIN m PROVE IntervalOK(m, k)
  <2>1. IntervalOK(l, k) /\ begins(m, k) = begins(l, k)
    <3>1. k # 1 => k - 1 \in DOMAIN m
      BY <1>2
    <3> QED BY <1>2, <1>3, <3>1 DEF ListOK, begins
  <2> QED BY <1>3, <2>1 DEF IntervalOK, EventOK
<1>5. ASSUME NEW k \in DOMAIN m, NEW j \in 1..(k - 1) PROVE Follows(m, j, k)
  <2>1. j \in DOMAIN m /\ Follows(l, j, k)
    BY <1>2 DEF ListOK
  <2> QED BY <1>3, <2>1 DEF Follows
<1>6. m # <<>> => m[1].distance = 0
  <2>1. m # <<>> => l # <<>> /\ 1 \in DOMAIN m
    BY <1>1, <1>2
  <2> QED BY <1>3, <2>1 DEF ListOK
<1>7. ASSUME NEW n \in 0..Len(l) PROVE EventsUpTo(m, n) = EventsUpTo(l, n)
  <2>1. \A k \in 1..n : m[k].events = l[k].events
    BY <1>2, <1>3
  <2> QED BY <2>1 DEF EventsUpTo
<1> QED BY <1>1, <1>4, <1>5, <1>6, <1>7 DEF ListOK

(***************************************************************************)
(* The limits.                                                             *)
(***************************************************************************)
\* The limit that is none.
LEMMA NoLimitTyped == NoLimit \in Limits
BY DEF NoLimit, Limits

\* The limit of a node.
LEMMA LimitTyped ==
  ASSUME NEW node, node.limits \in Seq(Limits), NEW poa
  PROVE  get_speed_limit(node, poa) \in Limits
<1> DEFINE T == {k \in DOMAIN node.limits : /\ node.limits[k].poa = poa
                                            /\ node.limits[k].limit # Invalid}
<1>1. CASE T = {}
  <2>1. get_speed_limit(node, poa) = NoLimit
    BY <1>1 DEF get_speed_limit
  <2> QED BY <2>1, NoLimitTyped
<1>2. CASE T # {}
  <2>1. T \in SUBSET Nat /\ Len(node.limits) \in Nat
        /\ \A x \in T : x <= Len(node.limits) /\ x \in DOMAIN node.limits
    OBVIOUS
  <2>2. Max(T) \in T
    <3> HIDE DEF T
    <3> QED BY <1>2, <2>1, MaxOfSet
  <2>3. get_speed_limit(node, poa) = node.limits[Max(T)]
    BY <1>2 DEF get_speed_limit
  <2>4. Max(T) \in DOMAIN node.limits
    BY <2>1, <2>2
  <2> HIDE DEF T
  <2>5. node.limits[Max(T)] \in Limits
    BY <2>4
  <2> QED BY <2>3, <2>5
<1> QED BY <1>1, <1>2

\* The limit the train starts with.
LEMMA InitialLimitTyped ==
  ASSUME IsTrain(train)
  PROVE  get_initial_spl \in Nat
<1> DEFINE T == {k \in DOMAIN train.behind : train.behind[k].limit # Invalid}
<1>1. CASE T = {}
  BY <1>1 DEF get_initial_spl, IsTrain
<1>2. CASE T # {}
  <2>1. train.behind \in Seq(Limits)
    BY DEF IsTrain
  <2>2. T \in SUBSET Nat /\ \A x \in T : x \in DOMAIN train.behind
    BY <2>1
  <2>3. Min(T) \in T
    <3> HIDE DEF T
    <3> QED BY <1>2, <2>2, MinOfSet
  <2>4. get_initial_spl = train.behind[Min(T)].limit
    BY <1>2 DEF get_initial_spl
  <2>5. Min(T) \in DOMAIN train.behind
    BY <2>2, <2>3
  <2> HIDE DEF T
  <2>6. train.behind[Min(T)] \in Limits
    BY <2>1, <2>5
  <2> QED BY <2>4, <2>6 DEF Limits
<1> QED BY <1>1, <1>2

\* A sequence of intervals given by a function.
LEMMA ShapeOfFunction ==
  ASSUME NEW l \in Seq(Intervals), NEW m, m = [k \in DOMAIN l |-> m[k]],
         \A k \in DOMAIN l : /\ m[k] \in Intervals
                             /\ m[k].distance = l[k].distance
                             /\ m[k].stop = l[k].stop
                             /\ m[k].events = l[k].events
  PROVE  SameShape(l, m)
<1>1. DOMAIN l = 1..Len(l) /\ Len(l) \in Nat
  OBVIOUS
<1>2. m \in [1..Len(l) -> Intervals]
  BY <1>1
<1>3. m \in Seq(Intervals) /\ Len(m) = Len(l)
  BY <1>1, <1>2, SeqDef, LenProperties
<1> QED BY <1>3 DEF SameShape

\* The limit of the last main signal changes limits only (interval.cc:151).
LEMMA InsertOK ==
  ASSUME NEW l \in Seq(Intervals), NEW limit \in Nat, NEW ms
  PROVE  SameShape(l, insert_last_signal_spl(limit, l, ms).list)
<1> DEFINE same(k) == \A j \in ms..k : l[j].limit_right = l[ms].limit_right
           updated == {k \in ms..Len(l) : same(k)}
           after   == {k \in 2..Len(l) : k - 1 \in updated}
           m == insert_last_signal_spl(limit, l, ms).list
           left(k)  == IF k \in after THEN limit ELSE l[k].limit_left
           right(k) == IF k \in updated THEN limit ELSE l[k].limit_right
<1>1. m = [k \in DOMAIN l |-> [l[k] EXCEPT !.limit_left = left(k), !.limit_right = right(k)]]
  BY DEF insert_last_signal_spl
<1>2. \A k \in DOMAIN l : l[k] \in Intervals
  OBVIOUS
<1>3. \A k \in DOMAIN l : left(k) \in Nat /\ right(k) \in Nat
  <2> HIDE DEF after, updated
  <2> QED BY <1>2 DEF Intervals
<1> HIDE DEF m, left, right
<1>4. ASSUME NEW k \in DOMAIN l
      PROVE  /\ m[k] \in Intervals /\ m[k].distance = l[k].distance
             /\ m[k].stop = l[k].stop /\ m[k].events = l[k].events
  <2>1. m[k] = [l[k] EXCEPT !.limit_left = left(k), !.limit_right = right(k)]
    BY <1>1
  <2> DEFINE a == left(k)
             b == right(k)
             i == l[k]
             j == m[k]
  <2>2. i \in Intervals /\ a \in Nat /\ b \in Nat
        /\ j = [i EXCEPT !.limit_left = a, !.limit_right = b]
    BY <1>2, <1>3, <2>1
  <2> HIDE DEF a, b, i, j
  <2>3. /\ j \in Intervals
        /\ j.distance = i.distance /\ j.stop = i.stop /\ j.events = i.events
    BY <2>2 DEF Intervals
  <2> QED BY <2>3 DEF i, j
<1>5. m = [k \in DOMAIN l |-> m[k]]
  BY <1>1
<1>6. SameShape(l, m)
  BY <1>4, <1>5, ShapeOfFunction
<1> QED BY <1>6 DEF m

\* Lowering a limit changes limits only.
LEMMA LoweredOK ==
  ASSUME NEW k \in 2..Len(list), NEW speed \in Nat, list \in Seq(Intervals)
  PROVE  SameShape(list, with_limit(k, speed))
<1> DEFINE m1 == [list EXCEPT ![k].limit_left = speed]
           m  == [m1 EXCEPT ![k - 1].limit_right = speed]
<1>1. with_limit(k, speed) = m
  BY DEF with_limit
<1>2. k \in DOMAIN list /\ k - 1 \in DOMAIN list /\ k # k - 1
  OBVIOUS
<1>3. \A j \in DOMAIN list : list[j] \in Intervals
  OBVIOUS
<1>4. DOMAIN m1 = DOMAIN list
      /\ \A j \in DOMAIN list :
           m1[j] = IF j = k THEN [list[j] EXCEPT !.limit_left = speed] ELSE list[j]
  BY <1>2
<1> HIDE DEF m1
<1>5. DOMAIN m = DOMAIN list
      /\ \A j \in DOMAIN list :
           m[j] = IF j = k - 1 THEN [m1[j] EXCEPT !.limit_right = speed] ELSE m1[j]
  BY <1>2, <1>4
<1>6. m = [j \in DOMAIN list |-> m[j]]
  BY <1>4
<1> HIDE DEF m
<1>7. ASSUME NEW j \in DOMAIN list
      PROVE  /\ m[j] \in Intervals /\ m[j].distance = list[j].distance
             /\ m[j].stop = list[j].stop /\ m[j].events = list[j].events
  <2>1. /\ m1[j] \in Intervals /\ m1[j].distance = list[j].distance
        /\ m1[j].stop = list[j].stop /\ m1[j].events = list[j].events
    <3>1. m1[j] = list[j] \/ m1[j] = [list[j] EXCEPT !.limit_left = speed]
      BY <1>4
    <3> QED BY <1>3, <3>1 DEF Intervals
  <2>2. m[j] = m1[j] \/ m[j] = [m1[j] EXCEPT !.limit_right = speed]
    BY <1>5
  <2> QED BY <2>1, <2>2 DEF Intervals
<1>8. SameShape(list, m)
  BY <1>6, <1>7, ShapeOfFunction
<1> QED BY <1>1, <1>8

(***************************************************************************)
(* Sequences of events.                                                    *)
(***************************************************************************)
\* A concatenation has the members of both sequences.
LEMMA MembersOfConcat ==
  ASSUME NEW S, NEW a \in Seq(S), NEW b \in Seq(S)
  PROVE  a \o b \in Seq(S) /\ Members(S, a \o b) = Members(S, a) \cup Members(S, b)
<1>1. /\ a \o b \in Seq(S) /\ Len(a \o b) = Len(a) + Len(b)
      /\ DOMAIN (a \o b) = 1..(Len(a) + Len(b))
      /\ DOMAIN a = 1..Len(a) /\ DOMAIN b = 1..Len(b) /\ Len(a) \in Nat /\ Len(b) \in Nat
  OBVIOUS
<1>2. \A k \in 1..(Len(a) + Len(b)) :
        (a \o b)[k] = IF k <= Len(a) THEN a[k] ELSE b[k - Len(a)]
  OBVIOUS
<1>3. ASSUME NEW e \in Members(S, a \o b) PROVE e \in Members(S, a) \cup Members(S, b)
  <2>1. e \in S
    BY DEF Members
  <2>2. PICK k \in 1..(Len(a) + Len(b)) : e = (a \o b)[k]
    BY <1>1 DEF Members
  <2>3. CASE k <= Len(a)
    <3>1. k \in DOMAIN a /\ e = a[k]
      BY <1>1, <1>2, <2>2, <2>3
    <3> QED BY <2>1, <3>1 DEF Members
  <2>4. CASE ~(k <= Len(a))
    <3>1. k - Len(a) \in DOMAIN b /\ e = b[k - Len(a)]
      BY <1>1, <1>2, <2>2, <2>4
    <3> QED BY <2>1, <3>1 DEF Members
  <2> QED BY <2>3, <2>4
<1>4. ASSUME NEW e \in Members(S, a) PROVE e \in Members(S, a \o b)
  <2>1. PICK k \in DOMAIN a : e = a[k] /\ e \in S
    BY DEF Members
  <2>2. k \in DOMAIN (a \o b) /\ e = (a \o b)[k]
    BY <1>1, <1>2, <2>1
  <2> QED BY <2>1, <2>2 DEF Members
<1>5. ASSUME NEW e \in Members(S, b) PROVE e \in Members(S, a \o b)
  <2>1. PICK k \in DOMAIN b : e = b[k] /\ e \in S
    BY DEF Members
  <2>2. k + Len(a) \in DOMAIN (a \o b) /\ ~(k + Len(a) <= Len(a)) /\ k + Len(a) - Len(a) = k
    BY <1>1
  <2>3. e = (a \o b)[k + Len(a)]
    BY <1>1, <1>2, <2>1, <2>2
  <2> QED BY <2>1, <2>2, <2>3 DEF Members
<1> QED BY <1>1, <1>3, <1>4, <1>5

\* A concatenation has the events of both sequences.
LEMMA EventsOfConcat ==
  ASSUME NEW a \in Seq(Events), NEW b \in Seq(Events)
  PROVE  a \o b \in Seq(Events) /\ EventsIn(a \o b) = EventsIn(a) \cup EventsIn(b)
BY MembersOfConcat DEF EventsIn, Members

\* A concatenation is in order if all events of b come after those of a.
LEMMA AscendingConcat ==
  ASSUME NEW a \in Seq(Events), NEW b \in Seq(Events), Ascending(a), Ascending(b),
         \A d \in EventsIn(a), e \in EventsIn(b) : d.node < e.node
  PROVE  Ascending(a \o b)
<1>1. /\ Len(a \o b) = Len(a) + Len(b) /\ DOMAIN (a \o b) = 1..(Len(a) + Len(b))
      /\ DOMAIN a = 1..Len(a) /\ DOMAIN b = 1..Len(b) /\ Len(a) \in Nat /\ Len(b) \in Nat
  OBVIOUS
<1>2. \A k \in 1..(Len(a) + Len(b)) :
        (a \o b)[k] = IF k <= Len(a) THEN a[k] ELSE b[k - Len(a)]
  OBVIOUS
<1>3. SUFFICES ASSUME NEW k \in 1..(Len(a) + Len(b)), NEW j \in 1..(k - 1)
               PROVE  (a \o b)[j].node < (a \o b)[k].node
  BY <1>1 DEF Ascending
<1>4. j \in 1..(Len(a) + Len(b)) /\ j \in Nat /\ k \in Nat /\ j < k
  BY <1>1
<1>5. CASE k <= Len(a)
  <2>1. k \in DOMAIN a /\ j \in 1..(k - 1) /\ (a \o b)[j] = a[j] /\ (a \o b)[k] = a[k]
    BY <1>1, <1>2, <1>4, <1>5
  <2> QED BY <2>1 DEF Ascending
<1>6. CASE ~(k <= Len(a)) /\ j <= Len(a)
  <2>1. /\ j \in DOMAIN a /\ k - Len(a) \in DOMAIN b
        /\ (a \o b)[j] = a[j] /\ (a \o b)[k] = b[k - Len(a)]
    BY <1>1, <1>2, <1>4, <1>6
  <2>2. a[j] \in EventsIn(a) /\ b[k - Len(a)] \in EventsIn(b)
    <3>1. a[j] \in Events /\ b[k - Len(a)] \in Events
      BY <2>1
    <3> QED BY <2>1, <3>1 DEF EventsIn, Members
  <2> QED BY <2>1, <2>2
<1>7. CASE ~(j <= Len(a))
  <2>1. /\ k - Len(a) \in DOMAIN b /\ j - Len(a) \in 1..((k - Len(a)) - 1)
        /\ (a \o b)[j] = b[j - Len(a)] /\ (a \o b)[k] = b[k - Len(a)]
    BY <1>1, <1>2, <1>4, <1>7
  <2> QED BY <2>1 DEF Ascending
<1> QED BY <1>5, <1>6, <1>7

\* A sequence of one event.
LEMMA EventsOfOne ==
  ASSUME NEW e \in Events
  PROVE  <<e>> \in Seq(Events) /\ EventsIn(<<e>>) = {e} /\ Ascending(<<e>>)
BY DEF EventsIn, Members, Ascending

\* A sequence of none.
LEMMA EventsOfNone ==
  <<>> \in Seq(Events) /\ EventsIn(<<>>) = {} /\ Ascending(<<>>)
BY DEF EventsIn, Members, Ascending

(***************************************************************************)
(* A list with another last interval, or with one more.                    *)
(***************************************************************************)
\* It is in order if its last interval fits behind those before it.
LEMMA ReplaceLast ==
  ASSUME NEW l, ListOK(l), NEW c \in 1..(Len(l) + 1),
         NEW m \in Seq(Intervals), Len(m) = c,
         \A k \in 1..(c - 1) : m[k] = l[k],
         IntervalOK(m, c), \A k \in 1..(c - 1) : Follows(m, k, c),
         c = 1 => m[c].distance = 0
  PROVE  /\ ListOK(m)
         /\ EventsUpTo(m, c) = EventsUpTo(l, c - 1) \cup EventsIn(m[c].events)
<1>1. l \in Seq(Intervals) /\ Len(l) \in Nat /\ DOMAIN l = 1..Len(l) /\ DOMAIN m = 1..c
  BY DEF ListOK
<1>2. c \in Nat /\ c >= 1 /\ \A k \in 1..(c - 1) : k \in DOMAIN l /\ m[k] = l[k]
  BY <1>1
<1>3. ASSUME NEW k \in 1..(c - 1) PROVE IntervalOK(m, k)
  <2>1. k \in DOMAIN l /\ m[k] = l[k] /\ (k # 1 => m[k - 1] = l[k - 1])
    <3>1. k # 1 => k - 1 \in 1..(c - 1)
      BY <1>2
    <3> QED BY <1>2, <3>1
  <2>2. IntervalOK(l, k)
    BY <2>1 DEF ListOK
  <2>3. begins(m, k) = begins(l, k)
    BY <2>1 DEF begins
  <2> QED BY <2>1, <2>2, <2>3 DEF IntervalOK, EventOK
<1>4. ASSUME NEW k \in 1..(c - 1), NEW j \in 1..(k - 1) PROVE Follows(m, j, k)
  <2>1. k \in DOMAIN l /\ m[k] = l[k] /\ j \in 1..(c - 1) /\ m[j] = l[j]
    BY <1>2
  <2>2. Follows(l, j, k)
    BY <2>1 DEF ListOK
  <2> QED BY <2>1, <2>2 DEF Follows
<1>5. m[1].distance = 0
  <2>1. CASE c = 1
    BY <2>1
  <2>2. CASE c # 1
    <3>1. 1 \in 1..(c - 1)
      BY <1>2, <2>2
    <3>2. m[1] = l[1] /\ 1 \in DOMAIN l /\ l # <<>>
      BY <1>2, <3>1
    <3> QED BY <3>2 DEF ListOK
  <2> QED BY <2>1, <2>2
<1>6. ListOK(m)
  <2>1. \A k \in DOMAIN m : k \in 1..(c - 1) \/ k = c
    BY <1>1, <1>2
  <2>2. \A k \in DOMAIN m : IntervalOK(m, k)
    BY <1>3, <2>1
  <2>3. \A k \in DOMAIN m : \A j \in 1..(k - 1) : Follows(m, j, k)
    BY <1>4, <2>1
  <2> QED BY <1>5, <2>2, <2>3 DEF ListOK
<1>7. EventsUpTo(m, c) = EventsUpTo(l, c - 1) \cup EventsIn(m[c].events)
  <2>1. EventsIn(m[c].events) \subseteq Events
    BY DEF EventsIn, Members
  <2>2. 1..c = 1..(c - 1) \cup {c}
    BY <1>2
  <2> QED BY <1>2, <2>1, <2>2 DEF EventsUpTo
<1> QED BY <1>6, <1>7

\* What is pushed behind the list l.
FitsBehind(l, i) ==
  /\ i \in Intervals /\ Ascending(i.events)
  /\ l = <<>> => i.distance = 0
  /\ l # <<>> => Last(l).distance <= i.distance
  /\ \A e \in EventsIn(i.events) :
       /\ e.node \in DOMAIN train.nodes /\ e.distance <= i.distance
       /\ l # <<>> => Last(l).distance <= e.distance
       /\ stop_at(e.node).halts => e.distance = i.distance /\ i.stop = stop_at(e.node)
       /\ \A d \in EventsUpTo(l, Len(l)) : d.node < e.node
  /\ i.stop.halts =>
       \A d \in EventsUpTo(l, Len(l)) : d.distance = i.distance => ~stop_at(d.node).halts

\* The distances of a list.
LEMMA LastOfList ==
  ASSUME NEW l, ListOK(l), l # <<>>
  PROVE  /\ Len(l) \in DOMAIN l /\ Last(l) = l[Len(l)] /\ Last(l) \in Intervals
         /\ \A k \in DOMAIN l : l[k].distance <= Last(l).distance
         /\ \A e \in EventsUpTo(l, Len(l)) : e.distance <= Last(l).distance
<1>1. l \in Seq(Intervals) /\ DOMAIN l = 1..Len(l) /\ Len(l) \in Nat
  BY DEF ListOK
<1>2. Len(l) \in DOMAIN l /\ Last(l) = l[Len(l)]
  BY <1>1 DEF Last
<1>3. \A k \in DOMAIN l : l[k] \in Intervals
  BY <1>1
<1>4. \A k \in DOMAIN l : l[k].distance \in Nat
  BY <1>3 DEF Intervals
<1>5. ASSUME NEW k \in DOMAIN l PROVE l[k].distance <= l[Len(l)].distance
  <2>1. CASE k = Len(l)
    BY <1>4, <2>1
  <2>2. CASE k # Len(l)
    <3>1. k \in 1..(Len(l) - 1)
      BY <1>1, <2>2
    <3>2. l[k].distance < l[Len(l)].distance
      BY <1>2, <3>1 DEF ListOK, Follows
    <3> QED BY <1>2, <1>4, <3>2
  <2> QED BY <2>1, <2>2
<1>6. ASSUME NEW e \in EventsUpTo(l, Len(l)) PROVE e.distance <= l[Len(l)].distance
  <2>1. PICK k \in DOMAIN l : e \in EventsIn(l[k].events)
    BY <1>1 DEF EventsUpTo
  <2>2. e.distance <= l[k].distance
    BY <2>1 DEF ListOK, IntervalOK, EventOK
  <2>3. e.distance \in Nat
    BY DEF EventsUpTo, Events
  <2> QED BY <1>2, <1>4, <1>5, <2>2, <2>3
<1> QED BY <1>2, <1>3, <1>5, <1>6

\* The events of an interval are events of the list.
LEMMA EventsOfInterval ==
  ASSUME NEW l, ListOK(l), NEW k \in DOMAIN l
  PROVE  EventsIn(l[k].events) \subseteq EventsUpTo(l, Len(l)) /\ l[k] \in Intervals
<1>1. l \in Seq(Intervals) /\ DOMAIN l = 1..Len(l)
  BY DEF ListOK
<1>2. EventsIn(l[k].events) \subseteq Events
  BY DEF EventsIn, Members
<1> QED BY <1>1, <1>2 DEF EventsUpTo

\* An interval with another border is put behind the others.
LEMMA PushBehind ==
  ASSUME NEW l, ListOK(l), NEW i, FitsBehind(l, i),
         ~(l # <<>> /\ Last(l).distance = i.distance)
  PROVE  LET m == push(l, i)
         IN  /\ ListOK(m) /\ m # <<>> /\ Last(m).distance = i.distance
             /\ EventsUpTo(m, Len(m)) = EventsUpTo(l, Len(l)) \cup EventsIn(i.events)
<1> DEFINE m == l \o <<i>>
           c == Len(l) + 1
<1>1. l \in Seq(Intervals) /\ Len(l) \in Nat /\ i \in Intervals /\ DOMAIN l = 1..Len(l)
  BY DEF ListOK, FitsBehind
<1>2. m \in Seq(Intervals) /\ Len(m) = c /\ m[c] = i /\ \A k \in 1..(c - 1) : m[k] = l[k]
  BY <1>1
<1>3. push(l, i) = m
  BY DEF push
<1> HIDE DEF m
<1>4. \A k \in DOMAIN l : l[k].distance \in Nat
  <2>1. \A k \in DOMAIN l : l[k] \in Intervals
    BY <1>1
  <2> QED BY <2>1 DEF Intervals
<1>5. i.distance \in Nat
  BY <1>1 DEF Intervals
<1>6. l # <<>> => /\ Len(l) \in DOMAIN l /\ Last(l) = l[Len(l)]
                  /\ Last(l).distance < i.distance
                  /\ \A k \in DOMAIN l : l[k].distance <= Last(l).distance
  <2>1. l # <<>> => Last(l).distance <= i.distance /\ Last(l).distance # i.distance
    BY DEF FitsBehind
  <2> QED BY <1>4, <1>5, <2>1, LastOfList
<1>7. IntervalOK(m, c)
  <2>1. Ascending(m[c].events)
    BY <1>2 DEF FitsBehind
  <2>2. ASSUME NEW e \in EventsIn(i.events) PROVE EventOK(m, c, e)
    <3>1. /\ e.node \in DOMAIN train.nodes /\ e.distance <= i.distance
          /\ l # <<>> => Last(l).distance <= e.distance
          /\ stop_at(e.node).halts => e.distance = i.distance /\ i.stop = stop_at(e.node)
      BY DEF FitsBehind
    <3>2. begins(m, c) <= e.distance
      <4>1. e.distance \in Nat
        BY DEF EventsIn, Members, Events
      <4>2. CASE c = 1
        BY <4>1, <4>2 DEF begins
      <4>3. CASE c # 1
        <5>1. l # <<>> /\ Len(l) \in 1..(c - 1) /\ c - 1 = Len(l)
          BY <1>1, <4>3
        <5>2. begins(m, c) = Last(l).distance
          BY <1>2, <1>6, <4>3, <5>1 DEF begins
        <5> QED BY <3>1, <5>1, <5>2
      <4> QED BY <4>2, <4>3
    <3> QED BY <1>2, <3>1, <3>2 DEF EventOK
  <2> QED BY <1>2, <2>1, <2>2 DEF IntervalOK
<1>8. ASSUME NEW k \in 1..(c - 1) PROVE Follows(m, k, c)
  <2>1. k \in DOMAIN l /\ l # <<>> /\ m[k] = l[k]
    BY <1>1, <1>2
  <2>2. m[k].distance < m[c].distance
    BY <1>2, <1>4, <1>5, <1>6, <2>1
  <2>3. EventsIn(m[k].events) \subseteq EventsUpTo(l, Len(l))
    BY <2>1, EventsOfInterval
  <2>4. \A d \in EventsIn(m[k].events), e \in EventsIn(m[c].events) : d.node < e.node
    BY <1>2, <2>3 DEF FitsBehind
  <2> QED BY <2>2, <2>4 DEF Follows
<1>9. c = 1 => m[c].distance = 0
  <2>1. c = 1 => l = <<>>
    BY <1>1
  <2> QED BY <1>2, <2>1 DEF FitsBehind
<1>10. /\ ListOK(m)
       /\ EventsUpTo(m, c) = EventsUpTo(l, c - 1) \cup EventsIn(m[c].events)
  <2>1. c \in 1..(Len(l) + 1)
    BY <1>1
  <2> HIDE DEF c
  <2> QED BY <1>2, <1>7, <1>8, <1>9, <2>1, ReplaceLast
<1>11. m # <<>> /\ Last(m) = m[c]
  BY <1>1, <1>2 DEF Last
<1>12. EventsUpTo(m, Len(m)) = EventsUpTo(l, Len(l)) \cup EventsIn(i.events)
  BY <1>1, <1>2, <1>10
<1> QED BY <1>2, <1>3, <1>10, <1>11, <1>12

\* An interval with the same border is merged with the last one.
LEMMA PushOnto ==
  ASSUME NEW l, ListOK(l), NEW i, FitsBehind(l, i),
         l # <<>>, Last(l).distance = i.distance
  PROVE  LET m == push(l, i)
         IN  /\ ListOK(m) /\ m # <<>> /\ Last(m).distance = i.distance
             /\ EventsUpTo(m, Len(m)) = EventsUpTo(l, Len(l)) \cup EventsIn(i.events)
<1> DEFINE c == Len(l)
           o == l[c]
           j == append(o, i)
           m == Front(l) \o <<j>>
<1>1. l \in Seq(Intervals) /\ c \in Nat /\ i \in Intervals /\ DOMAIN l = 1..c /\ c >= 1
  BY DEF ListOK, FitsBehind
<1>2. Last(l) = o /\ o \in Intervals /\ o.distance = i.distance
  BY LastOfList
<1>3. j = [o EXCEPT !.limit_right = i.limit_right, !.events = o.events \o i.events,
                    !.stop = IF i.stop.halts THEN i.stop ELSE o.stop]
  BY DEF append
<1>4. o.events \in Seq(Events) /\ i.events \in Seq(Events)
  BY <1>1, <1>2 DEF Intervals
<1>5. /\ o.events \o i.events \in Seq(Events)
      /\ EventsIn(o.events \o i.events) = EventsIn(o.events) \cup EventsIn(i.events)
  BY <1>4, EventsOfConcat
<1> DEFINE es == o.events \o i.events
           st == IF i.stop.halts THEN i.stop ELSE o.stop
<1>6. es \in Seq(Events) /\ st \in Stops /\ i.limit_right \in Nat
  BY <1>1, <1>2, <1>5 DEF Intervals
<1>7. /\ j \in Intervals /\ j.distance = o.distance /\ j.events = es /\ j.stop = st
  <2> HIDE DEF es, st, j, o
  <2>1. j = [o EXCEPT !.limit_right = i.limit_right, !.events = es, !.stop = st]
    BY <1>3 DEF es, st
  <2> QED BY <1>2, <1>6, <2>1 DEF Intervals
<1>8. push(l, i) = m
  BY <1>2 DEF push
<1> HIDE DEF j, o
<1>9. m \in Seq(Intervals) /\ Len(m) = c /\ m[c] = j /\ \A k \in 1..(c - 1) : m[k] = l[k]
  <2>1. Front(l) \in Seq(Intervals) /\ Len(Front(l)) = c - 1
        /\ \A k \in 1..(c - 1) : Front(l)[k] = l[k]
    BY <1>1 DEF Front
  <2> DEFINE g == Front(l)
  <2>2. g \in Seq(Intervals) /\ Len(g) = c - 1 /\ j \in Intervals
        /\ m = g \o <<j>> /\ \A k \in 1..(c - 1) : g[k] = l[k]
    BY <1>7, <2>1
  <2> HIDE DEF g, m, c
  <2>3. m \in Seq(Intervals) /\ Len(m) = c /\ m[c] = j /\ \A k \in 1..(c - 1) : m[k] = g[k]
    BY <1>1, <2>2
  <2> QED BY <2>2, <2>3
<1> HIDE DEF m
<1> HIDE DEF m
<1>10. EventsIn(o.events) \subseteq EventsUpTo(l, Len(l)) /\ IntervalOK(l, c)
  <2>1. c \in DOMAIN l
    BY <1>1
  <2> QED BY <2>1, EventsOfInterval DEF ListOK, o
<1>11. IntervalOK(m, c)
  <2>1. Ascending(es)
    <3>1. Ascending(o.events) /\ Ascending(i.events)
      BY <1>10 DEF IntervalOK, FitsBehind, o
    <3>2. \A d \in EventsIn(o.events), e \in EventsIn(i.events) : d.node < e.node
      BY <1>10 DEF FitsBehind
    <3> QED BY <1>4, <3>1, <3>2, AscendingConcat
  <2>2. begins(m, c) = begins(l, c)
    <3>1. c # 1 => c - 1 \in 1..(c - 1)
      BY <1>1
    <3> QED BY <1>9, <3>1 DEF begins
  <2>3. ASSUME NEW e \in EventsIn(o.events) PROVE EventOK(m, c, e)
    <3>1. EventOK(l, c, e)
      BY <1>10 DEF IntervalOK, o
    <3>2. /\ e.node \in DOMAIN train.nodes
          /\ begins(m, c) <= e.distance /\ e.distance <= m[c].distance
      BY <1>7, <1>9, <2>2, <3>1 DEF EventOK, o
    <3>3. ASSUME stop_at(e.node).halts
          PROVE  e.distance = m[c].distance /\ m[c].stop = stop_at(e.node)
      <4>1. e.distance = o.distance /\ o.stop = stop_at(e.node)
        BY <3>1, <3>3 DEF EventOK, o
      <4>2. ~i.stop.halts
        BY <1>2, <1>10, <3>3, <4>1 DEF FitsBehind
      <4> QED BY <1>7, <1>9, <4>1, <4>2
    <3> QED BY <3>2, <3>3 DEF EventOK
  <2>4. ASSUME NEW e \in EventsIn(i.events) PROVE EventOK(m, c, e)
    <3>1. /\ e.node \in DOMAIN train.nodes /\ e.distance <= i.distance
          /\ Last(l).distance <= e.distance
          /\ stop_at(e.node).halts => e.distance = i.distance /\ i.stop = stop_at(e.node)
      BY DEF FitsBehind
    <3>2. e.distance = m[c].distance
      <4>1. e.distance \in Nat /\ i.distance \in Nat
        BY <1>1 DEF EventsIn, Members, Events, Intervals
      <4> QED BY <1>2, <1>7, <1>9, <3>1, <4>1
    <3>3. begins(m, c) <= e.distance
      <4>1. CASE c = 1
        <5>1. e.distance \in Nat
          BY DEF EventsIn, Members, Events
        <5> QED BY <4>1, <5>1 DEF begins
      <4>2. CASE c # 1
        <5>1. c - 1 \in 1..(c - 1) /\ c - 1 \in DOMAIN l /\ c \in DOMAIN l
          BY <1>1, <4>2
        <5>2. l[c - 1].distance < o.distance
          BY <5>1 DEF ListOK, Follows, o
        <5>3. l[c - 1].distance \in Nat /\ o.distance \in Nat
          <6>1. l[c - 1] \in Intervals
            BY <5>1, EventsOfInterval
          <6> QED BY <1>2, <6>1 DEF Intervals
        <5> QED BY <1>7, <1>9, <2>2, <3>2, <4>2, <5>2, <5>3 DEF begins
      <4> QED BY <4>1, <4>2
    <3>4. ASSUME stop_at(e.node).halts PROVE m[c].stop = stop_at(e.node)
      <4>1. i.stop = stop_at(e.node) /\ i.stop.halts
        BY <3>1, <3>4
      <4> QED BY <1>7, <1>9, <4>1
    <3>5. e.distance \in Nat
      BY DEF EventsIn, Members, Events
    <3> QED BY <3>1, <3>2, <3>3, <3>4, <3>5 DEF EventOK
  <2> HIDE DEF es
  <2>5. m[c].events = es /\ EventsIn(es) = EventsIn(o.events) \cup EventsIn(i.events)
    BY <1>5, <1>7, <1>9 DEF es
  <2> QED BY <2>1, <2>3, <2>4, <2>5 DEF IntervalOK
<1>12. ASSUME NEW k \in 1..(c - 1) PROVE Follows(m, k, c)
  <2>1. k \in DOMAIN l /\ c \in DOMAIN l /\ m[k] = l[k]
    BY <1>1, <1>9
  <2>2. Follows(l, k, c)
    BY <2>1 DEF ListOK
  <2>3. m[k].distance < m[c].distance
    BY <1>7, <1>9, <2>1, <2>2 DEF Follows, o
  <2>4. EventsIn(m[k].events) \subseteq EventsUpTo(l, Len(l))
    BY <2>1, EventsOfInterval
  <2>5. ASSUME NEW d \in EventsIn(m[k].events), NEW e \in EventsIn(m[c].events)
        PROVE  d.node < e.node
    <3>1. e \in EventsIn(o.events) \/ e \in EventsIn(i.events)
      BY <1>5, <1>7, <1>9
    <3>2. CASE e \in EventsIn(o.events)
      BY <2>1, <2>2, <3>2 DEF Follows, o
    <3>3. CASE e \in EventsIn(i.events)
      BY <2>4, <3>3 DEF FitsBehind
    <3> QED BY <3>1, <3>2, <3>3
  <2> QED BY <2>3, <2>5 DEF Follows
<1>13. c = 1 => m[c].distance = 0
  BY <1>7, <1>9 DEF ListOK, o
<1>14. /\ ListOK(m)
       /\ EventsUpTo(m, c) = EventsUpTo(l, c - 1) \cup EventsIn(m[c].events)
  <2>1. c \in 1..(Len(l) + 1)
    BY <1>1
  <2>2. c = Len(m)
    BY <1>9
  <2> HIDE DEF c
  <2> QED BY <1>9, <1>11, <1>12, <1>13, <2>1, <2>2, ReplaceLast
<1>15. m # <<>> /\ Last(m) = m[c]
  BY <1>1, <1>9 DEF Last
<1>16. EventsUpTo(l, c) = EventsUpTo(l, c - 1) \cup EventsIn(o.events)
  <2>1. 1..c = 1..(c - 1) \cup {c}
    BY <1>1
  <2> QED BY <2>1 DEF EventsUpTo, EventsIn, Members, o
<1>17. EventsUpTo(m, Len(m)) = EventsUpTo(l, Len(l)) \cup EventsIn(i.events)
  <2>1. EventsIn(m[c].events) = EventsIn(o.events) \cup EventsIn(i.events)
    BY <1>5, <1>7, <1>9
  <2> QED BY <1>9, <1>14, <1>16, <2>1
<1> QED BY <1>2, <1>7, <1>8, <1>9, <1>14, <1>15, <1>17

\* push keeps the list in order and adds the events of the interval.
LEMMA PushOK ==
  ASSUME NEW l, ListOK(l), NEW i, FitsBehind(l, i)
  PROVE  LET m == push(l, i)
         IN  /\ ListOK(m) /\ m # <<>> /\ Last(m).distance = i.distance
             /\ EventsUpTo(m, Len(m)) = EventsUpTo(l, Len(l)) \cup EventsIn(i.events)
BY PushBehind, PushOnto

-----------------------------------------------------------------------------
(***************************************************************************)
(* The nodes.                                                              *)
(***************************************************************************)
\* The parts of a node.
LEMMA NodeTyped ==
  ASSUME IsTrain(train), NEW n \in DOMAIN train.nodes
  PROVE  /\ train.nodes[n] \in Nodes /\ train.nodes[n].gap \in Nat
         /\ train.nodes[n].stop \in Stops /\ train.nodes[n].limits \in Seq(Limits)
         /\ n \in Nat /\ n \in 1..Len(train.nodes)
<1>1. train.nodes \in Seq(Nodes)
  BY DEF IsTrain
<1>2. train.nodes[n] \in Nodes /\ n \in Nat /\ n \in 1..Len(train.nodes)
  BY <1>1
<1> QED BY <1>2 DEF Nodes

\* Going on to node n.
LEMMA GoOn ==
  ASSUME IsTrain(train), NEW n \in DOMAIN train.nodes, NEW s, ScanOK(s, n),
         s.list = <<>> => train.nodes[n].gap = 0,
         NEW t, t = [s EXCEPT !.distance = s.distance + train.nodes[n].gap]
  PROVE  Scanned(t, n) /\ PlaceOK(t, n + 1) /\ NoOpenStop(t)
<1> DEFINE g == train.nodes[n].gap
<1>1. s \in Scans /\ s.distance \in Nat /\ g \in Nat /\ n \in Nat
  BY NodeTyped DEF ScanOK, Scanned, Scans
<1>2. /\ t \in Scans /\ t.distance = s.distance + g
      /\ t.list = s.list /\ t.events = s.events /\ t.last_ms = s.last_ms
  <2> HIDE DEF g
  <2>1. t = [s EXCEPT !.distance = s.distance + g]
    BY DEF g
  <2> QED BY <1>1, <2>1 DEF Scans
<1> HIDE DEF g
<1>3. t.list # <<>> => Last(t.list).distance <= t.distance
  <2>1. t.list # <<>> => Last(t.list).distance <= s.distance /\ Last(t.list).distance \in Nat
    BY <1>2, LastOfList DEF ScanOK, Scanned, Intervals
  <2> QED BY <1>1, <1>2, <2>1
<1>4. \A e \in EventsIn(t.events) : OpenOK(t, e)
  <2> SUFFICES ASSUME NEW e \in EventsIn(s.events) PROVE OpenOK(t, e)
    BY <1>2
  <2>1. OpenOK(s, e) /\ e.distance \in Nat
    BY DEF ScanOK, Scanned, EventsIn, Members, Events
  <2>2. e.distance <= t.distance
    BY <1>1, <1>2, <2>1 DEF OpenOK
  <2> QED BY <1>2, <2>1, <2>2 DEF OpenOK
<1>5. t.list = <<>> => t.distance = 0
  BY <1>1, <1>2 DEF ScanOK, Scanned, g
<1>6. Scanned(t, n)
  BY <1>2, <1>3, <1>4, <1>5 DEF ScanOK, Scanned, Found
<1>7. PlaceOK(t, n + 1)
  <2> SUFFICES ASSUME NEW d \in EventsUpTo(s.list, Len(s.list)), d.distance = t.distance,
                      stop_at(d.node).halts
               PROVE  SamePlace(d, n + 1)
    BY <1>2 DEF PlaceOK
  <2>1. d.distance <= s.distance
    <3>1. s.list # <<>>
      <4>1. s.list = <<>> => EventsUpTo(s.list, Len(s.list)) = {}
        BY DEF EventsUpTo
      <4> QED BY <4>1
    <3>2. d.distance <= Last(s.list).distance /\ Last(s.list).distance \in Nat
      BY <3>1, LastOfList DEF ScanOK, Scanned, Intervals
    <3>3. d.distance \in Nat
      BY DEF EventsUpTo, Events
    <3> QED BY <1>1, <3>1, <3>2, <3>3 DEF ScanOK, Scanned
  <2>2. g = 0 /\ d.distance = s.distance
    BY <1>1, <1>2, <2>1
  <2>3. SamePlace(d, n)
    BY <2>2 DEF ScanOK, PlaceOK
  <2>4. d.node \in Nat
    BY DEF EventsUpTo, Events
  <2>5. \A k \in (d.node + 1)..n : k \in (d.node + 1)..(n - 1) \/ k = n
    BY <1>1, <2>4
  <2>6. (n + 1) - 1 = n
    BY <1>1
  <2> QED BY <2>2, <2>3, <2>5, <2>6 DEF SamePlace, g
<1>8. NoOpenStop(t)
  BY <1>2 DEF ScanOK, NoOpenStop
<1> QED BY <1>6, <1>7, <1>8

\* Only limits are changed.
LimitsOnly(s, t) ==
  /\ t \in Scans /\ SameShape(s.list, t.list)
  /\ t.distance = s.distance /\ t.last_ms = s.last_ms /\ t.events = s.events

\* A list has the shape of itself.
LEMMA SameShapeSelf ==
  ASSUME NEW l \in Seq(Intervals)
  PROVE  SameShape(l, l)
BY DEF SameShape

\* Changing limits keeps what is known of the nodes.
LEMMA LimitsOnlyKeeps ==
  ASSUME NEW n, NEW s, NEW t, Scanned(s, n), LimitsOnly(s, t)
  PROVE  /\ Scanned(t, n)
         /\ PlaceOK(s, n + 1) => PlaceOK(t, n + 1)
         /\ NoOpenStop(s) => NoOpenStop(t)
<1>1. ListOK(s.list) /\ SameShape(s.list, t.list)
  BY DEF Scanned, LimitsOnly
<1>2. Len(t.list) = Len(s.list) /\ Len(s.list) \in Nat /\ DOMAIN s.list = 1..Len(s.list)
      /\ s.list \in Seq(Intervals) /\ t.list \in Seq(Intervals)
  BY <1>1 DEF SameShape, ListOK
<1>3. /\ ListOK(t.list)
      /\ EventsUpTo(t.list, Len(t.list)) = EventsUpTo(s.list, Len(s.list))
  <2>1. Len(s.list) \in 0..Len(s.list)
    BY <1>2
  <2> QED BY <1>1, <1>2, <2>1, ShapeKeepsList
<1>4. (t.list = <<>>) = (s.list = <<>>)
  BY <1>2
<1>5. s.list # <<>> => Last(t.list).distance = Last(s.list).distance
  <2> SUFFICES ASSUME s.list # <<>> PROVE Last(t.list).distance = Last(s.list).distance
    OBVIOUS
  <2>1. Len(s.list) \in DOMAIN s.list
    BY <1>2
  <2> QED BY <1>1, <1>2, <2>1 DEF SameShape, Last
<1>6. t.distance = s.distance /\ t.last_ms = s.last_ms /\ t.events = s.events /\ t \in Scans
  BY DEF LimitsOnly
<1>7. \A e \in EventsIn(t.events) : OpenOK(t, e)
  BY <1>3, <1>4, <1>5, <1>6 DEF Scanned, OpenOK
<1>8. Scanned(t, n)
  BY <1>3, <1>4, <1>5, <1>6, <1>7 DEF Scanned, Found
<1> QED BY <1>3, <1>6, <1>8 DEF PlaceOK, NoOpenStop

\* A limit from the last signal on changes limits only.
LEMMA LastSignalLimits ==
  ASSUME NEW s \in Scans, NEW spl \in Limits
  PROVE  LimitsOnly(s, with_last_signal(s, spl))
<1> DEFINE a == spl.limit
<1>1. a \in Nat /\ s.list \in Seq(Intervals)
  BY DEF Limits, Scans
<1>2. CASE spl = NoLimit
  BY <1>1, <1>2, SameShapeSelf DEF with_last_signal, LimitsOnly
<1>3. CASE spl # NoLimit /\ s.last_ms > Len(s.list)
  <2>1. with_last_signal(s, spl) = [s EXCEPT !.prev_limit = a, !.limit = a]
    BY <1>3 DEF with_last_signal
  <2> HIDE DEF a
  <2> QED BY <1>1, <2>1, SameShapeSelf DEF LimitsOnly, Scans
<1>4. CASE spl # NoLimit /\ ~(s.last_ms > Len(s.list))
  <2> DEFINE inserted == insert_last_signal_spl(a, s.list, s.last_ms)
             to_end   == inserted.updated_to > Len(s.list)
             l == inserted.list
             b == IF to_end THEN a ELSE s.prev_limit
             c == IF to_end THEN a ELSE s.limit
  <2>1. with_last_signal(s, spl) = [s EXCEPT !.list = l, !.prev_limit = b, !.limit = c]
    BY <1>4 DEF with_last_signal
  <2>2. SameShape(s.list, l)
    <3> HIDE DEF a
    <3> QED BY <1>1, InsertOK
  <2>3. l \in Seq(Intervals)
    BY <2>2 DEF SameShape
  <2>4. b \in Nat /\ c \in Nat
    <3>1. s.prev_limit \in Nat /\ s.limit \in Nat
      BY DEF Scans
    <3> HIDE DEF a, to_end
    <3> QED BY <1>1, <3>1
  <2> HIDE DEF a, l, b, c
  <2> DEFINE t == with_last_signal(s, spl)
  <2>5. t = [s EXCEPT !.list = l, !.prev_limit = b, !.limit = c]
    BY <2>1
  <2> HIDE DEF t
  <2>6. /\ t \in Scans /\ t.list = l /\ t.distance = s.distance
        /\ t.last_ms = s.last_ms /\ t.events = s.events
    BY <2>3, <2>4, <2>5 DEF Scans
  <2>7. LimitsOnly(s, t)
    BY <2>2, <2>6 DEF LimitsOnly
  <2> QED BY <2>7 DEF t
<1> QED BY <1>2, <1>3, <1>4

\* A limit from here on changes limits only.
LEMMA HereLimits ==
  ASSUME NEW s \in Scans, NEW spl \in Limits
  PROVE  LimitsOnly(s, with_here(s, spl))
<1> DEFINE a == spl.limit
           b == s.limit
<1>1. a \in Nat /\ b \in Nat /\ s.list \in Seq(Intervals)
  BY DEF Limits, Scans
<1>2. CASE spl = NoLimit
  BY <1>1, <1>2, SameShapeSelf DEF with_here, LimitsOnly
<1>3. CASE spl # NoLimit
  <2>1. with_here(s, spl) = [s EXCEPT !.prev_limit = b, !.limit = a]
    BY <1>3 DEF with_here
  <2> HIDE DEF a, b
  <2> QED BY <1>1, <2>1, SameShapeSelf DEF LimitsOnly, Scans
<1> QED BY <1>2, <1>3

\* Two changes of limits are one.
LEMMA LimitsOnlyTwice ==
  ASSUME NEW s, NEW t, NEW u, s.list \in Seq(Intervals), LimitsOnly(s, t), LimitsOnly(t, u)
  PROVE  LimitsOnly(s, u)
<1>1. /\ t.list \in Seq(Intervals) /\ u.list \in Seq(Intervals)
      /\ Len(t.list) = Len(s.list) /\ Len(u.list) = Len(s.list)
  BY DEF LimitsOnly, SameShape
<1>2. DOMAIN t.list = DOMAIN s.list
  BY <1>1
<1>3. SameShape(s.list, u.list)
  BY <1>1, <1>2 DEF LimitsOnly, SameShape
<1> QED BY <1>3 DEF LimitsOnly

\* The recorded nodes before the next node.
LEMMA RecordedOneMore ==
  ASSUME IsTrain(train), NEW n \in DOMAIN train.nodes
  PROVE  RecordedBefore(n + 1) = RecordedBefore(n) \cup (IF n \in Recorded THEN {n} ELSE {})
<1>1. train.nodes \in Seq(Nodes)
  BY DEF IsTrain
<1>2. Recorded \subseteq Nat /\ n \in Nat
  BY <1>1 DEF Recorded
<1>3. ASSUME NEW m \in Recorded PROVE m < n + 1 <=> m < n \/ m = n
  <2>1. m \in Nat
    BY <1>2
  <2> QED BY <1>2, <2>1
<1>4. n \notin Recorded => \A m \in Recorded : m # n
  OBVIOUS
<1> QED BY <1>3, <1>4 DEF RecordedBefore

\* A node that is not recorded adds no event.
LEMMA SkipNode ==
  ASSUME IsTrain(train), NEW n \in DOMAIN train.nodes, n \notin Recorded,
         NEW s, Scanned(s, n)
  PROVE  Scanned(s, n + 1)
BY RecordedOneMore DEF Scanned

\* An open event that stops is the one of node n.
OpenStopsAt(s, n) ==
  \A e \in EventsIn(s.events) :
    stop_at(e.node).halts => e.node = n /\ e.distance = s.distance

\* Node n is recorded.
LEMMA AddEvent ==
  ASSUME IsTrain(train), NEW n \in DOMAIN train.nodes, n = index,
         ~train.nodes[n].omitted, NEW s, Scanned(s, n), PlaceOK(s, n + 1), NoOpenStop(s)
  PROVE  LET t == with_events(s, train.nodes[n])
         IN  /\ Scanned(t, n + 1) /\ PlaceOK(t, n + 1) /\ OpenStopsAt(t, n)
             /\ t.list = s.list
             /\ \A d \in EventsUpTo(s.list, Len(s.list)) : d.node < n
<1> DEFINE node == train.nodes[n]
           ev   == [node |-> n, distance |-> s.distance]
           ms   == IF node.type = "MAIN_SIGNAL" THEN Len(s.list) + 1 ELSE s.last_ms
           es   == IF node.type \in train.record_types THEN Append(s.events, ev) ELSE s.events
           t    == with_events(s, node)
<1>1. t = [s EXCEPT !.last_ms = ms, !.events = es]
  BY DEF with_events
<1>2. /\ s \in Scans /\ s.list \in Seq(Intervals) /\ s.events \in Seq(Events)
      /\ s.last_ms \in Nat /\ s.last_ms # 0 /\ s.distance \in Nat /\ n \in Nat
  BY NodeTyped DEF Scanned, Scans
<1>3. ev \in Events /\ ev.node = n /\ ev.distance = s.distance
  BY <1>2 DEF Events
<1>4. ms \in Nat /\ ms # 0
  BY <1>2
<1>5. n \in Recorded <=> node.type \in train.record_types
  BY DEF Recorded
<1>6. /\ n \in Recorded => es = s.events \o <<ev>>
      /\ n \notin Recorded => es = s.events
  <2> HIDE DEF ev
  <2>1. Append(s.events, ev) = s.events \o <<ev>>
    BY <1>2, <1>3, AppendIsConcat
  <2> QED BY <1>5, <2>1
<1> HIDE DEF ev
<1>7. /\ \A e \in EventsIn(s.events) : e.node < n
      /\ \A d \in EventsUpTo(s.list, Len(s.list)) : d.node < n
  <2>1. EventsIn(s.events) \subseteq Found(s)
        /\ EventsUpTo(s.list, Len(s.list)) \subseteq Found(s)
    BY DEF Found
  <2>2. \A f \in Found(s) : f.node \in RecordedBefore(n)
    BY DEF Scanned, NodesOf
  <2> QED BY <2>1, <2>2 DEF RecordedBefore
<1>8. /\ es \in Seq(Events) /\ Ascending(es)
      /\ EventsIn(es) = EventsIn(s.events) \cup (IF n \in Recorded THEN {ev} ELSE {})
  <2>1. CASE n \in Recorded
    <3>1. /\ <<ev>> \in Seq(Events) /\ EventsIn(<<ev>>) = {ev} /\ Ascending(<<ev>>)
      BY <1>3, EventsOfOne
    <3>2. /\ s.events \o <<ev>> \in Seq(Events)
          /\ EventsIn(s.events \o <<ev>>) = EventsIn(s.events) \cup {ev}
      BY <1>2, <3>1, EventsOfConcat
    <3>3. Ascending(s.events)
      BY DEF Scanned
    <3>4. \A d \in EventsIn(s.events), e \in EventsIn(<<ev>>) : d.node < e.node
      BY <1>3, <1>7, <3>1
    <3>5. Ascending(s.events \o <<ev>>)
      BY <1>2, <3>1, <3>3, <3>4, AscendingConcat
    <3> QED BY <1>6, <2>1, <3>2, <3>5
  <2>2. CASE n \notin Recorded
    BY <1>2, <1>6, <2>2 DEF Scanned
  <2> QED BY <2>1, <2>2
<1> HIDE DEF ms, es, t
<1>9. /\ t \in Scans /\ t.list = s.list /\ t.distance = s.distance
      /\ t.last_ms = ms /\ t.events = es
  BY <1>1, <1>2, <1>4, <1>8 DEF Scans
<1>10. \A e \in EventsIn(es) : OpenOK(t, e)
  <2>1. ASSUME NEW e \in EventsIn(s.events) PROVE OpenOK(t, e)
    BY <1>9 DEF Scanned, OpenOK
  <2>2. OpenOK(t, ev)
    <3>1. s.distance <= s.distance
      BY <1>2
    <3> QED BY <1>3, <1>7, <1>9, <3>1 DEF Scanned, OpenOK
  <2> QED BY <1>8, <2>1, <2>2
<1>11. NodesOf(Found(t)) = RecordedBefore(n + 1)
  <2>1. Found(t) = Found(s) \cup (IF n \in Recorded THEN {ev} ELSE {})
    BY <1>8, <1>9 DEF Found
  <2>2. NodesOf(Found(t)) = NodesOf(Found(s)) \cup (IF n \in Recorded THEN {n} ELSE {})
    <3>1. CASE n \in Recorded
      <4>1. Found(t) = Found(s) \cup {ev}
        BY <2>1, <3>1
      <4> QED BY <1>3, <3>1, <4>1 DEF NodesOf
    <3>2. CASE n \notin Recorded
      BY <2>1, <3>2
    <3> QED BY <3>1, <3>2
  <2> QED BY <2>2, RecordedOneMore DEF Scanned
<1>12. Scanned(t, n + 1)
  BY <1>4, <1>8, <1>9, <1>10, <1>11 DEF Scanned
<1>13. PlaceOK(t, n + 1)
  BY <1>9 DEF PlaceOK
<1>14. OpenStopsAt(t, n)
  BY <1>3, <1>8, <1>9 DEF OpenStopsAt, NoOpenStop
<1> QED BY <1>7, <1>9, <1>12, <1>13, <1>14 DEF t

\* A border behind node n, or none.
LEMMA AddBorder ==
  ASSUME IsTrain(train), NEW n \in DOMAIN train.nodes, NEW s, NEW here,
         Scanned(s, n + 1), PlaceOK(s, n + 1), OpenStopsAt(s, n),
         \A d \in EventsUpTo(s.list, Len(s.list)) : d.node < n
  PROVE  LET t == with_border(s, train.nodes[n], here)
         IN  /\ ScanOK(t, n + 1)
             /\ s.list # <<>> => t.list # <<>>
             /\ train.nodes[n].type = "HALT" => t.list # <<>> /\ t.events = <<>>
<1> DEFINE node == train.nodes[n]
           t == with_border(s, node, here)
           i == [distance    |-> s.distance,
                 limit_left  |-> s.prev_limit,
                 limit_right |-> s.limit,
                 stop        |-> node.stop,
                 events      |-> s.events]
           l == push(s.list, i)
           no_border == node.type \notin {"MAIN_SIGNAL", "HALT"} /\ here = NoLimit
<1>1. node.stop \in Stops /\ n \in Nat
  BY NodeTyped
<1>2. CASE no_border
  <2>1. t = s
    BY <1>2 DEF with_border
  <2>2. ~node.stop.halts
    BY <1>2 DEF IsTrain
  <2>3. NoOpenStop(s)
    BY <2>2 DEF NoOpenStop, OpenStopsAt, stop_at
  <2> QED BY <1>2, <2>1, <2>3 DEF ScanOK
<1>3. CASE ~no_border
  <2>1. /\ s \in Scans /\ s.list \in Seq(Intervals) /\ s.events \in Seq(Events)
        /\ s.distance \in Nat /\ s.prev_limit \in Nat /\ s.limit \in Nat /\ s.last_ms \in Nat
    BY DEF Scanned, Scans
  <2>2. i \in Intervals /\ i.distance = s.distance /\ i.stop = node.stop /\ i.events = s.events
    BY <1>1, <2>1 DEF Intervals
  <2>3. t = [s EXCEPT !.list = l, !.prev_limit = s.limit, !.events = <<>>]
    BY <1>3 DEF with_border
  <2> HIDE DEF i
  <2>4. FitsBehind(s.list, i)
    <3>1. \A e \in EventsIn(i.events) :
            /\ e.node \in DOMAIN train.nodes /\ e.distance <= i.distance
            /\ s.list # <<>> => Last(s.list).distance <= e.distance
            /\ stop_at(e.node).halts => e.distance = i.distance /\ i.stop = stop_at(e.node)
            /\ \A d \in EventsUpTo(s.list, Len(s.list)) : d.node < e.node
      BY <2>2 DEF Scanned, OpenOK, OpenStopsAt, stop_at
    <3>2. ASSUME i.stop.halts, NEW d \in EventsUpTo(s.list, Len(s.list)),
                 d.distance = i.distance, stop_at(d.node).halts
          PROVE  FALSE
      <4>1. SamePlace(d, n + 1)
        BY <2>2, <3>2 DEF PlaceOK
      <4>2. d.node < n /\ d.node \in DOMAIN train.nodes
        <5>1. d.node \in RecordedBefore(n + 1)
          BY DEF Scanned, NodesOf, Found
        <5> QED BY <5>1 DEF RecordedBefore, Recorded
      <4>3. \E k \in (d.node + 1)..n : train.nodes[k].gap > 0
        BY <2>2, <3>2, <4>2 DEF IsTrain, stop_at
      <4>4. (n + 1) - 1 = n
        BY <1>1
      <4> QED BY <4>1, <4>3, <4>4 DEF SamePlace
    <3>3. /\ Ascending(i.events)
          /\ s.list = <<>> => i.distance = 0
          /\ s.list # <<>> => Last(s.list).distance <= i.distance
      BY <2>2 DEF Scanned
    <3> QED BY <2>2, <3>1, <3>2, <3>3 DEF FitsBehind
  <2>5. ListOK(s.list)
    BY DEF Scanned
  <2>6. /\ ListOK(l) /\ l # <<>> /\ Last(l).distance = s.distance
        /\ EventsUpTo(l, Len(l)) = EventsUpTo(s.list, Len(s.list)) \cup EventsIn(s.events)
    BY <2>2, <2>4, <2>5, PushOK
  <2>7. l \in Seq(Intervals)
    BY <2>6 DEF ListOK
  <2> DEFINE a == s.limit
             none == <<>>
  <2> HIDE DEF l, t
  <2>15. t = [s EXCEPT !.list = l, !.prev_limit = a, !.events = none]
         /\ a \in Nat /\ none \in Seq(Events) /\ none = <<>>
    BY <2>1, <2>3
  <2> HIDE DEF a, none
  <2>8. /\ t \in Scans /\ t.list = l /\ t.distance = s.distance /\ t.events = <<>>
        /\ t.last_ms = s.last_ms
    <3>1. s \in Scans
      BY <2>1
    <3> QED BY <3>1, <2>7, <2>15 DEF Scans
  <2>9. Found(t) = Found(s)
    BY <2>6, <2>8, EventsOfNone DEF Found
  <2>10. s.distance <= s.distance
    BY <2>1
  <2>11. Scanned(t, n + 1)
    BY <2>6, <2>8, <2>9, <2>10, EventsOfNone DEF Scanned
  <2>12. PlaceOK(t, n + 1)
    <3> SUFFICES ASSUME NEW d \in EventsUpTo(l, Len(l)), d.distance = s.distance,
                        stop_at(d.node).halts
                 PROVE  SamePlace(d, n + 1)
      BY <2>8 DEF PlaceOK
    <3>1. CASE d \in EventsUpTo(s.list, Len(s.list))
      BY <3>1 DEF PlaceOK
    <3>2. CASE d \in EventsIn(s.events)
      <4>1. d.node = n
        BY <3>2 DEF OpenStopsAt
      <4>2. (n + 1)..((n + 1) - 1) = {}
        BY <1>1
      <4> QED BY <4>1, <4>2 DEF SamePlace
    <3> QED BY <2>6, <3>1, <3>2
  <2>13. NoOpenStop(t)
    BY <2>8, EventsOfNone DEF NoOpenStop
  <2>14. ScanOK(t, n + 1) /\ t.list # <<>> /\ t.events = <<>>
    BY <2>6, <2>8, <2>11, <2>12, <2>13 DEF ScanOK
  <2> QED BY <2>14 DEF t
<1>4. node.type = "HALT" => ~no_border
  OBVIOUS
<1> QED
  <2> HIDE DEF t
  <2>1. CASE no_border
    <3>1. t = s
      BY <2>1 DEF with_border, t
    <3> QED BY <1>2, <1>4, <2>1, <3>1 DEF t
  <2>2. CASE ~no_border
    BY <1>3, <2>2 DEF t
  <2> QED BY <2>1, <2>2

-----------------------------------------------------------------------------
(***************************************************************************)
(* The stamps.                                                             *)
(***************************************************************************)
\* Stamps that come after others are put behind them.
LEMMA StampsConcat ==
  ASSUME NEW a, NEW b, StampsOK(a), StampsOK(b),
         \A s \in StampsIn(a), t \in StampsIn(b) : Before(s, t)
  PROVE  /\ StampsOK(a \o b)
         /\ HaltsOf(a \o b) = HaltsOf(a) \cup {Len(a) + k : k \in HaltsOf(b)}
<1>1. /\ a \in Seq(Stamps) /\ b \in Seq(Stamps) /\ a \o b \in Seq(Stamps)
      /\ DOMAIN (a \o b) = 1..(Len(a) + Len(b))
      /\ DOMAIN a = 1..Len(a) /\ DOMAIN b = 1..Len(b) /\ Len(a) \in Nat /\ Len(b) \in Nat
  BY DEF StampsOK
<1>2. \A k \in 1..(Len(a) + Len(b)) :
        (a \o b)[k] = IF k <= Len(a) THEN a[k] ELSE b[k - Len(a)]
  BY <1>1
<1>3. ASSUME NEW k \in 1..(Len(a) + Len(b)) PROVE StampOK((a \o b)[k])
  <2>1. CASE k <= Len(a)
    <3>1. k \in DOMAIN a /\ (a \o b)[k] = a[k]
      BY <1>1, <1>2, <2>1
    <3> QED BY <3>1 DEF StampsOK
  <2>2. CASE ~(k <= Len(a))
    <3>1. k - Len(a) \in DOMAIN b /\ (a \o b)[k] = b[k - Len(a)]
      BY <1>1, <1>2, <2>2
    <3> QED BY <3>1 DEF StampsOK
  <2> QED BY <2>1, <2>2
<1>4. ASSUME NEW k \in 1..(Len(a) + Len(b)), NEW j \in 1..(k - 1)
      PROVE  Before((a \o b)[j], (a \o b)[k])
  <2>1. j \in 1..(Len(a) + Len(b)) /\ j \in Nat /\ k \in Nat /\ j < k
    BY <1>1
  <2>2. CASE k <= Len(a)
    <3>1. k \in DOMAIN a /\ (a \o b)[j] = a[j] /\ (a \o b)[k] = a[k]
      BY <1>1, <1>2, <2>1, <2>2
    <3> QED BY <3>1 DEF StampsOK
  <2>3. CASE ~(k <= Len(a)) /\ j <= Len(a)
    <3>1. /\ j \in DOMAIN a /\ k - Len(a) \in DOMAIN b
          /\ (a \o b)[j] = a[j] /\ (a \o b)[k] = b[k - Len(a)]
      BY <1>1, <1>2, <2>1, <2>3
    <3>2. a[j] \in Stamps /\ b[k - Len(a)] \in Stamps
      BY <1>1, <3>1
    <3>3. a[j] \in StampsIn(a) /\ b[k - Len(a)] \in StampsIn(b)
      BY <3>1, <3>2 DEF StampsIn, Members
    <3> QED BY <3>1, <3>3
  <2>4. CASE ~(j <= Len(a))
    <3>1. /\ k - Len(a) \in DOMAIN b /\ j - Len(a) \in 1..((k - Len(a)) - 1)
          /\ (a \o b)[j] = b[j - Len(a)] /\ (a \o b)[k] = b[k - Len(a)]
      BY <1>1, <1>2, <2>1, <2>4
    <3> QED BY <3>1 DEF StampsOK
  <2> QED BY <2>2, <2>3, <2>4
<1>5. ASSUME NEW k \in HaltsOf(a \o b)
      PROVE  k \in HaltsOf(a) \cup {Len(a) + m : m \in HaltsOf(b)}
  <2>1. k \in 1..(Len(a) + Len(b)) /\ train.nodes[(a \o b)[k].node].type = "HALT"
    BY <1>1 DEF HaltsOf
  <2>2. CASE k <= Len(a)
    BY <1>1, <1>2, <2>1, <2>2 DEF HaltsOf
  <2>3. CASE ~(k <= Len(a))
    <3>1. k - Len(a) \in DOMAIN b /\ (a \o b)[k] = b[k - Len(a)] /\ k = Len(a) + (k - Len(a))
      BY <1>1, <1>2, <2>1, <2>3
    <3>2. k - Len(a) \in HaltsOf(b)
      BY <2>1, <3>1 DEF HaltsOf
    <3> QED BY <3>1, <3>2
  <2> QED BY <2>2, <2>3
<1>6. ASSUME NEW k \in HaltsOf(a) PROVE k \in HaltsOf(a \o b)
  <2>1. k \in DOMAIN (a \o b) /\ (a \o b)[k] = a[k]
    BY <1>1, <1>2 DEF HaltsOf
  <2> QED BY <2>1 DEF HaltsOf
<1>7. ASSUME NEW k \in HaltsOf(b) PROVE Len(a) + k \in HaltsOf(a \o b)
  <2>1. k \in DOMAIN b
    BY DEF HaltsOf
  <2>2. Len(a) + k \in DOMAIN (a \o b) /\ ~(Len(a) + k <= Len(a)) /\ (Len(a) + k) - Len(a) = k
    BY <1>1, <2>1
  <2>3. (a \o b)[Len(a) + k] = b[k]
    BY <1>1, <1>2, <2>2
  <2> QED BY <2>2, <2>3 DEF HaltsOf
<1>8. StampsOK(a \o b)
  BY <1>1, <1>3, <1>4 DEF StampsOK
<1> QED BY <1>5, <1>6, <1>7, <1>8

\* One stamp for each event.
LEMMA StampsOfEvents ==
  ASSUME NEW events \in Seq(Events), Ascending(events),
         NEW stamps, stamps = [e \in DOMAIN events |-> stamps[e]],
         \A e \in DOMAIN events :
           /\ stamps[e] \in Stamps /\ StampOK(stamps[e])
           /\ stamps[e].node = events[e].node
           /\ stamps[e].distance = events[e].distance,
         \A a, b \in DOMAIN events : events[a].distance < events[b].distance =>
                                       stamps[a].departure <= stamps[b].arrival
  PROVE  /\ StampsOK(stamps)
         /\ NodesOf(StampsIn(stamps)) = NodesOf(EventsIn(events))
<1>1. DOMAIN events = 1..Len(events) /\ Len(events) \in Nat
  OBVIOUS
<1>2. stamps \in [1..Len(events) -> Stamps]
  BY <1>1
<1>3. stamps \in Seq(Stamps) /\ DOMAIN stamps = DOMAIN events
  BY <1>1, <1>2, SeqDef, LenProperties
<1>4. ASSUME NEW k \in DOMAIN stamps, NEW j \in 1..(k - 1) PROVE Before(stamps[j], stamps[k])
  <2>1. j \in DOMAIN events /\ k \in DOMAIN events
    BY <1>1, <1>3
  <2>2. events[j].node < events[k].node
    BY <2>1 DEF Ascending
  <2> QED BY <2>1, <2>2 DEF Before
<1>5. StampsOK(stamps)
  BY <1>3, <1>4 DEF StampsOK
<1>6. ASSUME NEW e \in EventsIn(events) PROVE \E s \in StampsIn(stamps) : s.node = e.node
  <2>1. PICK k \in DOMAIN events : e = events[k]
    BY DEF EventsIn, Members
  <2>2. stamps[k] \in StampsIn(stamps)
    BY <1>3, <2>1 DEF StampsIn, Members
  <2> QED BY <2>1, <2>2
<1>7. ASSUME NEW s \in StampsIn(stamps) PROVE \E e \in EventsIn(events) : s.node = e.node
  <2>1. PICK k \in DOMAIN events : s = stamps[k]
    BY <1>3 DEF StampsIn, Members
  <2>2. events[k] \in Events
    BY <2>1
  <2>3. events[k] \in EventsIn(events)
    BY <2>1, <2>2 DEF EventsIn, Members
  <2> QED BY <2>1, <2>3
<1> QED BY <1>5, <1>6, <1>7 DEF NodesOf

\* The train leaves no earlier than it may (runtime.cc:242).
LEMMA DepartureOK ==
  ASSUME NEW i \in Intervals, NEW arrival \in Nat
  PROVE  /\ departure_of(i, arrival) \in Nat /\ arrival <= departure_of(i, arrival)
         /\ i.stop.halts => /\ departure_of(i, arrival) >= i.stop.departure
                            /\ departure_of(i, arrival) >= arrival + i.stop.min_stop
<1> DEFINE a == i.stop.departure
           b == arrival + i.stop.min_stop
<1>1. a \in Nat /\ b \in Nat /\ arrival <= b
  BY DEF Intervals, Stops
<1>2. CASE i.stop.halts
  <2>1. departure_of(i, arrival) = Max({a, b})
    BY <1>2 DEF departure_of
  <2>2. Max({a, b}) \in {a, b} /\ a <= Max({a, b}) /\ b <= Max({a, b})
    <3> HIDE DEF a, b
    <3>1. {a, b} \in SUBSET Nat /\ a + b \in Nat /\ \A x \in {a, b} : x <= a + b
      BY <1>1
    <3> QED BY <3>1, MaxOfSet
  <2> DEFINE m == Max({a, b})
  <2> HIDE DEF m, a, b
  <2>3. m \in Nat /\ a <= m /\ b <= m /\ arrival <= m /\ departure_of(i, arrival) = m
    BY <1>1, <2>1, <2>2 DEF m
  <2> QED BY <2>3 DEF a, b
<1>3. CASE ~i.stop.halts
  BY <1>3 DEF departure_of
<1> QED BY <1>2, <1>3

\* Cutting ticks to seconds keeps the order, and is exact for whole seconds.
LEMMA Seconds ==
  ASSUME NEW a \in Nat, NEW b \in Nat, NEW c \in Nat, b <= c
  PROVE  /\ si_to_relative_time(a) \in Nat
         /\ si_to_relative_time(b) <= si_to_relative_time(c)
         /\ si_to_relative_time(a) + si_to_relative_time(b) <= si_to_relative_time(a + c)
         /\ si_to_relative_time(a + 2 * b) = si_to_relative_time(a) + b
BY DEF si_to_relative_time

\* The stamps of an interval lie between its start and the departure at its end.
LEMMA IntervalStamps ==
  ASSUME NEW l, ListOK(l), NEW k \in 2..Len(l), NEW p,
         PhasesOK(p, l[k].distance - l[k - 1].distance), NEW t \in Nat
  PROVE  LET arrival   == si_to_relative_time(t + duration(p))
             departure == departure_of(l[k], arrival)
             stamps    == determine_event_timestamps(
                            l[k - 1], l[k], si_to_relative_time(t), arrival, departure, p)
         IN  /\ StampsOK(stamps)
             /\ NodesOf(StampsIn(stamps)) = NodesOf(EventsIn(l[k].events))
             /\ \A s \in StampsIn(stamps) : /\ si_to_relative_time(t) <= s.arrival
                                            /\ s.departure <= departure
             /\ arrival \in Nat /\ departure \in Nat /\ arrival <= departure
             /\ duration(p) \in Nat
<1> DEFINE i == l[k]
           prev == l[k - 1]
           length == i.distance - prev.distance
           start == si_to_relative_time(t)
           arrival   == si_to_relative_time(t + duration(p))
           departure == departure_of(i, arrival)
           stamps == determine_event_timestamps(prev, i, start, arrival, departure, p)
           events == i.events
<1>1. k \in DOMAIN l /\ k - 1 \in DOMAIN l /\ k # 1 /\ k - 1 \in 1..(k - 1)
  BY DEF ListOK
<1>2. i \in Intervals /\ prev \in Intervals
  BY <1>1, EventsOfInterval
<1>3. /\ i.distance \in Nat /\ prev.distance \in Nat /\ prev.distance < i.distance
      /\ events \in Seq(Events)
  <2>1. Follows(l, k - 1, k)
    BY <1>1 DEF ListOK
  <2> QED BY <1>2, <2>1 DEF Intervals, Follows
<1>4. IntervalOK(l, k) /\ begins(l, k) = prev.distance
  BY <1>1 DEF ListOK, begins
<1>5. length \in Nat /\ length > 0 /\ PhasesOK(p, length)
  BY <1>3
<1> HIDE DEF i, prev
<1>6. duration(p) \in Nat
  <2> HIDE DEF length
  <2>1. 0 \in 0..(length - 1)
    BY <1>5
  <2> QED BY <1>5, <2>1, EventTimeBounded
<1>7. start \in Nat /\ arrival \in Nat /\ start <= arrival
  <2>1. 0 <= duration(p) /\ t + duration(p) \in Nat /\ t <= t + duration(p)
    BY <1>6
  <2> QED BY <2>1, Seconds
<1> HIDE DEF start, arrival
<1>8. departure \in Nat /\ arrival <= departure
  BY <1>2, <1>7, DepartureOK
<1> DEFINE at(e)  == get_event_time(events[e].distance - prev.distance, p)
           end(e) == events[e].distance = i.distance
<1>9. \A e \in DOMAIN events :
        stamps[e] = IF end(e) THEN Stamp(arrival, departure, events[e])
                    ELSE Stamp(start + si_to_relative_time(at(e)),
                               start + si_to_relative_time(at(e)), events[e])
  BY DEF determine_event_timestamps
<1>10. stamps = [e \in DOMAIN events |-> stamps[e]]
  BY DEF determine_event_timestamps
<1>11. ASSUME NEW e \in DOMAIN events
       PROVE  /\ events[e] \in Events /\ EventOK(l, k, events[e])
              /\ events[e].node \in Nat /\ events[e].distance \in Nat
              /\ prev.distance <= events[e].distance /\ events[e].distance <= i.distance
              /\ ~end(e) => events[e].distance - prev.distance \in 0..(length - 1)
  <2>1. events[e] \in Events
    BY <1>3
  <2>2. events[e] \in EventsIn(events)
    BY <2>1 DEF EventsIn, Members
  <2>3. EventOK(l, k, events[e])
    BY <1>4, <2>2 DEF IntervalOK, i
  <2>4. /\ events[e].node \in Nat /\ events[e].distance \in Nat
        /\ prev.distance <= events[e].distance /\ events[e].distance <= i.distance
    BY <1>4, <2>1, <2>3 DEF EventOK, Events, i
  <2> QED BY <1>3, <2>1, <2>3, <2>4
<1> HIDE DEF departure, stamps, length
<1>12. ASSUME NEW e \in DOMAIN events, ~end(e)
       PROVE  /\ at(e) \in Nat
              /\ start + si_to_relative_time(at(e)) \in start..arrival
  <2> DEFINE d == events[e].distance - prev.distance
  <2>1. d \in 0..(length - 1)
    BY <1>11, <1>12
  <2>2. get_event_time(d, p) \in 0..duration(p)
    BY <1>5, <2>1, EventTimeBounded
  <2> DEFINE g == at(e)
  <2>3. g \in Nat /\ g <= duration(p)
    BY <1>6, <2>2
  <2> HIDE DEF g
  <2>4. si_to_relative_time(g) \in Nat
    BY <2>3, Seconds
  <2>5. start + si_to_relative_time(g) <= arrival
    BY <1>6, <2>3, Seconds DEF start, arrival
  <2>6. start + si_to_relative_time(g) \in start..arrival
    BY <1>7, <2>4, <2>5
  <2> QED BY <2>3, <2>6 DEF g
<1>13. ASSUME NEW e \in DOMAIN events
       PROVE  /\ stamps[e] \in Stamps
              /\ stamps[e].node = events[e].node
              /\ stamps[e].distance = events[e].distance
              /\ stamps[e].arrival <= stamps[e].departure
              /\ start <= stamps[e].arrival /\ stamps[e].departure <= departure
              /\ ~end(e) => stamps[e].departure <= arrival
              /\ end(e) => stamps[e].arrival = arrival /\ stamps[e].departure = departure
  <2>1. CASE end(e)
    <3>1. stamps[e] = Stamp(arrival, departure, events[e])
      BY <1>9, <2>1
    <3> HIDE DEF end
    <3> QED BY <1>7, <1>8, <1>11, <2>1, <3>1 DEF Stamp, Stamps
  <2>2. CASE ~end(e)
    <3> DEFINE s == start + si_to_relative_time(at(e))
    <3>1. stamps[e] = Stamp(s, s, events[e])
      BY <1>9, <2>2
    <3>2. s \in start..arrival
      BY <1>12, <2>2
    <3> HIDE DEF s, end
    <3>3. s \in Nat /\ start <= s /\ s <= arrival /\ s <= departure
      BY <1>7, <1>8, <3>2
    <3> QED BY <1>11, <2>2, <3>1, <3>3 DEF Stamp, Stamps
  <2> QED BY <2>1, <2>2
<1>14. ASSUME NEW e \in DOMAIN events PROVE StampOK(stamps[e])
  <2>1. ASSUME stop_at(stamps[e].node).halts
        PROVE  /\ stamps[e].departure >= stop_at(stamps[e].node).departure
               /\ stamps[e].departure >= stamps[e].arrival + stop_at(stamps[e].node).min_stop
    <3>1. events[e].distance = i.distance /\ i.stop = stop_at(events[e].node)
      BY <1>11, <1>13, <2>1 DEF EventOK, i
    <3>2. end(e) /\ i.stop.halts /\ i.stop = stop_at(stamps[e].node)
      BY <1>13, <2>1, <3>1
    <3>3. stamps[e].arrival = arrival /\ stamps[e].departure = departure
      BY <1>13, <3>2
    <3>4. departure >= i.stop.departure /\ departure >= arrival + i.stop.min_stop
      BY <1>2, <1>7, <3>2, DepartureOK DEF departure
    <3> QED BY <3>2, <3>3, <3>4
  <2> QED BY <1>13, <2>1 DEF StampOK, StopKept
<1>15. ASSUME NEW a \in DOMAIN events, NEW b \in DOMAIN events,
              events[a].distance < events[b].distance
       PROVE  stamps[a].departure <= stamps[b].arrival
  <2>1. ~end(a)
    BY <1>3, <1>11, <1>15
  <2>2. CASE end(b)
    BY <1>13, <2>1, <2>2
  <2>3. CASE ~end(b)
    <3> DEFINE c == events[a].distance - prev.distance
               d == events[b].distance - prev.distance
    <3>1. c \in 0..(length - 1) /\ d \in 0..(length - 1)
      BY <1>11, <2>1, <2>3
    <3>2. c <= d
      BY <1>3, <1>11, <1>15
    <3>3. get_event_time(c, p) <= get_event_time(d, p)
      <4> HIDE DEF c, d
      <4> QED BY <1>5, <3>1, <3>2, EventTimeGrows
    <3> DEFINE ga == at(a)
               gb == at(b)
    <3>4. ga \in Nat /\ gb \in Nat /\ ga <= gb
      BY <1>12, <2>1, <2>3, <3>3
    <3>5. /\ stamps[a] = Stamp(start + si_to_relative_time(ga),
                               start + si_to_relative_time(ga), events[a])
          /\ stamps[b] = Stamp(start + si_to_relative_time(gb),
                               start + si_to_relative_time(gb), events[b])
      BY <1>9, <2>1, <2>3
    <3> HIDE DEF ga, gb
    <3>6. si_to_relative_time(ga) <= si_to_relative_time(gb)
          /\ si_to_relative_time(ga) \in Nat /\ si_to_relative_time(gb) \in Nat
      BY <3>4, Seconds
    <3> QED BY <1>7, <3>5, <3>6 DEF Stamp
  <2> QED BY <2>2, <2>3
<1>16. StampsOK(stamps) /\ NodesOf(StampsIn(stamps)) = NodesOf(EventsIn(events))
  <2>1. Ascending(events)
    BY <1>4 DEF IntervalOK, i
  <2>2. \A e \in DOMAIN events :
           /\ stamps[e] \in Stamps /\ StampOK(stamps[e])
           /\ stamps[e].node = events[e].node
           /\ stamps[e].distance = events[e].distance
    BY <1>13, <1>14
  <2> HIDE DEF events
  <2> QED BY <1>3, <1>10, <1>15, <2>1, <2>2, StampsOfEvents
<1>17. \A s \in StampsIn(stamps) : start <= s.arrival /\ s.departure <= departure
  <2>1. DOMAIN stamps = DOMAIN events
    BY <1>10
  <2> QED BY <1>13, <2>1 DEF StampsIn, Members
<1> QED BY <1>6, <1>7, <1>8, <1>16, <1>17
         DEF stamps, departure, arrival, start, i, prev

-----------------------------------------------------------------------------
(***************************************************************************)
(* The steps.                                                              *)
(***************************************************************************)
\* The train of the calculation stays the same.
LEMMA SameTrain ==
  ASSUME train' = train
  PROVE  /\ ScanOK(scan', index') => ScanOK(scan, index)'
         /\ ListOK(list') => ListOK(list)'
         /\ StampsOK(times') => StampsOK(times)'
         /\ HaltsOf(times)' = HaltsOf(times')
         /\ Recorded' = Recorded
<1>1. ScanOK(scan', index') => ScanOK(scan, index)'
  BY DEF ScanOK, Scanned, PlaceOK, NoOpenStop, OpenOK, stop_at, SamePlace, ListOK,
         IntervalOK, EventOK, Follows, RecordedBefore, Recorded, Found
<1>2. ListOK(list') => ListOK(list)'
  BY DEF stop_at, ListOK, IntervalOK, EventOK, Follows
<1>3. StampsOK(times') => StampsOK(times)'
  BY DEF StampsOK, StampOK, stop_at, Before, StopKept
<1>4. HaltsOf(times)' = HaltsOf(times')
  BY DEF HaltsOf
<1>5. Recorded' = Recorded
  BY DEF Recorded
<1> QED BY <1>1, <1>2, <1>3, <1>4, <1>5

\* Before the departure there are no stamps.
LEMMA EmptyTimes == StampsOK(<<>>) /\ StampsIn(<<>>) = {} /\ HaltsOf(<<>>) = {}
BY DEF StampsOK, StampsIn, Members, HaltsOf

\* The invariant holds at the start.
LEMMA InitInv == Init => Inv
<1> SUFFICES ASSUME Init PROVE Inv
  OBVIOUS
<1> USE DEF Init
<1>1. IsTrain(train)
  BY TrainsAssumption
<1>2. train.nodes \in Seq(Nodes) /\ train.nodes # <<>>
  BY <1>1 DEF IsTrain
<1> DEFINE spl == get_initial_spl
<1>3. spl \in Nat
  BY <1>1, InitialLimitTyped
<1>4. scan = [list |-> <<>>, distance |-> 0, last_ms |-> 1, prev_limit |-> 0,
              limit |-> spl, events |-> <<>>]
  BY DEF NoScan, Invalid
<1> HIDE DEF spl
<1>5. /\ scan \in Scans /\ scan.list = <<>> /\ scan.events = <<>>
      /\ scan.distance = 0 /\ scan.last_ms # 0
  BY <1>3, <1>4 DEF Scans
<1>6. ListOK(<<>>) /\ EventsUpTo(<<>>, Len(<<>>)) = {}
  BY DEF ListOK, EventsUpTo
<1>7. RecordedBefore(1) = {}
  BY <1>2 DEF RecordedBefore, Recorded
<1>8. ScanOK(scan, 1)
  BY <1>5, <1>6, <1>7, EventsOfNone
     DEF ScanOK, Scanned, PlaceOK, NoOpenStop, NodesOf, Found
<1>9. ScanInv
  BY <1>2, <1>5, <1>8 DEF ScanInv
<1>10. ListInv /\ TimesInv
  BY DEF ListInv, TimesInv
<1>11. halt_indices = HaltsOf(times)
  BY EmptyTimes
<1> QED BY <1>9, <1>10, <1>11 DEF Inv

\* One node.
LEMMA ScanNodeKeeps ==
  ASSUME Inv, ScanNode
  PROVE  Inv'
<1> USE DEF ScanNode
<1>1. IsTrain(train) /\ train.nodes \in Seq(Nodes)
  BY TrainsAssumption DEF Inv, IsTrain
<1>2. PICK n \in DOMAIN train.nodes : n = index
  OBVIOUS
<1>3. n \in Nat /\ n \in 1..Len(train.nodes)
  BY <1>1, <1>2
<1> DEFINE node == train.nodes[n]
           here == get_speed_limit(node, "HERE")
           last == get_speed_limit(node, "LAST_SIGNAL")
           r == to_next_node
<1>4. ScanOK(scan, n) /\ (n > 1 => scan.list # <<>>)
  BY <1>2 DEF Inv, ScanInv
<1>5. scan.list = <<>> => node.gap = 0
  <2>1. n > 1 \/ n = 1
    BY <1>3
  <2> QED BY <1>1, <1>4, <2>1 DEF IsTrain
<1>6. Scanned(r, n) /\ PlaceOK(r, n + 1) /\ NoOpenStop(r) /\ r.list = scan.list
  <2>1. r = [scan EXCEPT !.distance = scan.distance + node.gap]
    BY <1>2 DEF to_next_node
  <2>2. scan \in Scans
    BY <1>4 DEF ScanOK, Scanned
  <2> HIDE DEF r, node
  <2>3. r.list = scan.list
    BY <2>1, <2>2 DEF Scans
  <2> QED BY <1>1, <1>4, <1>5, <2>1, <2>3, GoOn DEF node
<1>7. here \in Limits /\ last \in Limits
  BY <1>1, NodeTyped, LimitTyped
<1>8. ScanOK(scan', n + 1) /\ (scan'.list # <<>>)
      /\ (n = Len(train.nodes) => scan'.events = <<>>)
  <2>1. CASE node.omitted
    <3>1. scan' = r
      BY <1>2, <2>1
    <3>2. n \notin Recorded
      BY <2>1 DEF Recorded
    <3>3. ScanOK(r, n + 1)
      BY <1>1, <1>6, <3>2, SkipNode DEF ScanOK
    <3>4. n # 1 /\ n # Len(train.nodes)
      BY <1>1, <2>1 DEF IsTrain
    <3>5. n > 1
      BY <1>3, <3>4
    <3> HIDE DEF r
    <3> QED BY <1>4, <1>6, <3>1, <3>3, <3>4, <3>5
  <2>2. CASE ~node.omitted
    <3> DEFINE s == with_last_signal(r, last)
               u == with_here(s, here)
               t == with_events(u, node)
    <3>1. scan' = with_border(t, node, here)
      BY <1>2, <2>2
    <3> HIDE DEF node, here, last, r
    <3>2. LimitsOnly(r, s) /\ r \in Scans /\ r.list \in Seq(Intervals)
      BY <1>6, <1>7, LastSignalLimits DEF Scanned, Scans
    <3>3. s \in Scans
      BY <3>2 DEF LimitsOnly
    <3> HIDE DEF s
    <3>4. LimitsOnly(s, u)
      BY <1>7, <3>3, HereLimits
    <3> HIDE DEF u
    <3>5. LimitsOnly(r, u)
      BY <3>2, <3>4, LimitsOnlyTwice
    <3>6. Scanned(u, n) /\ PlaceOK(u, n + 1) /\ NoOpenStop(u)
      BY <1>6, <3>5, LimitsOnlyKeeps
    <3>7. /\ Scanned(t, n + 1) /\ PlaceOK(t, n + 1) /\ OpenStopsAt(t, n)
          /\ t.list = u.list
          /\ \A d \in EventsUpTo(u.list, Len(u.list)) : d.node < n
      BY <1>1, <1>2, <2>2, <3>6, AddEvent DEF node
    <3> HIDE DEF t
    <3>8. /\ ScanOK(scan', n + 1)
          /\ t.list # <<>> => scan'.list # <<>>
          /\ node.type = "HALT" => scan'.list # <<>> /\ scan'.events = <<>>
      BY <1>1, <3>1, <3>7, AddBorder DEF node
    <3>9. n = 1 \/ n = Len(train.nodes) => node.type = "HALT"
      BY <1>1 DEF IsTrain, node
    <3>10. scan.list # <<>> => t.list # <<>>
      <4>1. Len(u.list) = Len(r.list) /\ u.list \in Seq(Intervals)
        BY <3>5 DEF LimitsOnly, SameShape
      <4> QED BY <1>6, <3>2, <3>7, <4>1
    <3>11. n = 1 \/ n > 1
      BY <1>3
    <3> QED BY <1>4, <3>8, <3>9, <3>10, <3>11
  <2> QED BY <2>1, <2>2
<1>9. train' = train /\ index' = n + 1 /\ stage' = stage /\ stage = "scan"
      /\ times' = times /\ current' = current /\ halt_indices' = halt_indices
  BY <1>2 DEF running_vars
<1>10. ScanInv'
  <2>1. ScanOK(scan, index)'
    BY <1>8, <1>9, SameTrain
  <2>2. /\ n + 1 \in 1..(Len(train.nodes) + 1)
        /\ n + 1 > Len(train.nodes) => n = Len(train.nodes)
    <3>1. Len(train.nodes) \in Nat
      BY <1>1
    <3> QED BY <1>3, <3>1
  <2> QED BY <1>8, <1>9, <2>1, <2>2 DEF ScanInv
<1>11. ListInv' /\ TimesInv'
  BY <1>9 DEF Inv, ListInv, TimesInv
<1>12. (halt_indices = HaltsOf(times))'
  BY <1>9, SameTrain DEF Inv
<1> QED BY <1>9, <1>10, <1>11, <1>12 DEF Inv

\* All nodes have been scanned.
LEMMA FinishScanKeeps ==
  ASSUME Inv, FinishScan
  PROVE  Inv'
<1> USE DEF FinishScan, StartPass
<1>1. IsTrain(train) /\ train.nodes \in Seq(Nodes) /\ train.nodes # <<>>
  BY TrainsAssumption DEF Inv, IsTrain
<1>2. index = Len(train.nodes) + 1 /\ Len(train.nodes) \in Nat /\ Len(train.nodes) >= 1
  BY <1>1 DEF Inv, ScanInv
<1>3. ScanOK(scan, index) /\ scan.list # <<>> /\ scan.events = <<>>
  BY <1>2 DEF Inv, ScanInv
<1>4. /\ ListOK(scan.list)
      /\ NodesOf(EventsUpTo(scan.list, Len(scan.list))) = RecordedBefore(index)
  BY <1>3, EventsOfNone DEF ScanOK, Scanned, Found
<1>5. RecordedBefore(index) = Recorded
  <2>1. \A m \in Recorded : m < index
    BY <1>1, <1>2 DEF Recorded
  <2> QED BY <2>1 DEF RecordedBefore
<1>6. 2 \in 2..(Len(scan.list) + 1)
  <2>1. scan.list \in Seq(Intervals)
    BY <1>4 DEF ListOK
  <2> QED BY <1>3, <2>1
<1>7. train' = train /\ index' = 2 /\ list' = scan.list /\ stage' = "adjust" /\ stage = "scan"
      /\ times' = times /\ current' = current /\ halt_indices' = halt_indices
  BY DEF running_vars
<1>8. ListInv'
  <2>1. ListOK(list)' /\ Recorded' = Recorded
    BY <1>4, <1>7, SameTrain
  <2> QED BY <1>3, <1>4, <1>5, <1>6, <1>7, <2>1 DEF ListInv
<1>9. ScanInv' /\ TimesInv'
  BY <1>7 DEF Inv, ScanInv, TimesInv
<1>10. (halt_indices = HaltsOf(times))'
  BY <1>7, SameTrain DEF Inv
<1> QED BY <1>7, <1>8, <1>9, <1>10 DEF Inv

\* The speeds at the ends of an interval.
LEMMA SpeedsTyped ==
  ASSUME IsTrain(train), NEW i \in Intervals
  PROVE  initial_speed(i) \in Nat /\ target_speed(i) \in Nat
<1> DEFINE a == IF i.stop.halts THEN 0 ELSE i.limit_right
           b == i.limit_left
           c == train.max_speed
<1>1. a \in Nat /\ b \in Nat /\ c \in Nat
  BY DEF IsTrain, Intervals
<1>2. Min({a, c}) \in Nat /\ Min({b, c}) \in Nat
  <2> HIDE DEF a, b, c
  <2> QED BY <1>1, MinOfTwo
<1> QED BY <1>2 DEF initial_speed, target_speed

\* The speed a limit is lowered to.
LEMMA LoweredTyped ==
  ASSUME NEW v \in Nat, NEW target \in Nat, NEW length
  PROVE  lowered_speed(v, target, length) \in Nat
<1> DEFINE T == {target} \cup {w \in (target + 1)..(v - 1) :
                                 braking_distance(w, target) < length}
<1>1. T \in SUBSET Nat /\ T # {} /\ v + target \in Nat /\ \A w \in T : w <= v + target
  OBVIOUS
<1>2. Max(T) \in T
  <2> HIDE DEF T
  <2> QED BY <1>1, MaxOfSet
<1>3. Max(T) \in Nat
  <2> HIDE DEF T
  <2> QED BY <1>1, <1>2
<1> QED BY <1>3 DEF lowered_speed

\* One interval of a pass.
LEMMA AdjustKeeps ==
  ASSUME Inv, AdjustInterval
  PROVE  Inv'
<1> USE DEF AdjustInterval
<1>1. IsTrain(train)
  BY TrainsAssumption DEF Inv
<1>2. /\ ListOK(list) /\ list # <<>> /\ index \in 2..(Len(list) + 1)
      /\ NodesOf(EventsUpTo(list, Len(list))) = Recorded
      /\ list \in Seq(Intervals) /\ Len(list) \in Nat
  BY DEF Inv, ListInv, ListOK
<1>3. index \in 2..Len(list)
  BY <1>2
<1>4. new_speed(index) \in Nat
  <2> DEFINE i == list[index]
  <2>1. i \in Intervals
    BY <1>2, <1>3
  <2> HIDE DEF i
  <2>2. initial_speed(i) \in Nat /\ target_speed(i) \in Nat
    BY <1>1, <2>1, SpeedsTyped
  <2> QED BY <2>2, LoweredTyped DEF new_speed, i
<1>5. /\ ListOK(list') /\ list' # <<>> /\ index' \in 2..(Len(list') + 1)
      /\ NodesOf(EventsUpTo(list', Len(list'))) = Recorded
  <2>1. list' = list \/ list' = with_limit(index, new_speed(index))
    OBVIOUS
  <2>2. SameShape(list, list')
    <3>1. SameShape(list, list)
      BY <1>2, SameShapeSelf
    <3>2. SameShape(list, with_limit(index, new_speed(index)))
      <4> DEFINE v == new_speed(index)
      <4>1. v \in Nat
        BY <1>4
      <4> HIDE DEF v
      <4>2. SameShape(list, with_limit(index, v))
        BY <1>2, <1>3, <4>1, LoweredOK
      <4> QED BY <4>2 DEF v
    <3> QED BY <2>1, <3>1, <3>2
  <2>3. Len(list') = Len(list) /\ list' \in Seq(Intervals)
    BY <2>2 DEF SameShape
  <2>4. ListOK(list') /\ EventsUpTo(list', Len(list)) = EventsUpTo(list, Len(list))
    <3>1. Len(list) \in 0..Len(list)
      BY <1>2
    <3> QED BY <1>2, <2>2, <3>1, ShapeKeepsList
  <2>5. index' = index + 1
    OBVIOUS
  <2> QED BY <1>2, <1>3, <2>3, <2>4, <2>5
<1>6. train' = train /\ stage' \in {"adjust", "failed"} /\ stage = "adjust"
      /\ times' = times /\ current' = current /\ halt_indices' = halt_indices
  BY DEF running_vars
<1>7. ListInv'
  BY <1>5, <1>6, SameTrain DEF ListInv
<1>8. ScanInv' /\ TimesInv'
  BY <1>6 DEF Inv, ScanInv, TimesInv
<1>9. (halt_indices = HaltsOf(times))'
  BY <1>6, SameTrain DEF Inv
<1> QED BY <1>6, <1>7, <1>8, <1>9 DEF Inv

\* Another pass.
LEMMA NextPassKeeps ==
  ASSUME Inv, NextPass
  PROVE  Inv'
<1> USE DEF NextPass, StartPass
<1>1. /\ ListOK(list) /\ list # <<>>
      /\ NodesOf(EventsUpTo(list, Len(list))) = Recorded /\ list \in Seq(Intervals)
  BY DEF Inv, ListInv, ListOK
<1>2. 2 \in 2..(Len(list) + 1)
  BY <1>1
<1>3. train' = train /\ index' = 2 /\ list' = list /\ stage' = stage /\ stage = "adjust"
      /\ times' = times /\ current' = current /\ halt_indices' = halt_indices
  BY DEF running_vars
<1>4. ListInv'
  BY <1>1, <1>2, <1>3, SameTrain DEF ListInv
<1>5. ScanInv' /\ TimesInv'
  BY <1>3 DEF Inv, ScanInv, TimesInv
<1>6. (halt_indices = HaltsOf(times))'
  BY <1>3, SameTrain DEF Inv
<1> QED BY <1>3, <1>4, <1>5, <1>6 DEF Inv

\* The events of one more interval.
LEMMA NextInterval ==
  ASSUME NEW l, NEW k \in Nat \ {0}
  PROVE  NodesOf(EventsUpTo(l, k))
           = NodesOf(EventsUpTo(l, k - 1)) \cup NodesOf(EventsIn(l[k].events))
<1>1. 1..k = 1..(k - 1) \cup {k}
  OBVIOUS
<1>2. EventsIn(l[k].events) \subseteq Events
  BY DEF EventsIn, Members
<1>3. EventsUpTo(l, k) = EventsUpTo(l, k - 1) \cup EventsIn(l[k].events)
  BY <1>1, <1>2 DEF EventsUpTo
<1> QED BY <1>3 DEF NodesOf

\* The train departs: everything in the first interval is at distance 0.
LEMMA DepartKeeps ==
  ASSUME Inv, Depart
  PROVE  Inv'
<1> USE DEF Depart
<1>1. /\ ListOK(list) /\ list # <<>>
      /\ NodesOf(EventsUpTo(list, Len(list))) = Recorded /\ list \in Seq(Intervals)
      /\ times = <<>> /\ current.time = 0 /\ halt_indices = {}
  BY EmptyTimes DEF Inv, ListInv, ListOK, TimesInv
<1>2. 1 \in DOMAIN list /\ 2 \in 2..(Len(list) + 1)
  BY <1>1
<1> DEFINE events == list[1].events
           stamps == [e \in DOMAIN events |-> Stamp(0, 0, events[e])]
<1>3. list[1] \in Intervals /\ events \in Seq(Events) /\ list[1].distance = 0
      /\ IntervalOK(list, 1)
  BY <1>1, <1>2, EventsOfInterval DEF Intervals, ListOK
<1>4. ASSUME NEW e \in DOMAIN events
      PROVE  /\ events[e].node \in Nat /\ events[e].distance = 0
  <2>1. events[e] \in Events
    BY <1>3
  <2>2. events[e] \in EventsIn(events)
    BY <2>1 DEF EventsIn, Members
  <2>3. events[e].distance <= 0
    BY <1>3, <2>2 DEF IntervalOK, EventOK
  <2> QED BY <2>1, <2>3 DEF Events
<1>5. \A e \in DOMAIN events :
        /\ stamps[e] \in Stamps /\ StampOK(stamps[e])
        /\ stamps[e].node = events[e].node
        /\ stamps[e].distance = events[e].distance
  BY <1>4 DEF Stamp, Stamps, StampOK, StopKept
<1>6. \A a, b \in DOMAIN events : events[a].distance < events[b].distance =>
                                    stamps[a].departure <= stamps[b].arrival
  BY <1>4
<1>7. stamps = [e \in DOMAIN events |-> stamps[e]]
  OBVIOUS
<1>8. \A s \in StampsIn(stamps) : s.departure <= 0
  BY DEF StampsIn, Members, Stamp
<1>9. times' = <<>> \o stamps
      /\ halt_indices' = {} \cup {Len(<<>>) + k : k \in HaltsOf(stamps)}
  BY <1>1 DEF event_reached, HaltsOf
<1>10. Ascending(events)
  BY <1>3 DEF IntervalOK
<1> HIDE DEF stamps, events
<1>11. StampsOK(stamps) /\ NodesOf(StampsIn(stamps)) = NodesOf(EventsIn(events))
  BY <1>3, <1>5, <1>6, <1>7, <1>10, StampsOfEvents
<1>12. times' = stamps
  BY <1>9, <1>11 DEF StampsOK
<1>13. halt_indices' = HaltsOf(times')
  <2>1. \A k \in HaltsOf(stamps) : Len(<<>>) + k = k
    BY <1>11 DEF HaltsOf, StampsOK
  <2> QED BY <1>9, <1>12, <2>1
<1>14. NodesOf(StampsIn(stamps)) = NodesOf(EventsUpTo(list, 1))
  <2>1. NodesOf(EventsUpTo(list, 0)) = {}
    BY DEF EventsUpTo, NodesOf
  <2>2. NodesOf(EventsUpTo(list, 1))
          = NodesOf(EventsUpTo(list, 1 - 1)) \cup NodesOf(EventsIn(list[1].events))
    BY NextInterval
  <2> QED BY <1>11, <2>1, <2>2 DEF events
<1>15. train' = train /\ index' = 2 /\ list' = list /\ stage' = "run" /\ current' = current
  OBVIOUS
<1>16. ListInv'
  BY <1>1, <1>2, <1>15, SameTrain DEF ListInv
<1>17. TimesInv'
  <2>1. StampsOK(times)'
    BY <1>11, <1>12, <1>15, SameTrain
  <2>2. si_to_relative_time(current.time) = 0
    BY <1>1 DEF si_to_relative_time
  <2>3. si_to_relative_time(current'.time) = 0
    BY <1>15, <2>2
  <2>4. \A s \in StampsIn(times') : s.departure <= si_to_relative_time(current'.time)
    BY <1>8, <1>12, <2>3 DEF stamps
  <2>5. index' - 1 = 1
    BY <1>15
  <2> QED BY <1>12, <1>14, <1>15, <2>1, <2>4, <2>5 DEF TimesInv
<1>18. ScanInv'
  BY <1>15 DEF ScanInv
<1>19. (halt_indices = HaltsOf(times))'
  BY <1>13, <1>15, SameTrain
<1> QED BY <1>15, <1>16, <1>17, <1>18, <1>19 DEF Inv

\* The phases of an interval that does not fail reach its end.
LEMMA PhasesRight ==
  ASSUME IsTrain(train), current \in [time : Nat, speed : Nat],
         NEW i \in Intervals, NEW length \in Nat,
         NEW accel, accel = accel_phase(length, initial_speed(i)),
         NEW deaccel, deaccel = deaccel_phase(speed_after(accel), target_speed(i)),
         NEW b, b = before_coast(accel, deaccel, target_speed(i), length),
         ~PhasesFail(accel, deaccel, b, target_speed(i), length),
         NEW p, p = phases(b, length)
  PROVE  PhasesOK(p, length) /\ speed_at_end(p) \in Nat
<1>1. initial_speed(i) \in Nat /\ target_speed(i) \in Nat
  BY SpeedsTyped
<1>2. PhaseOK(accel)
  BY <1>1, AccelOK
<1>3. \A q : PhaseOK(q) => speed_after(q) \in Nat
  BY PhaseTyped DEF speed_after
<1>4. PhaseOK(deaccel)
  BY <1>1, <1>2, <1>3, DeaccelOK
<1> DEFINE target == target_speed(i)
<1>5. target \in Nat
  BY <1>1
<1>6. MustShorten(accel, deaccel, length) => Fitting(accel, target, length) # {}
  BY DEF PhasesFail
<1>7. b = before_coast(accel, deaccel, target, length)
  OBVIOUS
<1>8. coast_distance(b, length) > 0 => speed_after(b.accel) # 0
  BY DEF PhasesFail
<1> HIDE DEF target
<1>9. PhaseOK(b.accel) /\ PhaseOK(b.deaccel)
  BY <1>2, <1>4, <1>5, <1>6, <1>7, AdjustOK
<1> DEFINE d == coast_distance(b, length)
           v == speed_after(b.accel)
<1>10. /\ v \in Nat /\ d \in Int
       /\ d = length - b.accel.end.distance - b.deaccel.end.distance
       /\ b.accel.end.distance \in Int /\ b.deaccel.end.distance \in Int
  <2>1. b.accel.end.distance \in Int /\ b.deaccel.end.distance \in Int
    BY <1>9, PhaseTyped
  <2> QED BY <1>3, <1>9, <2>1 DEF coast_distance
<1>11. p.accel = b.accel /\ p.deaccel = b.deaccel /\ p.coast = coast_phase(v, d)
  BY DEF phases
<1>12. d > 0 => v # 0
  BY <1>8
<1> HIDE DEF d, v
<1>13. /\ PhaseOK(p.coast)
       /\ d > 0 => p.coast.end.distance = d
       /\ d <= 0 => p.coast = NoPhase
  BY <1>10, <1>11, <1>12, CoastOK
<1>14. length <= p.accel.end.distance + p.coast.end.distance + p.deaccel.end.distance
  <2> DEFINE a == p.accel.end.distance
             c == p.coast.end.distance
             e == p.deaccel.end.distance
  <2>1. a \in Int /\ e \in Int /\ d = length - a - e /\ d \in Int
    BY <1>10, <1>11
  <2>2. c = d \/ (c = 0 /\ d <= 0)
    <3>1. d <= 0 => p.coast.end.distance = 0
      BY <1>13, PhaseTyped
    <3>2. d > 0 \/ d <= 0
      BY <1>10
    <3> QED BY <1>13, <3>1, <3>2
  <2> HIDE DEF a, c, e
  <2>3. length <= a + c + e
    BY <2>1, <2>2
  <2> QED BY <2>3 DEF a, c, e
<1>15. PhasesOK(p, length)
  BY <1>9, <1>11, <1>13, <1>14 DEF PhasesOK
<1>16. speed_at_end(p) \in Nat
  BY <1>15, PhaseTyped DEF PhasesOK, speed_at_end
<1> QED BY <1>15, <1>16

\* The train runs through the interval k.
LEMMA RunThroughKeeps ==
  ASSUME Inv, stage = "run", NEW k \in 2..Len(list), k = index,
         NEW p, PhasesOK(p, list[k].distance - list[k - 1].distance),
         speed_at_end(p) \in Nat,
         RunThrough(list[k], p, si_to_relative_time(current.time + duration(p))),
         index' = k + 1, UNCHANGED <<train, scan, list, adjusted>>
  PROVE  Inv'
<1>1. /\ ListOK(list) /\ list # <<>>
      /\ NodesOf(EventsUpTo(list, Len(list))) = Recorded /\ list \in Seq(Intervals)
      /\ StampsOK(times)
      /\ NodesOf(StampsIn(times)) = NodesOf(EventsUpTo(list, k - 1))
      /\ \A s \in StampsIn(times) : s.departure <= si_to_relative_time(current.time)
      /\ current.time \in Nat /\ halt_indices = HaltsOf(times)
  BY DEF Inv, ListInv, ListOK, TimesInv
<1>2. PICK t \in Nat : t = current.time
  BY <1>1
<1>3. k \in DOMAIN list /\ k \in Nat \ {0} /\ k + 1 \in 2..(Len(list) + 1) /\ (k + 1) - 1 = k
      /\ list[k] \in Intervals
  BY <1>1
<1> DEFINE l == list
           i == l[k]
           start     == si_to_relative_time(t)
           arrival   == si_to_relative_time(t + duration(p))
           departure == departure_of(i, arrival)
           stamps    == determine_event_timestamps(l[k - 1], i, start, arrival, departure, p)
<1>4. /\ StampsOK(stamps)
      /\ NodesOf(StampsIn(stamps)) = NodesOf(EventsIn(l[k].events))
      /\ \A s \in StampsIn(stamps) : start <= s.arrival /\ s.departure <= departure
      /\ arrival \in Nat /\ departure \in Nat /\ arrival <= departure
      /\ duration(p) \in Nat
  BY <1>1, IntervalStamps
<1>5. /\ current' = [speed |-> speed_at_end(p),
                     time |-> t + duration(p) + 2 * stand_time(i, arrival)]
      /\ times' = times \o stamps
      /\ halt_indices' = HaltsOf(times) \cup {Len(times) + j : j \in HaltsOf(stamps)}
      /\ stage' = stage
  BY <1>1, <1>2 DEF RunThrough, event_reached, HaltsOf
<1> DEFINE stand == stand_time(i, arrival)
<1>6. stand \in Nat /\ stand = departure - arrival
  <2>1. stand = departure - arrival
    BY DEF stand_time
  <2> HIDE DEF stand, departure, arrival
  <2> QED BY <1>4, <2>1
<1>7. start \in Nat
  BY DEF si_to_relative_time
<1> HIDE DEF stand, departure, start, stamps
<1>8. current' \in [time : Nat, speed : Nat] /\ si_to_relative_time(current'.time) = departure
  <2> DEFINE a == t + duration(p)
  <2>1. a \in Nat
    BY <1>4
  <2>2. arrival = si_to_relative_time(a)
    OBVIOUS
  <2>3. current' = [speed |-> speed_at_end(p), time |-> a + 2 * stand]
    BY <1>5 DEF stand
  <2> HIDE DEF a, arrival
  <2>4. stand <= stand
    BY <1>6
  <2>5. si_to_relative_time(a + 2 * stand) = arrival + stand
    BY <1>6, <2>1, <2>2, <2>4, Seconds
  <2>6. arrival + stand = departure
    BY <1>4, <1>6
  <2>7. a + 2 * stand \in Nat
    BY <1>6, <2>1
  <2> QED BY <2>3, <2>5, <2>6, <2>7
<1> HIDE DEF arrival
<1>9. \A s \in StampsIn(times), u \in StampsIn(stamps) : Before(s, u)
  <2> SUFFICES ASSUME NEW s \in StampsIn(times), NEW u \in StampsIn(stamps)
               PROVE  Before(s, u)
    OBVIOUS
  <2>1. s \in Stamps /\ u \in Stamps
    BY DEF StampsIn, Members
  <2>2. s.departure <= start /\ start <= u.arrival
    BY <1>1, <1>2, <1>4 DEF start
  <2>3. s.departure <= u.arrival
    BY <1>7, <2>1, <2>2 DEF Stamps
  <2>4. /\ s.node \in NodesOf(EventsUpTo(list, k - 1))
        /\ u.node \in NodesOf(EventsIn(l[k].events))
    <3>1. s.node \in NodesOf(StampsIn(times)) /\ u.node \in NodesOf(StampsIn(stamps))
      BY DEF NodesOf
    <3> QED BY <1>1, <1>4, <3>1
  <2>5. PICK d \in EventsUpTo(list, k - 1), e \in EventsIn(list[k].events) :
          s.node = d.node /\ u.node = e.node
    BY <2>4 DEF NodesOf
  <2>6. PICK j \in 1..(k - 1) : d \in EventsIn(list[j].events)
    BY DEF EventsUpTo
  <2>7. d.node < e.node
    BY <1>1, <1>3, <2>5, <2>6 DEF ListOK, Follows
  <2> QED BY <2>3, <2>5, <2>7 DEF Before
<1>10. /\ StampsOK(times')
       /\ halt_indices' = HaltsOf(times')
  BY <1>1, <1>4, <1>5, <1>9, StampsConcat
<1>11. StampsIn(times') = StampsIn(times) \cup StampsIn(stamps)
  <2>1. times \in Seq(Stamps) /\ stamps \in Seq(Stamps)
    BY <1>1, <1>4 DEF StampsOK
  <2> QED BY <1>5, <2>1, MembersOfConcat DEF StampsIn
<1>12. NodesOf(StampsIn(times')) = NodesOf(EventsUpTo(list, k))
  <2>1. NodesOf(StampsIn(times')) = NodesOf(StampsIn(times)) \cup NodesOf(StampsIn(stamps))
    BY <1>11 DEF NodesOf
  <2> QED BY <1>1, <1>3, <1>4, <2>1, NextInterval
<1>13. \A s \in StampsIn(times') : s.departure <= departure
  <2>1. ASSUME NEW s \in StampsIn(times) PROVE s.departure <= departure
    <3>1. s.departure \in Nat /\ s.departure <= start
      BY <1>1, <1>2 DEF StampsIn, Members, Stamps, start
    <3>2. start <= arrival
      <4>1. 0 <= duration(p) /\ t + duration(p) \in Nat /\ t <= t + duration(p)
        BY <1>4
      <4> QED BY <4>1, Seconds DEF start, arrival
    <3> QED BY <1>4, <1>7, <3>1, <3>2
  <2> QED BY <1>4, <1>11, <2>1
<1>14. train' = train /\ index' = k + 1 /\ list' = list /\ stage' = "run"
  BY <1>5
<1>15. ListInv'
  BY <1>1, <1>3, <1>14, SameTrain DEF ListInv
<1>16. TimesInv'
  <2>1. StampsOK(times)'
    BY <1>10, <1>14, SameTrain
  <2>2. \A s \in StampsIn(times') : s.departure <= si_to_relative_time(current'.time)
    BY <1>8, <1>13
  <2> QED BY <1>3, <1>12, <1>14, <2>1, <2>2 DEF TimesInv
<1>17. ScanInv'
  BY <1>14 DEF ScanInv
<1>18. (halt_indices = HaltsOf(times))'
  BY <1>10, <1>14, SameTrain
<1> QED BY <1>8, <1>14, <1>15, <1>16, <1>17, <1>18 DEF Inv

\* One interval of the run, or the failure of the calculation.
LEMMA RunIntervalKeeps ==
  ASSUME Inv, RunInterval
  PROVE  Inv'
<1>1. IsTrain(train) /\ current \in [time : Nat, speed : Nat] /\ stage = "run"
      /\ ListOK(list) /\ list \in Seq(Intervals) /\ index \in 2..(Len(list) + 1)
  BY TrainsAssumption DEF Inv, ListInv, ListOK, RunInterval
<1>2. PICK k \in 2..Len(list) : k = index
  BY <1>1 DEF RunInterval
<1> DEFINE i == list[k]
           length == i.distance - list[k - 1].distance
<1>3. i \in Intervals /\ length \in Nat
  <2>1. k \in DOMAIN list /\ k - 1 \in DOMAIN list /\ k - 1 \in 1..(k - 1)
    BY <1>1
  <2>2. i \in Intervals /\ list[k - 1] \in Intervals
    BY <1>1, <2>1
  <2>3. list[k - 1].distance < i.distance
    BY <1>1, <2>1 DEF ListOK, Follows
  <2> HIDE DEF i
  <2>4. i.distance \in Nat /\ list[k - 1].distance \in Nat
    BY <2>2 DEF Intervals
  <2> QED BY <2>2, <2>3, <2>4
<1>4. index' = k + 1 /\ UNCHANGED <<train, scan, list, adjusted>>
  BY <1>2 DEF RunInterval
<1>5. ASSUME fail PROVE Inv'
  <2>1. /\ train' = train /\ stage' = "failed"
        /\ times' = times /\ current' = current /\ halt_indices' = halt_indices
    BY <1>4, <1>5 DEF fail, running_vars
  <2>2. ScanInv' /\ ListInv' /\ TimesInv'
    BY <2>1 DEF ScanInv, ListInv, TimesInv
  <2>3. (halt_indices = HaltsOf(times))'
    BY <2>1, SameTrain DEF Inv
  <2> QED BY <2>1, <2>2, <2>3 DEF Inv
<1>6. CASE ~fail
  <2>1. PICK accel, deaccel, b, p :
          /\ accel = accel_phase(length, initial_speed(i))
          /\ deaccel = deaccel_phase(speed_after(accel), target_speed(i))
          /\ b = before_coast(accel, deaccel, target_speed(i), length)
          /\ ~PhasesFail(accel, deaccel, b, target_speed(i), length)
          /\ p = phases(b, length)
          /\ RunThrough(i, p, si_to_relative_time(current.time + duration(p)))
    BY <1>2, <1>6 DEF RunInterval, interval_length
  <2> HIDE DEF i, length
  <2>2. PhasesOK(p, length) /\ speed_at_end(p) \in Nat
    BY <1>1, <1>3, <2>1, PhasesRight
  <2> QED BY <1>1, <1>2, <1>4, <2>1, <2>2, RunThroughKeeps DEF i, length
<1> QED BY <1>5, <1>6

\* The train has come to its last halt.
LEMMA FinishKeeps ==
  ASSUME Inv, Finish
  PROVE  Inv'
<1> USE DEF Finish
<1>1. /\ ListOK(list) /\ list # <<>> /\ index \in 2..(Len(list) + 1)
      /\ NodesOf(EventsUpTo(list, Len(list))) = Recorded /\ list \in Seq(Intervals)
  BY DEF Inv, ListInv, ListOK
<1>2. index = Len(list) + 1
  BY <1>1
<1>3. train' = train /\ index' = index /\ list' = list /\ stage' = "done" /\ stage = "run"
      /\ times' = times /\ current' = current /\ halt_indices' = halt_indices
  BY DEF running_vars
<1>4. ListInv' /\ ScanInv'
  BY <1>1, <1>3, SameTrain DEF ListInv, ScanInv
<1>5. TimesInv'
  <2>1. StampsOK(times)'
    BY <1>3, SameTrain DEF Inv, TimesInv
  <2> QED BY <1>2, <1>3, <2>1 DEF Inv, TimesInv
<1>6. (halt_indices = HaltsOf(times))'
  BY <1>3, SameTrain DEF Inv
<1> QED BY <1>3, <1>4, <1>5, <1>6 DEF Inv

\* Every step keeps the invariant.
LEMMA InvStep ==
  ASSUME Inv, [Next]_vars
  PROVE  Inv'
<1>1. CASE UNCHANGED vars
  <2>1. /\ train' = train /\ stage' = stage /\ index' = index /\ scan' = scan /\ list' = list
        /\ times' = times /\ current' = current /\ halt_indices' = halt_indices
    BY <1>1 DEF vars, running_vars
  <2>2. ScanInv'
    BY <2>1, SameTrain DEF Inv, ScanInv
  <2>3. ListInv'
    BY <2>1, SameTrain DEF Inv, ListInv
  <2>4. TimesInv'
    BY <2>1, SameTrain DEF Inv, TimesInv
  <2>5. (halt_indices = HaltsOf(times))'
    BY <2>1, SameTrain DEF Inv
  <2> QED BY <2>1, <2>2, <2>3, <2>4, <2>5 DEF Inv
<1> QED BY <1>1, ScanNodeKeeps, FinishScanKeeps, AdjustKeeps, NextPassKeeps, DepartKeeps,
           RunIntervalKeeps, FinishKeeps DEF Next

\* At the end the invariant is the property.
LEMMA InvInOrder == Inv => EventsInOrder
<1> SUFFICES ASSUME Inv, stage = "done" PROVE EventsInOrder
  BY DEF EventsInOrder
<1>1. /\ StampsOK(times) /\ list \in Seq(Intervals)
      /\ NodesOf(StampsIn(times)) = Recorded /\ halt_indices = HaltsOf(times)
  <2>1. list \in Seq(Intervals) /\ index = Len(list) + 1
    BY DEF Inv, ListInv, TimesInv, ListOK
  <2>2. index - 1 = Len(list)
    BY <2>1
  <2> QED BY <2>1, <2>2 DEF Inv, ListInv, TimesInv
<1>2. {times[k].node : k \in DOMAIN times} = NodesOf(StampsIn(times))
  <2>1. \A k \in DOMAIN times : times[k] \in Stamps
    BY <1>1 DEF StampsOK
  <2> QED BY <2>1 DEF NodesOf, StampsIn, Members
<1> QED BY <1>1, <1>2 DEF EventsInOrder, StampsOK, StampOK, Before, HaltsOf, stop_at

(***************************************************************************)
(* Whatever trains there are: when the calculation is done, every recorded *)
(* node that is not omitted has one stamp, in the order of the path; the   *)
(* train arrives before it departs, and at a node further along no earlier *)
(* than it has left the one before; it leaves a halt neither before its    *)
(* planned departure nor before the minimum stop time is over; and the     *)
(* halt indices are those of the halts (runtime.cc:181, :242).  An         *)
(* assertion of this order is commented out in runtime.cc:267, because of  *)
(* elements at the same place; it is right for those at different places.  *)
(***************************************************************************)
THEOREM EventsAreInOrder == Spec => []EventsInOrder
BY InitInv, InvStep, InvInOrder, PTL DEF Spec
=============================================================================
