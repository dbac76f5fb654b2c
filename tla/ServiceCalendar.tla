---------------------------- MODULE ServiceCalendar ----------------------------
(***************************************************************************)
(* What the service days of a train promise, without bits and iterators:   *)
(* the services of the timetable add up to a set of days, and the train    *)
(* departs in an interval on the days on which its journey overlaps the    *)
(* interval, each once and in ascending order.  A departure anchored on a  *)
(* day before the interval starts is not promised, even if the train is    *)
(* still on its way.  For the interval of the whole timetable every        *)
(* service day is.  With a train that has no service day there is no       *)
(* timetable at all.                                                       *)
(***************************************************************************)
EXTENDS Integers, Sequences

CONSTANTS
  DAY,        \* seconds of a day
  Dates,      \* the days a service may name
  Journeys,   \* [departure, arrival], relative to midnight of the service day
  Intervals   \* [start, end], absolute times

VARIABLES days, journey, phase, interval, wanted, departures

vars == <<days, journey, phase, interval, wanted, departures>>

Midnight(t) == t \div DAY

\* train::event_interval of the day and interval::overlaps
Overlaps(day, j, i) ==
  i.start <= DAY * day + j.arrival /\ DAY * day + j.departure <= i.end

First(S) == CHOOSE x \in S : \A y \in S : x <= y

Init ==
  /\ days = {}
  /\ journey \in Journeys
  /\ phase = "services"
  /\ interval \in [start : Nat, end : Nat]
  /\ wanted = {}
  /\ departures = <<>>

Change ==
  /\ phase = "services"
  /\ \/ \E S \in SUBSET Dates : days' = days \cup S
     \/ \E d \in Dates : days' = days \ {d}
  /\ UNCHANGED <<journey, phase, interval, wanted, departures>>

Accept ==
  /\ phase = "services"
  /\ phase' = "accepted"
  /\ UNCHANGED <<days, journey, interval, wanted, departures>>

NoTimetable ==
  /\ phase = "accepted"
  /\ days = {}
  /\ phase' = "none"
  /\ UNCHANGED <<days, journey, interval, wanted, departures>>

AskInterval ==
  /\ phase = "accepted"
  /\ days # {}
  /\ phase' = "departing"
  /\ interval' \in Intervals
  /\ wanted' = {d \in days : d >= Midnight(interval'.start)
                               /\ Overlaps(d, journey, interval')}
  /\ UNCHANGED <<days, journey, departures>>

AskTimetable ==
  /\ phase = "accepted"
  /\ days # {}
  /\ phase' = "departing"
  /\ interval' \in [start : Nat, end : Nat]
  /\ wanted' = days
  /\ UNCHANGED <<days, journey, departures>>

Depart ==
  /\ phase = "departing"
  /\ wanted # {}
  /\ departures' = Append(departures, First(wanted))
  /\ wanted' = wanted \ {First(wanted)}
  /\ UNCHANGED <<days, journey, phase, interval>>

End ==
  /\ phase = "departing"
  /\ wanted = {}
  /\ phase' = "done"
  /\ UNCHANGED <<days, journey, interval, wanted, departures>>

Next ==
  Change \/ Accept \/ NoTimetable \/ AskInterval \/ AskTimetable \/ Depart \/ End

Spec == Init /\ [][Next]_vars
=============================================================================
