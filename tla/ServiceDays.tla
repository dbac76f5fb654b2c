----------------------------- MODULE ServiceDays -----------------------------
(***************************************************************************)
(* The life of the service days of a train:                                *)
(*   - parse_services (timetable/parsers/kss/parse_kss_timetable.cc) folds *)
(*     the services of the timetable file into a bitfield, in the order of *)
(*     the file;                                                           *)
(*   - get_interval takes the interval of the timetable from it, and does  *)
(*     not get past a train without any service day;                       *)
(*   - train::departures (timetable/train.cc) iterates the days on which   *)
(*     the train departs in an interval, which is that of the timetable or *)
(*     the filter of a request for an ordering graph.                      *)
(*                                                                         *)
(* checked tells a build with assertions, where sassert ends the program,  *)
(* from one without.  Without them a service outside the range of the      *)
(* bitset, or a special date before any service, is undefined behaviour:   *)
(* such files, and files without any service, are left out for it.         *)
(***************************************************************************)
EXTENDS Bitfield, Sequences, FiniteSets

CONSTANTS
  DAY,          \* seconds of a day
  Dates,        \* the days a service may name
  Journeys,     \* first_departure and last_arrival of a train
  Intervals,    \* the intervals of requests and of the other trains
  MaxServices   \* bound on the services of a file

ASSUME DayAssumption == DAY \in Nat \ {0}
ASSUME DatesAssumption == Dates \subseteq Nat
ASSUME JourneysAssumption ==
  \A j \in Journeys :
    j.departure \in Nat /\ j.arrival \in Nat /\ j.departure <= j.arrival
      /\ j.departure < DAY
ASSUME IntervalsAssumption == Intervals \subseteq [start : Nat, end : Nat]
ASSUME MaxServicesAssumption == MaxServices \in Nat

VARIABLES
  checked,     \* whether the build evaluates assertions
  journey,     \* the times of the train
  pc,
  services,    \* how many services have been read
  ok,          \* bitfield::ok(): whether there is a bitfield yet
  bf,          \* accumulated_bitfield
  total,       \* total_service_days
  interval,    \* the interval the departures are asked for
  it, end,     \* the two iterators of departures(interval)
  departures   \* the days iterated so far

vars == <<checked, journey, pc, services, ok, bf, total, interval, it, end, departures>>

parsing == <<services, ok, bf, total>>
asking  == <<interval, it, end, departures>>

NoBitfield == [first |-> 0, last |-> 0, bits |-> {}]
NoInterval == [start |-> 0, end |-> 0]

Init ==
  /\ checked \in BOOLEAN
  /\ journey \in Journeys
  /\ pc = "services"
  /\ services = 0
  /\ ok = FALSE
  /\ bf = NoBitfield
  /\ total = 0
  /\ interval = NoInterval
  /\ it = 0
  /\ end = 0
  /\ departures = <<>>

-----------------------------------------------------------------------------
(***************************************************************************)
(* parse_services.                                                         *)
(***************************************************************************)
Read ==
  /\ pc = "services"
  /\ services < MaxServices
  /\ services' = services + 1

\* A service with a bit mask; its days are counted by an assertion only.
ReadService(first, last, mask) ==
  /\ Read
  /\ ok => Fits(Earlier(first, bf.first), Later(last, bf.last))
  /\ ok' = TRUE
  /\ bf' = LET new == make_bitfield(first, last, mask)
           IN  IF ok THEN merge(bf, new) ELSE new
  /\ total' = IF checked THEN total + Cardinality(mask) ELSE total
  /\ UNCHANGED <<checked, journey, pc, asking>>

\* A special date that is included in or excluded from the services.
ReadSpecial(day, include) ==
  /\ Read
  /\ ok
  /\ Fits(Earlier(day, bf.first), Later(day, bf.last))
  /\ bf' = set(bf, day, include)
  /\ total' = IF include THEN total + 1 ELSE total - 1
  /\ UNCHANGED <<checked, journey, pc, ok, asking>>

\* An assertion fails: there is no base bitfield, or the range is too long.
FailRead ==
  /\ Read
  /\ checked
  /\ \/ ~ok
     \/ \E day \in Dates : ~Fits(Earlier(day, bf.first), Later(day, bf.last))
  /\ pc' = "failed"
  /\ UNCHANGED <<checked, journey, ok, bf, total, asking>>

Counted == total = Cardinality(bf.bits)

FinishServices ==
  /\ pc = "services"
  /\ ok
  /\ checked => Counted
  /\ pc' = "accepted"
  /\ UNCHANGED <<checked, journey, parsing, asking>>

FailServices ==
  /\ pc = "services"
  /\ checked
  /\ ~ok \/ ~Counted
  /\ pc' = "failed"
  /\ UNCHANGED <<checked, journey, parsing, asking>>

-----------------------------------------------------------------------------
(***************************************************************************)
(* train::departures.                                                      *)
(***************************************************************************)
Midnight(t) == t \div DAY

\* event_interval(day), overlaps
Overlaps(day, i) ==
  i.start <= DAY * day + journey.arrival /\ DAY * day + journey.departure <= i.end

\* advance: past the set days that do not overlap, up to the end of interval.
advance(i, idx) ==
  Least({j \in bf.bits :
           /\ idx <= j /\ j < get_end_idx(bf)
           /\ DAY * (bf.first + j) > i.end \/ Overlaps(bf.first + j, i)}
        \cup {get_end_idx(bf)})

begin_of(i) == advance(i, from(bf, Midnight(i.start)))
end_of(i)   == advance(i, to(bf, Midnight(i.end)))

Ask(i) ==
  /\ pc' = "departing"
  /\ interval' = i
  /\ it' = begin_of(i)
  /\ end' = end_of(i)
  /\ UNCHANGED <<checked, journey, parsing, departures>>

HasDays == bf.bits # {}

\* The assertion of first_set_date throws although the function is noexcept,
\* which ends the program.  Without assertions it goes on searching behind the
\* last bit of the bitset, where there is none that is set.
FailTimetable ==
  /\ pc = "accepted"
  /\ ~HasDays
  /\ pc' = IF checked THEN "terminated" ELSE "searching"
  /\ UNCHANGED <<checked, journey, parsing, asking>>

\* A mutant of AskInterval: every interval is accepted.
AskAnyInterval ==
  /\ pc = "accepted"
  /\ HasDays
  /\ \E i \in Intervals : Ask(i)

\* params_to_filter refuses intervals that end before they start.
AskInterval ==
  /\ pc = "accepted"
  /\ HasDays
  /\ \E i \in Intervals : i.start <= i.end /\ Ask(i)

\* get_interval: the interval of this train and of the others.
get_interval(other) ==
  [start |-> Earlier(other.start, DAY * first_set_date(bf) + journey.departure),
   end   |-> Later(other.end, DAY * last_set_date(bf) + journey.arrival)]

AskTimetable ==
  /\ pc = "accepted"
  /\ HasDays
  /\ \E other \in Intervals : Ask(get_interval(other))

Depart ==
  /\ pc = "departing"
  /\ it # end
  /\ departures' = Append(departures, bf.first + it)
  /\ it' = advance(interval, SetFrom(bf, it + 1))
  /\ UNCHANGED <<checked, journey, pc, parsing, interval, end>>

End ==
  /\ pc = "departing"
  /\ it = end
  /\ pc' = "done"
  /\ UNCHANGED <<checked, journey, parsing, asking>>

-----------------------------------------------------------------------------
Next ==
  \/ \E first, last \in Dates, mask \in SUBSET Dates :
       /\ first <= last /\ Fits(first, last)
       /\ mask \subseteq first..last
       /\ ReadService(first, last, mask)
  \/ \E day \in Dates, include \in BOOLEAN : ReadSpecial(day, include)
  \/ FailRead
  \/ FinishServices
  \/ FailServices
  \/ FailTimetable
  \/ AskInterval
  \/ AskTimetable
  \/ Depart
  \/ End

Spec == Init /\ [][Next]_vars

-----------------------------------------------------------------------------
(***************************************************************************)
(* Types; no bit is set outside the range, where neither the iterators nor *)
(* last_set_date would find it.                                            *)
(***************************************************************************)
TypeOK ==
  /\ checked \in BOOLEAN
  /\ journey \in Journeys
  /\ pc \in {"services", "failed", "accepted", "terminated", "searching",
            "departing", "done"}
  /\ services \in 0..MaxServices
  /\ ok \in BOOLEAN
  /\ bf \in Bitfields
  /\ total \in Int
  /\ interval \in [start : Nat, end : Nat]
  /\ it \in Nat /\ end \in Nat
  /\ departures \in Seq(Nat)

BitsInRange == InRange(bf)

(***************************************************************************)
(* The iterator never runs past the end iterator, which it is compared     *)
(* with for equality only, and it points to a departure in the interval.   *)
(***************************************************************************)
NeverPastEnd ==
  pc = "departing" =>
    /\ it <= end /\ end <= get_end_idx(bf)
    /\ it # end => it \in bf.bits /\ Overlaps(bf.first + it, interval)

\* The state of the calendar this module implements.
Wanted ==
  IF pc = "departing"
  THEN {d \in get_set_days(bf) : d >= bf.first + it /\ Overlaps(d, interval)}
  ELSE {}

Phase ==
  IF pc = "failed" THEN "services"
  ELSE IF pc \in {"terminated", "searching"} THEN "none" ELSE pc

Calendar == INSTANCE ServiceCalendar WITH
  days <- get_set_days(bf), phase <- Phase, wanted <- Wanted

(***************************************************************************)
(* The bitfield and its iterators implement the calendar, in which a train *)
(* is asked for its departures only if it has any, and a timetable with    *)
(* one that has none is never there (bitfield.cc:233, :243).               *)
(***************************************************************************)
ImplementsCalendar == Calendar!Spec

(***************************************************************************)
(* The departures in an interval are all departures whose journey overlaps *)
(* the interval, as train_departures_test.cc expects them ("two hours with *)
(* train, end").                                                           *)
(***************************************************************************)
EveryOverlapDeparts ==
  pc = "done" =>
    {departures[k] : k \in DOMAIN departures} =
      {d \in get_set_days(bf) : Overlaps(d, interval)}
=============================================================================
