---------------------------- MODULE MCServiceDays ----------------------------
(***************************************************************************)
(* Days of four time units, bitsets of three bits, four dates.  Trains     *)
(* that run within a day, over midnight and, arriving, after the next      *)
(* noon; intervals that start and end at every part of a day, ending       *)
(* before they start included.                                             *)
(***************************************************************************)
EXTENDS ServiceDays

MCJourneys ==
  {[departure |-> 1, arrival |-> 2], [departure |-> 0, arrival |-> 3],
   [departure |-> 3, arrival |-> 5], [departure |-> 3, arrival |-> 7]}

MCIntervals ==
  [start : {0, 5, 7, 8, 10}, end : {0, 3, 6, 8, 9, 15, 20}]
=============================================================================
