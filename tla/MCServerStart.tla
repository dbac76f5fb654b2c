---- MODULE MCServerStart ----
(***************************************************************************)
(* An infrastructure and two timetables, one of which requires another     *)
(* version of the infrastructure.                                          *)
(***************************************************************************)
EXTENDS ServerStart

MCMatches == {<<"i1", "t1">>}
====
