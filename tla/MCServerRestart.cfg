CONSTANTS
  Infrastructures = {"i1"}
  Timetables = {"t1", "t2"}
  Matches <- MCMatches
  MaxTime = 1
SPECIFICATION Spec
INVARIANT TimetablesServed
