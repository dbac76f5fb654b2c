CONSTANTS
  a = a
  b = b
  c = c
  MaxTime = 3
  NumTrains = 3
  NumSets = 2
  IRs <- MCIRs
  SetsOf <- MCSetsOf
  Timetables <- MCStrictTimetables
  Selected = {1, 2}
SPECIFICATION Spec
INVARIANT AllExclusionPaths
CHECK_DEADLOCK FALSE
