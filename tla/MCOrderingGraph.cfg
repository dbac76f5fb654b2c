CONSTANTS
  a = a
  b = b
  c = c
  MaxTime = 3
  NumTrains = 3
  NumSets = 2
  IRs <- MCIRs
  SetsOf <- MCSetsOf
  Timetables <- MCTimetables
  Selected = {1, 2}
SPECIFICATION Spec
INVARIANTS
  TypeOK
  TripsPartitionNodes
  Acyclic
  ExclusionPaths
  TripsStayConnected
  PathsFollowTime
  Reduced
PROPERTY
  ReductionKeepsPaths
CHECK_DEADLOCK FALSE
