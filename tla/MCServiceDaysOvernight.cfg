CONSTANTS
  BITSIZE = 3
  DAY = 4
  Dates = {1, 2, 3, 4}
  MaxServices = 2
  Journeys <- MCJourneys
  Intervals <- MCIntervals
SPECIFICATION Spec
INVARIANT EveryOverlapDeparts
CHECK_DEADLOCK FALSE
