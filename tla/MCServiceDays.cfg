CONSTANTS
  BITSIZE = 3
  DAY = 4
  Dates = {1, 2, 3, 4}
  MaxServices = 3
  Journeys <- MCJourneys
  Intervals <- MCIntervals
SPECIFICATION Spec
INVARIANTS
  TypeOK
  BitsInRange
  NeverPastEnd
PROPERTY
  ImplementsCalendar
CHECK_DEADLOCK FALSE
