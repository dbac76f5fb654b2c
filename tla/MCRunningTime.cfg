CONSTANTS
  Trains <- MCTrains
  Between = 2
  Gaps = {0, 20, 40}
  MaxSpeed = 8
  Slow = 3
SPECIFICATION Spec
INVARIANT EventsInOrder
PROPERTY Finishes
CHECK_DEADLOCK FALSE
