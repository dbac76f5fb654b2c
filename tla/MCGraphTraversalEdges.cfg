CONSTANTS
  N = 4
  MaxEdges = 3
  Graphs <- MCGraphs
  Exclusions <- MCExclusions
SPECIFICATION Spec
INVARIANT EveryEdgeOnce
CHECK_DEADLOCK FALSE
