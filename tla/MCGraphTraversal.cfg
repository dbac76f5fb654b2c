CONSTANTS
  N = 4
  MaxEdges = 5
  Graphs <- MCGraphs
  Exclusions <- MCExclusions
SPECIFICATION FairSpec
INVARIANTS
  VisitsReachable
  FindsTransitiveEdges
  FindsCycles
  DecidesExclusionPaths
  DecidesCycle
PROPERTY
  Terminates
CHECK_DEADLOCK FALSE
