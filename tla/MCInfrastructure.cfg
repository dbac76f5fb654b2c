CONSTANTS
  Networks <- MCNetworks
  ThreadCounts <- MCThreadCounts
  CliqueFiles <- MCCliqueFiles
  Directories <- MCDirectories
  Parsers <- MCParsers
SPECIFICATION TimetableSpec
INVARIANTS
  TypeOK
  SectionsArePaths
  ThroughElements
  ReverseAheadRight
  PathsFollowCourses
  RoutesFromSignalToSignal
  ViewsAgree
  UsedByExact
  ExclusionGraphRight
  RoutesOnTracks
  TrainsAreParsedOnce
  TrainsFollowTheirStops
  PathsComeToAnEnd
