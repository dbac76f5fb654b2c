CONSTANTS
  Networks <- MCRowNetworks
  ThreadCounts <- MCThreadCounts
  CliqueFiles <- MCCliqueFiles
  Directories <- MCDirectories
  Parsers <- MCParsers
SPECIFICATION TimetableSpec
INVARIANT
  EveryStopOnPath
