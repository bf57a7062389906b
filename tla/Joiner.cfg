CONSTANTS
  Partitions = 4
  Slices = 2
  HostRows = 3
  TableRows = 9
  Tables <- MCTables
  ProbeSlices = 4
  ProbeTables <- MCProbeTables
SPECIFICATION JoinSpec
INVARIANTS HashTableKept MatchesOnce NothingLeft
