SPECIFICATION Spec
CONSTANTS
  Names = {1, 2}
  MaxDepth = 3
  Paths <- MCPaths
  MaxLines = 3
  Lengths = {0, 5}
  DataSize = 2
  RawSize = 3
INVARIANTS EveryFileFound DirectoriesExact PathTablesSound VolumeFull
PROPERTY WrittenOnce
CHECK_DEADLOCK FALSE
