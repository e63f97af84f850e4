SPECIFICATION Spec
CONSTANTS
  SectorSize = 2
  Sectors <- MCSectors
  Blocks <- MCBlocks
  Values <- MCValues
  Stale <- MCStale
  MaxWords = 2
  MaxLate = 1
  Operations = {"ReadCard", "WriteCard"}
  Devices = {"card", "none"}
  Nothing = Nothing
INVARIANTS TypeOK SuccessIsTrue
PROPERTY CardSpec
CHECK_DEADLOCK FALSE
