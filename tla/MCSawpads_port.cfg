SPECIFICATION Spec
CONSTANTS
  SectorSize = 1
  Sectors <- MCSector
  Blocks <- MCBlock
  Values <- MCZero
  Stale <- MCStale
  MaxWords = 2
  MaxLate = 1
  Operations = {"ReadCard", "WriteCard", "ReadPad"}
  Devices = {"card", "pad", "none"}
  Nothing = Nothing
INVARIANT AbsentPadReleased
 
CHECK_DEADLOCK FALSE
