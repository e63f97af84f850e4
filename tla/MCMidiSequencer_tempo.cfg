SPECIFICATION Spec
CONSTANTS
  Files <- MCFiles
  Times = {0, 5, 16, 40}
  AfterEnd = {0, 5}
  ByteBase = 4
  InitTempo = 30
  MaxUpdates = 5
INVARIANT TempoAsWritten
CHECK_DEADLOCK FALSE
