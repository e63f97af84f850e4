SPECIFICATION PlayerSpec
CONSTANTS
  Files <- MCFiles
  Times = {0, 5, 16, 40}
  AfterEnd = {0, 5}
  ByteBase = 4
  InitTempo = 30
  MaxUpdates = 5
  NumVoices = 2
  NumChannels = 1
  NumNotes = 3
  RawBends = {}
  DataBytes = {}
  TouchMod = 16
INVARIANTS TimeConserved PlayedOnTime NotesHeard
CHECK_DEADLOCK FALSE
