SPECIFICATION Spec
CONSTANTS
  NumVoices = 2
  NumChannels = 1
  NumNotes = 3
  RawBends = {0, 8191}
  DataBytes = {}
  TouchMod = 4
INVARIANT FreeVoicesQuiet
CHECK_DEADLOCK FALSE
