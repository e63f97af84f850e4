SPECIFICATION SpecPlain
CONSTANTS
  NumVoices = 2
  NumChannels = 2
  NumNotes = 2
  RawBends = {8191}
  DataBytes = {0}
  TouchMod = 5
INVARIANTS TypeOK OneVoicePerNote HeldVoicesSound FreeVoicesQuiet
PROPERTY PoolSpec
CHECK_DEADLOCK FALSE
