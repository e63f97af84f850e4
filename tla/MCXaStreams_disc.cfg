SPECIFICATION Spec
CONSTANTS
  Streams <- MCStreams
  Kind <- MCKind
  EncoderIds <- MCIds
  Lengths = {0, 3}
  PerSector = 2
  VideoRun = 1
  Counts = {1, 2}
  LineIds <- MCLineIds
  MaxLines = 3
INVARIANTS TypeOK StreamsWhole SectorsValid
PROPERTY Ends
CHECK_DEADLOCK FALSE
