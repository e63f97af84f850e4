SPECIFICATION FilmSpec
CONSTANTS
  Run = 7
  BaseOverflow = 1050
  OverflowDen = 120
  SectorSamples = 2
  Lookahead = 2
  PacketSizes = {1, 3}
  MaxUnmuxed = 9
  MaxFrames = 9
  MaxSamples = 24
  MacroBlock = 6
  CodesPerSector = 3
  SectorWords = 4
  Step = 8
  Films <- MCFilms
INVARIANTS FilmTypeOK FramesInOrder InStep AudioWhole FramesPlay ShedLeast
PROPERTY ReductionEnds
CHECK_DEADLOCK FALSE
