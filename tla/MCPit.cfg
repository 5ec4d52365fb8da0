SPECIFICATION PitSpec
CONSTANTS
  Channels = {0}
  Base = 4
  Div = 2
  WriteHold = 4
  ReadHold = 3
  Commands <- Modes
  DataBytes = {0, 3}
INVARIANTS
  ByteIsProgrammed
PROPERTIES
  SquareWaveHalves
  HalvesAreOnTime
  RatePeriod
  OneShotIsTimed
