SPECIFICATION PitSpec
CONSTANTS
  Channels = {0}
  Base = 4
  Div = 24
  WriteHold = 44
  ReadHold = 15
  Commands <- WordModes
  DataBytes = {1, 2}
INVARIANTS
  FilledIsWhole
