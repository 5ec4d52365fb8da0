SPECIFICATION HarnessSpec
CONSTANTS
  AddrSpace = 8
  Para = 4
  PhysSpace = 32
  ClkHigh = 8
  ClkLow = 8
  ReadyLevels = {1}
  Requests <- PortRequests
  Targets = {2, 3}
  DataWords = {1}
  SegLoads <- NoLoads
  UsesCode = FALSE
  BiosSel = {28, 29, 30, 31}
  VramSel = {16, 17, 18, 19}
  PitSel = {2}
  CrtcSel = {0, 1}
  StatusSel = {3}
  VramSize = 2
  DisplaySel = {2, 3}
INVARIANTS
  PortReadIsAnswered
