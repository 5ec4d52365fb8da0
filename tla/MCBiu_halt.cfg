SPECIFICATION Spec
CONSTANTS
  AddrSpace = 8
  Para = 4
  PhysSpace = 32
  ClkHigh = 1
  ClkLow = 2
  ReadyLevels = {1}
  Requests <- HaltRequests
  Targets = {2}
  DataWords = {1}
  SegLoads <- NoLoads
  UsesCode = TRUE
INVARIANTS
  WriteStrobeIsForWrite
