SPECIFICATION Spec
CONSTANTS
  AddrSpace = 8
  Para = 4
  PhysSpace = 32
  ClkHigh = 1
  ClkLow = 2
  ReadyLevels = {1}
  Requests <- DataRequests
  Targets = {2}
  DataWords = {1}
  SegLoads <- SsLoads
  UsesCode = FALSE
INVARIANTS
  DoneIsForPending
  NoStaleDone
  ReadIsAnswered
  WriteIsAsAsked
PROPERTIES
  RequestIsServedOnce
