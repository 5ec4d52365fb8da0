SPECIFICATION FairSpec
CONSTANTS
  AddrSpace = 8
  Para = 4
  PhysSpace = 32
  ClkHigh = 5
  ClkLow = 6
  ReadyLevels = {0, 1}
  Requests <- LiveRequests
  Targets = {0}
  DataWords = {1}
  SegLoads <- NoLoads
  UsesCode = FALSE
PROPERTIES
  RequestIsServed
  QueueIsFilled
