SPECIFICATION Spec
CONSTANTS
  AddrSpace = 8
  Para = 4
  PhysSpace = 32
  ClkHigh = 1
  ClkLow = 2
  ReadyLevels = {1}
  Requests <- CodeRequests
  Targets = {5}
  DataWords = {1}
  SegLoads <- CsLoads
  UsesCode = TRUE
INVARIANTS
  IInv
  QueueBounded
  QueueHoldsCode
  PolledByteIsCode
PROPERTIES
  QueueIsAStream
