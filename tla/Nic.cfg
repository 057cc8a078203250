\* Every part of the network interface: see MCNic for its bounds.
SPECIFICATION NicSpec
CONSTANTS
  empty = empty
  small = small
  big = big
  jumbo = jumbo
  eia = eia
  Frame = {empty, small, big, jumbo}
  Length <- MCLength
  MaxRaw = 2
  CrcSize = 1
  Max = 2
  DropBound = 2
  RxRing = 2
  RxQueue = 2
  RxParts = {1, 2}
  RxFrames = 5
  RxResetFrames = 4
  TxRing = 3
  TxThreshold = 1
  TxLayouts = {"one", "both", "two", "chain", "setup"}
  TxFrames = 2
INVARIANTS
  DescriptorsOwned
  ReceivedInOrder
  SentAsQueued
  SerialReads
PROPERTIES
  ImplementsFifo
  Delivered
  QueuedIsSent
  EventsSettle
CHECK_DEADLOCK FALSE
