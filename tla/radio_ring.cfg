SPECIFICATION Spec
CONSTANTS
  kQueueDepth = 3
  MaxPackets = 7
INVARIANTS SlotNotShared
PROPERTIES NothingStale ImplementsQueue
