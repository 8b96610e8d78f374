SPECIFICATION FairSpec
CONSTANTS
  PduLen <- MCPduLen
  MaxPduLen = 6
  LengthLen = 2
  ChunkLen = 4
  InitCapacity = 3
  Slack = 1
  MaxPdus = 4
INVARIANTS TypeOK HandledAsSent DrainedAtRecv MemoryBounded
PROPERTIES ImplementsPduStream PdusGetHandled ClosedInTheEnd
CHECK_DEADLOCK FALSE
