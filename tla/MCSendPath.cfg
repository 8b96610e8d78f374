SPECIFICATION FairSpec
CONSTANTS
  main = main
  other = other
  worker = worker
  None = None
  App <- MCApp
  Starter = main
  Worker = worker
  PeerSeqNo <- MCPeerSeqNo
  MaxSeqNo = 3
  BodyLen <- MCBodyLen
  InitCapacity = 4
  Slack = 1
  MaxSends = 4
INVARIANTS TypeOK WireIntact NumbersDistinct
PROPERTIES ImplementsAtomicSend EveryCallReturns
CHECK_DEADLOCK FALSE
