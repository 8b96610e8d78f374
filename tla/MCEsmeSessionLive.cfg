SPECIFICATION FairSpec
CONSTANTS
  main = main
  other = other
  Worker = worker
  None = None
  App <- MCApp
  Starter = main
  Handlers <- MCHandlers
  Awaited <- MCAwaited
  MaxSubmits = 1
  MaxRequests = 2
PROPERTIES RequestsGetAnswered BoundWaitEnds
CHECK_DEADLOCK FALSE
