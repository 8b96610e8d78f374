SPECIFICATION Spec
CONSTANTS
  main = main
  other = other
  Worker = worker
  None = None
  App <- MCApp
  Starter = main
  Handlers <- MCHandlers
  Awaited <- MCAwaited
  MaxSubmits = 1
  MaxRequests = 2
INVARIANTS BoundMeansAccepted
CHECK_DEADLOCK FALSE
