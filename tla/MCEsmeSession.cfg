SPECIFICATION Spec
CONSTANTS
  main = main
  other = other
  Worker = worker
  None = None
  App <- MCApp
  Starter = main
  Handlers <- MCHandlers
  Awaited <- MCAwaited
  MaxSubmits = 2
  MaxRequests = 2
INVARIANTS
  AnsweredInOrder AnsweredAfterHandler ResponseNumberKnown
  SubmitsFollowBind ClosedAfterReports
PROPERTIES StateOrder
CHECK_DEADLOCK FALSE
