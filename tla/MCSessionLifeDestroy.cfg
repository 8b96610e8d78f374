SPECIFICATION Spec
CONSTANTS
  MaxStarts = 1
  MaxParts = 2
INVARIANTS WorkerHasSession
CHECK_DEADLOCK FALSE
