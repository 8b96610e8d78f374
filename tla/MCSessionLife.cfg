SPECIFICATION Spec
CONSTANTS
  MaxStarts = 3
  MaxParts = 3
INVARIANTS OneReceiver WholeUnlessCut UnreadStaysOpened
PROPERTIES ClosesItsOwn
CHECK_DEADLOCK FALSE
