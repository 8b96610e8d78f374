SPECIFICATION FairSpec
CONSTANTS
  main = main
  worker = worker
  w1 = w1
  w2 = w2
  opened = opened
  bound = bound
  Undefined = Undefined
  None = None
  Setter <- MCSetter
  Waiter <- MCWaiter
  State <- MCState
INVARIANTS WaitEndsInState NoLostWakeup
PROPERTIES ImplementsAtomicState StableStateEndsWait
