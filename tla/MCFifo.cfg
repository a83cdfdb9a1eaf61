\* Two slots; pushes wait for the slots of earlier ones.
SPECIFICATION FairSpec
CONSTANTS
  Threads = {t1, t2}
  Size = 2
  Half = 2
  Triggers <- MCTriggers
  SplitStore = TRUE
  MaxPush = 4
INVARIANTS
  StoreExclusive
  PoppedIsHandled
PROPERTIES
  ImplementsQueue
  CallsReturn
