SPECIFICATION FairSpec
CONSTANTS
  Blocks = {b1, b2}
  Capacity = 1
PROPERTY AcquireReturns
CHECK_DEADLOCK FALSE
