SPECIFICATION Spec
CONSTANTS
  BufferSize = 7
  MaxBytes = 5
  Granularity = 2
  BufferAlignment = 2
  Wrap = 64
  PredefinedScratch = 12
  Plans <- MCPlans
  Messages <- MCMessages
  Operations <- MCOperations
  Chosen = {"nvls_minima"}
INVARIANT ReducesAsAsked
CHECK_DEADLOCK FALSE
