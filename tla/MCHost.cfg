SPECIFICATION Spec
CONSTANTS
  BufferSize = 7
  MaxBytes = 5
  Granularity = 2
  BufferAlignment = 2
  Wrap = 64
  PredefinedScratch = 12
  Plans <- MCPlans
  Messages <- MCMessages
  Operations <- MCOperations
  Chosen = {"ranges", "sizes", "packet", "rsag", "rsag3", "allpair", "nvls_block", "fullmesh",
            "fullmesh_symmetric", "zero_copy", "zero_copy_symmetric", "nvls_packet",
            "nvls_pipeline", "nvls", "allgather", "allgather2", "allgather2_symmetric",
            "uneven", "one_way", "refused", "sums", "minima", "others", "plans", "plan",
            "bytes", "bytes3", "floats", "wide"}
INVARIANTS
  RangesPartition SlicesPartition 
  SetupsPaired LaunchedOnItsBuffers PlanReachesArguments
    ElementsReduced 
CHECK_DEADLOCK FALSE
