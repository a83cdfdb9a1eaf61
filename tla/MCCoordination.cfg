SPECIFICATION MCSpec
CONSTANTS
  Chosen = {"kernel", "pipeline", "bootstrap", "messages", "local", "reversed", "colors", "nested"}
  Blocks = {b1, b2, b3}
  MaxRounds = 6
  Plan <- MCPlan
  Capacity = 2
  MaxLaunch = 2
  PipelineRanks = {r1, r2}
  Reducers = {s1, s2}
  PipelineDepth = 2
  NIters = 3
  PipelineLaunches = 2
INVARIANTS
  BarrierSafe SemaphoreExact ReadsOwnIteration
  CollectiveResult NoMessageLost ReceivedInCallOrder RanksAgree
PROPERTIES LaunchesEnd CallsReturn
CHECK_DEADLOCK FALSE
