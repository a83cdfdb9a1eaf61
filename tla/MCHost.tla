------------------------------- MODULE MCHost -------------------------------
(***************************************************************************)
(* The host side of the collectives, each part alone: the contexts of the  *)
(* algorithms and of the executor, the ranges of a multicast object, the   *)
(* sizes of a plan, the selection of an algorithm and the arithmetic of a  *)
(* reduction.  A behaviour is one of the part its scenario belongs to; the *)
(* variables of the others are not used.                                   *)
(***************************************************************************)
EXTENDS NvlsConnection, PlanSizes, Sequences, TLC

CONSTANT Chosen

VARIABLES
  scenario, calls, memory, renewals, phase, ctxKey, initialized, tag, channelMap, contexts, bound,
  launches, todo, net, got, matched, loaded, env, planMode, request, outcome, reduction, resultBuff

Given == INSTANCE HostScenarios

Algorithms == INSTANCE CollectiveContexts WITH Scenarios <- Given!ContextScenarios
Executor == INSTANCE ExecutorContexts WITH Scenarios <- Given!ExecutorScenarios
Api == INSTANCE NcclApi WITH Scenarios <- Given!ApiScenarios
Reduce == INSTANCE ReduceKernel WITH Scenarios <- Given!ReduceScenarios

\* Messages that divide into the chunks and messages that are refused, groups with
\* and without a rest, operations that end at the width of an offset.
MCPlans == [inputChunks : 1..3, outputChunks : {2}, scratchChunks : {0, 3},
            packet : BOOLEAN, double : BOOLEAN, reuse : BOOLEAN, allgather : BOOLEAN,
            minMessageSize : {3}, maxMessageSize : {18}]
MCMessages == [inputSize : {2, 4, 6, 12, 18, 24}, outputSize : {4, 12}]
MCOperations == [buffer : {"input", "scratch"}, index : {0, 2}, chunks : {1}, constOffset : {0},
                 tbgSize : 1..4, unitSize : {3}]
                  \cup [buffer : {"output"}, index : {1}, chunks : {2}, constOffset : {0, 3},
                        tbgSize : {3}, unitSize : {2}]
                  \cup [buffer : {"scratch"}, index : {0}, chunks : 2..3, constOffset : {0},
                        tbgSize : {3}, unitSize : {2}]

InRanges == scenario = "ranges"
InSizes == scenario = "sizes"
InAlgorithms == scenario \in DOMAIN Given!ContextScenarios
InExecutor == scenario \in DOMAIN Given!ExecutorScenarios
InApi == scenario \in DOMAIN Given!ApiScenarios
InReduce == scenario \in DOMAIN Given!ReduceScenarios

-----------------------------------------------------------------------------
setupVars == <<calls, phase, contexts, launches, todo, net, got, matched>>
algorithmVars == <<memory, renewals, ctxKey, initialized, tag, channelMap, bound>>
apiVars == <<env, planMode, request, outcome>>
reduceVars == <<reduction, resultBuff>>
vars == <<scenario, setupVars, algorithmVars, loaded, apiVars, reduceVars, nvlsVars, sizesVars>>

NoSetup ==
  /\ calls = 0 /\ phase = 0 /\ contexts = 0 /\ launches = 0 /\ todo = 0 /\ net = 0
  /\ got = 0 /\ matched = 0
NoAlgorithms ==
  /\ memory = 0 /\ renewals = 0 /\ ctxKey = 0 /\ initialized = 0 /\ tag = 0 /\ channelMap = 0
  /\ bound = 0
NoExecutor == loaded = 0
NoApi == env = 0 /\ planMode = 0 /\ request = 0 /\ outcome = 0
NoReduce == reduction = 0 /\ resultBuff = 0
NoSizes ==
  /\ plan = CHOOSE p \in Plans : TRUE
  /\ message = CHOOSE m \in Messages : TRUE
  /\ operation = CHOOSE o \in Operations : TRUE
  /\ status = "new" /\ slices = <<>>

Init ==
  /\ scenario \in Chosen
  /\ NvlsInit
  /\ \/ InRanges /\ NoSetup /\ NoAlgorithms /\ NoExecutor /\ NoApi /\ NoReduce /\ NoSizes
     \/ InSizes /\ SizesInit /\ NoSetup /\ NoAlgorithms /\ NoExecutor /\ NoApi /\ NoReduce
     \/ InAlgorithms /\ Algorithms!ContextInit /\ NoExecutor /\ NoApi /\ NoReduce /\ NoSizes
     \/ InExecutor /\ Executor!ExecutorInit /\ NoAlgorithms /\ NoApi /\ NoReduce /\ NoSizes
     \/ InApi /\ Api!ApiInit /\ NoSetup /\ NoAlgorithms /\ NoExecutor /\ NoReduce /\ NoSizes
     \/ InReduce /\ Reduce!ReduceInit /\ NoSetup /\ NoAlgorithms /\ NoExecutor /\ NoApi /\ NoSizes

RangesPart ==
  InRanges /\ UNCHANGED <<scenario, setupVars, algorithmVars, loaded, apiVars, reduceVars, sizesVars>>
SizesPart ==
  InSizes /\ UNCHANGED <<scenario, setupVars, algorithmVars, loaded, apiVars, reduceVars, nvlsVars>>
AlgorithmsPart == InAlgorithms /\ UNCHANGED <<loaded, apiVars, reduceVars, nvlsVars, sizesVars>>
ExecutorPart == InExecutor /\ UNCHANGED <<algorithmVars, apiVars, reduceVars, nvlsVars, sizesVars>>
ApiPart == InApi /\ UNCHANGED <<setupVars, algorithmVars, loaded, reduceVars, nvlsVars, sizesVars>>
ReducePart == InReduce /\ UNCHANGED <<setupVars, algorithmVars, loaded, apiVars, nvlsVars, sizesVars>>

Next ==
  \/ RangesPart /\ NvlsNext
  \/ SizesPart /\ SizesNext
  \/ AlgorithmsPart /\ Algorithms!ContextNext
  \/ ExecutorPart /\ Executor!ExecutorNext
  \/ ApiPart /\ Api!ApiNext
  \/ ReducePart /\ Reduce!ReduceNext

Spec == Init /\ [][Next]_vars

-----------------------------------------------------------------------------
(* The properties of each part, in the scenarios that belong to it.        *)

\* What a rank takes from the bootstrap in a set-up of an algorithm or of a plan is what it
\* expects, whatever either rank set up before and whichever channels one side alone has
\* (collective_utils.cc, setupChannels(), parseRemoteBuffer()), and no rank waits for ever:
\* one that finds a context in its cache does not leave its peers in a set-up (execute()).
SetupsPaired ==
  /\ InAlgorithms => Algorithms!MessagesPaired /\ Algorithms!SetupNeverStuck
  /\ InExecutor => Executor!PlanMessagesPaired /\ Executor!PlanSetupNeverStuck

\* A kernel works on the buffers its own call was given, on every rank, whatever contexts
\* earlier calls have left in contexts_ (AlgorithmCtxKey, the initialize functions).
LaunchedOnItsBuffers == InAlgorithms => Algorithms!LaunchedOnItsBuffers

\* The operations of a call reach the buffers the peers passed to the same call, whichever
\* cached context and device plan they were made from, and a device plan is made from
\* tables that are loaded (Executor::Impl, lightLoadExecutionPlan()).
PlanReachesArguments ==
  InExecutor => Executor!PlanReachesArguments /\ Executor!DevicePlanFromLoadedTables

\* A call is served: the selection by size, type and memory and the early returns of the
\* kernel functions agree (AlgorithmSelector, ncclAllReduce() and the others).  A plan runs
\* it only if it was written for it (matchExecutionPlan()), and every block of a kernel has
\* a channel of its own to each peer, although grids and semaphores are set apart.
CallServed == InApi => Api!CallServed /\ Api!PlanFits /\ Api!BlocksHaveChannels

\* The reduction is the one the call asked for, of elements of the type it named,
\* whichever algorithm, plan or library did it (ncclAllReduce(), the adapters).
ReducesAsAsked == InApi => Api!ReducesAsAsked

\* Every element of the message is reduced, and by itself: the bytes packed beside it in
\* a register never reach it (u8x4 operator+ and min, allreduceAllPairs).  An fp8_e4m3b15
\* sum over two ranks is an encodable value nearest to the exact sum, for every
\* accumulation type; a minimum is the least input (fromFloat, to<f8_e4m3b15x4>).
ElementsReduced == InReduce => Reduce!BytesReducedApart /\ Reduce!SumIsNearest

\* The ranks hold the same result, although each adds its own word first and so in an
\* order of its own (allreduceAllPairs, calVectorAccum).
CopiesIdentical == InReduce => Reduce!CopiesIdentical
=============================================================================
