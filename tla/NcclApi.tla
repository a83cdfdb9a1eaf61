------------------------------ MODULE NcclApi ------------------------------
(***************************************************************************)
(* A collective call of the NCCL API (src/ext/nccl/nccl.cc) on one rank:   *)
(* the checks, the forced fallback, the selection of an algorithm          *)
(* (algorithm_selector.cc, algorithm.cc) and the launch of the one that was*)
(* selected, which may refuse it.  The build is the CUDA one.              *)
(***************************************************************************)
EXTENDS Integers, FiniteSetsExt, TLC

CONSTANTS
  Scenarios   \* by name: a set of environments and the requests made in them

VARIABLES
  scenario,
  env,        \* the process: device, environment variables, the plans registered
  planMode,   \* the static variable of DslAlgorithm::bufferMode()
  request,    \* the call under way
  outcome     \* what became of it

apiVars == <<scenario, env, planMode, request, outcome>>

KB(n) == n * 1024
MB(n) == n * 1024 * 1024
ScratchBufferSize == MB(128)

Fp8Types == {"float8_e4m3", "float8_e5m2"}
\* ncclDataTypeToMscclpp() throws on every other one.
MscclppTypes == {"int32", "uint32", "uint8", "float16", "float32", "bfloat16"} \cup Fp8Types

-----------------------------------------------------------------------------
(***************************************************************************)
(* The selection.                                                          *)
(***************************************************************************)

\* isNvlsSupportedForDataType(): the library is not built for one architecture
\* alone, so FP8 is not supported.
IsNvlsSupportedForDataType(dtype) == dtype \notin {"uint8"} \cup Fp8Types /\ env.nvls

\* DslAlgorithm::bufferMode() has a static variable: the first plan that is asked,
\* which is any of the map, decides for all.
PlanModes(q) ==
  LET asked == {plan \in env.plans : plan.collective = q.collective} IN
  IF planMode = "unset" /\ asked # {} THEN {plan.mode : plan \in asked} ELSE {planMode}

\* CollectiveRequest::bufferMode()
RequestMode(q) == IF q.inPlace THEN "in_place" ELSE "out_of_place"

MatchExecutionPlan(plan, q, mode) ==
  LET effectiveSize == IF q.collective = "allgather" THEN q.size * q.worldSize ELSE q.size IN
  /\ plan.worldSize = q.worldSize /\ plan.nRanksPerNode = q.nRanksPerNode
  /\ plan.collective = q.collective
  /\ mode = RequestMode(q)
  /\ effectiveSize >= plan.min /\ effectiveSize <= plan.max

SelectBlackwell(q) ==
  LET zeroCopy == IsNvlsSupportedForDataType(q.dtype) /\ q.cuMem IN
  CASE q.size <= KB(32) -> "nvls_packet"
    [] q.size > KB(32) /\ ~env.symmetric ->
         (CASE q.size <= MB(2) -> "packet"
            [] q.size > MB(2) /\ q.capture -> "rsag_zero_copy"
            [] q.size > MB(2) /\ ~q.capture -> IF q.size <= MB(8) THEN "rsag" ELSE "rsag_pipeline")
    [] q.size > KB(32) /\ env.symmetric ->
         (CASE q.size <= KB(64) \/ (q.size <= MB(1) /\ ~zeroCopy) -> "packet"
            [] OTHER -> IF zeroCopy THEN "nvls_zero_copy" ELSE "rsag_zero_copy")

\* Mutant: NVLS is used for every data type.
SelectForAnyType(q) ==
  LET zeroCopy == env.nvls /\ env.symmetric /\ q.cuMem IN
  CASE env.computeCapability = 10 -> SelectBlackwell(q)
    [] q.size <= KB(64) \/ (q.size <= MB(1) /\ ~zeroCopy) -> "packet"
    [] zeroCopy -> "nvls_zero_copy"
    [] OTHER -> IF env.library THEN "none" ELSE "fullmesh"

SelectSingleNodeAllreduce(q) ==
  LET nvls == IsNvlsSupportedForDataType(q.dtype)
      zeroCopy == nvls /\ env.symmetric /\ q.cuMem
  IN CASE env.computeCapability = 10 -> SelectBlackwell(q)
       [] env.computeCapability # 10 /\ q.size <= KB(16) -> "allpair_packet"
       [] env.computeCapability # 10 /\ q.size > KB(16) ->
            (CASE q.size <= KB(32) /\ nvls -> "nvls_packet"
               [] ~(q.size <= KB(32) /\ nvls) /\ (q.size <= KB(64) \/ (q.size <= MB(1) /\ ~zeroCopy)) -> "packet"
               [] OTHER -> IF zeroCopy THEN "nvls_zero_copy"
                           ELSE IF nvls THEN (IF q.size < MB(16) THEN "nvls_warp_pipeline" ELSE "nvls_block_pipeline")
                           ELSE IF env.library THEN "none" ELSE "fullmesh")

SelectSingleNodeAllgather(q) ==
  IF q.size <= MB(32) THEN "allgather_fullmesh2"
  ELSE IF env.library THEN "none" ELSE "allgather_fullmesh"

\* algoSelector() without a plan that matches.  There are no default algorithms
\* for other collectives.
SelectNative(q) ==
  CASE q.nRanksPerNode # q.worldSize -> "none"
    [] q.nRanksPerNode = q.worldSize ->
         (CASE q.collective = "allgather" -> SelectSingleNodeAllgather(q)
            [] q.collective = "allreduce" -> SelectSingleNodeAllreduce(q)
            [] OTHER -> "none")

-----------------------------------------------------------------------------
(***************************************************************************)
(* The launch.  The outcome names who did the work, or the error, and what *)
(* was done: the operation and the type of the elements.                   *)
(***************************************************************************)
Idle == [none |-> TRUE]

Fails(error) == [by |-> "nobody", error |-> error]
Done(by, op, type) == [by |-> by, error |-> "none", op |-> op, type |-> type]

\* ncclRedOpToMscclpp()
ReduceOf(op) == IF op \in {"sum", "min"} THEN op ELSE "nop"

\* dispatch() and dispatchByDtype(): uint32 is reduced as int.
Dispatches(op) == op \in {"sum", "min"}
ElementType(dtype) == IF dtype = "uint32" THEN "int32" ELSE dtype

BlocksAllpairPacket(q) == IF q.size < q.worldSize * 4 THEN q.worldSize - 1 ELSE (q.worldSize - 1) * 4

BlocksNvlsPacket(q) == IF q.size <= KB(8) THEN 4 ELSE 8

\* The adapter rounds to a multiple of the number of peers.
BlocksPacket(q) ==
  LET n == IF q.size >= KB(32) THEN (q.nRanksPerNode - 1) * 8 ELSE (q.worldSize - 1) * 4
  IN (n \div (q.worldSize - 1)) * (q.worldSize - 1)

BlocksNvls(q) ==
  IF env.computeCapability = 10 THEN Min({128 \div q.worldSize, 32}) ELSE q.nRanksPerNode

BlocksAllgatherFullmesh2(q) ==
  LET n == q.size \div 4 IN
  CASE q.size > MB(32) \/ n >= 2097152 -> 35
    [] n <= 4096 -> 7
    [] n > 4096 /\ n <= 32768 -> 14
    [] n > 32768 /\ n < 2097152 -> 28

\* The number of blocks of each algorithm when the caller does not give one.
Blocks(algorithm, q) ==
  CASE algorithm = "allpair_packet" -> BlocksAllpairPacket(q)
    [] algorithm = "nvls_packet" -> BlocksNvlsPacket(q)
    [] algorithm = "packet" -> BlocksPacket(q)
    [] algorithm = "fullmesh" -> 35
    [] algorithm = "rsag" -> 64
    [] algorithm = "rsag_zero_copy" -> IF q.size >= MB(64) THEN 128 ELSE 64
    [] algorithm = "rsag_pipeline" -> 128
    [] algorithm = "nvls_warp_pipeline" -> q.nRanksPerNode * 4
    [] algorithm = "nvls_block_pipeline" -> q.nRanksPerNode * 5
    [] algorithm = "nvls_zero_copy" -> BlocksNvls(q)
    [] algorithm = "allgather_fullmesh" -> 56
    [] algorithm = "allgather_fullmesh2" -> BlocksAllgatherFullmesh2(q)

\* The channels that each peer has.
Channels(algorithm) ==
  CASE algorithm \in {"allpair_packet", "fullmesh", "rsag", "nvls_warp_pipeline", "nvls_block_pipeline"} -> 64
    [] algorithm \in {"packet", "allgather_fullmesh"} -> 56
    [] algorithm \in {"rsag_zero_copy", "rsag_pipeline"} -> 128
    [] algorithm = "nvls_packet" -> 16
    [] algorithm = "nvls_zero_copy" -> 32
    [] algorithm = "allgather_fullmesh2" -> 35

\* The algorithms that reduce in the switch, which adds: their adapters take the
\* operation as a parameter and do not use it.
InSwitch == {"nvls_zero_copy", "nvls_warp_pipeline", "nvls_block_pipeline"}

\* Mutant: the operation is lost on the way to the kernel.
LaunchSum(algorithm, q) == Done(algorithm, "sum", ElementType(q.dtype))

\* kernelFunc() of the algorithm: its early returns in turn.
KernelFunc(algorithm, q) ==
  IF algorithm \in {"allgather_fullmesh", "allgather_fullmesh2"} THEN Done(algorithm, "none", q.dtype)
  ELSE IF algorithm = "nvls_zero_copy" /\ ~env.symmetric THEN Fails("invalid_argument")
  ELSE IF algorithm \in {"packet", "allpair_packet", "nvls_packet"} /\ Blocks(algorithm, q) > Channels(algorithm)
    THEN Fails("invalid_argument")
  ELSE IF ~Dispatches(ReduceOf(q.op)) THEN Fails("invalid_argument")
  ELSE IF algorithm = "rsag" /\ q.size > ScratchBufferSize THEN Fails("invalid_argument")
  ELSE IF algorithm \in InSwitch /\ q.dtype \in {"uint8"} \cup Fp8Types THEN Fails("cuda_error")
  ELSE Done(algorithm, IF algorithm \in InSwitch THEN "sum" ELSE ReduceOf(q.op), ElementType(q.dtype))

\* DslAlgorithm::execute(): the operation is that of the plan, and uint8 is not known.
ExecutePlan(q) ==
  IF q.dtype = "uint8" THEN Fails("invalid_argument")
  ELSE Done("plan", IF q.collective = "allreduce" THEN "sum" ELSE "none", ElementType(q.dtype))

\* mscclppNcclOps
Nccl(q) == Done("nccl", q.op, q.dtype)

\* The call as the selection and the algorithms see it.
Selected(q, r) ==
  \E mode \in PlanModes(r) :
    LET matching == {plan \in env.plans : MatchExecutionPlan(plan, r, mode)} IN
    /\ planMode' = mode
    /\ \/ \E plan \in matching : outcome' = ExecutePlan(r) @@ [plan |-> plan]
       \/ /\ matching = {}
          /\ outcome' = IF SelectNative(r) # "none" THEN KernelFunc(SelectNative(r), r)
                        ELSE IF env.library THEN Nccl(q)
                        ELSE Fails(IF q.collective = "reducescatter" THEN "internal_error" ELSE "invalid_usage")

\* A call that begins with no other under way, and its checks in turn: r is the
\* request made of the call.
Serve(q, r) ==
  /\ request = Idle
  /\ request' = q
  /\ \/ /\ q.worldSize = 1
        /\ outcome' = Done("copy", q.op, q.dtype)
        /\ UNCHANGED planMode
     \/ /\ q.worldSize > 1 /\ q.size = 0
        /\ outcome' = Fails("invalid_argument")
        /\ UNCHANGED planMode
     \/ /\ q.worldSize > 1 /\ q.size > 0 /\ env.library /\ q.collective \in env.forced
        /\ outcome' = Nccl(q)
        /\ UNCHANGED planMode
     \/ /\ q.worldSize > 1 /\ q.size > 0 /\ ~(env.library /\ q.collective \in env.forced)
        /\ q.dtype \notin MscclppTypes
        /\ outcome' = Fails("exception")
        /\ UNCHANGED planMode
     \/ /\ q.worldSize > 1 /\ q.size > 0 /\ ~(env.library /\ q.collective \in env.forced)
        /\ q.dtype \in MscclppTypes
        /\ Selected(q, r)
  /\ UNCHANGED <<scenario, env>>

NcclAllReduce(q) == q.collective = "allreduce" /\ Serve(q, q)
NcclBroadcast(q) == q.collective = "broadcast" /\ Serve(q, q)
NcclAllGather(q) == q.collective = "allgather" /\ Serve(q, q)

\* The request has the size of the whole input.
NcclReduceScatter(q) ==
  q.collective = "reducescatter" /\ Serve(q, [q EXCEPT !.size = q.size * q.worldSize])

\* ncclReduce(), ncclSend() and ncclRecv() are the library's alone.
LibraryCall(q) ==
  /\ q.collective \in {"reduce", "send", "recv"}
  /\ request = Idle
  /\ request' = q
  /\ outcome' = IF env.library THEN Nccl(q) ELSE Fails("internal_error")
  /\ UNCHANGED <<scenario, env, planMode>>

\* ncclAllToAll() and ncclAllToAllv() do not ask the library.
NcclAllToAll(q) ==
  /\ q.collective = "alltoall"
  /\ request = Idle
  /\ request' = q
  /\ outcome' = IF q.worldSize = 1 THEN Done("copy", q.op, q.dtype) ELSE Fails("internal_error")
  /\ UNCHANGED <<scenario, env, planMode>>

\* The call returns to the application.
Return ==
  /\ request # Idle
  /\ request' = Idle
  /\ outcome' = Fails("none")
  /\ UNCHANGED <<scenario, env, planMode>>

ApiInit ==
  /\ scenario \in DOMAIN Scenarios
  /\ env \in Scenarios[scenario].environments
  /\ planMode = "unset"
  /\ request = Idle
  /\ outcome = Fails("none")

Call(q) ==
  \/ NcclAllReduce(q) \/ NcclBroadcast(q) \/ NcclAllGather(q) \/ NcclReduceScatter(q)
  \/ LibraryCall(q) \/ NcclAllToAll(q)

ApiNext == Return \/ \E q \in Scenarios[scenario].requests : Call(q)

ApiSpec == ApiInit /\ [][ApiNext]_apiVars

-----------------------------------------------------------------------------
Called == request # Idle

\* A call is served: an algorithm that is selected runs, and with the library of
\* MSCCLPP_NCCL_LIB_PATH no call ends in an error.  The selection by size, type
\* and memory and the early returns of the kernel functions must agree.  All-to-all
\* is not implemented, with or without the library.
CallServed ==
  Called /\ request.size > 0 /\ (request.collective = "alltoall" => request.worldSize = 1) =>
    \/ outcome.error = "none"
    \/ ~env.library /\ SelectNative(request) = "none" /\ outcome.error \in {"invalid_usage", "internal_error"}

\* The reduction is the one the call asked for, of elements of the type it named,
\* whichever algorithm, plan or library did it (ncclAllReduce(), the adapters).
ReducesAsAsked ==
  Called /\ outcome.error = "none" /\ request.collective = "allreduce" =>
    /\ outcome.op = request.op
    /\ \/ outcome.type = request.dtype
       \/ request.op = "sum" /\ {outcome.type, request.dtype} = {"int32", "uint32"}

\* A plan runs a call only if it was written for it: the buffers are in place or
\* not, as the plan says, and the whole message is in its range
\* (matchExecutionPlan(), DslAlgorithm::bufferMode()).
PlanFits ==
  Called /\ outcome.by = "plan" =>
    LET whole == IF request.collective \in {"allgather", "reducescatter"}
                 THEN request.size * request.worldSize ELSE request.size
    IN
    /\ outcome.plan.mode = RequestMode(request)
    /\ outcome.plan.min <= whole /\ whole <= outcome.plan.max

\* Every block of a kernel has a channel of its own to each peer: the sizes of the
\* grids and the numbers of semaphores are set in different places.
BlocksHaveChannels ==
  Called /\ outcome.error = "none" /\ outcome.by \notin {"nccl", "copy", "plan"} =>
    Blocks(outcome.by, request) <= Channels(outcome.by)
=============================================================================
