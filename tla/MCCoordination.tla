--------------------------- MODULE MCCoordination ---------------------------
(***************************************************************************)
(* Ranks and thread blocks that wait for each other: the kernel of the     *)
(* executor, the pipelined allreduce, the bootstrap, the communicator and  *)
(* the communicators of the NCCL interface.  A behaviour is one of the     *)
(* component its scenario belongs to; the kernel and the pipeline stay in  *)
(* their initial states in the others, whose variables are not used        *)
(* outside of their own.                                                   *)
(***************************************************************************)
EXTENDS ExecutionKernel, RsAgPipeline, TLC

CONSTANT Chosen    \* scenarios

VARIABLES
  scenario,
  rankPc, infos, collected, handlesSent, nextAddr, backlog, ringRecv, ring, call, step, data,
  peerRecvSockets, stream, want, messagesSent, received,
  sent, taken, items, lastRecvItems, stack, ops, localRecvMemories, localItems, localSent, localRecvs,
  script, steps, entered, board, ord, nextId, comm, front, handle, loaded

\* Three barriers in a launch, every counter of the syncer is used twice.
MCPlan == <<"sem_acquire", "sem_release", "barrier", "barrier", "barrier">>

\* Rank 1 receives from both others, from one of them with two tags.
Bootstrap == INSTANCE TcpBootstrap
  WITH NRanks <- 3, Peers <- {<<2, 1, 1>>, <<0, 1, 1>>, <<0, 1, 2>>},
       Program <- << [op |-> "broadcast", root |-> 2],
                     [op |-> "broadcast", root |-> 0],
                     [op |-> "allGather", root |-> 0] >>,
       RingCapacity <- 2, MaxSend <- 2,
       pc <- rankPc, sent <- messagesSent

\* Four calls of each of two ranks to the other, of which r1 receives, and six of a rank to itself.
Messages == INSTANCE Communicator
  WITH Ranks <- {"r0", "r1"}, Calls <- [r0 |-> {"send"}, r1 |-> {"recv", "connect"}],
       Tags <- {1, 2}, MaxOps <- 4, EarlyRecv <- FALSE
Local == INSTANCE Communicator
  WITH Ranks <- {"r0", "r1"}, Calls <- [r0 |-> {}, r1 |-> {}], Tags <- {1}, MaxOps <- 6, EarlyRecv <- FALSE

Given == INSTANCE HostScenarios
Nccl == INSTANCE NcclComm WITH Scenarios <- Given!CommScenarios, MaxId <- 8

ASSUME Bootstrap!BootstrapAssumption
ASSUME Messages!CommunicatorAssumption /\ Local!CommunicatorAssumption

InKernel == scenario = "kernel"
InPipeline == scenario = "pipeline"
InBootstrap == scenario = "bootstrap"
InMessages == scenario = "messages"
InLocal == scenario = "local"
InNccl == scenario \in DOMAIN Given!CommScenarios

-----------------------------------------------------------------------------
bootstrapVars == <<rankPc, infos, collected, handlesSent, nextAddr, backlog, ringRecv, ring, call, step,
                   data, peerRecvSockets, stream, want, messagesSent, received>>
communicatorVars == <<sent, taken, items, lastRecvItems, stack, ops, localRecvMemories, localItems,
                      localSent, localRecvs>>
ncclVars == <<script, steps, entered, board, ord, nextId, comm, front, handle, loaded>>
mcVars == <<scenario, kernelVars, pipelineVars, bootstrapVars, communicatorVars, ncclVars>>

NoBootstrap ==
  /\ rankPc = 0 /\ infos = 0 /\ collected = 0 /\ handlesSent = 0 /\ nextAddr = 0 /\ backlog = 0
  /\ ringRecv = 0 /\ ring = 0 /\ call = 0 /\ step = 0 /\ data = 0 /\ peerRecvSockets = 0 /\ stream = 0
  /\ want = 0 /\ messagesSent = 0 /\ received = 0
NoCommunicator ==
  /\ sent = 0 /\ taken = 0 /\ items = 0 /\ lastRecvItems = 0 /\ stack = 0 /\ ops = 0
  /\ localRecvMemories = 0 /\ localItems = 0 /\ localSent = 0 /\ localRecvs = 0
NoNccl ==
  /\ script = 0 /\ steps = 0 /\ entered = 0 /\ board = 0 /\ ord = 0 /\ nextId = 0 /\ comm = 0
  /\ front = 0 /\ handle = 0 /\ loaded = 0

MCInit ==
  /\ scenario \in Chosen
  /\ KernelInit /\ PipelineInit
  /\ IF InBootstrap THEN Bootstrap!Init ELSE NoBootstrap
  /\ \/ InMessages /\ Messages!Init
     \/ InLocal /\ Local!Init
     \/ ~InMessages /\ ~InLocal /\ NoCommunicator
  /\ IF InNccl THEN Nccl!CommInit ELSE NoNccl

\* The component of a scenario, and what it leaves alone.
KernelPart == InKernel /\ UNCHANGED <<scenario, pipelineVars, bootstrapVars, communicatorVars, ncclVars>>
PipelinePart == InPipeline /\ UNCHANGED <<scenario, kernelVars, bootstrapVars, communicatorVars, ncclVars>>
BootstrapPart == InBootstrap /\ UNCHANGED <<scenario, kernelVars, pipelineVars, communicatorVars, ncclVars>>
CommunicatorPart == UNCHANGED <<scenario, kernelVars, pipelineVars, bootstrapVars, ncclVars>>
NcclPart == InNccl /\ UNCHANGED <<kernelVars, pipelineVars, bootstrapVars, communicatorVars>>

MCNext ==
  \/ KernelPart /\ KernelNext
  \/ PipelinePart /\ PipelineNext
  \/ BootstrapPart /\ Bootstrap!Next
  \/ InMessages /\ CommunicatorPart /\ Messages!MessageNext
  \/ InLocal /\ CommunicatorPart /\ Local!LocalNext
  \/ NcclPart /\ Nccl!CommNext

\* Of each component what its own specification assumes: the blocks of a kernel are
\* co-resident and the threads of the ranks run; what the application calls is its own
\* choice.  As a behaviour is one of a single component, weak fairness of a disjunction
\* over components is that of each of them.
Fairness ==
  /\ WF_mcVars(\/ KernelPart /\ LaunchKernel
               \/ PipelinePart /\ PipelineNext
               \/ BootstrapPart /\ Bootstrap!RootStep)
  /\ \A b \in Blocks : WF_kernelVars(KernelPart /\ BlockStep(b))
  /\ WF_communicatorVars(InMessages /\ CommunicatorPart /\ Messages!RankStep("r1"))
  /\ \A r \in 0..2 : WF_<<bootstrapVars, ncclVars>>(\/ BootstrapPart /\ Bootstrap!RankStep(r)
                                                    \/ NcclPart /\ r \in Nccl!Ranks /\ Nccl!RankStep(r))

MCSpec == MCInit /\ [][MCNext]_mcVars /\ Fairness

-----------------------------------------------------------------------------
\* Every launch of the executor's kernel and of the pipeline ends on every rank: no block
\* spins for good in sync(), acquire() or wait().
LaunchesEnd == <>((InKernel => AllDone) /\ (InPipeline => PipelineDone))

\* A collective call of the bootstrap that has returned has delivered the slices of that
\* very call, however far ahead the other ranks are.
CollectiveResult == InBootstrap => Bootstrap!CollectiveResult

\* The messages in a socket are the ones not yet received, in the order sent, and the
\* socket is waiting to be accepted or has been (getPeerRecvSocket()).
NoMessageLost == InBootstrap => Bootstrap!NoMessageLost

\* The i-th receiving call gets what the i-th sending call sent, in whatever order get()
\* is called and recvMemory(), connect() and buildSemaphore() are mixed, and also for a
\* rank that sends to itself.
ReceivedInCallOrder ==
  /\ InMessages => Messages!ReceivedInCallOrder
  /\ InLocal => Local!LocalInCallOrder

\* Ranks with the same color end up in one communicator, each at a place of its own, by
\* key; others in different ones, and a rank without a color in none (ncclCommSplit()).
\* The ranks of a communicator gave the library one id, that of their rank 0
\* (ncclCommInitRank()).
RanksAgree == InNccl => Nccl!SplitAgrees /\ Nccl!LibraryIdsAgree

\* initialize() and every collective call of the bootstrap return on every rank, and so do
\* ncclCommInitRank(), ncclCommSplit() and ncclCommFinalize(), unless a rank waits in recv()
\* for good.  recv() returns when its message has been sent, whatever connections came
\* first, and get() once the peer has made the matching sending call.
CallsReturn ==
  /\ \/ <>((InBootstrap => Bootstrap!AllReturned) /\ (InNccl => Nccl!AllReturned))
     \/ <>[](InBootstrap /\ \E r \in 0..2 : Bootstrap!Unsent(r))
  /\ (InBootstrap /\ Bootstrap!Due(1)) ~> (InBootstrap /\ rankPc[1] = "ready")
  /\ (InMessages /\ Messages!Due("r1")) ~> (InMessages /\ Messages!Idle("r1"))
=============================================================================
