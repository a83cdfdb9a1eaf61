------------------------- MODULE ExecutorContexts --------------------------
(***************************************************************************)
(* The host side of Executor::execute() (src/core/executor/executor.cc) and*)
(* of the execution plans it loads (execution_plan.cc): the cache of       *)
(* contexts and of device plans, and the set-up of a context, in which the *)
(* ranks connect to the peers of the plan, build the semaphores of its     *)
(* channels and exchange the memories that its operations reach.           *)
(*                                                                         *)
(* A plan is the tables that a JSON file gives every rank; its operations  *)
(* are in ExecutorOps.                                                     *)
(***************************************************************************)
EXTENDS HostExchange

CONSTANTS
  Scenarios   \* by name: the ranks, the plans and the calls the program may make

VARIABLES
  scenario,
  calls,       \* the calls the program has made so far, the same on every rank
  phase,       \* of each rank: "idle", or in the set-up of a context
  loaded,      \* of each rank: the plan objects whose tables are loaded
  contexts,    \* of each rank: the cached contexts, by key
  launches     \* of each rank: what each of its calls has launched

executorVars == <<scenario, calls, phase, loaded, contexts, launches, exchangeVars>>

S == Scenarios[scenario]
N == S.nRanks
Ranks == 0 .. N - 1
RankSeq == [i \in 1 .. N |-> i - 1]

Call(r) == calls[Len(launches[r]) + 1]
Plan(r) == S.plans[Call(r).plan]

-----------------------------------------------------------------------------
(***************************************************************************)
(* The tables of a plan: channels[rank] is a sequence of channels, each of *)
(* a type and connected to a sequence of peers; buffers[rank] a sequence of*)
(* remote buffers, each of a rank and a type and reached through channels  *)
(* of some types; switches[rank] a sequence of groups of ranks.            *)
(***************************************************************************)

\* getChannelInfos(): the peers of the channels of a type, one after the other.
ChannelPeers(plan, r, type) ==
  Each(SelectSeq(plan.channels[r], LAMBDA c : c.type = type), LAMBDA c : c.peers)

\* channelCountMap_[{r, type}][p]
ChannelCount(plan, r, type, p) == Len(SelectSeq(ChannelPeers(plan, r, type), LAMBDA q : q = p))

\* getUnpairedChannelInfos(): the peer has more channels to this rank than
\* the rank has to it.
UnpairedPeers(plan, r, type) ==
  Each(PeersOf(r, N), LAMBDA p : [i \in 1 .. ChannelCount(plan, p, type, r) - ChannelCount(plan, r, type, p) |-> p])

\* getConnectedPeers(): those the rank has a channel to, and those that have one to it.
ConnectedPeers(plan, r) ==
  SelectSeq(PeersOf(r, N), LAMBDA p : \E type \in {"memory", "port"} :
    ChannelCount(plan, r, type, p) + ChannelCount(plan, p, type, r) > 0)

\* Remote buffers with their ids, which are their positions.
BuffersOf(plan, r) == [i \in DOMAIN plan.buffers[r] |-> plan.buffers[r][i] @@ [id |-> i, accessRank |-> r]]

\* parseRemoteBuffer(): localBufferToSend_, by the rank that reaches the buffer.
LocalBufferToSend(plan, r) ==
  Each(RankSeq, LAMBDA q : SelectSeq(BuffersOf(plan, q), LAMBDA b : b.rank = r))

\* bufferIndexMap_: the position among the buffers reached through the type.
BufferIndex(plan, r, id, type) ==
  Len(SelectSeq(SubSeq(plan.buffers[r], 1, id), LAMBDA b : type \in Range(b.access)))

-----------------------------------------------------------------------------
(***************************************************************************)
(* The set-up of a context.                                                *)
(***************************************************************************)
Argument(n, type, r) ==
  IF type = "scratch" THEN [rank |-> r, alloc |-> "scratch", offset |-> 0]
  ELSE [rank |-> r, alloc |-> calls[n][type][r].alloc, offset |-> calls[n][type][r].offset]

\* sendBasePtr, recvBasePtr, the scratch buffer of the context
BaseOf(r, type) == [Argument(Len(launches[r]) + 1, type, r) EXCEPT !.offset = 0]

ExecutorConnections(plan, r) ==
  Each(ConnectedPeers(plan, r), LAMBDA p : Send(p, Endpoint, None))
    \o Each(ConnectedPeers(plan, r), LAMBDA p : Recv(p, Endpoint))

\* connectNvlsCollective() of every group of the rank, whose first rank is its root
ExecutorSwitches(plan, r) ==
  Each(Upto(Len(plan.switches[r])), LAMBDA i :
    LET group == plan.switches[r][i]
        others == SelectSeq(group, LAMBDA p : p # group[1])
    IN IF r = group[1] THEN Each(others, LAMBDA p : Send(p, Multicast(i), None))
                       ELSE Recv(group[1], Multicast(i)))

\* The semaphores of one type with their number among those of the same peer.
Numbered(peers, type) ==
  [i \in DOMAIN peers |-> [peer |-> peers[i], what |-> Semaphore(
     <<type, Len(SelectSeq(SubSeq(peers, 1, i), LAMBDA p : p = peers[i]))>>)]]

\* Mutant: the channels that only the peers have come last.
UnpairedLast(plan, r) ==
  LET all == Numbered(ChannelPeers(plan, r, "memory"), "memory") \o Numbered(ChannelPeers(plan, r, "port"), "port")
               \o Numbered(UnpairedPeers(plan, r, "memory"), "memory") \o Numbered(UnpairedPeers(plan, r, "port"), "port")
  IN Each(all, LAMBDA s : Send(s.peer, s.what, None)) \o Each(all, LAMBDA s : Recv(s.peer, s.what))

\* setupChannels(): the semaphores of memory channels, then of port channels; all
\* are asked for before the first is waited for.
ExecutorChannels(plan, r) ==
  LET semaphores(type) == Numbered(ChannelPeers(plan, r, type) \o UnpairedPeers(plan, r, type), type)
      all == semaphores("memory") \o semaphores("port")
  IN Each(all, LAMBDA s : Send(s.peer, s.what, None)) \o Each(all, LAMBDA s : Recv(s.peer, s.what))

\* setupRegisteredMemories()
ExecutorMemories(plan, r) ==
  Each(LocalBufferToSend(plan, r), LAMBDA b : Send(b.accessRank, Memory(<<b.id, b.type>>), BaseOf(r, b.type)))
    \o Each(BuffersOf(plan, r), LAMBDA b : Recv(b.rank, Memory(<<b.id, b.type>>)))

SetUp(plan, r) ==
  ExecutorConnections(plan, r) \o ExecutorSwitches(plan, r) \o ExecutorChannels(plan, r)
    \o ExecutorMemories(plan, r)

\* registeredMemoryAddresses and registeredMemoryIds
Addresses(plan, r, type) ==
  LET reached == SelectSeq(BuffersOf(plan, r), LAMBDA b : type \in Range(b.access))
  IN [i \in DOMAIN reached |-> got[r][<<<<reached[i].id, reached[i].type>>, reached[i].rank>>]]

-----------------------------------------------------------------------------
\* ExecutionContextKey
ContextKey(r) ==
  IF Plan(r).reuseResources THEN [plan |-> Call(r).plan, send |-> "null", recv |-> "null"]
  ELSE [plan |-> Call(r).plan, send |-> Call(r).input[r].alloc, recv |-> Call(r).output[r].alloc]

\* Mutant: a call of the same size finds the device plan of other offsets.
KeyedBySize(r) == [size |-> Call(r).size]

\* DeviceExecutionPlanKey: the sizes and the offsets in the allocations.
DevicePlanKey(r) ==
  [size |-> Call(r).size, src |-> Call(r).input[r].offset, dst |-> Call(r).output[r].offset]

\* getOffset() of the operations: the constant offsets of this rank.
ConstOffset(r, type) ==
  CASE type = "input" -> Call(r).input[r].offset
    [] type = "output" -> Call(r).output[r].offset
    [] type = "scratch" -> 0

\* setupOperations() and setupDeviceExecutionPlan(): the remote addresses of
\* every buffer of the plan, as its operations compute them.
DevicePlan(plan, r, addresses) ==
  [id \in DOMAIN plan.buffers[r] |->
    [type \in Range(plan.buffers[r][id].access) |->
      LET at == addresses[type][BufferIndex(plan, r, id, type)]
      IN [at EXCEPT !.offset = @ + ConstOffset(r, plan.buffers[r][id].type)]]]

NewContext(plan, r) ==
  LET addresses == [type \in {"memory", "port"} |-> Addresses(plan, r, type)]
  IN [addresses |-> addresses, current |-> DevicePlanKey(r),
      devicePlans |-> DevicePlanKey(r) :> DevicePlan(plan, r, addresses)]

-----------------------------------------------------------------------------
ExecutorInit ==
  /\ scenario \in DOMAIN Scenarios
  /\ calls = <<>>
  /\ phase = [r \in Ranks |-> "idle"]
  /\ loaded = [r \in Ranks |-> {}]
  /\ contexts = [r \in Ranks |-> <<>>]
  /\ launches = [r \in Ranks |-> <<>>]
  /\ ExchangeInit(N)

NextCall ==
  /\ Len(calls) < S.maxCalls
  /\ \E r \in Ranks : phase[r] = "idle" /\ Len(launches[r]) = Len(calls)
  /\ \E c \in S.calls : calls' = Append(calls, c)
  /\ UNCHANGED <<scenario, phase, loaded, contexts, launches, exchangeVars>>

Called(r) == phase[r] = "idle" /\ Len(launches[r]) < Len(calls)

Object(r) == <<Call(r).plan, Call(r).object>>

\* launchKernel() of the current device plan.
LaunchWith(r, context) ==
  /\ launches' = [launches EXCEPT ![r] =
       Append(@, [remote |-> context.devicePlans[context.current], fromLoaded |-> context.loaded])]
  /\ phase' = [phase EXCEPT ![r] = "idle"]

\* An exception leaves execute(): nothing is launched.
Throw(r) ==
  /\ launches' = [launches EXCEPT ![r] = Append(@, None)]
  /\ phase' = [phase EXCEPT ![r] = "idle"]

\* operationsReset(): the tables of the plan object stay.
OperationsReset(r) == loaded[r]

\* A cached context: the device plan of the key is current, cached, or made
\* from the plan by lightLoadExecutionPlan(), which may refuse the size.
ExecuteCached(r) ==
  /\ Called(r) /\ ContextKey(r) \in DOMAIN contexts[r]
  /\ LET context == contexts[r][ContextKey(r)]
         hit == DevicePlanKey(r) \in DOMAIN context.devicePlans
         plans == IF hit THEN context.devicePlans
                  ELSE (DevicePlanKey(r) :> DevicePlan(Plan(r), r, context.addresses)) @@ context.devicePlans
         next == [context EXCEPT !.current = DevicePlanKey(r), !.devicePlans = plans,
                                 !.loaded = @ /\ (hit \/ Object(r) \in OperationsReset(r))]
     IN /\ loaded' = IF hit THEN loaded ELSE [loaded EXCEPT ![r] = OperationsReset(r)]
        /\ IF hit \/ Call(r).valid
           THEN contexts' = [contexts EXCEPT ![r][ContextKey(r)] = next] /\ LaunchWith(r, next)
           ELSE Throw(r) /\ UNCHANGED contexts
  /\ UNCHANGED <<scenario, calls, exchangeVars>>

\* No context: reset() and loadExecutionPlan(), which may refuse the size, then
\* the set-up with the peers.
ExecuteNew(r) ==
  /\ Called(r) /\ ContextKey(r) \notin DOMAIN contexts[r]
  /\ IF Call(r).valid
     THEN /\ loaded' = [loaded EXCEPT ![r] = @ \cup {Object(r)}]
          /\ todo' = [todo EXCEPT ![r] = SetUp(Plan(r), r)]
          /\ phase' = [phase EXCEPT ![r] = "setup"]
          /\ UNCHANGED launches
     ELSE /\ loaded' = [loaded EXCEPT ![r] = @ \ {Object(r)}]
          /\ Throw(r) /\ UNCHANGED todo
  /\ UNCHANGED <<scenario, calls, contexts, net, got, matched>>

\* The set-up is complete: the context is cached and the kernel launched.
FinishSetUp(r) ==
  /\ phase[r] = "setup" /\ todo[r] = <<>>
  /\ LET context == NewContext(Plan(r), r) @@ [loaded |-> Object(r) \in loaded[r]]
     IN /\ contexts' = [contexts EXCEPT ![r] = (ContextKey(r) :> context) @@ @]
        /\ LaunchWith(r, context)
  /\ UNCHANGED <<scenario, calls, loaded, exchangeVars>>

ExchangeStep(r) == Exchange(r) /\ UNCHANGED <<scenario, calls, phase, loaded, contexts, launches>>

ExecutorNext ==
  NextCall \/ \E r \in Ranks : ExecuteCached(r) \/ ExecuteNew(r) \/ FinishSetUp(r) \/ ExchangeStep(r)

ExecutorSpec == ExecutorInit /\ [][ExecutorNext]_executorVars

-----------------------------------------------------------------------------
\* The semaphores and memories that the ranks exchange are paired: the i-th
\* semaphore of a type on one side is the i-th on the other, and the memory of
\* a remote buffer is that of its rank and type (setupChannels(),
\* setupRegisteredMemories(), parseRemoteBuffer()).
PlanMessagesPaired == matched

\* The operations of a call reach the buffers that the peers passed to the same
\* call, through every type of channel, whichever cached context and device
\* plan they were made from (bufferIndexMap_, DeviceExecutionPlanKey).
PlanReachesArguments ==
  \A r \in Ranks : \A n \in DOMAIN launches[r] : launches[r][n] # None =>
    \A id \in DOMAIN launches[r][n].remote : \A type \in DOMAIN launches[r][n].remote[id] :
      LET b == S.plans[calls[n].plan].buffers[r][id]
      IN launches[r][n].remote[id][type] = Argument(n, b.type, b.rank)

\* A device plan is made from tables that are loaded: lightLoadExecutionPlan()
\* relies on the tables that an earlier call has loaded into the plan object.
DevicePlanFromLoadedTables ==
  \A r \in Ranks : \A n \in DOMAIN launches[r] : launches[r][n] # None => launches[r][n].fromLoaded

\* No rank waits for ever in a set-up: channels that one side alone has in the
\* plan are completed on the other (getUnpairedChannelInfos()).
PlanSetupNeverStuck ==
  (\A r \in Ranks : Blocked(r) \/ (phase[r] = "idle" /\ Len(launches[r]) = Len(calls)))
    => \A r \in Ranks : phase[r] = "idle"
=============================================================================
