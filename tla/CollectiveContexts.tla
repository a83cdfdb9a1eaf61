------------------------ MODULE CollectiveContexts -------------------------
(***************************************************************************)
(* The host side of the native collective algorithms (src/ext/collectives) *)
(* under NativeAlgorithm::execute() (src/core/algorithm.cc): initialize(), *)
(* the context key, the cache of contexts, the set-up of a context with the*)
(* peers, and the launch of the kernel with what the context holds.        *)
(*                                                                         *)
(* The ranks make the same calls, each on buffers of its own; a buffer is  *)
(* an offset in an allocation, whose base address and physical memory      *)
(* change when the program frees and allocates again.  A rank does not wait*)
(* for its peers but where the code exchanges messages with them.          *)
(***************************************************************************)
EXTENDS HostExchange

CONSTANTS
  Scenarios   \* by name: the algorithm, the ranks, the calls the program may make

VARIABLES
  scenario,
  calls,      \* the calls the program has made so far, the same on every rank
  memory,     \* of each rank and allocation: its address and physical memory
  renewals,   \* times the program has freed and allocated its buffers again
  phase, ctxKey,   \* of each rank: where execute() is, and the key of the call
  initialized, tag, channelMap,   \* of each rank
  contexts,   \* of each rank: the cached contexts, by key
  bound,      \* of each rank and multicast object: the ranges that are bound
  launches    \* of each rank: what each of its launches works on

contextVars == <<scenario, calls, memory, renewals, phase, ctxKey, initialized, tag, channelMap,
                 contexts, bound, launches, exchangeVars>>

S == Scenarios[scenario]
N == S.nRanks
Ranks == 0 .. N - 1
Channels == 2      \* nChannelsPerConnection_, nSwitchChannels_: at least two
MaxCalls == S.maxCalls
MaxRenewals == 1

Call(r) == calls[Len(launches[r]) + 1]

-----------------------------------------------------------------------------
(***************************************************************************)
(* Pointers and what is at them.                                           *)
(***************************************************************************)
Pointer(r, buf) == <<buf.alloc, memory[r][buf.alloc].address, buf.offset>>

\* cuMemGetAddressRange()
Base(r, buf) == [buf EXCEPT !.offset = 0]
BasePtr(r, buf) == Pointer(r, Base(r, buf))

\* registerMemory(): the physical memory behind a buffer, which peers map.
Registered(r, buf) ==
  [rank |-> r, alloc |-> buf.alloc, physical |-> memory[r][buf.alloc].physical, offset |-> buf.offset]

Shifted(region, offset) == [region EXCEPT !.offset = @ + offset]

Scratch(r) == [rank |-> r, alloc |-> "scratch", physical |-> 0, offset |-> 0]

Input(r) == Call(r).input[r]
Output(r) == Call(r).output[r]
InPlace(r) == Pointer(r, Input(r)) = Pointer(r, Output(r))

ScratchMemories(r) == SetupRemoteMemories(r, N, "scratch", Scratch(r))
Semaphores(r, first) == SetupMemorySemaphores(r, N, first, Channels)

\* What the peers have sent, by peer.
Remote(r, name) == [p \in Ranks \ {r} |-> got[r][<<name, p>>]]

\* allocateRange(): the first range of a multicast object that is not bound.
FreeRange(r, m) == CHOOSE i \in 0 .. Cardinality(bound[r][m]) :
  /\ i \notin bound[r][m]
  /\ \A j \in 0 .. i - 1 : j \in bound[r][m]

\* bindAllocatedMemory() of the range that FreeRange() gives
Bind(r, m, region) == [object |-> m, range |-> FreeRange(r, m), region |-> region]

-----------------------------------------------------------------------------
(***************************************************************************)
(* initialize() of each algorithm: what the rank says to its peers.        *)
(***************************************************************************)
Connections(r) == SetupConnections(r, N)

InitializePacket(r) == Connections(r) \o Semaphores(r, 1) \o ScratchMemories(r)
InitializeAllpairPacket(r) == Connections(r) \o Semaphores(r, 1) \o ScratchMemories(r)
InitializeRsAg(r) == Connections(r) \o Semaphores(r, 1) \o ScratchMemories(r)
InitializeRsAgPipeline(r) == Connections(r) \o Semaphores(r, 1) \o ScratchMemories(r)
InitializeRsAgZeroCopy(r) == Connections(r) \o Semaphores(r, 1)
InitializeAllgatherFullmesh(r) == Connections(r)
InitializeAllgatherFullmesh2(r) == Connections(r) \o Semaphores(r, 1)

\* The semaphores of the output, then those of the input and the scratch buffer.
InitializeFullmesh(r) ==
  Connections(r) \o Semaphores(r, 1) \o Semaphores(r, 1 + Channels) \o ScratchMemories(r)

InitializeNvlsPacket(r) == SetupNvlsConnections(r, N, 1, 1)
InitializeNvlsWarpPipeline(r) == Connections(r) \o Semaphores(r, 1) \o SetupNvlsConnections(r, N, 1, Channels)
InitializeNvlsBlockPipeline(r) == Connections(r) \o Semaphores(r, 1) \o SetupNvlsConnections(r, N, 1, Channels)

\* nvlsConnections_, then nvlsOutConnections_.
InitializeNvls(r) ==
  Connections(r) \o Semaphores(r, 1) \o SetupNvlsConnections(r, N, 1, Channels)
    \o SetupNvlsConnections(r, N, 1 + Channels, Channels)

Initialize(r) ==
  CASE S.algorithm = "packet" -> InitializePacket(r)
    [] S.algorithm = "allpair_packet" -> InitializeAllpairPacket(r)
    [] S.algorithm = "rsag" -> InitializeRsAg(r)
    [] S.algorithm = "rsag_pipeline" -> InitializeRsAgPipeline(r)
    [] S.algorithm = "fullmesh" -> InitializeFullmesh(r)
    [] S.algorithm = "rsag_zero_copy" -> InitializeRsAgZeroCopy(r)
    [] S.algorithm = "nvls_packet" -> InitializeNvlsPacket(r)
    [] S.algorithm = "nvls_warp_pipeline" -> InitializeNvlsWarpPipeline(r)
    [] S.algorithm = "nvls_block_pipeline" -> InitializeNvlsBlockPipeline(r)
    [] S.algorithm = "nvls" -> InitializeNvls(r)
    [] S.algorithm = "allgather_fullmesh" -> InitializeAllgatherFullmesh(r)
    [] S.algorithm = "allgather_fullmesh2" -> InitializeAllgatherFullmesh2(r)

-----------------------------------------------------------------------------
(***************************************************************************)
(* The key of the context of a call.                                       *)
(***************************************************************************)
CtxKey(input, output, t) == [input |-> input, output |-> output, tag |-> t]

Null == <<>>

KeyPacket(r) == CtxKey(BasePtr(r, Input(r)), Null, 0)
KeyAllpairPacket(r) == CtxKey(BasePtr(r, Input(r)), Null, 0)
KeyScratch(r) == CtxKey(Null, Null, 0)
KeyNvls(r) == CtxKey(BasePtr(r, Input(r)), BasePtr(r, Output(r)), 0)

KeyFullmesh(r) ==
  CtxKey(Null, BasePtr(r, Output(r)), IF Call(r).symmetric THEN 0 ELSE tag[r])

KeyRsAgZeroCopy(r) ==
  IF Call(r).symmetric THEN CtxKey(BasePtr(r, Input(r)), BasePtr(r, Output(r)), 0)
  ELSE CtxKey(Pointer(r, Input(r)), Pointer(r, Output(r)), tag[r] + 1)

KeyAllgatherFullmesh2(r) ==
  IF Call(r).symmetric THEN CtxKey(Null, BasePtr(r, Output(r)), 0)
  ELSE CtxKey(Null, Null, tag[r])

Key(r) ==
  CASE S.algorithm = "packet" -> KeyPacket(r)
    [] S.algorithm = "allpair_packet" -> KeyAllpairPacket(r)
    [] S.algorithm = "fullmesh" -> KeyFullmesh(r)
    [] S.algorithm = "rsag_zero_copy" -> KeyRsAgZeroCopy(r)
    [] S.algorithm = "allgather_fullmesh2" -> KeyAllgatherFullmesh2(r)
    [] S.algorithm = "nvls" -> KeyNvls(r)
    [] OTHER -> KeyScratch(r)

\* tag++, ++tag: the key of a call on memory that is not symmetric is new.
TakesTag(r) ==
  /\ ~Call(r).symmetric
  /\ S.algorithm \in {"fullmesh", "rsag_zero_copy", "allgather_fullmesh2"}

-----------------------------------------------------------------------------
(***************************************************************************)
(* The set-up of a context with the peers, and the context it makes.       *)
(***************************************************************************)

\* Mutant: the output is registered, and the kernel adds its offset.
OutputItself(r) == Output(r)

\* The memory that is registered: the allocation if it is symmetric.
OutputMemory(r) == IF Call(r).symmetric THEN Base(r, Output(r)) ELSE Output(r)

SetUpOutput(r) == SetupRemoteMemories(r, N, "output", Registered(r, OutputMemory(r)))

SetUpRsAgZeroCopy(r) ==
  SetupRemoteMemories(r, N, "input", Registered(r, Input(r)))
    \o SetupRemoteMemories(r, N, "output", Registered(r, Output(r)))

SetUpAllgatherFullmesh(r) == Semaphores(r, 1) \o ScratchMemories(r)

SetUp(r) ==
  CASE S.algorithm \in {"fullmesh", "allgather_fullmesh2"} -> SetUpOutput(r)
    [] S.algorithm = "rsag_zero_copy" -> SetUpRsAgZeroCopy(r)
    [] S.algorithm = "allgather_fullmesh" -> SetUpAllgatherFullmesh(r)
    [] OTHER -> <<>>

\* The channels of the peers' memories, the local memory and its binding.
Ctx(remote, local, binding, offset) ==
  [remote |-> remote, local |-> local, multicast |-> binding, offset |-> offset]

ContextPacket(r) == Ctx([scratch |-> Remote(r, "scratch")], BasePtr(r, Input(r)), <<>>, 0)
ContextAllpairPacket(r) == Ctx([scratch |-> Remote(r, "scratch")], BasePtr(r, Input(r)), <<>>, 0)
ContextRsAg(r) == Ctx([scratch |-> Remote(r, "scratch")], Null, <<>>, 0)
ContextRsAgPipeline(r) == Ctx([scratch |-> Remote(r, "scratch")], Null, <<>>, 0)
ContextAllgatherFullmesh(r) == Ctx([scratch |-> Remote(r, "scratch")], Null, <<>>, 0)
ContextFullmesh(r) == Ctx([output |-> Remote(r, "output")], Null, <<>>, 0)

ContextRsAgZeroCopy(r) ==
  Ctx([input |-> Remote(r, "input"), output |-> Remote(r, "output")], Null, <<>>, 0)

\* extras["channel_out_offset"]
ContextAllgatherFullmesh2(r) ==
  Ctx([output |-> Remote(r, "output")], Pointer(r, OutputMemory(r)), <<>>,
      IF Call(r).symmetric THEN Output(r).offset ELSE 0)

\* switchChannels_, bound by initialize()
ContextNvlsPacket(r) ==
  Ctx(<<>>, Null, [scratch |-> [object |-> "in", range |-> 0, region |-> Scratch(r)]], 0)

ContextNvlsWarpPipeline(r) == Ctx(<<>>, Null, [scratch |-> Bind(r, "in", Scratch(r))], 0)
ContextNvlsBlockPipeline(r) == Ctx(<<>>, Null, [scratch |-> Bind(r, "in", Scratch(r))], 0)

\* The channels of the output exist if the call that makes the context has one.
ContextNvls(r) ==
  LET input == "input" :> Bind(r, "in", Registered(r, Base(r, Input(r))))
      output == "output" :> Bind(r, "out", Registered(r, Base(r, Output(r))))
  IN Ctx(<<>>, Null, IF InPlace(r) THEN input ELSE input @@ output, 0)

Context(r) ==
  CASE S.algorithm = "packet" -> ContextPacket(r)
    [] S.algorithm = "allpair_packet" -> ContextAllpairPacket(r)
    [] S.algorithm = "rsag" -> ContextRsAg(r)
    [] S.algorithm = "rsag_pipeline" -> ContextRsAgPipeline(r)
    [] S.algorithm = "allgather_fullmesh" -> ContextAllgatherFullmesh(r)
    [] S.algorithm = "fullmesh" -> ContextFullmesh(r)
    [] S.algorithm = "rsag_zero_copy" -> ContextRsAgZeroCopy(r)
    [] S.algorithm = "allgather_fullmesh2" -> ContextAllgatherFullmesh2(r)
    [] S.algorithm = "nvls_packet" -> ContextNvlsPacket(r)
    [] S.algorithm = "nvls_warp_pipeline" -> ContextNvlsWarpPipeline(r)
    [] S.algorithm = "nvls_block_pipeline" -> ContextNvlsBlockPipeline(r)
    [] S.algorithm = "nvls" -> ContextNvls(r)

-----------------------------------------------------------------------------
(***************************************************************************)
(* kernelFunc(): what the kernel of a call works on, given its context.    *)
(***************************************************************************)
Advance(pointer, offset) == [pointer EXCEPT ![3] = @ + offset]

Launched(remote, local, multicast) == [remote |-> remote, local |-> local, multicast |-> multicast]

\* channelInOffset is computed by every call.
KernelPacket(r, ctx) ==
  Launched(ctx.remote, [input |-> Advance(ctx.local, Input(r).offset)], <<>>)

KernelAllpairPacket(r, ctx) ==
  Launched(ctx.remote, [input |-> Advance(ctx.local, Input(r).offset)], <<>>)

\* The kernels that take the pointers of the call.
KernelOnArguments(r, ctx) ==
  Launched(ctx.remote, [input |-> Pointer(r, Input(r)), output |-> Pointer(r, Output(r))], ctx.multicast)

KernelRsAg(r, ctx) == KernelOnArguments(r, ctx)
KernelRsAgPipeline(r, ctx) == KernelOnArguments(r, ctx)
KernelRsAgZeroCopy(r, ctx) == KernelOnArguments(r, ctx)
KernelAllgatherFullmesh(r, ctx) == KernelOnArguments(r, ctx)
KernelNvlsPacket(r, ctx) == KernelOnArguments(r, ctx)
KernelNvlsWarpPipeline(r, ctx) == KernelOnArguments(r, ctx)
KernelNvlsBlockPipeline(r, ctx) == KernelOnArguments(r, ctx)

\* channelOutOffset is computed by every call.
KernelFullmesh(r, ctx) ==
  LET offset == IF Call(r).symmetric THEN Output(r).offset ELSE 0 IN
  Launched([scratch |-> Remote(r, "scratch"),
            output |-> [p \in Ranks \ {r} |-> Shifted(ctx.remote.output[p], offset)]],
           [input |-> Pointer(r, Input(r)), output |-> Pointer(r, Output(r))], <<>>)

\* The offset is the one of the call that made the context.
KernelAllgatherFullmesh2(r, ctx) ==
  Launched([output |-> [p \in Ranks \ {r} |-> Shifted(ctx.remote.output[p], ctx.offset)]],
           [input |-> Pointer(r, Input(r)), output |-> Advance(ctx.local, ctx.offset)], <<>>)

\* nvlsOutChannels, past the channels of the input unless the call is in place
KernelNvls(r, ctx) ==
  LET at(b, offset) == [b EXCEPT !.region = Shifted(@, offset)]
      out == IF InPlace(r) THEN "input" ELSE "output"
  IN Launched(<<>>, <<>>,
       [input |-> at(ctx.multicast.input, Input(r).offset),
        output |-> IF out \in DOMAIN ctx.multicast THEN at(ctx.multicast[out], Output(r).offset)
                   ELSE [object |-> "none", range |-> 0, region |-> None]])

KernelFunc(r, ctx) ==
  CASE S.algorithm = "packet" -> KernelPacket(r, ctx)
    [] S.algorithm = "allpair_packet" -> KernelAllpairPacket(r, ctx)
    [] S.algorithm = "fullmesh" -> KernelFullmesh(r, ctx)
    [] S.algorithm = "allgather_fullmesh2" -> KernelAllgatherFullmesh2(r, ctx)
    [] S.algorithm = "nvls" -> KernelNvls(r, ctx)
    [] S.algorithm = "rsag" -> KernelRsAg(r, ctx)
    [] S.algorithm = "rsag_pipeline" -> KernelRsAgPipeline(r, ctx)
    [] S.algorithm = "rsag_zero_copy" -> KernelRsAgZeroCopy(r, ctx)
    [] S.algorithm = "allgather_fullmesh" -> KernelAllgatherFullmesh(r, ctx)
    [] S.algorithm = "nvls_packet" -> KernelNvlsPacket(r, ctx)
    [] S.algorithm = "nvls_warp_pipeline" -> KernelNvlsWarpPipeline(r, ctx)
    [] S.algorithm = "nvls_block_pipeline" -> KernelNvlsBlockPipeline(r, ctx)

\* dispatch() knows the type, the blocks are not too many.
Accepts(r) == Call(r).supported /\ (S.algorithm = "nvls" => Call(r).symmetric)

-----------------------------------------------------------------------------
ContextInit ==
  /\ scenario \in DOMAIN Scenarios
  /\ calls = <<>> /\ renewals = 0
  /\ memory = [r \in Ranks |-> [a \in S.allocs |-> [address |-> 0, physical |-> 0]]]
  /\ phase = [r \in Ranks |-> "idle"]
  /\ ctxKey = [r \in Ranks |-> CtxKey(Null, Null, 0)]
  /\ initialized = [r \in Ranks |-> FALSE]
  /\ tag = [r \in Ranks |-> 0]
  /\ channelMap = [r \in Ranks |-> {}]
  /\ contexts = [r \in Ranks |-> <<>>]
  /\ bound = [r \in Ranks |-> [in |-> {}, out |-> {}]]
  /\ launches = [r \in Ranks |-> <<>>]
  /\ ExchangeInit(N)

\* Every rank has launched every call, and its stream has been synchronized.
Quiet == \A r \in Ranks : phase[r] = "idle" /\ Len(launches[r]) = Len(calls)

\* The program decides on the next call; ranks come to it in their own time.
NextCall ==
  /\ Len(calls) < MaxCalls
  /\ \E r \in Ranks : phase[r] = "idle" /\ Len(launches[r]) = Len(calls)
  /\ \E c \in S.calls : calls' = Append(calls, c @@ [memory |-> memory])
  /\ UNCHANGED <<scenario, memory, renewals, phase, ctxKey, initialized, tag, channelMap, contexts,
                 bound, launches, exchangeVars>>

\* The program frees its buffers and allocates them again, at the same address
\* or at another.  If the memory is symmetric it resets the algorithm as well.
Renew ==
  /\ Quiet /\ renewals < MaxRenewals
  /\ renewals' = renewals + 1
  /\ \E moved \in [Ranks -> BOOLEAN] :
       memory' = [r \in Ranks |-> [a \in S.allocs |->
                    [address |-> memory[r][a].address + (IF moved[r] THEN 1 ELSE 0),
                     physical |-> memory[r][a].physical + 1]]]
  /\ IF S.reset
     THEN /\ contexts' = [r \in Ranks |-> <<>>]
          /\ bound' = IF S.algorithm = "nvls_packet" THEN bound
                      ELSE [r \in Ranks |-> [in |-> {}, out |-> {}]]
     ELSE UNCHANGED <<contexts, bound>>
  /\ UNCHANGED <<scenario, calls, phase, ctxKey, initialized, tag, channelMap, launches, exchangeVars>>

\* execute() of the next call: initFunc_() unless it has run.
Execute(r) ==
  /\ phase[r] = "idle" /\ Len(launches[r]) < Len(calls)
  /\ phase' = [phase EXCEPT ![r] = "initialize"]
  /\ todo' = [todo EXCEPT ![r] = IF initialized[r] THEN <<>> ELSE Initialize(r)]
  /\ UNCHANGED <<scenario, calls, memory, renewals, ctxKey, initialized, tag, channelMap, contexts,
                 bound, launches, net, got, matched>>

\* contextKeyGenFunc_(), contexts_.find(), and contextInitFunc_() if there is none.
FindContext(r) ==
  /\ phase[r] = "initialize" /\ todo[r] = <<>>
  /\ initialized' = [initialized EXCEPT ![r] = TRUE]
  /\ bound' = IF S.algorithm = "nvls_packet" THEN [bound EXCEPT ![r].in = {0}] ELSE bound
  /\ tag' = [tag EXCEPT ![r] = IF TakesTag(r) THEN @ + 1 ELSE @]
  /\ phase' = [phase EXCEPT ![r] = "context"]
  /\ ctxKey' = [ctxKey EXCEPT ![r] = Key(r)]
  /\ todo' = [todo EXCEPT ![r] = IF Key(r) \in DOMAIN contexts[r] THEN <<>> ELSE SetUp(r)]
  /\ UNCHANGED <<scenario, calls, memory, renewals, channelMap, contexts, launches, net, got, matched>>

InCall(r) == phase[r] = "context" /\ todo[r] = <<>>

\* The set-up is complete: the context is made, bound and cached.
MakeContext(r) ==
  /\ InCall(r) /\ ctxKey[r] \notin DOMAIN contexts[r]
  /\ contexts' = [contexts EXCEPT ![r] = (ctxKey[r] :> Context(r)) @@ @]
  /\ bound' = IF S.algorithm \in {"nvls", "nvls_warp_pipeline", "nvls_block_pipeline"}
              THEN [bound EXCEPT ![r] = [m \in DOMAIN @ |->
                      @[m] \cup {b.range : b \in {x \in Range(Context(r).multicast) : x.object = m}}]]
              ELSE bound
  /\ UNCHANGED <<scenario, calls, memory, renewals, phase, ctxKey, initialized, tag, channelMap,
                 launches, exchangeVars>>

\* kernelLaunchFunc_()
Launch(r) ==
  /\ InCall(r) /\ ctxKey[r] \in DOMAIN contexts[r]
  /\ channelMap' = IF S.algorithm = "fullmesh"
                   THEN [channelMap EXCEPT ![r] = @ \cup {Pointer(r, Input(r))}] ELSE channelMap
  /\ launches' = [launches EXCEPT ![r] =
                    Append(@, IF Accepts(r) THEN KernelFunc(r, contexts[r][ctxKey[r]]) ELSE None)]
  /\ phase' = [phase EXCEPT ![r] = "idle"]
  /\ UNCHANGED <<scenario, calls, memory, renewals, ctxKey, initialized, tag, contexts, bound, exchangeVars>>

ExchangeStep(r) ==
  /\ Exchange(r)
  /\ UNCHANGED <<scenario, calls, memory, renewals, phase, ctxKey, initialized, tag, channelMap,
                 contexts, bound, launches>>

ContextNext ==
  \/ NextCall \/ Renew
  \/ \E r \in Ranks : Execute(r) \/ ExchangeStep(r) \/ FindContext(r) \/ MakeContext(r) \/ Launch(r)

ContextSpec == ContextInit /\ [][ContextNext]_contextVars

-----------------------------------------------------------------------------
\* What rank r passed to its n-th call.
Argument(n, kind, r) ==
  IF kind = "scratch" THEN Scratch(r)
  ELSE LET buf == calls[n][kind][r] IN
       [rank |-> r, alloc |-> buf.alloc, physical |-> calls[n].memory[r][buf.alloc].physical,
        offset |-> buf.offset]

ArgumentPtr(n, kind, r) ==
  LET buf == calls[n][kind][r] IN <<buf.alloc, calls[n].memory[r][buf.alloc].address, buf.offset>>

Accepted(n, r) == n \in DOMAIN launches[r] /\ launches[r][n] # None

\* What a rank takes from the bootstrap is what it expects: the endpoints, the
\* semaphores of a channel, the memories and the multicast handles that the
\* set-ups of two ranks exchange are paired (collective_utils.cc,
\* switch_channel.cc), whatever either rank set up before.
MessagesPaired == matched

\* A kernel works on the buffers of its own call: the remote memories it writes
\* are those the peers passed to this call, mapped as they are now, and the
\* local ones its own, whatever contexts earlier calls have left in contexts_.
\* What the ranks bound to a multicast object for a call lies at one offset of
\* it, although every rank allocates the ranges by itself.
LaunchedOnItsBuffers ==
  \A r \in Ranks : \A n \in DOMAIN launches[r] : Accepted(n, r) =>
    /\ \A kind \in DOMAIN launches[r][n].remote : \A p \in Ranks \ {r} :
         launches[r][n].remote[kind][p] = Argument(n, kind, p)
    /\ \A kind \in DOMAIN launches[r][n].local : launches[r][n].local[kind] = ArgumentPtr(n, kind, r)
    /\ \A kind \in DOMAIN launches[r][n].multicast :
         LET b(x) == launches[x][n].multicast[kind] IN
         /\ b(r).region = Argument(n, kind, r)
         /\ \A p \in Ranks : Accepted(n, p) => b(p).object = b(r).object /\ b(p).range = b(r).range

\* The ranks that make the same calls never wait for each other for ever: a
\* rank that finds a context in its cache does not leave its peers in a set-up.
SetupNeverStuck ==
  (\A r \in Ranks : Blocked(r) \/ (phase[r] = "idle" /\ Len(launches[r]) = Len(calls))) => Quiet
=============================================================================
