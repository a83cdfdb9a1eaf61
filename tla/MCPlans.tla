------------------------------ MODULE MCPlans ------------------------------
(***************************************************************************)
(* Execution plans for TLC, in the form of the programs of the language's  *)
(* tests (python/mscclpp/language/tests, test/executor-tests/algos): for   *)
(* each rank and thread block the operations that the plan gives it.  And  *)
(* the kernels of the examples.                                            *)
(***************************************************************************)
EXTENDS ExecutorOps, BenchmarkKernels, TLC

\* A grid of nBlocks x nThreads on each of nRanks ranks.
Grid(nRanks, nBlocks, nThreads, Code(_)) ==
  [p \in (0 .. nRanks - 1) \X (0 .. nBlocks - 1) \X (0 .. nThreads - 1) |->
     Code([rank |-> p[1], block |-> p[2], thread |-> p[3],
           nRanks |-> nRanks, gridDim |-> nBlocks, blockDim |-> nThreads])] @@ <<>>

\* An allreduce of n cells.
Allreduce(nRanks, n, in, out, code) ==
  [code |-> code,
   input |-> [a \in (0 .. nRanks - 1) \X {in} \X (0 .. n - 1) |-> <<a[1], a[3]>>] @@ <<>>,
   result |-> [a \in (0 .. nRanks - 1) \X {out} \X (0 .. n - 1) |-> {<<r, a[3]>> : r \in 0 .. nRanks - 1}] @@ <<>>]

\* An allgather of n cells of each rank, in place.
Gather(nRanks, n, out, code) ==
  [code |-> code,
   input |-> [a \in {<<r, out, r * n + i>> : r \in 0 .. nRanks - 1, i \in 0 .. n - 1} |->
                <<a[1], a[3] % n>>] @@ <<>>,
   result |-> [a \in (0 .. nRanks - 1) \X {out} \X (0 .. nRanks * n - 1) |->
                {<<a[3] \div n, a[3] % n>>}] @@ <<>>]

Scenario(nRanks, nFlags, kernels) == [nRanks |-> nRanks, nFlags |-> nFlags, kernels |-> kernels]
-----------------------------------------------------------------------------
Env(vec, half, reuse, scratchChunk) ==
  [vec |-> vec, red |-> 1, bytes |-> 2, half |-> half, reuse |-> reuse, scratchChunk |-> scratchChunk,
   first |-> [in |-> "in", out |-> "out", scr |-> "scr"]]

Local(c, buf, off, size) ==
  [rank |-> c.rank, buf |-> buf, off |-> off, size |-> size,
   id |-> CHOOSE i \in 0 .. 2 : BufferTypes[i + 1] = buf]
Far(rank, buf, off, size) == [rank |-> rank, buf |-> buf, off |-> off, size |-> size, id |-> 0]

Nop == [type |-> "NOP"]
Sync(type, chan, chans) == [type |-> type, chan |-> chan, chans |-> chans, src |-> <<>>, dst |-> <<>>]
Data(type, chan, chans, src, dst) == [type |-> type, chan |-> chan, chans |-> chans, src |-> src, dst |-> dst]
Handshake(chans) == <<Sync("SIGNAL", "MEMORY", chans), Sync("WAIT", "MEMORY", chans)>>

Plan(e, nRanks, nBlocks, nThreads, Ops(_)) ==
  Grid(nRanks, nBlocks, nThreads, LAMBDA c : ExecutionKernel(e, c, Ops(c)))

Other(c) == 1 - c.rank
Chan(c) == <<Other(c), 0>>

\* Each rank reads, reduces and sends its chunk.
ReadReduceSendPlan(nBlocks, nThreads, n) ==
  Allreduce(2, 2 * n, "in", "out", Plan(Env(1, 0, FALSE, 1), 2, nBlocks, nThreads, LAMBDA c :
    Handshake(<<Chan(c)>>)
    \o <<Nop, Data("READ_REDUCE_SEND", "MEMORY", <<Chan(c)>>,
               <<Local(c, "in", c.rank * n, n), Far(Other(c), "in", c.rank * n, n)>>,
               <<Local(c, "out", c.rank * n, n), Far(Other(c), "out", c.rank * n, n)>>), Nop>>
    \o Handshake(<<Chan(c)>>)))

\* The chunk of the peer goes to its scratch buffer, where it is reduced and sent back, in
\* one call of the operations or in a pipeline over units of the chunk.
ReduceSendOps(c, n) ==
  <<Data("PUT", "MEMORY", <<Chan(c)>>, <<Local(c, "in", Other(c) * n, n)>>, <<Far(Other(c), "scr", 0, n)>>), Nop>>
  \o Handshake(<<Chan(c)>>)
  \o <<Nop, Data("REDUCE_SEND", "MEMORY", <<Chan(c)>>,
             <<Local(c, "in", c.rank * n, n), Local(c, "scr", 0, n)>>,
             <<Local(c, "out", c.rank * n, n), Far(Other(c), "out", c.rank * n, n)>>), Nop>>
  \o Handshake(<<Chan(c)>>) \o <<Nop>>

ReduceSendPlan(nThreads, n) ==
  Allreduce(2, 2 * n, "in", "out",
            Plan(Env(1, 0, FALSE, 1), 2, 1, nThreads, LAMBDA c : ReduceSendOps(c, n)))

PipelinePlan(nThreads, n, unit, reuse) ==
  Allreduce(2, 2 * n, "in", "out", Plan(Env(1, 0, reuse, unit), 2, 1, nThreads, LAMBDA c :
    <<[type |-> "PIPELINE", n |-> CeilDiv(n, unit), unit |-> unit, ops |-> ReduceSendOps(c, n)]>>))

\* A reduction to rank 0 that sends the result back, of elements that do not fill int4s.
RootPlan(nThreads, n) ==
  Allreduce(2, n, "in", "out", Plan(Env(2, 0, FALSE, 1), 2, 1, nThreads, LAMBDA c :
    IF c.rank = 1
    THEN <<Data("PUT", "MEMORY", <<Chan(c)>>, <<Local(c, "in", 0, n)>>, <<Far(0, "scr", 0, n)>>), Nop>>
         \o Handshake(<<Chan(c)>>)
    ELSE <<Sync("WAIT", "MEMORY", <<Chan(c)>>), Nop,
           Data("REDUCE_SEND", "MEMORY", <<Chan(c)>>,
                <<Local(c, "in", 0, n), Local(c, "scr", 0, n)>>,
                <<Local(c, "out", 0, n), Far(1, "out", 0, n)>>), Nop,
           Sync("SIGNAL", "MEMORY", <<Chan(c)>>)>>))

\* Each rank fetches the chunk of the other one.
GetPlan(nThreads, n) ==
  Gather(2, n, "out", Plan(Env(1, 0, FALSE, 1), 2, 1, nThreads, LAMBDA c :
    Handshake(<<Chan(c)>>)
    \o <<Nop, Data("GET", "MEMORY", <<Chan(c)>>,
               <<Far(Other(c), "out", Other(c) * n, n)>>, <<Local(c, "out", Other(c) * n, n)>>), Nop>>
    \o Handshake(<<Chan(c)>>)))

\* A pipeline through one unit of the scratch buffer.
ReusePlan(nThreads, n, unit) ==
  Gather(2, n, "out", Plan(Env(1, 0, TRUE, unit), 2, 1, nThreads, LAMBDA c :
    <<[type |-> "PIPELINE", n |-> CeilDiv(n, unit), unit |-> unit, ops |->
       <<Data("PUT", "MEMORY", <<Chan(c)>>, <<Local(c, "out", c.rank * n, n)>>, <<Far(Other(c), "scr", 0, n)>>), Nop>>
       \o Handshake(<<Chan(c)>>)
       \o <<Nop, Data("COPY", "MEMORY", <<>>, <<Local(c, "scr", 0, n)>>, <<Local(c, "out", Other(c) * n, n)>>), Nop>>
       \o Handshake(<<Chan(c)>>) \o <<Nop>>]>>))

\* An allreduce with packets.
PacketPlan(nThreads, n) ==
  Allreduce(2, 2 * n, "in", "out", Plan(Env(1, 4 * n, FALSE, 1), 2, 1, nThreads, LAMBDA c :
    <<Data("PUT_PACKETS", "MEMORY", <<Chan(c)>>, <<Local(c, "in", Other(c) * n, n)>>, <<Far(Other(c), "scr", c.rank * n, n)>>),
      Data("REDUCE_SEND_PACKETS", "MEMORY", <<Chan(c)>>,
           <<Local(c, "in", c.rank * n, n), Local(c, "scr", Other(c) * n, n)>>,
           <<Local(c, "out", c.rank * n, n), Far(Other(c), "scr", (2 + c.rank) * n, n)>>),
      Data("UNPACK_PACKETS", "MEMORY", <<>>, <<Local(c, "scr", (2 + Other(c)) * n, n)>>, <<Local(c, "out", Other(c) * n, n)>>)>>))

\* The same with the packets of the result sent by the proxy, as between nodes.
PortPacketPlan(nThreads, n) ==
  Allreduce(2, 2 * n, "in", "out", Plan(Env(1, 6 * n, FALSE, 1), 2, 1, nThreads, LAMBDA c :
    <<Data("COPY_PACKETS", "MEMORY", <<>>, <<Local(c, "in", Other(c) * n, n)>>, <<Local(c, "scr", 4 * n, n)>>),
      Data("READ_PUT_PACKETS", "PORT", <<Chan(c)>>, <<Local(c, "scr", 4 * n, n)>>, <<Far(Other(c), "scr", c.rank * n, n)>>),
      Data("REDUCE_COPY_PACKETS", "MEMORY", <<>>,
           <<Local(c, "in", c.rank * n, n), Local(c, "scr", Other(c) * n, n)>>,
           <<Local(c, "out", c.rank * n, n), Local(c, "scr", 5 * n, n)>>), Nop,
      Data("PUT_PACKETS", "PORT", <<Chan(c)>>, <<Local(c, "scr", 5 * n, n)>>, <<Far(Other(c), "scr", (2 + c.rank) * n, n)>>),
      Data("UNPACK_PACKETS", "MEMORY", <<>>, <<Local(c, "scr", (2 + Other(c)) * n, n)>>, <<Local(c, "out", Other(c) * n, n)>>)>>))

\* Each rank sends its chunk through the proxy.  Either the receiver acknowledges it, or
\* the sender relies on the flush.
PortPlan(type, ack, nThreads, n) ==
  Gather(2, n, "out", Plan(Env(1, 0, FALSE, 1), 2, 1, nThreads, LAMBDA c :
    <<Sync("SIGNAL", "PORT", <<Chan(c)>>), Sync("WAIT", "PORT", <<Chan(c)>>), Nop,
      Data(type, "PORT", <<Chan(c)>>, <<Local(c, "out", c.rank * n, n)>>, <<Far(Other(c), "out", c.rank * n, n)>>),
      Sync("WAIT", "PORT", <<Chan(c)>>)>>
    \o If(ack, Handshake(<<<<Other(c), 1>>>>))))

\* Three thread blocks that hand over to each other with semaphores: copy to the scratch
\* buffer, reduce it through the switch, copy the result.
SemaphorePlan(n) ==
  Allreduce(2, 2 * n, "in", "out", Plan(Env(1, 0, FALSE, 1), 2, 3, 1, LAMBDA c :
    CASE c.block = 0 ->
           <<Data("COPY", "MEMORY", <<>>, <<Local(c, "in", 0, 2 * n)>>, <<Local(c, "scr", 0, 2 * n)>>), Nop>>
           \o Handshake(<<Chan(c)>>) \o <<[type |-> "SEM_RELEASE", sems |-> <<0>>]>>
      [] c.block = 1 ->
           <<[type |-> "SEM_ACQUIRE", sems |-> <<0>>], Nop,
             Data("MULTI_LOAD_REDUCE_STORE", "SWITCH", <<>>, <<Local(c, "scr", c.rank * n, n)>>, <<Local(c, "scr", c.rank * n, n)>>),
             Nop, Sync("SIGNAL", "MEMORY", <<<<Other(c), 1>>>>), [type |-> "SEM_RELEASE", sems |-> <<1>>]>>
      [] c.block = 2 ->
           <<[type |-> "SEM_ACQUIRE", sems |-> <<1>>], Sync("WAIT", "MEMORY", <<<<Other(c), 1>>>>), Nop,
             Data("COPY", "MEMORY", <<>>, <<Local(c, "scr", 0, 2 * n)>>, <<Local(c, "out", 0, 2 * n)>>)>>))

\* The exchange of packets leaves the data of the peer in the place of the own.
Swap(n, code) ==
  [code |-> code,
   input |-> [a \in {<<r, "out", r * n + i>> : r \in 0 .. 1, i \in 0 .. n - 1} |-> <<a[1], a[3] % n>>] @@ <<>>,
   result |-> [a \in {<<r, "out", r * n + i>> : r \in 0 .. 1, i \in 0 .. n - 1} |-> {<<1 - a[1], a[3] % n>>}] @@ <<>>]

PlanScenarios == [
  ping_pong |-> Scenario(2, 1, <<[code |-> Grid(2, 1, 2, LAMBDA c : IF c.rank = 0 THEN GpuKernel0(c, 2) ELSE GpuKernel1(c, 2)),
                                  input |-> <<>>, result |-> <<>>]>>),
  bidir_memory |-> Scenario(2, 1, <<Gather(2, 2, "out", Grid(2, 2, 1, LAMBDA c : BidirPutKernel(c, 2))),
                                    Swap(2, Grid(2, 1, 2, LAMBDA c : BidirPutPacketKernel(c, 2))),
                                    Swap(2, Grid(2, 2, 1, LAMBDA c : BidirPutPacketKernel(c, 2))),
                                    Gather(2, 2, "out", Grid(2, 2, 1, LAMBDA c : BidirGetKernel(c, 2)))>>),
  bidir_port |-> Scenario(2, 1, <<Gather(2, 1, "out", Grid(2, 1, 2, LAMBDA c : BidirPortPutKernel(c, 1)))>>),
  plan_read_reduce |-> Scenario(2, 1, <<ReadReduceSendPlan(1, 2, 2), ReadReduceSendPlan(1, 1, 1)>>),
  plan_reduce |-> Scenario(2, 1, <<ReduceSendPlan(2, 2), ReduceSendPlan(1, 1)>>),
  plan_pipeline |-> Scenario(2, 1, <<PipelinePlan(2, 3, 2, FALSE), PipelinePlan(1, 2, 1, FALSE)>>),
  plan_root |-> Scenario(2, 1, <<RootPlan(2, 3), RootPlan(1, 3)>>),
  plan_get |-> Scenario(2, 1, <<GetPlan(2, 3), GetPlan(1, 1)>>),
  plan_reuse |-> Scenario(2, 1, <<ReusePlan(1, 3, 1), ReusePlan(2, 4, 2)>>),
  plan_packet |-> Scenario(2, 1, <<PacketPlan(2, 2), PacketPlan(1, 2), PacketPlan(2, 2)>>),
  plan_port_packet |-> Scenario(2, 1, <<PortPacketPlan(2, 1), PortPacketPlan(2, 1), PortPacketPlan(2, 1)>>),
  plan_port |-> Scenario(2, 1, <<PortPlan("PUT_WITH_SIGNAL", TRUE, 2, 2), PortPlan("PUT_WITH_SIGNAL", TRUE, 1, 2)>>),
  plan_semaphore |-> Scenario(2, 1, <<SemaphorePlan(1), SemaphorePlan(1)>>),
  plan_flush |-> Scenario(2, 1, <<PortPlan("PUT_WITH_SIGNAL_AND_FLUSH", FALSE, 1, 1),
                                  PortPlan("PUT_WITH_SIGNAL_AND_FLUSH", FALSE, 1, 1)>>),
  plan_pipeline_reuse |-> Scenario(2, 1, <<PipelinePlan(1, 2, 1, TRUE)>>)]
=============================================================================
