--------------------------- MODULE MCCollectives ---------------------------
(***************************************************************************)
(* Instances of the collective kernels for TLC.                            *)
(***************************************************************************)
EXTENDS AllreduceKernels, NvlsKernels, AllgatherKernels, BenchmarkKernels, MCPlans

CONSTANT Chosen   \* the scenarios of the run

VARIABLES scenario, launch, pc, reg, flag, mem, tokens, deviceSem, flags, fifo

RsAg(R, G, T, nelems, in, out) ==
  Allreduce(R, CeilDiv(nelems, NelemsPerInt4), in, out,
            Grid(R, G, T, LAMBDA c : AllreduceRsAg(c, nelems, in, out)))

RsAgZeroCopy(R, G, T, nelems, in, out) ==
  Allreduce(R, CeilDiv(nelems, NelemsPerInt4), in, out,
            Grid(R, G, T, LAMBDA c : AllreduceRsAgZeroCopy(c, nelems, in, out)))

Fullmesh(R, G, T, nInt4, in, out, unit, chunk) ==
  Allreduce(R, nInt4, in, out, Grid(R, G, T, LAMBDA c : AllreduceFullmesh(c, nInt4, in, out, unit, chunk)))

AllPairs(R, G, T, nelems, in, out, half, nFlags) ==
  Allreduce(R, nelems, in, out,
            Grid(R, G, T, LAMBDA c : AllreduceAllPairs(c, nelems, in, out, half, nFlags)))

Packet(R, G, T, perRank, in, out, half, nFlags) ==
  Allreduce(R, perRank * R, in, out,
            Grid(R, G, T, LAMBDA c : AllreducePacket(c, perRank, in, out, half, nFlags)))

Nvls(R, G, T, size, in, out) ==
  Allreduce(R, size, in, out, Grid(R, G, T, LAMBDA c : AllreduceNvls(c, size, in, out)))

NvlsPacket(R, G, T, n, in, out, half, nFlags) ==
  Allreduce(R, n, in, out, Grid(R, G, T, LAMBDA c : AllreduceNvlsPacket(c, n, in, out, half, nFlags)))

NvlsWarpPipeline(R, G, size, in, out, ring) ==
  Allreduce(R, size, in, out,
            Grid(R, G, 3, LAMBDA c : AllreduceNvlsWarpPipeline(c, size, in, out, 1, 1, ring)))

NvlsBlockPipeline(R, perBlock, lastBlock, in, out, ring) ==
  Allreduce(R, R * (perBlock + lastBlock), in, out,
            Grid(R, 5, 1, LAMBDA c : AllreduceNvlsBlockPipeline(c, perBlock, lastBlock, in, out, 2, 1, ring)))

\* An allgather of n cells of each rank.
Allgather(nRanks, n, in, out, code) ==
  [code |-> code,
   input |-> [a \in {SendCell(r, n, in, out, i) : r \in 0 .. nRanks - 1, i \in 0 .. n - 1} |->
                <<a[1], a[3] % n>>] @@ <<>>,
   result |-> [a \in (0 .. nRanks - 1) \X {out} \X (0 .. nRanks * n - 1) |->
                {<<a[3] \div n, a[3] % n>>}] @@ <<>>]

AgFullmesh(R, G, T, n, in, out, unroll) ==
  Allgather(R, n, in, out, Grid(R, G, T, LAMBDA c : AllgatherFullmesh(c, n, in, out, unroll)))

AgFullmesh2(R, G, T, n, in, out, large) ==
  Allgather(R, n, in, out, Grid(R, G, T, LAMBDA c : AllgatherFullmesh2(c, n, in, out, large)))

\* The kernels of the benchmark.
Bench(R, G, T, n, out, Code(_)) == Allreduce(R, n, "buf", out, Grid(R, G, T, Code))

CollectiveScenarios == [
  rsag |-> Scenario(2, 1, <<RsAg(2, 1, 2, 7, "in", "out"), RsAg(2, 2, 1, 8, "buf", "buf")>>),
  rsag3 |-> Scenario(3, 1, <<RsAg(3, 1, 2, 6, "in", "out")>>),
  zero_copy |-> Scenario(2, 1, <<RsAgZeroCopy(2, 2, 1, 7, "in", "out"), RsAgZeroCopy(2, 1, 2, 8, "buf", "buf")>>),
  fullmesh |-> Scenario(2, 1, <<Fullmesh(2, 1, 2, 6, "in", "out", 1, 2), Fullmesh(2, 2, 1, 4, "buf", "buf", 1, 2)>>),
  all_pairs |-> Scenario(2, 2, <<AllPairs(2, 1, 2, 2, "in", "out", 4, 2), AllPairs(2, 2, 1, 2, "buf", "buf", 4, 2),
                   AllPairs(2, 1, 2, 2, "in", "out", 4, 2)>>),
  packet |-> Scenario(2, 2, <<Packet(2, 1, 2, 2, "in", "out", 12, 2), Packet(2, 2, 1, 2, "buf", "buf", 12, 2),
                   Packet(2, 1, 2, 2, "in", "out", 12, 2)>>),
  nvls |-> Scenario(2, 1, <<Nvls(2, 2, 1, 6, "in", "out"), Nvls(2, 1, 2, 4, "buf", "buf")>>),
  nvls_packet |-> Scenario(2, 2, <<NvlsPacket(2, 1, 2, 2, "in", "out", 4, 2), NvlsPacket(2, 2, 1, 2, "buf", "buf", 4, 2),
                   NvlsPacket(2, 1, 2, 2, "in", "out", 4, 2)>>),
  nvls_warp |-> Scenario(2, 1, <<NvlsWarpPipeline(2, 1, 8, "in", "out", 3)>>),
  nvls_block |-> Scenario(2, 1, <<NvlsBlockPipeline(2, 2, 1, "in", "out", 1)>>),
  allgather |-> Scenario(2, 1, <<AgFullmesh(2, 1, 2, 3, "in", "out", 1), AgFullmesh(2, 2, 1, 2, "buf", "buf", 1)>>),
  allgather2 |-> Scenario(2, 1, <<AgFullmesh2(2, 2, 1, 3, "in", "out", 4), AgFullmesh2(2, 1, 2, 10, "buf", "buf", 4)>>),
  bench1 |-> Scenario(2, 1, <<Bench(2, 1, 2, 7, "buf", LAMBDA c : Allreduce1(c, 7, FALSE, 2)),
                  Bench(2, 2, 1, 4, "buf", LAMBDA c : Allreduce1(c, 4, TRUE, 2))>>),
  bench2 |-> Scenario(2, 1, [l \in 1 .. 3 |-> Bench(2, 1, 1, 4, "out", LAMBDA c : Allreduce2(c, 2))]),
  bench2_3 |-> Scenario(3, 1, <<Bench(3, 2, 1, 3, "out", LAMBDA c : Allreduce2(c, 1))>>),
  bench3 |-> Scenario(3, 1, <<Bench(3, 1, 1, 6, "buf", LAMBDA c : Allreduce3(c, 2))>>),
  bench3_again |-> Scenario(2, 1, [l \in 1 .. 3 |-> Bench(2, 1, 1, 4, "buf", LAMBDA c : Allreduce3(c, 2))]),
  bench3_2 |-> Scenario(2, 1, <<Bench(2, 1, 2, 8, "buf", LAMBDA c : Allreduce3(c, 4))>>),
  bench4 |-> Scenario(4, 1, <<Bench(4, 2, 1, 4, "buf", LAMBDA c : Allreduce4(c, 2, 1, 1, 1))>>),
  bench4_1 |-> Scenario(2, 1, <<Bench(2, 2, 1, 4, "buf", LAMBDA c : Allreduce4(c, 2, 2, 2, 1))>>),
  bench5 |-> Scenario(4, 1, [l \in 1 .. 1 |-> Bench(4, 1, 1, 2, "out", LAMBDA c : Allreduce5(c, 2, 1, 2))]),
  bench6 |-> Scenario(2, 1, <<Bench(2, 1, 1, 2, "buf", LAMBDA c : Allreduce6(c, 2))>>),
  bench6_2 |-> Scenario(2, 1, <<Bench(2, 1, 2, 4, "buf", LAMBDA c : Allreduce6(c, 4))>>),
  shared_scratch |-> Scenario(2, 1, <<Packet(2, 1, 1, 1, "in", "out", 6, 1), RsAg(2, 1, 1, 4, "in", "out"), Packet(2, 1, 1, 1, "in", "out", 6, 1)>>),
  zero_copy_small |-> Scenario(2, 1, <<RsAgZeroCopy(2, 2, 1, 4, "in", "out")>>),
  allgather2_part |-> Scenario(3, 1, <<AgFullmesh2(3, 1, 3, 3, "buf", "buf", 2)>>)]

MCScenarios == CollectiveScenarios @@ PlanScenarios

Gpu == INSTANCE GpuMachine WITH Scenarios <- MCScenarios

Spec == scenario \in Chosen /\ Gpu!GpuSpec

\* The properties of GpuMachine.
ResultOnReturn == Gpu!ResultOnReturn
NeverStuck == Gpu!NeverStuck
ReadyForNextLaunch == Gpu!ReadyForNextLaunch
=============================================================================
