-------------------------- MODULE BenchmarkKernels --------------------------
(***************************************************************************)
(* The allreduce kernels of the benchmark                                  *)
(* (python/mscclpp_benchmark/allreduce.cu), in place on the buffer "buf"   *)
(* but for the packet kernels, whose result is in "out".  vec is the number*)
(* of elements of an int4; L the number of ranks of a node.                *)
(***************************************************************************)
EXTENDS DeviceOps

\* The first nPeer threads signal, the next nPeer wait.
SignalThenWait(c, id) ==
  If(Tid(c) < c.nRanks - 1, Signal(c, Peer(c, Tid(c)), id))
  \o If(Tid(c) >= c.nRanks - 1 /\ Tid(c) < 2 * (c.nRanks - 1),
        Wait(c, Peer(c, Tid(c) - (c.nRanks - 1)), id))

\* Reduce the own chunk of all buffers, in int4 and then the remainder by element, into
\* all buffers or, when readOnly, into the own one, from which the peers get it.
Allreduce1(c, nelems, readOnly, vec) ==
  LET chunk == nelems \div c.nRanks
      nInt4 == chunk \div vec
      first4 == (c.rank * chunk) \div vec
      processed == nInt4 * vec * c.nRanks
      left == nelems - processed
      start == processed + (left * c.rank) \div c.nRanks
      end == processed + (left * (c.rank + 1)) \div c.nRanks
      ReduceElem(i) ==
        Load(<<c.rank, "buf", i>>)
        \o Each(PeersRotated(c, c.rank), LAMBDA p : Reduce(<<p, "buf", i>>))
        \o If(~readOnly, Each(PeersRotated(c, c.rank), LAMBDA p : Store(<<p, "buf", i>>)))
        \o Store(<<c.rank, "buf", i>>)
  IN If(c.nRanks > 1,
        SignalThenWait(c, "mem") \o GridSync("deviceSyncer", c.gridDim)
        \o Each(Strided(Tid(c), nInt4, NThreads(c)), LAMBDA i :
             Each(Upto(vec), LAMBDA j : ReduceElem((first4 + i) * vec + j)))
        \o Each(Strided(Tid(c) + start, end, NThreads(c)), ReduceElem)
        \o GridSync("deviceSyncer", c.gridDim) \o SignalThenWait(c, "mem")
        \o If(readOnly,
              GridSync("deviceSyncer", c.gridDim)
              \o Each(PeersRotated(c, c.rank), LAMBDA p :
                   Put(<<c.rank, "buf", chunk * p>>, <<p, "buf", chunk * p>>, chunk, Tid(c), NThreads(c)))))

\* The last act of a packet kernel: globalFlag += 1.
NextGlobalFlag(c) == If(c.block = 0, Alone(c, StoreFlag(0)))

\* Odd flags use the first of the two buffers that begin at i, even flags the second.
\* AllreducePacket with the flag of all blocks in one variable.
Allreduce2(c, perRank) ==
  LET nPkts == perRank * c.nRanks
      blocksPerPeer == c.gridDim \div (c.nRanks - 1)
      remote == Peer(c, c.block \div blocksPerPeer)
      tid == c.thread + (c.block % blocksPerPeer) * c.blockDim
      scratch == nPkts
      results == 3 * nPkts
  IN LoadFlag(0)
     \o PutPackets(<<remote, "scr", scratch + c.rank * perRank, -nPkts>>, <<c.rank, "buf", remote * perRank>>,
                   perRank, tid, c.blockDim * blocksPerPeer)
     \o Each(Strided(Tid(c), perRank, NThreads(c)), LAMBDA i :
          Load(<<c.rank, "buf", c.rank * perRank + i>>)
          \o Each(Peers(c), LAMBDA p : ReducePacket(<<c.rank, "scr", scratch + p * perRank + i, -nPkts>>))
          \o Store(<<c.rank, "out", c.rank * perRank + i>>)
          \o Each(Peers(c), LAMBDA p : WritePacket(<<p, "scr", results + c.rank * perRank + i, -nPkts>>)))
     \o Each(Strided(tid, perRank, c.blockDim * blocksPerPeer), LAMBDA i :
          ReadPacket(<<c.rank, "scr", results + remote * perRank + i, -nPkts>>)
          \o Store(<<c.rank, "out", remote * perRank + i>>))
     \o NextGlobalFlag(c)
-----------------------------------------------------------------------------
VectorSum(c, dst, src, n, block, nBlocks) ==
  Each(Strided(c.thread + block * c.blockDim, n, c.blockDim * nBlocks), LAMBDA i :
    Load(Plus(dst, i)) \o Reduce(Plus(src, i)) \o Store(Plus(dst, i)))

\* The copies of a put of n cells at offset, to the buffer to of the peer.
Chunk(c, peer, to, offset, n) ==
  [i \in 1 .. n |-> <<<<peer, to, offset + i - 1>>, <<c.rank, "buf", offset + i - 1>>>>]

\* A ring over port channels: a reduce-scatter into the scratch buffers and an allgather,
\* where each chunk is sent in halves that overlap with the reduction of the other half.
Allreduce3(c, chunk) ==
  LET N == c.nRanks
      next == (c.rank + 1) % N
      prev == (c.rank + N - 1) % N
      h == chunk \div 2
      Send(id, offset, n) == PortPutWithSignal(c, next, id, Chunk(c, next, IF id = "fst" THEN "scr" ELSE "buf", offset, n))
      Comm(code) == If(c.block = 0, Alone(c, code)) \o GridSync("deviceSyncer", c.gridDim)
      SumAt(offset, n) ==
        VectorSum(c, <<c.rank, "buf", offset>>, <<c.rank, "scr", offset>>, n, c.block, c.gridDim)
      Offset(step) == ((c.rank + N - step) % N) * chunk
      \* Send the rest of the chunk of the last step, reduce the chunk of this one, and send
      \* its first half on the channel id.
      Step(last, offset, id) ==
        Comm(If(chunk > 1, Wait(c, prev, "fst") \o PortFlush) \o Send("fst", last + h, chunk - h))
        \o SumAt(offset, h)
        \o Comm(Wait(c, prev, "fst") \o PortFlush \o If(chunk > 1, Send(id, offset, h)))
        \o SumAt(offset + h, chunk - h)
  IN If(c.block = 0, Alone(c, If(chunk > 1, Send("fst", Offset(1), h))))
     \o Each(Strided(2, N, 1), LAMBDA step : Step(Offset(step - 1), Offset(step), "fst"))
     \o Step(Offset(N - 1), c.rank * chunk, "snd")
     \o If(c.block = 0, Alone(c,
           If(chunk > 1, Wait(c, prev, "snd") \o PortFlush)
           \o Send("snd", c.rank * chunk + h, chunk - h) \o PortFlush))
     \o Each(Strided(1, N - 1, 1), LAMBDA i :
          Comm(Wait(c, prev, "snd"))
          \o If(c.block = 0, Alone(c, Send("snd", Offset(i), chunk) \o PortFlush)))
     \o If(c.block = 0, Alone(c, Wait(c, prev, "snd")))
-----------------------------------------------------------------------------
\* Two nodes of L ranks.  The channels of a rank to the other ranks of its node, and the
\* rank of the same index on the other node.
LocalRank(c, L) == c.rank % L
Node(c, L) == c.rank \div L
LocalPeerIndex(c, L, i) == IF i < LocalRank(c, L) THEN i ELSE i + 1
LocalPeer(c, L, i) == Node(c, L) * L + LocalPeerIndex(c, L, i)
LocalPeersRotated(c, L) == [i \in 1 .. L - 1 |-> LocalPeer(c, L, (i - 1 + LocalRank(c, L)) % (L - 1))]
Across(c, L) == (c.rank + L) % c.nRanks

\* Reduce n cells of the own chunk of the L chunks from start on, over the node.
LocalReduceScatterMem(c, L, start, offset, chunk, n, nBlocks) ==
  LET first == (LocalRank(c, L) + start) * chunk + offset
      peers == Strided(Tid(c), L - 1, c.blockDim * nBlocks)
  IN If(L > 1 /\ c.block < nBlocks,
        Each(peers, LAMBDA i : Signal(c, LocalPeer(c, L, i), "mem"))
        \o Each(peers, LAMBDA i : Wait(c, LocalPeer(c, L, i), "mem"))
        \o GridSync("reduceScatterDeviceSyncer", nBlocks)
        \o Each(Strided(Tid(c), n, c.blockDim * nBlocks), LAMBDA i :
             Load(<<c.rank, "buf", first + i>>)
             \o Each(LocalPeersRotated(c, L), LAMBDA p : Reduce(<<p, "buf", first + i>>))
             \o Store(<<c.rank, "buf", first + i>>)))

\* Get size cells of the chunk of each peer, of the L chunks from start on; the blocks of a
\* peer share them in pieces of unit cells.
LocalAllGatherMem(c, L, start, offset, chunk, size, nBlocks, unit) ==
  LET peer == c.block % (L - 1)
      blocks == nBlocks \div (L - 1) + (IF nBlocks % (L - 1) > peer THEN 1 ELSE 0)
      local == c.block \div (L - 1)
      perBlock == (size \div unit) \div blocks
      more == (size \div unit) % blocks
      n == IF local < more THEN perBlock + 1 ELSE perBlock
      first == IF local < more THEN n * local ELSE (perBlock + 1) * more + (local - more) * perBlock
      tail == IF local = blocks - 1 THEN size % unit ELSE 0
      begin == chunk * (start + LocalPeerIndex(c, L, peer)) + offset + first * unit
  IN If(L > 1 /\ c.block < nBlocks,
        If(local = 0, Alone(c, Exchange(c, LocalPeer(c, L, peer), "mem")))
        \o GridSync("allGatherDeviceSyncer", nBlocks)
        \o Put(<<c.rank, "buf", begin>>, <<LocalPeer(c, L, peer), "buf", begin>>,
               n * unit + tail, c.thread, c.blockDim))

\* Exchange the first part of the own chunk with the other node while the node gathers its
\* own chunks; the second part while it gathers the first part; then gather the second.
AllGatherMem(c, L, chunk, depth, unit) ==
  LET nBlocks == (c.gridDim \div (L - 1)) * (L - 1)
      peer == Across(c, L)
      step1 == (((chunk * (depth - 1)) \div depth) \div unit) * unit
      Comm(code) == If(c.block = 0, Alone(c, code))
      Send(offset, n) == PortPutWithSignal(c, peer, "ag", Chunk(c, peer, "buf", c.rank * chunk + offset, n))
      Gather(node, offset, n) == LocalAllGatherMem(c, L, node * L, offset, chunk, n, nBlocks, unit)
      Received == Wait(c, peer, "ag") \o PortFlush
  IN Comm(If(step1 > 0, Send(0, step1)))
     \o Gather(Node(c, L), 0, chunk)
     \o Comm(If(step1 > 0, Received)) \o GridSync("deviceSyncer", c.gridDim)
     \o Comm(Send(step1, chunk - step1))
     \o If(step1 > 0, Gather(peer \div L, 0, step1))
     \o Comm(Received) \o GridSync("deviceSyncer", c.gridDim)
     \o Gather(peer \div L, step1, chunk - step1)

\* Reduce the chunks of the other node over the node, in two parts, and exchange them; the
\* blocks that do not reduce over the node add what was received.  Four of five blocks
\* reduce over the node.
ReduceScatterMem(c, L, chunk, depth) ==
  LET nBlocks == (((4 * c.gridDim) \div 5) \div (L - 1)) * (L - 1)
      peer == Across(c, L)
      part == chunk \div depth
      rest == ((depth - 1) * chunk) \div depth
      Comm(code) == If(c.block = nBlocks, Alone(c, code))
      Send(offset, n) == PortPutWithSignal(c, peer, "rs", Chunk(c, peer, "scr", peer * chunk + offset, n))
      Scatter(node, offset, n) == LocalReduceScatterMem(c, L, node * L, offset, chunk, n, nBlocks)
      Add(offset, n, block, blocks) ==
        VectorSum(c, <<c.rank, "buf", c.rank * chunk + offset>>, <<c.rank, "scr", c.rank * chunk + offset>>,
                  n, block, blocks)
      Sync == GridSync("deviceSyncer", c.gridDim)
  IN Scatter(peer \div L, 0, part) \o Sync
     \o Comm(Send(0, part))
     \o If(depth > 1, Scatter(peer \div L, part, rest))
     \o Comm(Wait(c, peer, "rs"))
     \o If(c.block >= nBlocks,
           GridSync("ibDeviceSyncer", c.gridDim - nBlocks)
           \o Add(0, part, c.block - nBlocks, c.gridDim - nBlocks))
     \o Comm(PortFlush) \o Sync
     \o Comm(If(depth > 1, Send(part, rest)))
     \o Scatter(Node(c, L), 0, chunk)
     \o Comm(If(depth > 1, Wait(c, peer, "rs"))) \o Sync
     \o If(depth > 1, Add(part, rest, c.block, c.gridDim))
     \o Comm(PortFlush)

\* On a single node only the local parts.
Allreduce4(c, L, chunk, depth, unit) ==
  IF c.nRanks = L
  THEN LocalReduceScatterMem(c, L, 0, 0, chunk, chunk, c.gridDim)
       \o GridSync("deviceSyncer", c.gridDim)
       \o LocalAllGatherMem(c, L, 0, 0, chunk, chunk, c.gridDim, unit)
  ELSE ReduceScatterMem(c, L, chunk, depth)
       \o GridSync("deviceSyncer", c.gridDim)
       \o AllGatherMem(c, L, chunk, depth, unit)

\* Packets within the node, of perRank cells for each of its ranks; what the node has
\* reduced goes as packets through the proxy to the other node, without a signal; the sum
\* goes as packets to the node.  The put is flushed every flushEvery launches.
Allreduce5(c, L, perRank, flushEvery) ==
  LET nPkts == perRank * L
      blocksPerPeer == c.gridDim \div (L - 1)
      remote == LocalPeerIndex(c, L, c.block \div blocksPerPeer)
      tid == c.thread + (c.block % blocksPerPeer) * c.blockDim
      scratch == nPkts
      results == 3 * nPkts
      own == LocalRank(c, L) * perRank
      mine == Strided(Tid(c), perRank, NThreads(c))
      locals == [i \in 1 .. L - 1 |-> LocalPeerIndex(c, L, i - 1)]
      RankOf(local) == Node(c, L) * L + local
  IN LoadFlag(0)
     \o PutPackets(<<RankOf(remote), "scr", scratch + own, -nPkts>>, <<c.rank, "buf", remote * perRank>>,
                   perRank, tid, c.blockDim * blocksPerPeer)
     \o Each(mine, LAMBDA i :
          Load(<<c.rank, "buf", own + i>>)
          \o Each(locals, LAMBDA p : ReducePacket(<<c.rank, "scr", scratch + p * perRank + i, -nPkts>>))
          \o WritePacket(<<c.rank, "put", perRank + i, -perRank>>)
          \o Store(<<c.rank, "out", own + i>>))
     \o GridSync("deviceSyncer", c.gridDim)
     \o If(c.block = 0, Alone(c,
          PortPut([i \in 1 .. perRank |-> <<<<Across(c, L), "scr", scratch + own + i - 1, -nPkts>>,
                                            <<c.rank, "put", perRank + i - 1, -perRank>>>>])
          \o PortFlushEvery(flushEvery)))
     \o Each(mine, LAMBDA i :
          Load(<<c.rank, "out", own + i>>)
          \o ReducePacket(<<c.rank, "scr", scratch + own + i, -nPkts>>)
          \o Each(locals, LAMBDA p : WritePacket(<<RankOf(p), "scr", results + own + i, -nPkts>>))
          \o Store(<<c.rank, "out", own + i>>))
     \o Each(Strided(tid, perRank, c.blockDim * blocksPerPeer), LAMBDA i :
          ReadPacket(<<c.rank, "scr", results + remote * perRank + i, -nPkts>>)
          \o Store(<<c.rank, "out", remote * perRank + i>>))
     \o NextGlobalFlag(c)
-----------------------------------------------------------------------------
\* Block 0 exchanges signals with all devices, then the grid synchronizes.
BarrierAll(c) ==
  If(c.block = 0, ExchangeAll(c, "barrier")) \o GridSync("deviceSyncer", c.gridDim)

\* Each rank reduces and broadcasts its part of the multicast memory.
Allreduce6(c, n) ==
  BarrierAll(c)
  \o Each(Strided((n * c.rank) \div c.nRanks + Tid(c), (n * (c.rank + 1)) \div c.nRanks, NThreads(c)),
          LAMBDA i : MultimemLoadReduce(c, "buf", i) \o MultimemStore(c, "buf", i))
  \o BarrierAll(c)
-----------------------------------------------------------------------------
(* The kernels of the tutorials on channels (examples/tutorials), for two  *)
(* ranks that exchange n cells each.                                       *)

\* One rank answers the signals of the other.
GpuKernel0(c, iter) ==
  If(Tid(c) = 0, Each(Upto(iter), LAMBDA i : Wait(c, 1 - c.rank, 0) \o Signal(c, 1 - c.rank, 0)))
GpuKernel1(c, iter) ==
  If(Tid(c) = 0, Each(Upto(iter), LAMBDA i : Signal(c, 1 - c.rank, 0) \o Wait(c, 1 - c.rank, 0)))

\* The first thread of the grid exchanges signals, the others wait for it.
Begin(c) == If(Tid(c) = 0, Exchange(c, 1 - c.rank, 0)) \o GridSync("devSyncer", c.gridDim)

BidirPutKernel(c, n) ==
  Begin(c)
  \o Put(<<1 - c.rank, "out", c.rank * n>>, <<c.rank, "out", c.rank * n>>, n, Tid(c), NThreads(c))
  \o GridSync("devSyncer", c.gridDim)
  \o If(Tid(c) = 0, Exchange(c, 1 - c.rank, 0))

BidirGetKernel(c, n) ==
  Begin(c)
  \o Put(<<c.rank, "out", (1 - c.rank) * n>>, <<1 - c.rank, "out", (1 - c.rank) * n>>,
         n, Tid(c), NThreads(c))

\* The packets of the own data are unpacked over it: both ranks end with the data of the
\* other one in the place of their own.
BidirPutPacketKernel(c, n) ==
  LaunchFlag
  \o Begin(c)
  \o PutPackets(<<1 - c.rank, "pkt", 0>>, <<c.rank, "out", c.rank * n>>, n, Tid(c), NThreads(c))
  \o Each(Strided(Tid(c), n, NThreads(c)), LAMBDA i :
       ReadPacket(<<c.rank, "pkt", i>>) \o Store(<<c.rank, "out", c.rank * n + i>>))

\* The source and the destination of the put are at the same offset.
BidirPortPutKernel(c, n) ==
  If(Tid(c) = 0,
     PortSignal(c, 1 - c.rank, 0) \o Wait(c, 1 - c.rank, 0)
     \o PortPutWithSignal(c, 1 - c.rank, 0,
          [i \in 1 .. n |-> <<<<1 - c.rank, "out", c.rank * n + i - 1>>, <<c.rank, "out", c.rank * n + i - 1>>>>])
     \o Wait(c, 1 - c.rank, 0))
=============================================================================
