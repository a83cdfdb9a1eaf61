-------------------------- MODULE AllreduceKernels --------------------------
(***************************************************************************)
(* The allreduce kernels that use memory channels                          *)
(* (src/ext/collectives/allreduce/), as programs of a thread c.  Buffers   *)
(* are "scr", the scratch buffer of all algorithms, and the names in and   *)
(* out of the input and the output buffer, equal for an in-place call.     *)
(***************************************************************************)
EXTENDS DeviceOps

NelemsPerInt4 == 2   \* sizeof(int4) / sizeof(T)

\* The part of n cells that a block works on, and where it begins: the last block takes
\* the remainder.
BlockSplit(c, n) ==
  [first |-> c.block * (n \div c.gridDim),
   n |-> (n \div c.gridDim) + (IF c.block = c.gridDim - 1 THEN n % c.gridDim ELSE 0)]

\* alignedNelems / nRanksPerNode / nelemsPerInt4
Int4PerRank(c, nelems) == CeilDiv(CeilDiv(nelems, c.nRanks), NelemsPerInt4)

\* Copy the input to the own scratch buffer; barrier; reduce the own chunk of all
\* scratch buffers, back into all of them; barrier; copy the other chunks from the own
\* scratch buffer.  Blocks without data return at once.
AllreduceRsAg(c, nelems, in, out) ==
  LET perRank == Int4PerRank(c, nelems)
      blk == BlockSplit(c, perRank)
      mine == Strided(c.thread, blk.n, c.blockDim)
      all == Strided(c.thread, blk.n * c.nRanks, c.blockDim)
      At(i) == (i \div blk.n) * perRank + blk.first + (i % blk.n)
      Valid(i) == i <= nelems \div NelemsPerInt4
      Barrier == SyncThreads(c) \o ExchangeAll(c, <<"rsag", c.block>>) \o SyncThreads(c)
  IN If(blk.n > 0,
        Each(all, LAMBDA i : If(Valid(At(i)), Copy(<<c.rank, "scr", At(i)>>, <<c.rank, in, At(i)>>)))
        \o Barrier
        \o Each(mine, LAMBDA i : LET o == c.rank * perRank + blk.first + i IN If(Valid(o),
             Load(<<c.rank, "scr", o>>)
             \o Each(PeersFromNext(c), LAMBDA p : Reduce(<<p, "scr", o>>))
             \o Each(PeersFromNext(c), LAMBDA p : Store(<<p, "scr", o>>))
             \o Store(<<c.rank, out, o>>)))
        \o Barrier
        \o Each(all, LAMBDA i : If(i \div blk.n # c.rank /\ Valid(At(i)),
             Copy(<<c.rank, out, At(i)>>, <<c.rank, "scr", At(i)>>))))

\* Read the chunk from the inputs of all ranks, write the result to all outputs.  The
\* blocks without data return before the grid barrier.
AllreduceRsAgZeroCopy(c, nelems, in, out) ==
  LET perRank == Int4PerRank(c, nelems)
      blk == BlockSplit(c, perRank)
      total == CeilDiv(nelems, NelemsPerInt4)
      id == <<"rsag_zero_copy", c.block>>
  IN If(blk.n > 0,
        ExchangeAll(c, id) \o SyncThreads(c)
        \o Each(Strided(c.thread, blk.n, c.blockDim), LAMBDA i :
             LET o == c.rank * perRank + blk.first + i IN If(o < total,
             Load(<<c.rank, in, o>>)
             \o Each(PeersFromNext(c), LAMBDA p : Reduce(<<p, in, o>>))
             \o Each(PeersFromNext(c), LAMBDA p : Store(<<p, out, o>>))
             \o Store(<<c.rank, out, o>>)))
        \o GridSync("globalSyncer", c.gridDim)
        \o If(c.block = 0, ExchangeAll(c, id)))

\* Rounds of at most chunk cells for each rank: barrier; write the chunks of the peers to
\* their scratch buffers; barrier; reduce the own chunk into all outputs.
AllreduceFullmesh(c, nInt4, in, out, unit, chunk) ==
  LET perRank == nInt4 \div c.nRanks
      maxPerBlock == CeilDiv(CeilDiv(perRank, c.gridDim), unit) * unit
      needed == CeilDiv(perRank, maxPerBlock)
      n == CASE c.block >= needed -> 0
             [] c.block = needed - 1 -> perRank - maxPerBlock * (needed - 1)
             [] OTHER -> maxPerBlock
      Scratch(to, from, i) == <<to, "scr", needed * chunk * from + chunk * c.block + i>>
      Barrier == ExchangeAll(c, <<"fullmesh", c.block>>)
      Round(off, size) ==
        LET Cells == Strided(c.thread, size, c.blockDim) IN
        Barrier \o SyncThreads(c)
        \o Each(Cells, LAMBDA i : Each(PeersRotated(c, c.block), LAMBDA p :
             Copy(Scratch(p, c.rank, i), <<c.rank, in, perRank * p + off + i>>)))
        \o SyncThreads(c) \o Barrier \o SyncThreads(c)
        \o Each(Cells, LAMBDA i : LET o == perRank * c.rank + off + i IN
             Load(<<c.rank, in, o>>)
             \o Each(Peers(c), LAMBDA p : Reduce(Scratch(c.rank, p, i)))
             \o Store(<<c.rank, out, o>>)
             \o Each(Peers(c), LAMBDA p : Store(<<p, out, o>>)))
        \o SyncThreads(c)
  IN Each(Upto(n \div chunk), LAMBDA itr : Round(maxPerBlock * c.block + itr * chunk, chunk))
     \o If(n % chunk > 0, Round(maxPerBlock * c.block + (n \div chunk) * chunk, n % chunk))
     \o Barrier
-----------------------------------------------------------------------------
\* Mutant: only the flags of the blocks of the launch advance.
NextFlagsOfLaunch(c, tid, nFlags) == Alone(c, StoreFlag(c.block))

\* The flag of the block, and the flags of the blocks this launch does not have.
NextFlags(c, tid, nFlags) ==
  Alone(c, StoreFlag(c.block)) \o If(tid >= c.gridDim /\ tid < nFlags, StoreFlag(tid))

\* One warp for each peer sends all elements as packets; all warps reduce.  The program
\* is that of a warp of one thread.
AllreduceAllPairs(c, nelems, in, out, half, nFlags) ==
  LoadFlag(c.block)
  \o If(c.thread < c.nRanks - 1,
        PutPackets(<<Peer(c, c.thread), "scr", c.rank * nelems, half>>, <<c.rank, in, 0>>,
                   nelems, c.block, c.gridDim))
  \o SyncThreads(c)
  \o Each(Strided(c.block + c.thread * c.gridDim, nelems, c.blockDim * c.gridDim), LAMBDA i :
       Load(<<c.rank, in, i>>)
       \o Each(Peers(c), LAMBDA p : ReducePacket(<<c.rank, "scr", p * nelems + i, half>>))
       \o Store(<<c.rank, out, i>>))
  \o NextFlags(c, Tid(c), nFlags)

\* The blocks of a peer send its chunk as packets; all threads reduce the own chunk and
\* send the result as packets; the blocks of a peer read its result.
AllreducePacket(c, perRank, in, out, half, nFlags) ==
  LET blocksPerPeer == c.gridDim \div (c.nRanks - 1)
      localBlock == c.block % blocksPerPeer
      remote == Peer(c, c.block \div blocksPerPeer)
      tid == c.thread + localBlock * c.blockDim
      results == 2 * perRank * c.nRanks
  IN LoadFlag(c.block)
     \o PutPackets(<<remote, "scr", c.rank * perRank, half>>, <<c.rank, in, remote * perRank>>,
                   perRank, tid, c.blockDim * blocksPerPeer)
     \o Each(Strided(Tid(c), perRank, NThreads(c)), LAMBDA i :
          Load(<<c.rank, in, c.rank * perRank + i>>)
          \o Each(Peers(c), LAMBDA p : ReducePacket(<<c.rank, "scr", p * perRank + i, half>>))
          \o Store(<<c.rank, out, c.rank * perRank + i>>)
          \o Each(Peers(c), LAMBDA p : WritePacket(<<p, "scr", results + c.rank * perRank + i, half>>)))
     \o Each(Strided(tid, perRank, c.blockDim * blocksPerPeer), LAMBDA i :
          ReadPacket(<<c.rank, "scr", results + remote * perRank + i, half>>)
          \o Store(<<c.rank, out, remote * perRank + i>>))
     \o SyncThreads(c)
     \o Alone(c, StoreFlag(c.block))
     \o If(c.block = 0, If(c.thread >= c.gridDim /\ c.thread < nFlags, StoreFlag(c.thread)))
=============================================================================
