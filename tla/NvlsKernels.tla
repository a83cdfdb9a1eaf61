---------------------------- MODULE NvlsKernels ----------------------------
(***************************************************************************)
(* The allreduce kernels that reduce in the switch (NVLS): multimem loads  *)
(* and stores on a multicast address reach the cell of every rank.         *)
(***************************************************************************)
EXTENDS DeviceOps

\* Reduce the cells first .. first + n - 1 of src into dst, shared by nThreads threads.
HandleMultiLoadReduceStore(c, src, dst, first, n, tid, nThreads) ==
  Each(Strided(tid, n, nThreads), LAMBDA i :
    MultimemLoadReduce(c, src, first + i) \o MultimemStore(c, dst, first + i))

AllreduceNvls(c, size, in, out) ==
  LET perRank == size \div c.nRanks
      perBlock == CeilDiv(perRank, c.gridDim)
      left == perRank - perBlock * c.block
      id == <<"nvls", c.block>>
  IN ExchangeAll(c, id) \o SyncThreads(c)
     \o If(left > 0,
           HandleMultiLoadReduceStore(c, in, out, c.rank * perRank + perBlock * c.block,
             IF left < perBlock THEN left ELSE perBlock, c.thread, c.blockDim))
     \o SyncThreads(c) \o ExchangeAll(c, id)

\* Every rank multicasts its whole input as packets and reduces what arrives.
AllreduceNvlsPacket(c, n, in, out, half, nFlags) ==
  LET mine == Strided(Tid(c), n, NThreads(c)) IN
  LoadFlag(c.block)
  \o Each(mine, LAMBDA i : Load(<<c.rank, in, i>>)
       \o Each(Upto(c.nRanks), LAMBDA r : WritePacket(<<r, "scr", c.rank * n + i, half>>)))
  \o Each(mine, LAMBDA i : Load(<<c.rank, in, i>>)
       \o Each(Peers(c), LAMBDA p : ReducePacket(<<c.rank, "scr", p * n + i, half>>))
       \o Store(<<c.rank, out, i>>))
  \o SyncThreads(c)
  \o Alone(c, StoreFlag(c.block))
  \o If(c.block = 0 /\ c.thread > c.gridDim - 1 /\ c.thread < nFlags, StoreFlag(c.thread))

\* Three groups of threads form a pipeline over a circular scratch buffer of ring cells
\* for each block and rank: nCopy threads copy the input in, as many copy the result out,
\* nReduce reduce.  An iteration moves one cell.
AllreduceNvlsWarpPipeline(c, size, in, out, nCopy, nReduce, ring) ==
  LET perRank == size \div c.nRanks
      perBlock == CeilDiv(perRank, c.gridDim)
      start == c.block * perBlock
      end == IF start + perBlock < perRank THEN start + perBlock ELSE perRank
      Data(buf, r, it) == <<c.rank, buf, r * perRank + start + it>>
      Slot(r, it) == (r * c.gridDim + c.block) * ring + (it % ring)
      Group(k) == <<"nvls_warp", c.block, k>>
      CopyIn(tid, it) ==
        Each(Upto(c.nRanks), LAMBDA r :
               If(tid = 0, Copy(<<c.rank, "scr", Slot(r, it)>>, Data(in, r, it))))
        \o NamedBarrier(0, nCopy)
        \o If(tid < c.nRanks - 1, Exchange(c, Peer(c, tid), Group(0)))
        \o NamedBarrier(1, nCopy + nReduce)
      ReduceSlot(tid, it) ==
        NamedBarrier(1, nCopy + nReduce)
        \o HandleMultiLoadReduceStore(c, "scr", "scr", Slot(c.rank, it), 1, tid, nReduce)
        \o NamedBarrier(2, nCopy + nReduce)
      CopyOut(tid, it) ==
        NamedBarrier(2, nCopy + nReduce)
        \o If(tid < c.nRanks - 1, Exchange(c, Peer(c, tid), Group(1)))
        \o NamedBarrier(3, nCopy)
        \o Each(Upto(c.nRanks), LAMBDA r :
                  If(tid = 0, Copy(Data(out, r, it), <<c.rank, "scr", Slot(r, it)>>)))
  IN Each(Upto(end - start), LAMBDA it :
       CASE c.thread < nCopy -> CopyIn(c.thread, it)
         [] c.thread < 2 * nCopy -> CopyOut(c.thread - nCopy, it)
         [] OTHER -> ReduceSlot(c.thread - 2 * nCopy, it))

\* The same pipeline between blocks: nCopy blocks copy in, nReduce reduce the slices of
\* nCopy \div nReduce of them, nCopy copy out; device semaphores connect them.  A slice
\* has perBlock cells, the last one lastBlock, and ring cells of scratch for each rank.
AllreduceNvlsBlockPipeline(c, perBlock, lastBlock, in, out, nCopy, nReduce, ring) ==
  LET perRank == (nCopy - 1) * perBlock + lastBlock
      ratio == nCopy \div nReduce
      Iters(slice) == IF slice = nCopy - 1 THEN lastBlock ELSE perBlock
      Data(buf, r, slice, it) == <<c.rank, buf, r * perRank + slice * perBlock + it>>
      Slot(r, slice, it) == (r * nCopy + slice) * ring + (it % ring)
      Free(slice) == <<"nvls_block", slice + 2 * nCopy>>
      Copied(slice) == <<"nvls_block", slice>>
      Reduced(slice) == <<"nvls_block", nCopy + slice>>
      CopyIn(it) ==
        Alone(c, SemAcquire(Free(c.block))) \o SyncThreads(c)
        \o Each(Upto(c.nRanks), LAMBDA r : If(c.thread = 0,
             Copy(<<c.rank, "scr", Slot(r, c.block, it)>>, Data(in, r, c.block, it))))
        \o SyncThreads(c) \o ExchangeAll(c, <<"nvls_block", c.block>>) \o SyncThreads(c)
        \o Alone(c, SemRelease(Copied(c.block)))
      ReduceSlices(b, it) ==
        Each(Strided(b * ratio, (b + 1) * ratio, 1), LAMBDA slice : If(it < Iters(slice),
          Alone(c, SemAcquire(Copied(slice))) \o SyncThreads(c)
          \o HandleMultiLoadReduceStore(c, "scr", "scr", Slot(c.rank, slice, it), 1, c.thread, c.blockDim)
          \o SyncThreads(c) \o Alone(c, SemRelease(Reduced(slice)))))
      CopyOut(slice, it) ==
        Alone(c, SemAcquire(Reduced(slice))) \o SyncThreads(c)
        \o ExchangeAll(c, <<"nvls_block", nCopy + slice>>) \o SyncThreads(c)
        \o Each(Upto(c.nRanks), LAMBDA r : If(c.thread = 0,
             Copy(Data(out, r, slice, it), <<c.rank, "scr", Slot(r, slice, it)>>)))
        \o SyncThreads(c) \o Alone(c, SemRelease(Free(slice)))
  IN CASE c.block < nCopy ->
            Alone(c, SemSet(Free(c.block), ring))
            \o Each(Upto(Iters(c.block)), CopyIn)
            \o Alone(c, SemSet(Free(c.block), 0))
       [] c.block < nCopy + nReduce ->
            Each(Upto(perBlock), LAMBDA it : ReduceSlices(c.block - nCopy, it))
       [] OTHER -> LET slice == c.block - nCopy - nReduce IN
            Each(Upto(Iters(slice)), LAMBDA it : CopyOut(slice, it))
=============================================================================
