-------------------------- MODULE AllgatherKernels --------------------------
(***************************************************************************)
(* The allgather kernels (src/ext/collectives/allgather/).  Send(i) is the *)
(* i-th cell of the own input; the output has the n cells of every rank.   *)
(***************************************************************************)
EXTENDS DeviceOps

\* The input of an in-place call is the own part of the output.
SendCell(r, n, in, out, i) == IF in = out THEN <<r, out, r * n + i>> ELSE <<r, in, i>>

\* Rounds of gridDim * blockDim * unroll cells: barrier; write the chunk to the scratch
\* buffers of the peers; barrier; copy the chunks of the peers to the output.
AllgatherFullmesh(c, n, in, out, unroll) ==
  LET chunk == NThreads(c) * unroll
      Barrier == ExchangeAll(c, <<"allgather", c.block>>)
      Round(first, size) ==
        LET mine == Strided(Tid(c), size, NThreads(c)) IN
        Barrier \o SyncThreads(c)
        \o Each(mine, LAMBDA i : LET src == SendCell(c.rank, n, in, out, first + i) IN
             Each(PeersRotated(c, c.rank), LAMBDA p : Copy(<<p, "scr", chunk * c.rank + i>>, src))
             \o If(in # out, Copy(<<c.rank, out, n * c.rank + first + i>>, src)))
        \o SyncThreads(c) \o Barrier \o SyncThreads(c)
        \o Each(Peers(c), LAMBDA p : Each(mine, LAMBDA i :
             Copy(<<c.rank, out, n * p + first + i>>, <<c.rank, "scr", chunk * p + i>>)))
  IN Each(Upto(n \div chunk), LAMBDA itr : Round(itr * chunk, chunk))
     \o If(n % chunk > 0, Round((n \div chunk) * chunk, n % chunk))

\* Warps take the units of the transfers to all peers in turn and write to the outputs
\* of the peers.  The program is that of a warp of one thread; a unit is large cells, or
\* one when there is little data.
AllgatherFullmesh2(c, n, in, out, large) ==
  LET nPeer == c.nRanks - 1
      nWarp == NThreads(c)
      unit == IF n * nPeer >= nWarp * large THEN large ELSE 1
      nLoop == (n * nPeer) \div (unit * nWarp)
      id == <<"allgather2", c.block>>
      Transfer(gWid, size) ==
        LET first == (gWid \div nPeer) * unit IN
        Each(Upto(size), LAMBDA i : LET src == SendCell(c.rank, n, in, out, first + i) IN
          If(in # out, Copy(<<c.rank, out, n * c.rank + first + i>>, src))
          \o Copy(<<Peer(c, gWid % nPeer), out, n * c.rank + first + i>>, src))
      last == Tid(c) + nLoop * nWarp
      left == n - (last \div nPeer) * unit
  IN ExchangeAll(c, id) \o SyncThreads(c)
     \o Each(Upto(nLoop), LAMBDA i : Transfer(Tid(c) + i * nWarp, unit))
     \o If((n * nPeer) % (unit * nWarp) > 0 /\ left > 0,
           Transfer(last, IF left < unit THEN left ELSE unit))
     \o GridSync("deviceSyncer", c.gridDim)
     \o ExchangeAll(c, id)
=============================================================================
