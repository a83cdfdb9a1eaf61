----------------------------- MODULE DeviceOps -----------------------------
(***************************************************************************)
(* The instructions GPU kernels are made of: a program is a sequence of    *)
(* instructions, and every operator below is the sequence a device function*)
(* of mscclpp/*_device.hpp executes.  GpuMachine gives them their meaning. *)
(*                                                                         *)
(* An address is <<rank, buffer, index>>, or <<rank, buffer, index, half>> *)
(* where a launch with an odd flag uses the cell at index + half.  A cell  *)
(* is the unit of data a kernel moves at a time (an int4, an element, or   *)
(* the payload of a packet).  A channel is <<from, to, id>>.  Kernels take *)
(* the thread they run on as a record c: rank, block, thread, nRanks,      *)
(* gridDim, blockDim.                                                      *)
(***************************************************************************)
EXTENDS Integers, Sequences, SequencesExt

\* The instructions Code(i) for the indices i of a loop.
Each(indices, Code(_)) ==
  FlattenSeq([k \in 1 .. Len(indices) |-> Code(indices[k])])

If(condition, code) == IF condition THEN code ELSE <<>>

\* for (i = first; i < end; i += step)
Strided(first, end, step) ==
  [k \in 1 .. (IF first < end THEN (end - first - 1) \div step + 1 ELSE 0) |-> first + (k - 1) * step]

Upto(n) == Strided(0, n, 1)

\* Channels are in the order of the ranks, without the own one.
Peer(c, i) == IF i < c.rank THEN i ELSE i + 1

Peers(c) == [i \in 1 .. c.nRanks - 1 |-> Peer(c, i - 1)]

\* The peers from the next rank on.
PeersFromNext(c) == [i \in 1 .. c.nRanks - 1 |-> (c.rank + i) % c.nRanks]

\* The peers in the order of their channels, from the k-th channel on.
PeersRotated(c, k) == [i \in 1 .. c.nRanks - 1 |-> Peer(c, (i - 1 + k) % (c.nRanks - 1))]

CeilDiv(a, b) == (a + b - 1) \div b

Tid(c) == c.thread + c.block * c.blockDim
NThreads(c) == c.blockDim * c.gridDim
-----------------------------------------------------------------------------
\* Loads, stores and reductions go through the one register of the thread.
Load(a) == <<[op |-> "load", addr |-> a]>>
Reduce(a) == <<[op |-> "reduce", addr |-> a]>>
Store(a) == <<[op |-> "store", addr |-> a]>>

\* A copy is one step: of its two cells one is private to the thread while it runs.
Copy(dst, src) == <<[op |-> "copy", dst |-> dst, src |-> src]>>

\* The i-th cell from the address a on.
Plus(a, i) == [a EXCEPT ![3] = @ + i]

\* The threads of a call of put() and get() share the n cells from dst and from src on.
Put(dst, src, n, tid, nThreads) ==
  Each(Strided(tid, n, nThreads), LAMBDA i : Copy(Plus(dst, i), Plus(src, i)))

\* Semaphores between devices, by the id of the channel.
Signal(c, peer, id) == <<[op |-> "signal", chan |-> <<c.rank, peer, id>>]>>
Wait(c, peer, id) == <<[op |-> "wait", chan |-> <<peer, c.rank, id>>]>>
\* Mutant: both sides wait before they signal.
WaitBeforeSignal(c, peer, id) == Wait(c, peer, id) \o Signal(c, peer, id)
Exchange(c, peer, id) == Signal(c, peer, id) \o Wait(c, peer, id)

\* The first threads of a block exchange signals with one peer each.
ExchangeAll(c, id) == If(c.thread < c.nRanks - 1, Exchange(c, Peer(c, c.thread), id))

\* __syncthreads() and bar.sync with an id and a number of threads; a thread on its own
\* does not wait.
NamedBarrier(id, n) == If(n > 1, <<[op |-> "bar", id |-> id, n |-> n]>>)
\* Mutant: the threads of a block do not wait for each other.
NoSyncThreads(c) == <<>>
SyncThreads(c) == NamedBarrier(0, c.blockDim)

\* DeviceSyncer::sync(blockNum) of the syncer id.
GridSync(id, blockNum) == <<[op |-> "sync", id |-> id, n |-> blockNum]>>

\* DeviceSemaphore
SemSet(id, v) == <<[op |-> "semset", id |-> id, v |-> v]>>
SemAcquire(id) == <<[op |-> "acquire", id |-> id]>>
SemRelease(id) == <<[op |-> "release", id |-> id]>>

\* What thread 0 does while the others wait.
Alone(c, code) == If(c.thread = 0, code)

\* The flag of the packets of a launch is read from the flag buffer of the rank, or is an
\* argument that the host increments with every launch.
LoadFlag(i) == <<[op |-> "ldflag", i |-> i]>>
StoreFlag(i) == <<[op |-> "stflag", i |-> i]>>
LaunchFlag == <<[op |-> "launchflag"]>>

\* Packets carry data and flag in one store (LL8Packet, and LLPacket where the device
\* has 16-byte stores); read() spins until the flag is the expected one.
WritePacket(a) == <<[op |-> "stpkt", addr |-> a]>>
ReadPacket(a) == <<[op |-> "ldpkt", addr |-> a]>>
ReducePacket(a) == <<[op |-> "redpkt", addr |-> a]>>

PutPackets(dst, src, n, tid, nThreads) ==
  Each(Strided(tid, n, nThreads), LAMBDA i :
    <<[op |-> "putpkt", addr |-> Plus(dst, i), src |-> Plus(src, i)]>>)

\* multimem.ld_reduce and multimem.st on the cell i of all ranks.
MultimemLoadReduce(c, buf, i) ==
  Load(<<0, buf, i>>) \o Each(Strided(1, c.nRanks, 1), LAMBDA r : Reduce(<<r, buf, i>>))
MultimemStore(c, buf, i) == Each(Upto(c.nRanks), LAMBDA r : Store(<<r, buf, i>>))

\* PortChannel: requests to the proxy of the rank.  copies is a sequence of pairs of a
\* destination and a source; putWithSignal() has the proxy signal after the data.
PortPut(copies) == <<[op |-> "push", req |-> [copies |-> copies, chan |-> <<>>]]>>
PortPutWithSignal(c, peer, id, copies) ==
  <<[op |-> "push", req |-> [copies |-> copies, chan |-> <<c.rank, peer, id>>]]>>
PortSignal(c, peer, id) == PortPutWithSignal(c, peer, id, <<>>)

\* flush(), in one of every n launches.
PortFlushEvery(n) == <<[op |-> "flush", every |-> n]>>
PortFlush == PortFlushEvery(1)
=============================================================================
