---------------------------- MODULE ExecutorOps ----------------------------
(***************************************************************************)
(* The operations of an execution plan as the kernel of the executor runs  *)
(* them (src/core/include/execution_kernel.hpp), as programs of the threads*)
(* of a block.                                                             *)
(*                                                                         *)
(* A cell is an element.  An operation has a type, the type of its channels*)
(* and the peers and ids of these (chans), and its inputs and outputs (src *)
(* and dst), each with the rank and the buffer it is in, its index id among*)
(* the buffers of the channel or its buffer type, its offset and its size. *)
(* The plan e gives the elements of an int4 (vec) and of the last vectors  *)
(* of a multimem reduction (red), the bytes of an element (bytes), where   *)
(* the second half of the scratch buffer begins (half, zero unless it is   *)
(* doubled), whether its chunks are reused (reuse, scratchChunk), and the  *)
(* buffers behind the memory ids 0 to 2 (first).                           *)
(***************************************************************************)
EXTENDS DeviceOps

Indices(s) == [i \in 1 .. Len(s) |-> i]

BufferTypes == <<"in", "out", "scr">>

\* A BufferRef is a union of the id of a remote buffer and the type of a local one.
RefType(ref) == IF ref.id \in 0 .. 2 THEN BufferTypes[ref.id + 1] ELSE "none"

\* getBuffer(): the half of the scratch buffer is that of the flag, odd flags use the first.
GetBuffer(e, c, buf, i) ==
  IF buf = "scr" THEN <<c.rank, buf, i + e.half, -e.half>> ELSE <<c.rank, buf, i>>

GetOffset(e, buf, offset) == IF e.reuse /\ buf = "scr" THEN offset % e.scratchChunk ELSE offset

\* Remote buffers are addressed from their beginning; packets go to the half of the flag.
Remote(ref, i) == <<ref.rank, ref.buf, i>>
PacketAt(e, rank, buf, i) == <<rank, buf, i + e.half, -e.half>>

\* min(size - offset, unitSize), where the difference of two uint32_t is large when the
\* operation is smaller than the offset.
Part(size, offset, unit) == IF offset <= size /\ size - offset < unit THEN size - offset ELSE unit
-----------------------------------------------------------------------------
HandleNop(c) == SyncThreads(c)

HandleBarrier(op) == GridSync(op.id, op.n)

\* One thread per channel.
HandleSignal(c, op) ==
  If(c.thread < Len(op.chans),
     LET ch == op.chans[c.thread + 1] IN
     IF op.chan = "MEMORY" THEN Signal(c, ch[1], ch[2]) ELSE PortSignal(c, ch[1], ch[2]))

HandleWait(c, op) ==
  If(c.thread < Len(op.chans), LET ch == op.chans[c.thread + 1] IN Wait(c, ch[1], ch[2]))

\* As many channels are flushed as the operation has outputs.
HandleFlush(c, op) == If(c.thread < Len(op.dst), PortFlush)

\* The local address takes the offset of the source, the remote one that of the destination.
HandleGet(e, c, op, offset, unit) ==
  Each(Indices(op.src), LAMBDA i :
    LET dstOffset == op.dst[i].off + GetOffset(e, op.dst[i].buf, offset)
        srcOffset == op.src[i].off + GetOffset(e, op.src[i].buf, offset)
    IN Put(GetBuffer(e, c, op.dst[i].buf, srcOffset), Remote(op.src[i], dstOffset),
           Part(op.src[i].size, offset, unit), c.thread, c.blockDim))

\* Through the port channel the put carries the signal when the operation has one; with
\* signal and flush it is the same request.
HandlePut(e, c, op, offset, unit, withSignal) ==
  LET Dst(i, k) == Remote(op.dst[i], op.dst[i].off + GetOffset(e, op.dst[i].buf, offset) + k)
      srcOffset(i) == op.src[i].off + GetOffset(e, op.src[i].buf, offset)
      i == c.thread + 1
      copies == [k \in 1 .. Part(op.dst[i].size, offset, unit) |->
                   <<Dst(i, k - 1), <<c.rank, op.src[i].buf, srcOffset(i) + k - 1>>>>]
  IN IF op.chan = "MEMORY"
     THEN Each(Indices(op.dst), LAMBDA j :
            Put(Dst(j, 0), GetBuffer(e, c, op.src[1].buf, srcOffset(j)),
                Part(op.dst[j].size, offset, unit), c.thread, c.blockDim))
     ELSE If(c.thread < Len(op.dst),
             IF withSignal THEN PortPutWithSignal(c, op.chans[i][1], op.chans[i][2], copies) ELSE PortPut(copies))

HandleCopy(e, c, op, offset, unit) ==
  Put(GetBuffer(e, c, op.dst[1].buf, op.dst[1].off + GetOffset(e, op.dst[1].buf, offset)),
      GetBuffer(e, c, op.src[1].buf, op.src[1].off + GetOffset(e, op.src[1].buf, offset)),
      Part(op.src[1].size, offset, unit), c.thread, c.blockDim)
-----------------------------------------------------------------------------
\* One element of a reduction: the sum goes to out and to the cells of dsts.
ReduceTo(in, srcs, out, dsts) ==
  Load(in) \o Each(srcs, Reduce) \o Store(out) \o Each(dsts, Store)

\* The int4s of the operation, then the rest of its elements.
Vectors(e, c, n, Code(_, _)) ==
  Each(Strided(c.thread, n, c.blockDim), LAMBDA i : Each(Upto(e.vec), LAMBDA v : Code(i, v)))

\* The rest of the elements is indexed in the input and the output buffer, whatever the
\* buffers of the operation are, and the index counts the offset of the input as well.
HandleReadReduceSend(e, c, op, offset, unit, send) ==
  LET size == Part(op.src[1].size, offset, unit)
      nInt4 == size \div e.vec
      Start(ref) == ref.off + GetOffset(e, ref.buf, offset)
      Vector(ref, i, v) == (Start(ref) \div e.vec + i) * e.vec + v
      dsts == If(send, Tail(op.dst))
      first == Start(op.src[1])
  IN Vectors(e, c, nInt4, LAMBDA i, v :
       ReduceTo(GetBuffer(e, c, op.src[1].buf, Vector(op.src[1], i, v)),
                [j \in DOMAIN Tail(op.src) |-> Remote(op.src[j + 1], Vector(op.src[j + 1], i, v))],
                GetBuffer(e, c, op.dst[1].buf, Vector(op.dst[1], i, v)),
                [j \in DOMAIN dsts |-> Remote(dsts[j], Vector(dsts[j], i, v))]))
     \o Each(Strided(first + nInt4 * e.vec + c.thread, first + size, c.blockDim), LAMBDA i :
          ReduceTo(<<c.rank, "in", i>>,
                   [j \in DOMAIN Tail(op.src) |-> Remote(op.src[j + 1], Start(op.src[j + 1]) + i)],
                   <<c.rank, "out", i>>,
                   [j \in DOMAIN dsts |-> Remote(dsts[j], Start(dsts[j]) + i)]))

\* All inputs are local.  The vectors of the input j move with the type of the output j;
\* outputs the operation does not have are zero, which is the type of the input buffer.
HandleReduceSend(e, c, op, offset, unit, send) ==
  LET size == Part(op.src[1].size, offset, unit)
      nInt4 == size \div e.vec
      Start(ref) == ref.off + GetOffset(e, ref.buf, offset)
      Vector(start, i, v) == (start \div e.vec + i) * e.vec + v
      ins == Tail(op.src)
      dsts == If(send, Tail(op.dst))
      InStart(j) == ins[j].off
        + GetOffset(e, IF j + 1 \in DOMAIN op.dst THEN RefType(op.dst[j + 1]) ELSE "in", offset)
      first == Start(op.src[1])
  IN Vectors(e, c, nInt4, LAMBDA i, v :
       ReduceTo(GetBuffer(e, c, op.src[1].buf, Vector(first, i, v)),
                [j \in DOMAIN ins |-> GetBuffer(e, c, ins[j].buf, Vector(InStart(j), i, v))],
                GetBuffer(e, c, op.dst[1].buf, Vector(Start(op.dst[1]), i, v)),
                [j \in DOMAIN dsts |-> Remote(dsts[j], Vector(Start(dsts[j]), i, v))]))
     \o Each(Strided(first + nInt4 * e.vec + c.thread, first + size, c.blockDim), LAMBDA i :
          ReduceTo(GetBuffer(e, c, op.src[1].buf, i),
                   [j \in DOMAIN ins |-> GetBuffer(e, c, ins[j].buf, Start(ins[j]) + i)],
                   GetBuffer(e, c, op.dst[1].buf, i),
                   [j \in DOMAIN dsts |-> Remote(dsts[j], Start(dsts[j]) + i)]))

\* The rest begins at an offset in bytes that is taken for one in elements.
HandleMultiLoadReduceStoreOp(e, c, op, offset, unit) ==
  LET size == Part(op.src[1].size, offset, unit)
      srcOffset == op.src[1].off + GetOffset(e, op.src[1].buf, offset)
      dstOffset == op.dst[1].off + GetOffset(e, op.dst[1].buf, offset)
      n16 == size \div e.vec
      done == n16 * e.vec
      ReduceStore(src, dst) ==
        MultimemLoadReduce(c, op.src[1].buf, src) \o MultimemStore(c, op.dst[1].buf, dst)
  IN Vectors(e, c, n16, LAMBDA i, v :
       ReduceStore((srcOffset \div e.vec + i) * e.vec + v, (dstOffset \div e.vec + i) * e.vec + v))
     \o Each(Strided(c.thread, (size - done) \div e.red, c.blockDim), LAMBDA i :
          Each(Upto(e.red), LAMBDA v :
            ReduceStore((srcOffset + done) * e.bytes + i * e.red + v,
                        (dstOffset + done) * e.bytes + i * e.red + v)))
-----------------------------------------------------------------------------
\* Packets.  Through the port channel the source is already made of packets; its memory
\* id lacks the first id of the local buffers of the context.
HandlePutPackets(e, c, op) ==
  LET i == c.thread + 1
      src == op.src[i]
      SrcCell(k) == IF src.buf = "scr" THEN PacketAt(e, c.rank, e.first[src.buf], src.off + k)
                    ELSE <<c.rank, e.first[src.buf], src.off + k>>
  IN IF op.chan = "MEMORY"
     THEN Each(Indices(op.dst), LAMBDA j :
            PutPackets(PacketAt(e, op.dst[j].rank, op.dst[j].buf, op.dst[j].off),
                       GetBuffer(e, c, op.src[1].buf, op.src[j].off),
                       op.src[j].size, c.thread, c.blockDim))
     ELSE If(c.thread < Len(op.dst),
             PortPut([k \in 1 .. src.size |->
                        <<PacketAt(e, op.dst[i].rank, op.dst[i].buf, op.dst[i].off + k - 1), SrcCell(k - 1)>>]))

\* Packets that have arrived are passed on, through the port channel once all are there.
HandleReadPutPackets(e, c, op) ==
  LET size == op.src[1].size
      Read(k) == ReadPacket(GetBuffer(e, c, "scr", op.src[1].off + k))
      i == c.thread + 1
  IN IF op.chan = "MEMORY"
     THEN Each(Strided(c.thread, size, c.blockDim), LAMBDA k :
            Read(k)
            \o Each(op.dst, LAMBDA d : WritePacket(PacketAt(e, d.rank, d.buf, d.off + k))))
     ELSE Each(Strided(c.thread, size, c.blockDim), Read)
          \o SyncThreads(c)
          \o If(c.thread < Len(op.dst),
                PortPut([k \in 1 .. size |->
                           <<PacketAt(e, op.dst[i].rank, op.dst[i].buf, op.dst[i].off + k - 1),
                             PacketAt(e, c.rank, "scr", op.src[1].off + k - 1)>>]))

\* The packets of the other inputs are reduced with the first one.
ReducedPackets(e, c, op, k) ==
  ReadPacket(GetBuffer(e, c, "scr", op.src[2].off + k))
  \o Each(SubSeq(op.src, 3, Len(op.src)), LAMBDA s : ReducePacket(GetBuffer(e, c, "scr", s.off + k)))
  \o Reduce(GetBuffer(e, c, op.src[1].buf, op.src[1].off + k))

\* The sum is stored to the first output, and sent to the others.
HandleReduceSendPackets(e, c, op, send) ==
  Each(Strided(c.thread, op.src[1].size, c.blockDim), LAMBDA k :
    ReducedPackets(e, c, op, k)
    \o Store(GetBuffer(e, c, op.dst[1].buf, op.dst[1].off + k))
    \o Each(If(send, Tail(op.dst)), LAMBDA d : WritePacket(PacketAt(e, d.rank, d.buf, d.off + k))))

\* It is kept as a packet in the second output as well.
HandleReduceCopySendPackets(e, c, op, send) ==
  Each(Strided(c.thread, op.src[1].size, c.blockDim), LAMBDA k :
    ReducedPackets(e, c, op, k)
    \o Store(GetBuffer(e, c, op.dst[1].buf, op.dst[1].off + k))
    \o WritePacket(GetBuffer(e, c, op.dst[2].buf, op.dst[2].off + k))
    \o Each(If(send, SubSeq(op.dst, 3, Len(op.dst))),
            LAMBDA d : WritePacket(PacketAt(e, d.rank, d.buf, d.off + k))))

HandleUnpackPackets(e, c, op) ==
  Each(Strided(c.thread, op.src[1].size, c.blockDim), LAMBDA k :
    ReadPacket(GetBuffer(e, c, "scr", op.src[1].off + k))
    \o Store(GetBuffer(e, c, op.dst[1].buf, op.dst[1].off + k)))

HandleCopyPackets(e, c, op) ==
  PutPackets(GetBuffer(e, c, op.dst[1].buf, op.dst[1].off), GetBuffer(e, c, op.src[1].buf, op.src[1].off),
             op.src[1].size, c.thread, c.blockDim)
-----------------------------------------------------------------------------
HandleSemRelease(c, op) == If(c.thread < Len(op.sems), SemRelease(op.sems[c.thread + 1]))
HandleSemAcquire(c, op) == If(c.thread < Len(op.sems), SemAcquire(op.sems[c.thread + 1]))

ExecuteDeviceFunction(e, c, op, offset, unit) ==
  CASE op.type = "NOP" -> HandleNop(c)
    [] op.type = "BARRIER" -> HandleBarrier(op)
    [] op.type \in {"SIGNAL", "RELAXED_SIGNAL"} -> HandleSignal(c, op)
    [] op.type \in {"WAIT", "RELAXED_WAIT"} -> HandleWait(c, op)
    [] op.type = "FLUSH" -> HandleFlush(c, op)
    [] op.type = "PUT" -> HandlePut(e, c, op, offset, unit, FALSE)
    [] op.type \in {"PUT_WITH_SIGNAL", "PUT_WITH_SIGNAL_AND_FLUSH"} -> HandlePut(e, c, op, offset, unit, TRUE)
    [] op.type = "PUT_PACKETS" -> HandlePutPackets(e, c, op)
    [] op.type = "READ_PUT_PACKETS" -> HandleReadPutPackets(e, c, op)
    [] op.type = "GET" -> HandleGet(e, c, op, offset, unit)
    [] op.type = "READ_REDUCE_SEND" -> HandleReadReduceSend(e, c, op, offset, unit, TRUE)
    [] op.type = "READ_REDUCE" -> HandleReadReduceSend(e, c, op, offset, unit, FALSE)
    [] op.type = "COPY" -> HandleCopy(e, c, op, offset, unit)
    [] op.type = "REDUCE_SEND" -> HandleReduceSend(e, c, op, offset, unit, TRUE)
    [] op.type = "REDUCE" -> HandleReduceSend(e, c, op, offset, unit, FALSE)
    [] op.type = "REDUCE_SEND_PACKETS" -> HandleReduceSendPackets(e, c, op, TRUE)
    [] op.type = "REDUCE_PACKETS" -> HandleReduceSendPackets(e, c, op, FALSE)
    [] op.type = "REDUCE_COPY_SEND_PACKETS" -> HandleReduceCopySendPackets(e, c, op, TRUE)
    [] op.type = "REDUCE_COPY_PACKETS" -> HandleReduceCopySendPackets(e, c, op, FALSE)
    [] op.type = "UNPACK_PACKETS" -> HandleUnpackPackets(e, c, op)
    [] op.type = "COPY_PACKETS" -> HandleCopyPackets(e, c, op)
    [] op.type = "SEM_ACQUIRE" -> HandleSemAcquire(c, op)
    [] op.type = "SEM_RELEASE" -> HandleSemRelease(c, op)
    [] op.type = "MULTI_LOAD_REDUCE_STORE" -> HandleMultiLoadReduceStoreOp(e, c, op, offset, unit)

\* The unit of an operation outside a pipeline, larger than any operation.
UINT32_MAX == 2^30

\* The operations of a pipeline run on one unit after the other.
HandlePipeline(e, c, op) ==
  Each(Upto(op.n), LAMBDA i :
    Each(op.ops, LAMBDA x : ExecuteDeviceFunction(e, c, x, i * op.unit, op.unit)))

\* The flag is an argument of the launch.
ExecutionKernel(e, c, ops) ==
  LaunchFlag
  \o Each(ops, LAMBDA op :
       IF op.type = "PIPELINE" THEN HandlePipeline(e, c, op)
       ELSE ExecuteDeviceFunction(e, c, op, 0, UINT32_MAX))
=============================================================================
