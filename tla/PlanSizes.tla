----------------------------- MODULE PlanSizes ------------------------------
(***************************************************************************)
(* Offsets and sizes of an execution plan (execution_plan.cc): a plan      *)
(* speaks of chunks, loading it for a message turns them into bytes, and   *)
(* an operation of a group of thread blocks is cut into one slice per      *)
(* block.  Offsets and sizes are kept in unsigned integers of a fixed      *)
(* width (Wrap).                                                           *)
(***************************************************************************)
EXTENDS Integers

CONSTANTS
  BufferAlignment,
  Wrap,              \* 2^32
  PredefinedScratch, \* PREDFINED_SCRATCH_SIZE
  Plans,             \* records: inputChunks, outputChunks, scratchChunks, packet, double, reuse,
                     \* allgather, minMessageSize, maxMessageSize
  Messages,          \* records: inputSize, outputSize
  Operations         \* records: buffer, index, chunks, constOffset (of a remote buffer), tbgSize,
                     \* unitSize

ASSUME SizesAssumption ==
  /\ BufferAlignment \in Nat \ {0}
  /\ Wrap \in Nat \ {0}
  /\ PredefinedScratch \in Nat
  /\ Plans \subseteq [inputChunks : Nat \ {0}, outputChunks : Nat \ {0}, scratchChunks : Nat,
                      packet : BOOLEAN, double : BOOLEAN, reuse : BOOLEAN, allgather : BOOLEAN,
                      minMessageSize : Nat, maxMessageSize : Nat]
  /\ Messages \subseteq [inputSize : Nat \ {0}, outputSize : Nat \ {0}]
  /\ Operations \subseteq [buffer : {"input", "output", "scratch"}, index : Nat, chunks : Nat \ {0},
                           constOffset : Nat, tbgSize : Nat \ {0}, unitSize : Nat \ {0}]

VARIABLES
  plan, message,   \* loaded
  status,          \* "new", "loaded" or "refused"
  operation,       \* the operation set up last
  slices           \* of each of its thread blocks: offset and size

sizesVars == <<plan, message, status, operation, slices>>

Aligned(size) == ((size + BufferAlignment - 1) \div BufferAlignment) * BufferAlignment

-----------------------------------------------------------------------------
\* Mutant: the remainder is dropped.
ElementsNoRest(nelems, index, n) == index * (nelems \div n)

\* Elements before slice index of n: the first slices take one more.
Elements(nelems, index, n) ==
  LET remainder == nelems % n
  IN (index * (nelems \div n)) + (IF index % nelems < remainder THEN index % nelems ELSE remainder)

CalcOffset(size, index, n) == Elements(size \div BufferAlignment, index, n) * BufferAlignment

CalcSize(size, index, n) == (CalcOffset(size, index + 1, n) - CalcOffset(size, index, n)) % Wrap

\* Mutant: the flags of the packets are forgotten.
ScratchWithoutFlags(p, m) ==
  LET sizePerChunk == (m.inputSize + p.inputChunks - 1) \div p.inputChunks
      times == IF p.double THEN 2 ELSE 1
  IN IF p.reuse /\ p.scratchChunks > 0 THEN PredefinedScratch
     ELSE Aligned(sizePerChunk * p.scratchChunks * times)

\* calScratchBufferSize()
CalScratchBufferSize(p, m) ==
  LET sizePerChunk == (m.inputSize + p.inputChunks - 1) \div p.inputChunks
      times == (IF p.packet THEN 2 ELSE 1) * (IF p.double THEN 2 ELSE 1)
  IN IF p.reuse /\ p.scratchChunks > 0 THEN PredefinedScratch
     ELSE Aligned(sizePerChunk * p.scratchChunks * times)

\* calMaxScratchChunkSize(PREDFINED_SCRATCH_SIZE)
MaxScratchChunk(p) ==
  LET half == IF p.double THEN PredefinedScratch \div 2 ELSE PredefinedScratch
  IN IF p.scratchChunks = 0 THEN 0 ELSE Aligned((half + p.scratchChunks - 1) \div p.scratchChunks)

\* getOffset(): a scratch buffer of fixed size is cut into chunks of its own.
GetOffset(p, m, index, buffer) ==
  LET chunkSize == (m.inputSize + p.inputChunks - 1) \div p.inputChunks
  IN IF buffer = "scratch" /\ p.reuse /\ MaxScratchChunk(p) < chunkSize
       THEN index * MaxScratchChunk(p)
       ELSE CalcOffset(m.inputSize, index, p.inputChunks)

GetBufferSize(p, m, index, chunks) ==
  (GetOffset(p, m, index + chunks, "none") - GetOffset(p, m, index, "none")) % Wrap

\* getUpperBoundChunkSize()
UpperBoundChunkSize(p, m) ==
  (((m.inputSize \div BufferAlignment) + p.inputChunks - 1) \div p.inputChunks) * BufferAlignment

NIterations(p, m, op) == ((op.chunks * UpperBoundChunkSize(p, m)) + op.unitSize - 1) \div op.unitSize

\* getSizeAndChunks() throws when the chunks of input and output differ in size.
SizePerChunkConsistent(p, m) == m.inputSize \div p.inputChunks = m.outputSize \div p.outputChunks

CheckMessageSize(p, m) ==
  /\ m.inputSize % BufferAlignment = 0 /\ m.outputSize % BufferAlignment = 0
  /\ (m.inputSize \div BufferAlignment) % p.inputChunks = 0
  /\ (m.outputSize \div BufferAlignment) % p.outputChunks = 0
  /\ LET size == IF p.allgather THEN m.outputSize ELSE m.inputSize
     IN size >= p.minMessageSize /\ size <= p.maxMessageSize

-----------------------------------------------------------------------------
SizesInit ==
  /\ plan \in Plans /\ message \in Messages
  /\ status = "new"
  /\ operation \in Operations
  /\ slices = <<>>

LoadExecutionPlan ==
  /\ status = "new"
  /\ status' = IF CheckMessageSize(plan, message) /\ SizePerChunkConsistent(plan, message)
               THEN "loaded" ELSE "refused"
  /\ UNCHANGED <<plan, message, operation, slices>>

\* One operand of setupOperation(), for every thread block of the group.
Slice(op, tbId) ==
  LET size == GetBufferSize(plan, message, op.index, op.chunks)
      begin == GetOffset(plan, message, op.index, op.buffer) + op.constOffset
  IN [offset |-> (begin + CalcOffset(size, tbId, op.tbgSize)) % Wrap,
      size |-> CalcSize(size, tbId, op.tbgSize)]

SetupOperation ==
  /\ status = "loaded" /\ slices = <<>>
  /\ slices' = [tbId \in 0..(operation.tbgSize - 1) |-> Slice(operation, tbId)]
  /\ UNCHANGED <<plan, message, status, operation>>

SizesNext == LoadExecutionPlan \/ SetupOperation

SizesSpec == SizesInit /\ [][SizesNext]_sizesVars

-----------------------------------------------------------------------------
Chunk == message.inputSize \div plan.inputChunks

\* The range of the operation, and the first byte past it.
Begin == GetOffset(plan, message, operation.index, operation.buffer) + operation.constOffset
RangeEnd == Begin + (operation.chunks * Chunk)

\* Each block of the group has at least one element, and the width is enough.
Divisible == operation.tbgSize * BufferAlignment <= operation.chunks * Chunk /\ RangeEnd < Wrap

\* The thread blocks of a group share an operation without gap or overlap: the slices lie
\* one behind the other and fill the range of its chunks (calcOffset and calcSize round
\* to whole elements and every block computes its slice alone).
SlicesPartition ==
  slices # <<>> /\ Divisible =>
    /\ slices[0].offset = Begin
    /\ \A tbId \in 1..(operation.tbgSize - 1) :
         slices[tbId].offset = slices[tbId - 1].offset + slices[tbId - 1].size
    /\ slices[operation.tbgSize - 1].offset + slices[operation.tbgSize - 1].size = RangeEnd

\* What an operation touches in the scratch buffer, with the flags of packets and in the
\* second half when the buffer is double, lies in the size that is allocated for it.  And
\* the iterations of a pipeline reach the last byte of its chunks, and none is empty.
OperationFits ==
  slices # <<>> /\ Divisible =>
    /\ ~plan.reuse /\ operation.buffer = "scratch" /\ operation.constOffset = 0
       /\ operation.index + operation.chunks <= plan.scratchChunks =>
         LET scratch == CalScratchBufferSize(plan, message) IN
         \A tbId \in DOMAIN slices :
           (slices[tbId].offset + slices[tbId].size) * (IF plan.packet THEN 2 ELSE 1)
             <= (IF plan.double THEN scratch \div 2 ELSE scratch)
    /\ LET n == NIterations(plan, message, operation) * operation.unitSize
       IN n >= operation.chunks * Chunk /\ n - operation.unitSize < operation.chunks * Chunk
=============================================================================
