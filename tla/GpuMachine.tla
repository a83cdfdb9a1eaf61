---------------------------- MODULE GpuMachine -----------------------------
(***************************************************************************)
(* GPUs that run kernels: the threads of every rank execute the programs of*)
(* the kernel the rank has launched, interleaved in any order, on memory   *)
(* that peers read and write.  The launches of a rank are ordered by its   *)
(* stream; ranks are not synchronized but by what the kernels do.          *)
(*                                                                         *)
(* A value is the set of contributions <<rank, element, launch>> that were *)
(* reduced into it; launching a kernel overwrites the input buffer with the*)
(* data of the new launch and the output buffer with junk, as the program  *)
(* that calls the collective may do once the previous call has returned.   *)
(***************************************************************************)
EXTENDS DeviceOps, FiniteSets, Bags, TLC

CONSTANT Scenarios   \* sequences of the kernels that every rank launches in turn

VARIABLES
  scenario,  \* the sequence that is run
  launch,    \* launches of each rank
  pc, reg, flag,   \* of each thread
  mem,       \* the cells that were written, each with the flag of its packet
  tokens,    \* signals that were not waited for, as a bag of channels
  deviceSem, \* the values of the device semaphores, by rank and id
  flags,     \* the flag buffer of each rank
  fifo       \* requests to the proxy of each rank

gpuVars == <<scenario, launch, pc, reg, flag, mem, tokens, deviceSem, flags, fifo>>

Ranks == 0 .. Scenarios[scenario].nRanks - 1
Kernels == Scenarios[scenario].kernels
Threads(s) == UNION {DOMAIN s.kernels[l].code : l \in DOMAIN s.kernels}
ThreadsOf(r) == {p \in DOMAIN pc : p[1] = r}

Kernel(r) == Kernels[launch[r]]

Program(p) ==
  IF launch[p[1]] = 0 \/ p \notin DOMAIN Kernel(p[1]).code THEN <<>> ELSE Kernel(p[1]).code[p]

Done(p) == pc[p] > Len(Program(p))

Returned(r) == \A p \in ThreadsOf(r) : Done(p)

At(p, op) == ~Done(p) /\ Program(p)[pc[p]].op = op

Instr(p) == Program(p)[pc[p]]

Advance(P) == pc' = [p \in DOMAIN pc |-> IF p \in P THEN pc[p] + 1 ELSE pc[p]]

Junk == {<<-1, 0, 0>>}    \* what no rank has written
Bad == {<<-1, 1, 1>>}     \* a contribution was added twice

\* calVector() and its like, for an operation that is not idempotent.
Sum(a, b) == IF a \cap b = {} THEN a \cup b ELSE Bad

Cell(a) == IF a \in DOMAIN mem THEN mem[a] ELSE [val |-> Junk, flag |-> 0]

\* (flag % numScratchBuff) ? scratchBufferSize / numScratchBuff : 0
Where(p, a) ==
  <<a[1], a[2], IF Len(a) = 4 /\ flag[p] % 2 = 1 THEN a[3] + a[4] ELSE a[3]>>

CellAt(p, a) == Cell(Where(p, a))

SemValue(r, id) == IF <<r, id>> \in DOMAIN deviceSem THEN deviceSem[<<r, id>>] ELSE 0

GpuInit ==
  /\ scenario \in DOMAIN Scenarios
  /\ launch = [r \in Ranks |-> 0]
  /\ pc = [p \in Threads(Scenarios[scenario]) |-> 1]
  /\ reg = [p \in DOMAIN pc |-> Junk]
  /\ flag = [p \in DOMAIN pc |-> 0]
  /\ mem = <<>>
  /\ tokens = EmptyBag
  /\ deviceSem = <<>>
  /\ flags = [x \in Ranks \X (0 .. Scenarios[scenario].nFlags - 1) |-> 1]
  /\ fifo = [r \in Ranks |-> <<>>]

\* The stream starts the next kernel when the previous one has returned.
Launch(r) ==
  /\ launch[r] < Len(Kernels) /\ Returned(r)
  /\ launch' = [launch EXCEPT ![r] = @ + 1]
  /\ pc' = [p \in DOMAIN pc |-> IF p[1] = r THEN 1 ELSE pc[p]]
  /\ reg' = [p \in DOMAIN pc |-> IF p[1] = r THEN Junk ELSE reg[p]]
  /\ flag' = [p \in DOMAIN pc |-> IF p[1] = r THEN 0 ELSE flag[p]]
  /\ LET k == Kernels[launch'[r]]
         inputs == {a \in DOMAIN k.input : a[1] = r}
         outputs == {a \in DOMAIN k.result : a[1] = r} \ inputs
     IN mem' = [a \in inputs |-> [val |-> {Append(k.input[a], launch'[r])}, flag |-> 0]]
               @@ [a \in outputs |-> [val |-> Junk, flag |-> 0]] @@ mem
  /\ UNCHANGED <<scenario, tokens, deviceSem, flags, fifo>>
-----------------------------------------------------------------------------
SetReg(p, v) ==
  /\ reg' = [reg EXCEPT ![p] = v]
  /\ Advance({p})
  /\ UNCHANGED <<scenario, launch, flag, mem, tokens, deviceSem, flags, fifo>>

SetMem(p, a, x) ==
  /\ mem' = (Where(p, a) :> x) @@ mem
  /\ Advance({p})
  /\ UNCHANGED <<scenario, launch, reg, flag, tokens, deviceSem, flags, fifo>>

DoLoad(p) == SetReg(p, CellAt(p, Instr(p).addr).val)
DoReduce(p) == SetReg(p, Sum(reg[p], CellAt(p, Instr(p).addr).val))
DoCopy(p) == SetMem(p, Instr(p).dst, [CellAt(p, Instr(p).src) EXCEPT !.flag = 0])
DoStore(p) == SetMem(p, Instr(p).addr, [val |-> reg[p], flag |-> 0])

DoWritePacket(p) ==
  SetMem(p, Instr(p).addr, [val |-> reg[p], flag |-> flag[p]])

DoPutPacket(p) ==
  SetMem(p, Instr(p).addr, [val |-> CellAt(p, Instr(p).src).val, flag |-> flag[p]])

\* read() returns the data of a packet with the expected flag.
PacketReady(p) == CellAt(p, Instr(p).addr).flag = flag[p]

DoReadPacket(p) ==
  PacketReady(p) /\ SetReg(p, CellAt(p, Instr(p).addr).val)

DoReducePacket(p) ==
  PacketReady(p) /\ SetReg(p, Sum(reg[p], CellAt(p, Instr(p).addr).val))

DoSignal(p) ==
  /\ tokens' = tokens (+) SetToBag({Instr(p).chan})
  /\ Advance({p})
  /\ UNCHANGED <<scenario, launch, reg, flag, mem, deviceSem, flags, fifo>>

DoWait(p) ==
  /\ BagIn(Instr(p).chan, tokens)
  /\ tokens' = tokens (-) SetToBag({Instr(p).chan})
  /\ Advance({p})
  /\ UNCHANGED <<scenario, launch, reg, flag, mem, deviceSem, flags, fifo>>

DoLoadFlag(p) ==
  /\ flag' = [flag EXCEPT ![p] = flags[<<p[1], Instr(p).i>>]]
  /\ Advance({p})
  /\ UNCHANGED <<scenario, launch, reg, mem, tokens, deviceSem, flags, fifo>>

\* ++flag for every launch of the process.
DoLaunchFlag(p) ==
  /\ flag' = [flag EXCEPT ![p] = launch[p[1]]]
  /\ Advance({p})
  /\ UNCHANGED <<scenario, launch, reg, mem, tokens, deviceSem, flags, fifo>>

DoStoreFlag(p) ==
  /\ flags' = [flags EXCEPT ![<<p[1], Instr(p).i>>] = flag[p] + 1]
  /\ Advance({p})
  /\ UNCHANGED <<scenario, launch, reg, flag, mem, tokens, deviceSem, fifo>>

\* The threads that wait at the barrier p is at.
SameBarrier(p) ==
  {q \in DOMAIN pc : q[1] = p[1] /\ q[2] = p[2] /\ At(q, "bar") /\ Instr(q).id = Instr(p).id}

DoBarrier(p) ==
  /\ Cardinality(SameBarrier(p)) = Instr(p).n
  /\ Advance(SameBarrier(p))
  /\ UNCHANGED <<scenario, launch, reg, flag, mem, tokens, deviceSem, flags, fifo>>

\* The threads at the grid barrier p is at; sync() begins with __syncthreads().
SameSync(p) ==
  {q \in DOMAIN pc : q[1] = p[1] /\ At(q, "sync") /\ Instr(q).id = Instr(p).id}

SyncReached(p) ==
  LET Q == SameSync(p) IN
  /\ Cardinality({q[2] : q \in Q}) = Instr(p).n
  /\ \A q \in ThreadsOf(p[1]) : (\E x \in Q : x[2] = q[2]) /\ q \in DOMAIN Kernel(p[1]).code => q \in Q

DoSync(p) ==
  /\ SyncReached(p)
  /\ Advance(SameSync(p))
  /\ UNCHANGED <<scenario, launch, reg, flag, mem, tokens, deviceSem, flags, fifo>>

SetSem(p, v) ==
  /\ deviceSem' = (<<p[1], Instr(p).id>> :> v) @@ deviceSem
  /\ Advance({p})
  /\ UNCHANGED <<scenario, launch, reg, flag, mem, tokens, flags, fifo>>

DoSemSet(p) == SetSem(p, Instr(p).v)
DoSemRelease(p) == SetSem(p, SemValue(p[1], Instr(p).id) + 1)

\* Each semaphore has a single acquiring thread, for which acquire() waits for a
\* positive value and decrements it.
DoSemAcquire(p) ==
  /\ SemValue(p[1], Instr(p).id) > 0
  /\ SetSem(p, SemValue(p[1], Instr(p).id) - 1)

DoPush(p) ==
  /\ LET req == [Instr(p).req EXCEPT !.copies =
                   [k \in DOMAIN @ |-> <<Where(p, @[k][1]), Where(p, @[k][2])>>]]
     IN fifo' = [fifo EXCEPT ![p[1]] = Append(@, req)]
  /\ Advance({p})
  /\ UNCHANGED <<scenario, launch, reg, flag, mem, tokens, deviceSem, flags>>

\* flush() waits until the proxy has handled what was pushed before.
FlushReady(p) == flag[p] % Instr(p).every = 0 => fifo[p[1]] = <<>>

DoFlush(p) ==
  /\ FlushReady(p)
  /\ Advance({p})
  /\ UNCHANGED <<scenario, launch, reg, flag, mem, tokens, deviceSem, flags, fifo>>

\* The proxy handles its requests in order: first the data, then the signal.
ProxyCopy(r) ==
  /\ fifo[r] # <<>> /\ fifo[r][1].copies # <<>>
  /\ LET copies == fifo[r][1].copies IN
     mem' = [a \in {copies[k][1] : k \in DOMAIN copies} |->
               Cell((CHOOSE k \in ToSet(copies) : k[1] = a)[2])] @@ mem
  /\ fifo' = [fifo EXCEPT ![r][1].copies = <<>>]
  /\ UNCHANGED <<scenario, launch, pc, reg, flag, tokens, deviceSem, flags>>

ProxySignal(r) ==
  /\ fifo[r] # <<>> /\ fifo[r][1].copies = <<>>
  /\ tokens' = IF fifo[r][1].chan = <<>> THEN tokens ELSE tokens (+) SetToBag({fifo[r][1].chan})
  /\ fifo' = [fifo EXCEPT ![r] = Tail(@)]
  /\ UNCHANGED <<scenario, launch, pc, reg, flag, mem, deviceSem, flags>>

\* The instruction p is at.
ThreadStep(p) ==
  ~Done(p) /\ LET op == Instr(p).op IN
    \/ op = "load" /\ DoLoad(p)
    \/ op = "reduce" /\ DoReduce(p)
    \/ op = "copy" /\ DoCopy(p)
    \/ op = "store" /\ DoStore(p)
    \/ op = "stpkt" /\ DoWritePacket(p)
    \/ op = "putpkt" /\ DoPutPacket(p)
    \/ op = "ldpkt" /\ DoReadPacket(p)
    \/ op = "redpkt" /\ DoReducePacket(p)
    \/ op = "signal" /\ DoSignal(p)
    \/ op = "wait" /\ DoWait(p)
    \/ op = "ldflag" /\ DoLoadFlag(p)
    \/ op = "launchflag" /\ DoLaunchFlag(p)
    \/ op = "stflag" /\ DoStoreFlag(p)
    \/ op = "bar" /\ DoBarrier(p)
    \/ op = "sync" /\ DoSync(p)
    \/ op = "semset" /\ DoSemSet(p)
    \/ op = "release" /\ DoSemRelease(p)
    \/ op = "acquire" /\ DoSemAcquire(p)
    \/ op = "push" /\ DoPush(p)
    \/ op = "flush" /\ DoFlush(p)

GpuNext ==
  \/ \E r \in Ranks : Launch(r) \/ ProxyCopy(r) \/ ProxySignal(r)
  \/ \E p \in DOMAIN pc : ThreadStep(p)

GpuSpec == GpuInit /\ [][GpuNext]_gpuVars
-----------------------------------------------------------------------------
\* While a rank has returned from a launch, and has not begun the next, its output is
\* that of its launch on every rank: the collective is complete, and no peer that lags
\* behind or has gone ahead writes to the result any more.
ResultOnReturn ==
  \A r \in Ranks : launch[r] > 0 /\ Returned(r) =>
    \A a \in DOMAIN Kernel(r).result : a[1] = r =>
      Cell(a).val = {Append(x, launch[r]) : x \in Kernel(r).result[a]}

AllReturned == \A r \in Ranks : launch[r] = Len(Kernels) /\ Returned(r)

\* No thread can take a step.
Stuck ==
  \A p \in DOMAIN pc : Done(p) \/ LET op == Instr(p).op IN
    \/ op = "wait" /\ ~BagIn(Instr(p).chan, tokens)
    \/ op \in {"ldpkt", "redpkt"} /\ ~PacketReady(p)
    \/ op = "bar" /\ Cardinality(SameBarrier(p)) # Instr(p).n
    \/ op = "sync" /\ ~SyncReached(p)
    \/ op = "acquire" /\ SemValue(p[1], Instr(p).id) <= 0
    \/ op = "flush" /\ ~FlushReady(p)

\* No launch hangs: as long as one is left some thread can go on.  Programs have no
\* loops, so that every launch ends.
NeverStuck ==
  Stuck => AllReturned \/ \E r \in Ranks : fifo[r] # <<>> \/ (Returned(r) /\ launch[r] < Len(Kernels))

\* What a launch leaves is ready for the next one.  When all launches are over, every
\* signal was waited for, so the next call finds its channels as the first one did.  And
\* between launches all flags of a rank are the same, and the same as those of every
\* rank that has made as many launches, whatever grid the kernels had: a block that was
\* not part of the last launch still uses the flag its peers expect.
ReadyForNextLaunch ==
  /\ AllReturned => tokens = EmptyBag
  /\ \A x, y \in DOMAIN flags :
       launch[x[1]] = launch[y[1]] /\ Returned(x[1]) /\ Returned(y[1]) => flags[x] = flags[y]
=============================================================================
