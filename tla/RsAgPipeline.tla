---------------------------- MODULE RsAgPipeline ----------------------------
(***************************************************************************)
(* The pipelined reduce-scatter + all-gather allreduce                     *)
(* (src/ext/collectives/allreduce/allreduce_rsag_pipeline.cu): on every    *)
(* rank a PUT block, its REDUCE_COPY_RATIO REDUCE blocks and its RECV block*)
(* share a circular scratch buffer that the peers write.  A buffer cell    *)
(* holds the number of the iteration whose data it carries.  Each device   *)
(* semaphore has a single acquiring thread, for which acquire() is a wait  *)
(* for a positive value and a decrement.                                   *)
(***************************************************************************)
EXTENDS Integers

CONSTANTS PipelineRanks,    \* the ranks of the allreduce
          Reducers,         \* the REDUCE blocks of a PUT block
          PipelineDepth,    \* stages of the scratch buffer
          NIters,           \* iterations of a kernel
          PipelineLaunches  \* bound on the launches of the kernel

ASSUME PipelineAssumption ==
  /\ PipelineDepth \in Nat \ {0}   \* assert(pipelineDepth >= 1)
  /\ NIters \in Nat \ {0}
  /\ PipelineLaunches \in Nat \ {0}
  /\ Reducers # {}                 \* REDUCE_COPY_RATIO
  /\ "put" \notin Reducers /\ "recv" \notin Reducers

VARIABLES
  launched, \* launches of the kernel each rank has started
  blockPc,  \* control point of each block
  iter,     \* the local iter of each block
  semaphoreForSend, semaphoreForReduce, semaphoreForRecv,
  signaled, \* signals each block has sent to its counterparts on the peers
  scatter,  \* scatter[r][slot][p][s]: what p wrote to r's scratch for REDUCE block s
  gather    \* gather[r][slot][p][s]: what REDUCE block s of p wrote to r's scratch

pipelineVars == <<launched, blockPc, iter, semaphoreForSend, semaphoreForReduce, semaphoreForRecv,
                  signaled, scatter, gather>>

BlockRoles == {"put", "recv"} \cup Reducers

Slots == 0 .. PipelineDepth - 1

Empty == [r \in PipelineRanks |-> [i \in Slots |-> [p \in PipelineRanks |-> [s \in Reducers |-> 0]]]]

PipelineInit ==
  /\ launched = [r \in PipelineRanks |-> 0]
  /\ blockPc = [r \in PipelineRanks |-> [b \in BlockRoles |-> "done"]]
  /\ iter = [r \in PipelineRanks |-> [b \in BlockRoles |-> 0]]
  /\ semaphoreForSend = [r \in PipelineRanks |-> 0]
  /\ semaphoreForReduce = [r \in PipelineRanks |-> [s \in Reducers |-> 0]]
  /\ semaphoreForRecv = [r \in PipelineRanks |-> [s \in Reducers |-> 0]]
  /\ signaled = [r \in PipelineRanks |-> [b \in BlockRoles |-> 0]]
  /\ scatter = Empty
  /\ gather = Empty

\* The iteration block b of rank r is in, over all launches, from 1.
Now(r, b) == (launched[r] - 1) * NIters + iter[r][b] + 1

Slot(r, b) == iter[r][b] % PipelineDepth

Goto(r, b, label) == blockPc' = [blockPc EXCEPT ![r][b] = label]

\* The end of the loop body.
NextIter(r, b) ==
  /\ iter' = [iter EXCEPT ![r][b] = @ + 1]
  /\ Goto(r, b, IF iter[r][b] + 1 < NIters THEN "acquire" ELSE "done")

\* Launches of a rank are ordered by its stream.
Launch(r) ==
  /\ launched[r] < PipelineLaunches
  /\ \A b \in BlockRoles : blockPc[r][b] = "done"
  /\ launched' = [launched EXCEPT ![r] = @ + 1]
  /\ blockPc' = [blockPc EXCEPT ![r] = [b \in BlockRoles |-> IF b = "put" THEN "set" ELSE "acquire"]]
  /\ iter' = [iter EXCEPT ![r] = [b \in BlockRoles |-> 0]]
  /\ UNCHANGED <<semaphoreForSend, semaphoreForReduce, semaphoreForRecv, signaled, scatter, gather>>

\* Mutant: one stage too many.
PutSetOneMore(r) ==
  /\ blockPc[r]["put"] = "set"
  /\ semaphoreForSend' = [semaphoreForSend EXCEPT ![r] = PipelineDepth + 1]
  /\ Goto(r, "put", "acquire")
  /\ UNCHANGED <<launched, iter, semaphoreForReduce, semaphoreForRecv, signaled, scatter, gather>>

PutSet(r) ==
  /\ blockPc[r]["put"] = "set"
  /\ semaphoreForSend' = [semaphoreForSend EXCEPT ![r] = PipelineDepth]
  /\ Goto(r, "put", "acquire")
  /\ UNCHANGED <<launched, iter, semaphoreForReduce, semaphoreForRecv, signaled, scatter, gather>>

PutAcquire(r) ==
  /\ blockPc[r]["put"] = "acquire"
  /\ semaphoreForSend[r] > 0
  /\ semaphoreForSend' = [semaphoreForSend EXCEPT ![r] = @ - 1]
  /\ Goto(r, "put", "write")
  /\ UNCHANGED <<launched, iter, semaphoreForReduce, semaphoreForRecv, signaled, scatter, gather>>

\* Write the chunk of each peer to the slot of rank r in its scratch buffer.
PutWrite(r) ==
  /\ blockPc[r]["put"] = "write"
  /\ scatter' = [q \in PipelineRanks |-> IF q = r THEN scatter[q] ELSE
                   [scatter[q] EXCEPT ![Slot(r, "put")][r] = [s \in Reducers |-> Now(r, "put")]]]
  /\ Goto(r, "put", "release")
  /\ UNCHANGED <<launched, iter, semaphoreForSend, semaphoreForReduce, semaphoreForRecv, signaled, gather>>

PutRelease(r) ==
  /\ blockPc[r]["put"] = "release"
  /\ semaphoreForReduce' = [semaphoreForReduce EXCEPT ![r] = [s \in Reducers |-> @[s] + 1]]
  /\ NextIter(r, "put")
  /\ UNCHANGED <<launched, semaphoreForSend, semaphoreForRecv, signaled, scatter, gather>>

ReduceAcquire(r, s) ==
  /\ blockPc[r][s] = "acquire"
  /\ semaphoreForReduce[r][s] > 0
  /\ semaphoreForReduce' = [semaphoreForReduce EXCEPT ![r][s] = @ - 1]
  /\ Goto(r, s, "signal")
  /\ UNCHANGED <<launched, iter, semaphoreForSend, semaphoreForRecv, signaled, scatter, gather>>

RecvAcquire(r) ==
  /\ blockPc[r]["recv"] = "acquire"
  /\ \A s \in Reducers : semaphoreForRecv[r][s] > 0
  /\ semaphoreForRecv' = [semaphoreForRecv EXCEPT ![r] = [s \in Reducers |-> @[s] - 1]]
  /\ Goto(r, "recv", "signal")
  /\ UNCHANGED <<launched, iter, semaphoreForSend, semaphoreForReduce, signaled, scatter, gather>>

\* REDUCE and RECV blocks: signal() to the counterpart on every peer ...
Signal(r, b) ==
  /\ blockPc[r][b] = "signal"
  /\ signaled' = [signaled EXCEPT ![r][b] = @ + 1]
  /\ Goto(r, b, "wait")
  /\ UNCHANGED <<launched, iter, semaphoreForSend, semaphoreForReduce, semaphoreForRecv, scatter, gather>>

\* ... and wait() for the signal of every peer; the expected value counts the waits.
Wait(r, b) ==
  /\ blockPc[r][b] = "wait"
  /\ \A p \in PipelineRanks \ {r} : signaled[p][b] >= Now(r, b)
  /\ Goto(r, b, "work")
  /\ UNCHANGED <<launched, iter, semaphoreForSend, semaphoreForReduce, semaphoreForRecv, signaled, scatter, gather>>

\* Reduce the chunks in the scratch buffer, broadcast the result to the peers.
ReduceWrite(r, s) ==
  /\ blockPc[r][s] = "work"
  /\ gather' = [q \in PipelineRanks |-> IF q = r THEN gather[q]
                  ELSE [gather[q] EXCEPT ![Slot(r, s)][r][s] = Now(r, s)]]
  /\ Goto(r, s, "release")
  /\ UNCHANGED <<launched, iter, semaphoreForSend, semaphoreForReduce, semaphoreForRecv, signaled, scatter>>

ReduceRelease(r, s) ==
  /\ blockPc[r][s] = "release"
  /\ semaphoreForRecv' = [semaphoreForRecv EXCEPT ![r][s] = @ + 1]
  /\ NextIter(r, s)
  /\ UNCHANGED <<launched, semaphoreForSend, semaphoreForReduce, signaled, scatter, gather>>

\* The copy of the reduced chunks ends, the stage is free again.
RecvRelease(r) ==
  /\ blockPc[r]["recv"] = "work"
  /\ semaphoreForSend' = [semaphoreForSend EXCEPT ![r] = @ + 1]
  /\ NextIter(r, "recv")
  /\ UNCHANGED <<launched, semaphoreForReduce, semaphoreForRecv, signaled, scatter, gather>>

RankStep(r) ==
  \/ Launch(r) \/ PutSet(r) \/ PutAcquire(r) \/ PutWrite(r) \/ PutRelease(r)
  \/ RecvAcquire(r) \/ RecvRelease(r)
  \/ \E s \in Reducers : ReduceAcquire(r, s) \/ ReduceWrite(r, s) \/ ReduceRelease(r, s)
  \/ \E b \in Reducers \cup {"recv"} : Signal(r, b) \/ Wait(r, b)

PipelineNext == \E r \in PipelineRanks : RankStep(r)

PipelineSpec == PipelineInit /\ [][PipelineNext]_pipelineVars

\* The blocks of the kernel are co-resident.
PipelineFairSpec == PipelineSpec /\ WF_pipelineVars(PipelineNext)
-----------------------------------------------------------------------------

\* While a REDUCE block reads its part of the scratch buffer, every cell holds the
\* data of its own iteration: no peer's PUT has fallen behind or run ahead into it.
ReduceReadsOwnIteration ==
  \A r \in PipelineRanks, s \in Reducers : blockPc[r][s] = "work" =>
     \A p \in PipelineRanks \ {r} : scatter[r][Slot(r, s)][p][s] = Now(r, s)

\* While a RECV block copies the reduced chunks, every cell holds the result of its
\* own iteration, also when peers are already in the next launch of the kernel.
RecvReadsOwnIteration ==
  \A r \in PipelineRanks : blockPc[r]["recv"] = "work" =>
     \A p \in PipelineRanks \ {r}, s \in Reducers : gather[r][Slot(r, "recv")][p][s] = Now(r, "recv")

\* Both: no peer overwrites a stage that is read, or falls behind it, in any launch.
ReadsOwnIteration == ReduceReadsOwnIteration /\ RecvReadsOwnIteration

PipelineDone == \A r \in PipelineRanks : launched[r] = PipelineLaunches /\ \A b \in BlockRoles : blockPc[r][b] = "done"
=============================================================================
