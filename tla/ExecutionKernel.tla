-------------------------- MODULE ExecutionKernel --------------------------
(***************************************************************************)
(* The kernel of the executor (src/core/include/execution_kernel.hpp): the *)
(* thread blocks run the operations of a plan, among them the barrier of a *)
(* DeviceSyncer and the acquire and release of a DeviceSemaphore.  Both    *)
(* keep their state from one launch to the next.                           *)
(***************************************************************************)
EXTENDS DeviceSyncer, Sequences

CONSTANTS Plan,      \* the operations of a thread block
          Capacity,  \* the initial value of the semaphore
          MaxLaunch  \* bound on the launches

ASSUME KernelAssumption ==
  /\ Plan \in Seq({"barrier", "sem_acquire", "sem_release"})
  /\ Capacity \in Nat \ {0}
  /\ MaxLaunch \in Nat

\* held[i] says whether a block holds the semaphore when it comes to operation i: it
\* acquires and releases in turn, and the plan leaves nothing acquired.
Pairs(held) ==
  /\ ~held[1] /\ ~held[Len(Plan) + 1]
  /\ \A i \in 1 .. Len(Plan) :
       CASE Plan[i] = "sem_acquire" -> ~held[i] /\ held[i + 1]
         [] Plan[i] = "sem_release" -> held[i] /\ ~held[i + 1]
         [] OTHER -> held[i + 1] = held[i]

ASSUME PlanAssumption == \E held \in [1 .. Len(Plan) + 1 -> BOOLEAN] : Pairs(held)

VARIABLES
  semaphore, semPc, oldVal,  \* of the DeviceSemaphore
  launch,                    \* launches so far
  opId                       \* the operation each block is at

Sem == INSTANCE DeviceSemaphore WITH pc <- semPc

semVars == <<semaphore, semPc, oldVal>>
kernelVars == <<vars, semVars, launch, opId>>

Done(b) == opId[b] > Len(Plan)

\* The global syncer is zero, setupSemaphores() copies the initial values.
KernelInit ==
  /\ Init /\ Sem!Init
  /\ launch = 0
  /\ opId = [b \in Blocks |-> Len(Plan) + 1]

\* Launches are ordered by the stream.
LaunchKernel ==
  /\ launch < MaxLaunch /\ \A b \in Blocks : Done(b)
  /\ launch' = launch + 1
  /\ opId' = [b \in Blocks |-> 1]
  /\ UNCHANGED <<vars, semVars>>

\* The loop of executionKernel() dispatches on the type of the operation ...
At(b, opType) == ~Done(b) /\ Plan[opId[b]] = opType

\* ... and goes on to the next one.
NextOp(b) == opId' = [opId EXCEPT ![b] = @ + 1]

HandleBarrier(b) ==
  /\ At(b, "barrier")
  /\ \/ (Enter(b) \/ ClearNext(b) \/ Add(b) \/ Spin(b)) /\ UNCHANGED opId
     \/ Leave(b) /\ NextOp(b)
  /\ UNCHANGED <<semVars, launch>>

HandleSemAcquire(b) ==
  /\ At(b, "sem_acquire")
  /\ Sem!Acquire(b) \/ Sem!Spin(b)
  /\ IF semPc'[b] = "hold" THEN NextOp(b) ELSE UNCHANGED opId
  /\ UNCHANGED <<vars, launch>>

HandleSemRelease(b) ==
  /\ At(b, "sem_release")
  /\ Sem!Release(b)
  /\ NextOp(b)
  /\ UNCHANGED <<vars, launch>>

BlockStep(b) == HandleBarrier(b) \/ HandleSemAcquire(b) \/ HandleSemRelease(b)

KernelNext == LaunchKernel \/ \E b \in Blocks : BlockStep(b)

KernelSpec == KernelInit /\ [][KernelNext]_kernelVars

\* The kernel is launched, and its blocks are co-resident.
KernelFairSpec ==
  /\ KernelSpec
  /\ WF_kernelVars(LaunchKernel)
  /\ \A b \in Blocks : WF_kernelVars(BlockStep(b))
-----------------------------------------------------------------------------

\* At most as many blocks as the initial value are between sem_acquire and sem_release,
\* although a waiter may be overtaken and acquire() may slip in before it polls.  And
\* every launch starts from the initial value: no acquire() that had to spin, and no
\* release() that let it go on, is counted twice.
SemaphoreExact ==
  /\ Sem!HoldersBounded
  /\ (\A b \in Blocks : Done(b)) => semaphore = Capacity

AllDone == launch = MaxLaunch /\ \A b \in Blocks : Done(b)
=============================================================================
