--------------------------- MODULE DeviceSemaphore ---------------------------
(***************************************************************************)
(* DeviceSemaphore (include/mscclpp/concurrency_device.hpp): a counting    *)
(* semaphore that the blocks of a kernel acquire and release.              *)
(***************************************************************************)
EXTENDS Integers, FiniteSets

CONSTANTS Blocks,
          Capacity   \* the value passed to the constructor

VARIABLES
  semaphore,  \* semaphore_
  pc,         \* control point of each block
  oldVal      \* the local oldVal of acquire()

vars == <<semaphore, pc, oldVal>>

Init ==
  /\ semaphore = Capacity
  /\ pc = [b \in Blocks |-> "idle"]
  /\ oldVal = [b \in Blocks |-> 0]

Acquire(b) ==
  /\ pc[b] = "idle"
  /\ oldVal' = [oldVal EXCEPT ![b] = semaphore]
  /\ semaphore' = semaphore - 1
  /\ pc' = [pc EXCEPT ![b] = IF semaphore <= 0 THEN "spin" ELSE "hold"]

\* Mutant: a waiting block decrements again when it stops spinning.
SpinDecrements(b) ==
  /\ pc[b] = "spin"
  /\ semaphore >= oldVal[b]
  /\ semaphore' = semaphore - 1
  /\ pc' = [pc EXCEPT ![b] = "hold"]
  /\ UNCHANGED oldVal

\* The load that ends the spin.
Spin(b) ==
  /\ pc[b] = "spin"
  /\ semaphore >= oldVal[b]
  /\ pc' = [pc EXCEPT ![b] = "hold"]
  /\ UNCHANGED <<semaphore, oldVal>>

Release(b) ==
  /\ pc[b] = "hold"
  /\ semaphore' = semaphore + 1
  /\ pc' = [pc EXCEPT ![b] = "idle"]
  /\ UNCHANGED oldVal

Next == \E b \in Blocks : Acquire(b) \/ Spin(b) \/ Release(b)

Spec == Init /\ [][Next]_vars

\* A holder releases and a spinning block keeps polling; nobody must acquire.
FairSpec == Spec /\ \A b \in Blocks : WF_vars(Spin(b)) /\ WF_vars(Release(b))
-----------------------------------------------------------------------------

Holders == {b \in Blocks : pc[b] = "hold"}

\* At most as many blocks as the initial value hold the semaphore at once, also when
\* a waiter overtakes another or an acquire() slips in between release() and the poll.
HoldersBounded == Cardinality(Holders) <= Capacity

\* A block that waits in acquire() gets the semaphore, provided holders release it.
AcquireReturns == \A b \in Blocks : (pc[b] = "spin") ~> (pc[b] = "hold")
=============================================================================
