---------------------------- MODULE DeviceSyncer ----------------------------
(***************************************************************************)
(* DeviceSyncer (include/mscclpp/concurrency_device.hpp): the barrier of   *)
(* the thread blocks of a kernel.  A block is represented by its thread 0, *)
(* which alone touches the shared words; each access is a step of its own. *)
(***************************************************************************)
EXTENDS Integers, FiniteSets

CONSTANTS Blocks,     \* the blocks that synchronize
          MaxRounds   \* bound on the number of calls of sync() by a block

ASSUME SyncerAssumption ==
  /\ IsFiniteSet(Blocks)
  /\ Cardinality(Blocks) > 1   \* with one block sync() returns at once
  /\ MaxRounds \in Nat

VARIABLES
  count,            \* count_
  currentCountIdx,  \* currentCountIdx_
  pc,               \* control point of each block
  countIdx,         \* the local countIdx of each block
  round             \* number of calls of sync() each block has completed

vars == <<count, currentCountIdx, pc, countIdx, round>>

\* Mutant: two counters that alternate.
TwoCounters == 2

NumCounters == 3

Init ==
  /\ count = [i \in 0 .. NumCounters - 1 |-> 0]
  /\ currentCountIdx = 0
  /\ pc = [b \in Blocks |-> "out"]
  /\ countIdx = [b \in Blocks |-> 0]
  /\ round = [b \in Blocks |-> 0]

\* sync(): pick the counter of this round.
Enter(b) ==
  /\ pc[b] = "out"
  /\ round[b] < MaxRounds
  /\ countIdx' = [countIdx EXCEPT ![b] = (currentCountIdx + 1) % NumCounters]
  /\ pc' = [pc EXCEPT ![b] = "clear"]
  /\ UNCHANGED <<count, currentCountIdx, round>>

\* Clear the counter of the next round.
ClearNext(b) ==
  /\ pc[b] = "clear"
  /\ count' = [count EXCEPT ![(countIdx[b] + 1) % NumCounters] = 0]
  /\ pc' = [pc EXCEPT ![b] = "add"]
  /\ UNCHANGED <<currentCountIdx, countIdx, round>>

Add(b) ==
  /\ pc[b] = "add"
  /\ count' = [count EXCEPT ![countIdx[b]] = @ + 1]
  /\ pc' = [pc EXCEPT ![b] = "spin"]
  /\ UNCHANGED <<currentCountIdx, countIdx, round>>

\* Mutant: the block does not count itself among those it waits for.
SpinForOthers(b) ==
  /\ pc[b] = "spin"
  /\ count[countIdx[b]] >= Cardinality(Blocks) - 1
  /\ pc' = [pc EXCEPT ![b] = "leave"]
  /\ UNCHANGED <<count, currentCountIdx, countIdx, round>>

\* The load that ends the spin.
Spin(b) ==
  /\ pc[b] = "spin"
  /\ count[countIdx[b]] = Cardinality(Blocks)
  /\ pc' = [pc EXCEPT ![b] = "leave"]
  /\ UNCHANGED <<count, currentCountIdx, countIdx, round>>

Leave(b) ==
  /\ pc[b] = "leave"
  /\ currentCountIdx' = countIdx[b]
  /\ round' = [round EXCEPT ![b] = @ + 1]
  /\ pc' = [pc EXCEPT ![b] = "out"]
  /\ UNCHANGED <<count, countIdx>>

Step(b) == Enter(b) \/ ClearNext(b) \/ Add(b) \/ Spin(b) \/ Leave(b)

Next == \E b \in Blocks : Step(b)

Spec == Init /\ [][Next]_vars
-----------------------------------------------------------------------------

\* count_, currentCountIdx_ and the locals of sync() keep their types.
TypeOK ==
  /\ count \in [0 .. NumCounters - 1 -> Nat]
  /\ currentCountIdx \in 0 .. NumCounters - 1
  /\ pc \in [Blocks -> {"out", "clear", "add", "spin", "leave"}]
  /\ countIdx \in [Blocks -> 0 .. NumCounters - 1]
  /\ round \in [Blocks -> Nat]

\* The number of rounds block b has reached.
Arrived(b) == IF pc[b] \in {"spin", "leave"} THEN round[b] + 1 ELSE round[b]

\* No block returns from its n-th sync() before every block has arrived at its n-th
\* sync(), although blocks run ahead into the next round while others still spin.
BarrierSafe == \A a, b \in Blocks : round[a] <= Arrived(b)
=============================================================================
