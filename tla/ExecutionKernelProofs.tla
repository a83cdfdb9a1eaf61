----------------------- MODULE ExecutionKernelProofs ------------------------
(***************************************************************************)
(* The barrier of DeviceSyncer is safe, and the DeviceSemaphore exact, for *)
(* every number of blocks, of rounds and of launches, alone and in the     *)
(* kernel of the executor.                                                 *)
(***************************************************************************)
EXTENDS ExecutionKernel, FiniteSetTheorems, TLAPS

(***************************************************************************)
(* The barrier.                                                            *)
(***************************************************************************)

\* The blocks that have reached round k.
Reached(k) == {c \in Blocks : Arrived(c) >= k}

\* The counter of round k holds the number of blocks that have reached it.
Counts(k) == count[k % NumCounters] = Cardinality(Reached(k))

\* Block b relies on the counter of its round until it leaves, and on the counter of
\* the following round once it has cleared it.
Relies(b, k) ==
  \/ pc[b] # "leave" /\ k = round[b] + 1
  \/ pc[b] \in {"add", "spin", "leave"} /\ k = round[b] + 2

CountsOK(b) == \A k \in Nat : Relies(b, k) => Counts(k)

IndexOK(b) ==
  /\ pc[b] = "out" => currentCountIdx = round[b] % NumCounters
  /\ pc[b] # "out" => countIdx[b] = (round[b] + 1) % NumCounters

LeaveOK(b) == pc[b] = "leave" => \A c \in Blocks : Arrived(c) >= round[b] + 1

IInv ==
  /\ TypeOK
  /\ BarrierSafe
  /\ \A b \in Blocks : CountsOK(b) /\ IndexOK(b) /\ LeaveOK(b)
-----------------------------------------------------------------------------

\* The variables of sync() keep their types.
LEMMA TypeStep == TypeOK /\ [Next]_vars => TypeOK'
<1> SUFFICES ASSUME TypeOK, [Next]_vars PROVE TypeOK'
  OBVIOUS
<1> USE DEF TypeOK, NumCounters
<1>1. ASSUME NEW b \in Blocks, Enter(b) PROVE TypeOK'
  BY <1>1 DEF Enter
<1>2. ASSUME NEW b \in Blocks, ClearNext(b) PROVE TypeOK'
  BY <1>2 DEF ClearNext
<1>3. ASSUME NEW b \in Blocks, Add(b) PROVE TypeOK'
  BY <1>3 DEF Add
<1>4. ASSUME NEW b \in Blocks, Spin(b) PROVE TypeOK'
  BY <1>4 DEF Spin
<1>5. ASSUME NEW b \in Blocks, Leave(b) PROVE TypeOK'
  BY <1>5 DEF Leave
<1>6. CASE UNCHANGED vars
  BY <1>6 DEF vars
<1>. QED
  BY <1>1, <1>2, <1>3, <1>4, <1>5, <1>6 DEF Next, Step

\* A block is in its next round or has just reached it, and no two blocks are
\* further apart than that.
LEMMA Close ==
  ASSUME IInv, NEW a \in Blocks, NEW b \in Blocks
  PROVE  /\ round[a] \in Nat /\ Arrived(a) \in Nat
         /\ Arrived(a) = round[a] \/ Arrived(a) = round[a] + 1
         /\ round[a] <= Arrived(b)
BY DEF IInv, TypeOK, BarrierSafe, Arrived

\* Steps that change neither the counters nor the round a block has reached leave
\* what the counters count unchanged.
LEMMA CountsFrame ==
  ASSUME count' = count, \A c \in Blocks : Arrived(c)' = Arrived(c), NEW k \in Nat
  PROVE  Counts(k)' <=> Counts(k)
<1>1. Reached(k)' = Reached(k)
  BY DEF Reached
<1>. QED
  BY <1>1 DEF Counts

\* A block that clears the counter of the next round disturbs no block: nobody
\* has reached that round yet, and nobody spins on that counter any more.
LEMMA ClearStep ==
  ASSUME IInv, NEW a \in Blocks, ClearNext(a), NEW b \in Blocks
  PROVE  CountsOK(b)'
<1> USE DEF NumCounters
<1>0. TypeOK /\ IndexOK(a) /\ CountsOK(b) /\ pc[a] = "clear"
  BY DEF IInv, ClearNext
<1>1. \A c \in Blocks : Arrived(c)' = Arrived(c)
  BY <1>0 DEF TypeOK, ClearNext, Arrived
<1>2. \A k \in Nat : Reached(k)' = Reached(k)
  BY <1>1 DEF Reached
<1>3. countIdx[a] = (round[a] + 1) % 3 /\ round[a] \in Nat /\ Arrived(a) = round[a]
  BY <1>0 DEF IndexOK, TypeOK, Arrived
<1>4. (countIdx[a] + 1) % 3 = (round[a] + 2) % 3
  BY <1>3
<1>5. \A k \in Nat : count'[k % 3] = IF k % 3 = (round[a] + 2) % 3 THEN 0 ELSE count[k % 3]
  BY <1>0, <1>4 DEF TypeOK, ClearNext
<1>6. round'[b] = round[b] /\ pc'[b] = (IF b = a THEN "add" ELSE pc[b])
  BY <1>0 DEF TypeOK, ClearNext
<1>7. /\ round[b] \in Nat /\ round[b] <= round[a] /\ round[a] <= Arrived(b)
      /\ Arrived(b) = round[b] \/ Arrived(b) = round[b] + 1
  BY <1>3, Close
<1>8. ASSUME NEW k \in Nat, Relies(b, k)' PROVE Counts(k)'
  <2>1. k = round[b] + 1 \/ k = round[b] + 2
    BY <1>6, <1>8 DEF Relies
  <2>2. CASE k = round[a] + 2
    <3>1. \A c \in Blocks : Arrived(c) \in Nat /\ ~(Arrived(c) >= k)
      BY <2>2, <1>3, Close
    <3>2. Reached(k)' = {}
      BY <3>1, <1>2 DEF Reached
    <3>. QED
      BY <3>2, <2>2, <1>3, <1>5, FS_EmptySet DEF Counts
  <2>3. CASE k # round[a] + 2
    <3>1. k % 3 # (round[a] + 2) % 3
      BY <2>1, <2>3, <1>3, <1>7
    <3>2. Relies(b, k)
      BY <2>1, <2>3, <1>6, <1>8, <1>0 DEF Relies
    <3>. QED
      BY <3>1, <3>2, <1>0, <1>2, <1>5 DEF CountsOK, Counts
  <2>. QED
    BY <2>2, <2>3
<1>. QED
  BY <1>8 DEF CountsOK

\* An arrival is counted in the counter of its round, and every other block relies
\* on that counter for the same round or not at all.
LEMMA AddStep ==
  ASSUME IInv, NEW a \in Blocks, Add(a), NEW b \in Blocks
  PROVE  CountsOK(b)'
<1> USE DEF NumCounters
<1>0. TypeOK /\ IndexOK(a) /\ CountsOK(a) /\ CountsOK(b) /\ pc[a] = "add"
  BY DEF IInv, Add
<1> DEFINE r == round[a] + 1
<1>1. countIdx[a] = r % 3 /\ round[a] \in Nat /\ Arrived(a) = round[a] /\ r \in Nat
  BY <1>0 DEF IndexOK, TypeOK, Arrived
<1>2. Arrived(a)' = r /\ \A c \in Blocks \ {a} : Arrived(c)' = Arrived(c)
  BY <1>0 DEF TypeOK, Add, Arrived
<1>3. \A k \in Nat : count'[k % 3] = IF k % 3 = r % 3 THEN count[k % 3] + 1 ELSE count[k % 3]
  BY <1>0, <1>1 DEF TypeOK, Add
<1>4. round'[b] = round[b] /\ pc'[b] = (IF b = a THEN "spin" ELSE pc[b])
  BY <1>0 DEF TypeOK, Add
<1>5. /\ round[b] \in Nat /\ round[b] <= round[a] /\ round[a] <= Arrived(b)
      /\ Arrived(b) = round[b] \/ Arrived(b) = round[b] + 1
  BY <1>1, Close
<1>6. \A c \in Blocks : Arrived(c) \in Nat
  BY Close
<1> HIDE DEF r
<1>7. ASSUME NEW k \in Nat, Relies(b, k)' PROVE Counts(k)'
  <2>1. k = round[b] + 1 \/ k = round[b] + 2
    BY <1>4, <1>7 DEF Relies
  <2>2. Counts(k)
    BY <1>0, <1>4, <1>7 DEF CountsOK, Relies
  <2>3. CASE k = r
    <3>1. Reached(k)' = Reached(k) \cup {a} /\ a \notin Reached(k)
      BY <2>3, <1>1, <1>2, <1>6 DEF Reached, r
    <3>2. IsFiniteSet(Reached(k))
      BY SyncerAssumption, FS_Subset DEF Reached
    <3>. QED
      BY <3>1, <3>2, <2>2, <2>3, <1>3, FS_AddElement, ZenonT(30) DEF Counts
  <2>4. CASE k # r
    <3>1. k % 3 # r % 3
      BY <2>1, <2>4, <1>1, <1>5 DEF r
    <3>2. Reached(k)' = Reached(k)
      BY <2>4, <1>1, <1>2, <1>6 DEF Reached, r
    <3>. QED
      BY <3>1, <3>2, <2>2, <1>3 DEF Counts
  <2>. QED
    BY <2>3, <2>4
<1>. QED
  BY <1>7 DEF CountsOK

\* The steps of sync() that touch no counter keep what the counters count.
LEMMA QuietStep ==
  ASSUME IInv, NEW a \in Blocks, Enter(a) \/ Spin(a) \/ Leave(a), NEW b \in Blocks
  PROVE  CountsOK(b)'
<1>0. TypeOK /\ CountsOK(b) /\ count' = count
  BY DEF IInv, Enter, Spin, Leave
<1>1. \A c \in Blocks : Arrived(c)' = Arrived(c)
  BY <1>0, SMTT(30) DEF TypeOK, Enter, Spin, Leave, Arrived
<1>2. ASSUME NEW k \in Nat, Relies(b, k)' PROVE Relies(b, k)
  BY <1>0, <1>2, SMTT(30) DEF TypeOK, Enter, Spin, Leave, Relies
<1>. QED
  BY <1>0, <1>1, <1>2, CountsFrame DEF CountsOK

\* The full counter that ends the spin of a block shows that all blocks arrived.
LEMMA SpinSeesAll ==
  ASSUME IInv, NEW a \in Blocks, Spin(a), NEW c \in Blocks
  PROVE  Arrived(c) >= round[a] + 1
<1> USE DEF NumCounters
<1>1. countIdx[a] = (round[a] + 1) % 3 /\ round[a] + 1 \in Nat /\ pc[a] = "spin"
  BY DEF IInv, TypeOK, IndexOK, Spin
<1>2. Counts(round[a] + 1)
  BY <1>1 DEF IInv, CountsOK, Relies
<1>3. Cardinality(Reached(round[a] + 1)) = Cardinality(Blocks)
  BY <1>1, <1>2 DEF Counts, Spin
<1>4. Reached(round[a] + 1) = Blocks
  <2>1. Reached(round[a] + 1) \in SUBSET Blocks
    BY DEF Reached
  <2>. QED
    BY <2>1, <1>3, SyncerAssumption, FS_Subset
<1>. QED
  BY <1>4 DEF Reached

\* No step lowers the round a block has reached.
LEMMA ArrivedGrows ==
  ASSUME TypeOK, NEW a \in Blocks, Step(a), NEW c \in Blocks
  PROVE  Arrived(c)' >= Arrived(c) /\ Arrived(c) \in Nat /\ Arrived(c)' \in Nat
BY DEF TypeOK, Step, Enter, ClearNext, Add, Spin, Leave, Arrived

\* A block leaves only when its spin has seen all blocks arrive.
LEMMA LeaveStep ==
  ASSUME IInv, NEW a \in Blocks, Step(a), NEW b \in Blocks
  PROVE  LeaveOK(b)'
<1>0. TypeOK /\ LeaveOK(b)
  BY DEF IInv
<1>1. ASSUME NEW c \in Blocks, pc'[b] = "leave" PROVE Arrived(c)' >= round'[b] + 1
  <2>1. round[b] \in Nat /\ round'[b] = round[b]
    BY <1>0, <1>1 DEF TypeOK, Step, Enter, ClearNext, Add, Spin, Leave
  <2>2. Arrived(c) >= round[b] + 1
    <3>1. CASE pc[b] = "leave"
      BY <3>1, <1>0 DEF LeaveOK
    <3>2. CASE pc[b] # "leave"
      <4>1. Spin(b)
        BY <3>2, <1>0, <1>1 DEF TypeOK, Step, Enter, ClearNext, Add, Spin, Leave
      <4>. QED
        BY <4>1, SpinSeesAll
    <3>. QED
      BY <3>1, <3>2
  <2>. QED
    BY <2>1, <2>2, <1>0, ArrivedGrows
<1>. QED
  BY <1>1 DEF LeaveOK

\* Only Leave completes a round, and it does so with all blocks arrived.
LEMMA BarrierStep ==
  ASSUME IInv, NEW a \in Blocks, Step(a)
  PROVE  BarrierSafe'
<1>0. TypeOK /\ LeaveOK(a)
  BY DEF IInv
<1>1. ASSUME NEW b \in Blocks, NEW c \in Blocks PROVE round'[b] <= Arrived(c)'
  <2>1. Arrived(c)' >= Arrived(c) /\ Arrived(c) \in Nat /\ Arrived(c)' \in Nat
    BY <1>0, ArrivedGrows
  <2>2. round[b] \in Nat /\ round[b] <= Arrived(c)
    BY <1>0 DEF TypeOK, IInv, BarrierSafe
  <2>3. round'[b] = round[b] \/ (b = a /\ pc[a] = "leave" /\ round'[b] = round[a] + 1)
    BY <1>0 DEF TypeOK, Step, Enter, ClearNext, Add, Spin, Leave
  <2>. QED
    BY <2>1, <2>2, <2>3, <1>0 DEF LeaveOK
<1>. QED
  BY <1>1 DEF BarrierSafe

\* The blocks that have not begun a round agree with currentCountIdx_ about it, also
\* when a slow block stores its index after they have left.
LEMMA IndexStep ==
  ASSUME IInv, NEW a \in Blocks, Step(a), NEW b \in Blocks
  PROVE  IndexOK(b)'
<1> USE DEF NumCounters
<1>0. TypeOK /\ IndexOK(a) /\ IndexOK(b) /\ LeaveOK(a)
  BY DEF IInv
<1>1. CASE Enter(a)
  <2>1. pc[a] = "out" /\ currentCountIdx = round[a] % 3 /\ round[a] \in Nat
    BY <1>0, <1>1 DEF TypeOK, IndexOK, Enter
  <2>2. (currentCountIdx + 1) % 3 = (round[a] + 1) % 3
    BY <2>1
  <2>. QED
    BY <2>2, <1>0, <1>1 DEF TypeOK, IndexOK, Enter
<1>2. CASE ClearNext(a) \/ Add(a) \/ Spin(a)
  BY <1>0, <1>2 DEF TypeOK, IndexOK, ClearNext, Add, Spin
<1>3. CASE Leave(a)
  <2>1. /\ pc[a] = "leave" /\ round[a] \in Nat /\ currentCountIdx' = (round[a] + 1) % 3
        /\ Arrived(a) = round[a] + 1
    BY <1>0, <1>3 DEF TypeOK, IndexOK, Leave, Arrived
  <2>2. CASE b = a
    BY <2>1, <2>2, <1>0, <1>3 DEF TypeOK, IndexOK, Leave
  <2>3. CASE b # a
    <3>1. pc'[b] = pc[b] /\ round'[b] = round[b] /\ countIdx' = countIdx
      BY <2>3, <1>0, <1>3 DEF TypeOK, Leave
    <3>2. CASE pc[b] = "out"
      <4>1. Arrived(b) = round[b] /\ round[b] \in Nat
        BY <3>2, <1>0 DEF TypeOK, Arrived
      <4>2. round[b] >= round[a] + 1 /\ round[b] <= round[a] + 1
        BY <4>1, <2>1, <1>0, Close DEF LeaveOK
      <4>3. round[b] = round[a] + 1
        BY <4>1, <4>2, <2>1
      <4>. QED
        BY <4>3, <3>1, <3>2, <2>1 DEF IndexOK
    <3>. QED
      BY <3>1, <3>2, <1>0 DEF IndexOK
  <2>. QED
    BY <2>2, <2>3
<1>. QED
  BY <1>1, <1>2, <1>3 DEF Step

\* The inductive invariant holds initially.
LEMMA InvInit == Init => IInv
<1> SUFFICES ASSUME Init PROVE IInv
  OBVIOUS
<1> USE DEF NumCounters
<1>1. TypeOK /\ BarrierSafe
  BY DEF Init, TypeOK, BarrierSafe, Arrived
<1>2. ASSUME NEW b \in Blocks PROVE CountsOK(b) /\ IndexOK(b) /\ LeaveOK(b)
  <2>1. \A k \in Nat : Relies(b, k) => k = 1
    BY DEF Init, Relies
  <2>2. Reached(1) = {}
    BY DEF Init, Reached, Arrived
  <2>3. Counts(1)
    BY <2>2, FS_EmptySet DEF Init, Counts
  <2>. QED
    BY <2>1, <2>3 DEF CountsOK, IndexOK, LeaveOK, Init
<1>. QED
  BY <1>1, <1>2 DEF IInv

\* Every step of a block preserves the inductive invariant.
LEMMA InvStep == IInv /\ [Next]_vars => IInv'
<1> SUFFICES ASSUME IInv, [Next]_vars PROVE IInv'
  OBVIOUS
<1>1. TypeOK'
  BY TypeStep DEF IInv
<1>2. ASSUME NEW a \in Blocks, Step(a) PROVE IInv'
  <2>1. ASSUME NEW b \in Blocks PROVE CountsOK(b)'
    BY <1>2, ClearStep, AddStep, QuietStep DEF Step
  <2>. QED
    BY <1>1, <1>2, <2>1, LeaveStep, BarrierStep, IndexStep DEF IInv
<1>3. CASE UNCHANGED vars
  <2>1. /\ count' = count /\ currentCountIdx' = currentCountIdx /\ pc' = pc
        /\ countIdx' = countIdx /\ round' = round
    BY <1>3 DEF vars
  <2>2. \A c \in Blocks : Arrived(c)' = Arrived(c)
    BY <2>1 DEF Arrived
  <2>3. \A b \in Blocks, k \in Nat : Relies(b, k)' <=> Relies(b, k)
    BY <2>1 DEF Relies
  <2>4. \A b \in Blocks : CountsOK(b)'
    BY <2>1, <2>2, <2>3, CountsFrame DEF IInv, CountsOK
  <2>5. BarrierSafe' /\ \A b \in Blocks : IndexOK(b)' /\ LeaveOK(b)'
    BY <2>1, <2>2 DEF IInv, BarrierSafe, IndexOK, LeaveOK
  <2>. QED
    BY <1>1, <2>4, <2>5 DEF IInv
<1>. QED
  BY <1>2, <1>3 DEF Next

\* For every number of blocks, no block returns from its n-th sync() before all
\* blocks have arrived at theirs.
THEOREM Barrier == Spec => []BarrierSafe
<1>1. IInv => BarrierSafe
  BY DEF IInv
<1>. QED
  BY InvInit, InvStep, <1>1, PTL DEF Spec

-----------------------------------------------------------------------------
(***************************************************************************)
(* The semaphore.                                                          *)
(***************************************************************************)

\* The blocks between the decrement of acquire() and the increment of release().
Busy == {b \in Blocks : semPc[b] # "idle"}

\* The blocks that spin until the semaphore is above k.
Above(k) == {b \in Blocks : semPc[b] = "spin" /\ oldVal[b] > k}

SemTypeOK ==
  /\ semaphore \in Int
  /\ semPc \in [Blocks -> {"idle", "spin", "hold"}]
  /\ oldVal \in [Blocks -> Int]

\* A value below zero is matched by blocks that are held back, at every level from the
\* present value on: a release() lets at most one block more through.
Queued == \A k \in Int : semaphore <= k /\ k <= 0 => Cardinality(Above(k)) >= -k

SemInv ==
  /\ SemTypeOK
  /\ semaphore = Capacity - Cardinality(Busy)
  /\ Queued

\* The sets of blocks are finite.
LEMMA FiniteBlocks ==
  ASSUME NEW S \in SUBSET Blocks
  PROVE  IsFiniteSet(S) /\ Cardinality(S) \in Nat
BY SyncerAssumption, FS_Subset, FS_CardinalityType

\* A subset of the blocks that are above a level is no larger.
LEMMA LargerSet ==
  ASSUME NEW S \in SUBSET Blocks, NEW T \in SUBSET Blocks, S \subseteq T
  PROVE  Cardinality(S) <= Cardinality(T)
BY FiniteBlocks, FS_Subset

\* acquire() decrements and, at zero or below, makes the block wait for the value it saw.
LEMMA AcquireStep ==
  ASSUME SemInv, NEW b \in Blocks, Sem!Acquire(b)
  PROVE  SemInv'
<1>0. SemTypeOK /\ semPc[b] = "idle" /\ semaphore \in Int /\ Capacity \in Nat
  BY KernelAssumption DEF SemInv, SemTypeOK, Sem!Acquire
<1>1. semaphore' = semaphore - 1
  BY DEF Sem!Acquire
<1>2. \A c \in Blocks \ {b} : semPc'[c] = semPc[c] /\ oldVal'[c] = oldVal[c]
  BY <1>0 DEF SemTypeOK, Sem!Acquire
<1>3. semPc'[b] = (IF semaphore <= 0 THEN "spin" ELSE "hold") /\ oldVal'[b] = semaphore
  BY <1>0 DEF SemTypeOK, Sem!Acquire
<1>4. SemTypeOK'
  BY <1>0, SMTT(30) DEF SemTypeOK, Sem!Acquire
<1>5. Busy' = Busy \cup {b} /\ b \notin Busy
  BY <1>0, <1>2, <1>3 DEF Busy
<1>6. Cardinality(Busy') = Cardinality(Busy) + 1
  BY <1>5, FiniteBlocks, FS_AddElement DEF Busy
<1>7. (semaphore = Capacity - Cardinality(Busy))'
  <2>1. Cardinality(Busy) \in Nat
    BY FiniteBlocks DEF Busy
  <2>. QED
    BY <2>1, <1>0, <1>1, <1>6 DEF SemInv
<1>8. ASSUME NEW k \in Int, semaphore' <= k, k <= 0
      PROVE  Cardinality(Above(k)') >= -k
  <2>0. /\ Above(k) \in SUBSET Blocks /\ Above(k)' \in SUBSET Blocks
        /\ Cardinality(Above(k)) \in Nat /\ Cardinality(Above(k)') \in Nat
        /\ Above(0) \in SUBSET Blocks
    BY FiniteBlocks DEF Above
  <2>1. Above(k) \subseteq Above(k)'
    BY <1>0, <1>2 DEF Above
  <2>2. CASE semaphore <= k
    BY <2>0, <2>1, <2>2, <1>8, LargerSet DEF SemInv, Queued
  <2>3. CASE semaphore > k /\ semaphore <= 0
    <3>1. k = semaphore - 1
      BY <2>3, <1>0, <1>1, <1>8
    <3>2. Cardinality(Above(semaphore)) >= -semaphore /\ Above(semaphore) \in SUBSET Blocks
      BY <2>3, <1>0 DEF SemInv, Queued, Above
    <3>3. Above(semaphore) \cup {b} \subseteq Above(k)' /\ b \notin Above(semaphore)
      BY <3>1, <2>3, <1>0, <1>2, <1>3 DEF Above, SemTypeOK
    <3>4. Cardinality(Above(semaphore) \cup {b}) = Cardinality(Above(semaphore)) + 1
      BY <3>2, <3>3, FiniteBlocks, FS_AddElement
    <3>5. Cardinality(Above(semaphore) \cup {b}) <= Cardinality(Above(k)')
      BY <3>2, <3>3, <2>0, LargerSet
    <3>. QED
      BY <3>1, <3>2, <3>4, <3>5, <2>0, <1>0, FiniteBlocks
  <2>4. CASE semaphore > 0
    BY <2>0, <2>4, <1>0, <1>1, <1>8
  <2>. QED
    BY <2>2, <2>3, <2>4, <1>0
<1>. QED
  BY <1>4, <1>7, <1>8 DEF SemInv, Queued

\* A block stops spinning only when the semaphore is at the value it saw: it was not
\* among those that are held back.
LEMMA SpinStep ==
  ASSUME SemInv, NEW b \in Blocks, Sem!Spin(b)
  PROVE  SemInv'
<1>0. SemTypeOK /\ semPc[b] = "spin" /\ semaphore >= oldVal[b] /\ semaphore' = semaphore /\ oldVal' = oldVal
  BY DEF SemInv, Sem!Spin
<1>1. \A c \in Blocks : semPc'[c] = IF c = b THEN "hold" ELSE semPc[c]
  BY <1>0 DEF SemTypeOK, Sem!Spin
<1>2. SemTypeOK'
  BY <1>0 DEF SemTypeOK, Sem!Spin
<1>3. Busy' = Busy
  BY <1>0, <1>1 DEF Busy
<1>4. ASSUME NEW k \in Int, semaphore <= k PROVE Above(k)' = Above(k)
  BY <1>0, <1>1, <1>4 DEF Above, SemTypeOK
<1>. QED
  BY <1>0, <1>2, <1>3, <1>4 DEF SemInv, Queued

\* release() only raises the level from which on blocks are held back.
LEMMA ReleaseStep ==
  ASSUME SemInv, NEW b \in Blocks, Sem!Release(b)
  PROVE  SemInv'
<1>0. /\ SemTypeOK /\ semPc[b] = "hold" /\ semaphore' = semaphore + 1 /\ oldVal' = oldVal
      /\ semaphore \in Int /\ Capacity \in Nat
  BY KernelAssumption DEF SemInv, SemTypeOK, Sem!Release
<1>1. \A c \in Blocks : semPc'[c] = IF c = b THEN "idle" ELSE semPc[c]
  BY <1>0 DEF SemTypeOK, Sem!Release
<1>2. SemTypeOK'
  BY <1>0 DEF SemTypeOK, Sem!Release
<1>3. Busy' = Busy \ {b} /\ b \in Busy
  BY <1>0, <1>1 DEF Busy
<1>4. Cardinality(Busy') = Cardinality(Busy) - 1 /\ Cardinality(Busy) \in Nat
  BY <1>3, FiniteBlocks, FS_RemoveElement, ZenonT(40) DEF Busy
<1>5. \A k \in Int : Above(k)' = Above(k)
  BY <1>0, <1>1 DEF Above
<1>. QED
  BY <1>0, <1>2, <1>4, <1>5 DEF SemInv, Queued

\* The invariant bounds the holders: they are busy and not held back.
LEMMA InvBoundsHolders == SemInv => Sem!HoldersBounded
<1> SUFFICES ASSUME SemInv PROVE Cardinality(Sem!Holders) <= Capacity
  BY DEF Sem!HoldersBounded, Sem!Cardinality, Cardinality
<1> DEFINE H == Sem!Holders
           A == Above(semaphore)
<1>1. H \in SUBSET Blocks /\ A \in SUBSET Blocks /\ Busy \in SUBSET Blocks
  BY DEF Sem!Holders, Above, Busy
<1>2. H \subseteq Busy /\ A \subseteq Busy /\ H \cap A = {}
  BY DEF Sem!Holders, Above, Busy
<1>3. semaphore \in Int /\ Capacity \in Nat /\ semaphore = Capacity - Cardinality(Busy)
  BY KernelAssumption DEF SemInv, SemTypeOK
<1>4. semaphore <= 0 => Cardinality(A) >= -semaphore
  BY <1>3 DEF SemInv, Queued
<1> HIDE DEF H, A
<1>5. Cardinality(H \cup A) = Cardinality(H) + Cardinality(A)
  <2>1. IsFiniteSet(H) /\ IsFiniteSet(A) /\ Cardinality(H) \in Nat /\ Cardinality(A) \in Nat
    BY <1>1, FiniteBlocks
  <2>2. Cardinality(H \cup A) = Cardinality(H) + Cardinality(A) - Cardinality(H \cap A)
    BY <2>1, FS_Union
  <2>3. Cardinality(H \cap A) = 0
    BY <1>2, FS_EmptySet
  <2>. QED
    BY <2>1, <2>2, <2>3
<1>6. Cardinality(H \cup A) <= Cardinality(Busy)
  BY <1>1, <1>2, LargerSet
<1>7. Cardinality(H) <= Capacity
  BY <1>1, <1>3, <1>4, <1>5, <1>6, FiniteBlocks
<1>. QED
  BY <1>7 DEF H

-----------------------------------------------------------------------------
(***************************************************************************)
(* The kernel.                                                             *)
(***************************************************************************)

\* Where a block holds the semaphore, along its plan.
Held == CHOOSE held \in [1 .. Len(Plan) + 1 -> BOOLEAN] : Pairs(held)

\* A block holds the semaphore where its plan says so, and waits only at an acquire.
Follows(b) ==
  /\ opId[b] \in 1 .. Len(Plan) + 1
  /\ semPc[b] = "hold" <=> Held[opId[b]]
  /\ semPc[b] = "spin" => At(b, "sem_acquire")

PlanInv ==
  /\ SemInv
  /\ opId \in [Blocks -> 1 .. Len(Plan) + 1]
  /\ \A b \in Blocks : Follows(b)

\* The choice is one that pairs the operations.
LEMMA HeldPairs == Held \in [1 .. Len(Plan) + 1 -> BOOLEAN] /\ Pairs(Held) /\ Len(Plan) \in Nat
<1>1. Len(Plan) \in Nat
  BY KernelAssumption
<1>2. Held \in [1 .. Len(Plan) + 1 -> BOOLEAN] /\ Pairs(Held)
  BY PlanAssumption DEF Held
<1>. QED
  BY <1>1, <1>2

\* The kernel starts with a free semaphore and with the plan of no launch to run.
LEMMA PlanInvInit == KernelInit => PlanInv
<1> SUFFICES ASSUME KernelInit PROVE PlanInv
  OBVIOUS
<1>1. SemTypeOK
  BY KernelAssumption DEF KernelInit, Sem!Init, SemTypeOK
<1>2. Busy = {}
  BY DEF Busy, KernelInit, Sem!Init
<1>3. semaphore = Capacity - Cardinality(Busy)
  BY <1>2, FS_EmptySet, KernelAssumption DEF KernelInit, Sem!Init
<1>4. Queued
  BY KernelAssumption DEF Queued, KernelInit, Sem!Init
<1>5. opId \in [Blocks -> 1 .. Len(Plan) + 1] /\ \A b \in Blocks : opId[b] = Len(Plan) + 1
  BY HeldPairs DEF KernelInit
<1>6. \A b \in Blocks : Follows(b)
  BY <1>5, HeldPairs DEF Follows, KernelInit, Sem!Init, Pairs
<1>. QED
  BY <1>1, <1>3, <1>4, <1>5, <1>6 DEF PlanInv, SemInv

\* Steps that leave the semaphore alone keep its invariant.
LEMMA SemFrame == SemInv /\ UNCHANGED semVars => SemInv'
BY DEF SemInv, SemTypeOK, Busy, Queued, Above, semVars

\* A block that goes on to its next operation, with the semaphore as the plan has it there.
LEMMA NextOpFollows ==
  ASSUME PlanInv, SemTypeOK', NEW b \in Blocks, ~Done(b), NextOp(b),
         \A c \in Blocks \ {b} : semPc'[c] = semPc[c],
         semPc'[b] # "spin",
         semPc'[b] = "hold" <=> Held[opId[b] + 1]
  PROVE  opId' \in [Blocks -> 1 .. Len(Plan) + 1] /\ \A c \in Blocks : Follows(c)'
<1>1. opId \in [Blocks -> 1 .. Len(Plan) + 1] /\ opId[b] <= Len(Plan)
  BY HeldPairs DEF PlanInv, Done
<1>2. opId' \in [Blocks -> 1 .. Len(Plan) + 1]
  BY <1>1, HeldPairs DEF NextOp
<1>3. opId'[b] = opId[b] + 1 /\ \A c \in Blocks \ {b} : opId'[c] = opId[c]
  BY <1>1 DEF NextOp
<1>4. \A c \in Blocks \ {b} : Follows(c)'
  BY <1>3 DEF PlanInv, Follows, At, Done
<1>5. Follows(b)'
  BY <1>2, <1>3 DEF Follows
<1>. QED
  BY <1>2, <1>4, <1>5

\* The operations of a block keep to the plan.
LEMMA PlanInvBlock ==
  ASSUME PlanInv, NEW b \in Blocks, BlockStep(b)
  PROVE  PlanInv'
<1>0. /\ SemInv /\ SemTypeOK /\ Follows(b)
      /\ opId \in [Blocks -> 1 .. Len(Plan) + 1] /\ opId[b] \in Int
  BY HeldPairs DEF PlanInv, SemInv
<1>1. ASSUME ~Done(b)
      PROVE  /\ opId[b] \in 1 .. Len(Plan)
             /\ Plan[opId[b]] = "sem_acquire" => ~Held[opId[b]] /\ Held[opId[b] + 1]
             /\ Plan[opId[b]] = "sem_release" => Held[opId[b]] /\ ~Held[opId[b] + 1]
             /\ Plan[opId[b]] = "barrier" => Held[opId[b] + 1] = Held[opId[b]]
  <2>1. opId[b] \in 1 .. Len(Plan)
    BY <1>0, <1>1, HeldPairs DEF Done
  <2>. QED
    BY <2>1, HeldPairs DEF Pairs
<1>2. CASE HandleBarrier(b)
  <2>1. SemInv' /\ SemTypeOK' /\ UNCHANGED <<semaphore, semPc, oldVal>> /\ At(b, "barrier")
    BY <1>2, <1>0, SemFrame DEF HandleBarrier, semVars, SemInv
  <2>2. CASE UNCHANGED opId
    BY <2>1, <2>2 DEF PlanInv, Follows, At, Done
  <2>3. CASE NextOp(b)
    BY <2>1, <2>3, <1>0, <1>1, NextOpFollows DEF PlanInv, Follows, At
  <2>. QED
    BY <1>2, <2>2, <2>3 DEF HandleBarrier
<1>3. CASE HandleSemAcquire(b)
  <2>1. SemInv' /\ SemTypeOK' /\ At(b, "sem_acquire")
    BY <1>3, <1>0, AcquireStep, SpinStep DEF HandleSemAcquire, SemInv
  <2>2. (\A c \in Blocks \ {b} : semPc'[c] = semPc[c]) /\ semPc'[b] \in {"spin", "hold"}
    BY <1>3, <1>0 DEF HandleSemAcquire, Sem!Acquire, Sem!Spin, SemTypeOK
  <2>3. CASE semPc'[b] = "hold"
    <3>1. NextOp(b)
      BY <1>3, <2>3 DEF HandleSemAcquire
    <3>. QED
      BY <3>1, <2>1, <2>2, <2>3, <1>1, NextOpFollows DEF PlanInv, At
  <2>4. CASE semPc'[b] = "spin"
    <3>1. UNCHANGED opId
      BY <1>3, <2>4 DEF HandleSemAcquire
    <3>2. \A c \in Blocks \ {b} : Follows(c)'
      BY <3>1, <2>2 DEF PlanInv, Follows, At, Done
    <3>3. Follows(b)'
      BY <3>1, <2>1, <2>4, <1>0, <1>1 DEF Follows, At, Done
    <3>. QED
      BY <3>1, <3>2, <3>3, <2>1 DEF PlanInv
  <2>. QED
    BY <2>2, <2>3, <2>4
<1>4. CASE HandleSemRelease(b)
  <2>1. SemInv' /\ SemTypeOK' /\ At(b, "sem_release") /\ NextOp(b)
    BY <1>4, <1>0, ReleaseStep DEF HandleSemRelease, SemInv
  <2>2. (\A c \in Blocks \ {b} : semPc'[c] = semPc[c]) /\ semPc'[b] = "idle"
    BY <1>4, <1>0 DEF HandleSemRelease, Sem!Release, SemTypeOK
  <2>. QED
    BY <2>1, <2>2, <1>1, NextOpFollows DEF PlanInv, At
<1>. QED
  BY <1>2, <1>3, <1>4 DEF BlockStep

\* Every step of the kernel does, a launch and a stutter included.
LEMMA PlanInvStep == PlanInv /\ [KernelNext]_kernelVars => PlanInv'
<1> SUFFICES ASSUME PlanInv, [KernelNext]_kernelVars PROVE PlanInv'
  OBVIOUS
<1>1. CASE LaunchKernel
  <2>1. SemInv' /\ UNCHANGED <<semaphore, semPc, oldVal>>
    BY <1>1, SemFrame DEF LaunchKernel, PlanInv, semVars
  <2>2. \A b \in Blocks : ~Held[opId[b]] /\ semPc[b] # "spin"
    <3> SUFFICES ASSUME NEW b \in Blocks PROVE ~Held[opId[b]] /\ semPc[b] # "spin"
      OBVIOUS
    <3>1. opId[b] \in 1 .. Len(Plan) + 1 /\ opId[b] > Len(Plan)
      BY <1>1 DEF LaunchKernel, PlanInv, Follows, Done
    <3>2. opId[b] = Len(Plan) + 1
      BY <3>1, HeldPairs
    <3>. QED
      BY <3>1, <3>2, HeldPairs DEF PlanInv, Follows, Pairs, At, Done
  <2>3. opId' \in [Blocks -> 1 .. Len(Plan) + 1] /\ \A b \in Blocks : opId'[b] = 1
    BY <1>1, HeldPairs DEF LaunchKernel
  <2>4. \A b \in Blocks : Follows(b)'
    BY <2>1, <2>2, <2>3, HeldPairs DEF PlanInv, Follows, Pairs
  <2>. QED
    BY <2>1, <2>3, <2>4 DEF PlanInv
<1>2. CASE \E b \in Blocks : BlockStep(b)
  BY <1>2, PlanInvBlock
<1>3. CASE UNCHANGED kernelVars
  <2>1. UNCHANGED <<semaphore, semPc, oldVal, opId>> /\ SemInv'
    BY <1>3, SemFrame DEF kernelVars, semVars, PlanInv
  <2>. QED
    BY <2>1 DEF PlanInv, Follows, At, Done
<1>. QED
  BY <1>1, <1>2, <1>3 DEF KernelNext

\* When every block is through its plan nothing is held or waited for.
LEMMA PlanInvExact == PlanInv => SemaphoreExact
<1> SUFFICES ASSUME PlanInv PROVE SemaphoreExact
  OBVIOUS
<1>1. Sem!HoldersBounded
  BY InvBoundsHolders DEF PlanInv
<1>2. ASSUME \A b \in Blocks : Done(b) PROVE semaphore = Capacity
  <2>1. ASSUME NEW b \in Blocks PROVE semPc[b] = "idle"
    <3>1. opId[b] \in 1 .. Len(Plan) + 1 /\ opId[b] > Len(Plan)
      BY <1>2 DEF PlanInv, Follows, Done
    <3>2. opId[b] = Len(Plan) + 1
      BY <3>1, HeldPairs
    <3>. QED
      BY <3>1, <3>2, HeldPairs DEF PlanInv, Follows, Pairs, At, Done, SemInv, SemTypeOK
  <2>2. Busy = {}
    BY <2>1 DEF Busy
  <2>. QED
    BY <2>2, FS_EmptySet, KernelAssumption DEF PlanInv, SemInv
<1>. QED
  BY <1>1, <1>2 DEF SemaphoreExact

\* The DeviceSemaphore of the kernel never admits more blocks than its initial value,
\* and is back at that value after every launch, for every number of blocks, every
\* initial value, every number of launches and every plan that pairs its operations.
THEOREM KernelSemaphore == KernelSpec => []SemaphoreExact
<1>. QED
  BY PlanInvInit, PlanInvStep, PlanInvExact, PTL DEF KernelSpec

\* The barrier of the kernel is safe too, from launch to launch, with the operations on
\* the semaphore between two barriers: the kernel takes no other steps on the syncer.
THEOREM KernelBarrier == KernelSpec => []BarrierSafe
<1>1. KernelInit => Init
  BY DEF KernelInit
<1>2. [KernelNext]_kernelVars => [Next]_vars
  BY DEF KernelNext, kernelVars, LaunchKernel, BlockStep, HandleBarrier, HandleSemAcquire,
         HandleSemRelease, Next, Step
<1>3. KernelSpec => Spec
  BY <1>1, <1>2, PTL DEF KernelSpec, Spec
<1>. QED
  BY <1>3, Barrier, PTL
=============================================================================
