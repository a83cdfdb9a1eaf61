----------------------------- MODULE FifoProofs -----------------------------
(***************************************************************************)
(* Proofs about Fifo, for every number of threads and slots.               *)
(***************************************************************************)
EXTENDS Fifo, ModArith

InPush(t) == pc[t] \in PushPoints

\* Position p was drawn and the push that drew it has finished its store.
Published(p) == p < head /\ \A t \in Threads : InPush(t) => prevHead[t] # p

\* The counters agree with each other and with the histories.
CounterInv ==
  /\ Len(pushed) = head
  /\ tail <= head
  /\ tailCache <= tail
  /\ Len(handled) = IF hostPc \in {"clear", "advance"} THEN tail + 1 ELSE tail

\* A thread has no position before its first push, and one ever after.
ThreadPosition == \A t \in Threads : pc[t] # "idle" => prevHead[t] # -1

\* What each device thread knows at its control point.
ThreadOK(t) ==
  /\ prevHead[t] < head
  /\ InPush(t) => /\ tail <= prevHead[t]
                  /\ trigger[t] = Flip(pushed[prevHead[t] + 1])
  /\ pc[t] = "cache" => prevHead[t] - Size < val[t]
  /\ pc[t] \in {"cache", "waitCache"} => val[t] <= tail
  /\ pc[t] = "waitCache" => prevHead[t] < tail
  /\ pc[t] \in {"store", "storeFst"} => prevHead[t] < tail + Size
  /\ pc[t] = "storeFst" => triggers[prevHead[t] % Size].snd = trigger[t].snd

ThreadInv == \A t \in Threads : ThreadOK(t)

\* No two pushes under way have the same position.
DistinctInv ==
  \A t, u \in Threads : InPush(t) /\ InPush(u) /\ t # u => prevHead[t] # prevHead[u]

\* The slots of the Size positions from the tail on: a published position has its
\* trigger, except that pop() has cleared the first; any other one is empty.
SlotOK(p) ==
  IF Published(p) /\ ~(p = tail /\ hostPc = "advance")
    THEN triggers[p % Size] = Flip(pushed[p + 1])
    ELSE triggers[p % Size].fst = 0

SlotInv == \A p \in tail .. tail + Size - 1 : SlotOK(p)

\* No push gets ahead of the slots.
WindowInv == \A p \in 0 .. head - 1 : Published(p) => p < tail + Size

\* What the proxy thread has loaded is nothing or the trigger at the tail.
HostInv ==
  /\ hostPc = "pollSnd" =>
       \/ hostTrigger.fst = 0
       \/ Published(tail) /\ hostTrigger.fst = pushed[tail + 1].fst
  /\ hostPc = "check" =>
       \/ hostTrigger.fst = 0
       \/ Published(tail) /\ hostTrigger = Flip(pushed[tail + 1])
  /\ hostPc \in {"clear", "advance"} => Published(tail)

IInv ==
  /\ TypeOK /\ ThreadPosition /\ CounterInv /\ ThreadInv /\ DistinctInv
  /\ SlotInv /\ WindowInv /\ HostInv /\ HandledInOrder

-----------------------------------------------------------------------------
(***************************************************************************)
(* Facts about words and triggers.                                         *)
(***************************************************************************)

\* Flipping the reserved bit is an involution on words and leaves fst alone.
LEMMA FlipWord ==
  ASSUME NEW w \in Words
  PROVE  /\ Flip(w) \in Words
         /\ Flip(w).fst = w.fst
         /\ Flip(Flip(w)) = w
<1>1. w.snd \in 0 .. 2 * Half - 1 /\ Half \in Nat \ {0}
  BY FifoAssumption DEF Words
<1>2. FlipReserved(w.snd) \in 0 .. 2 * Half - 1 /\ FlipReserved(FlipReserved(w.snd)) = w.snd
  BY <1>1 DEF FlipReserved
<1>. QED
  BY <1>2, Zenon DEF Flip, Words

\* A trigger is a word with no zero half once its reserved bit is flipped.
LEMMA TriggerWord ==
  ASSUME NEW trig \in Triggers
  PROVE  /\ trig \in Words
         /\ trig.fst # 0
         /\ Flip(trig).fst # 0
         /\ Flip(trig).snd # 0
<1>1. trig \in [fst : Nat \ {0}, snd : 0 .. Half - 1] /\ Half \in Nat \ {0}
  BY FifoAssumption
<1>2. trig \in Words
  BY <1>1 DEF Words
<1>3. trig.fst # 0 /\ trig.snd < Half /\ trig.snd \in Nat
  BY <1>1
<1>4. FlipReserved(trig.snd) # 0
  BY <1>1, <1>3 DEF FlipReserved
<1>. QED
  BY <1>2, <1>3, <1>4 DEF Flip, Words

-----------------------------------------------------------------------------
(***************************************************************************)
(* Type correctness.                                                       *)
(***************************************************************************)

\* push(), poll() and pop() index the array of triggers within its bounds.
LEMMA SlotOf ==
  ASSUME NEW p \in Nat
  PROVE  p % Size \in Slots
BY FifoAssumption, DivMod DEF Slots

\* Every step keeps the types.
LEMMA TypeStep == TypeOK /\ ThreadPosition /\ [Next]_vars => TypeOK'
<1> SUFFICES ASSUME TypeOK, ThreadPosition, [Next]_vars
             PROVE  TypeOK'
  OBVIOUS
<1> USE FifoAssumption DEF TypeOK, PushPoints, WaitPoints, deviceVars, hostVars
<1>1. ASSUME NEW t \in Threads, NEW trig \in Triggers, Push(t, trig)
      PROVE  TypeOK'
  <2>1. Flip(trig) \in Words
    BY TriggerWord, FlipWord
  <2>2. pushed' \in Seq(Triggers)
    BY <1>1 DEF Push
  <2>. QED
    BY <1>1, <2>1, <2>2 DEF Push
<1>2. ASSUME NEW t \in Threads, CheckTailCache(t)
      PROVE  TypeOK'
  BY <1>2 DEF CheckTailCache
<1>3. ASSUME NEW t \in Threads, SyncFree(t)
      PROVE  TypeOK'
  BY <1>3 DEF SyncFree
<1>4. ASSUME NEW t \in Threads, WriteTailCache(t)
      PROVE  TypeOK'
  BY <1>4 DEF WriteTailCache
<1>5. ASSUME NEW t \in Threads, StoreTrigger(t)
      PROVE  TypeOK'
  <2>1. prevHead[t] % Size \in Slots
    BY <1>5, SlotOf, Zenon DEF StoreTrigger, ThreadPosition
  <2>2. triggers' \in [Slots -> Words]
    BY <1>5, <2>1 DEF StoreTrigger
  <2>. QED
    BY <1>5, <2>2 DEF StoreTrigger
<1>6. ASSUME NEW t \in Threads, StoreSnd(t)
      PROVE  TypeOK'
  <2>1. triggers' \in [Slots -> Words]
    BY <1>6, Zenon DEF StoreSnd, Words
  <2>. QED
    BY <1>6, <2>1 DEF StoreSnd
<1>7. ASSUME NEW t \in Threads, StoreFst(t)
      PROVE  TypeOK'
  <2>1. triggers' \in [Slots -> Words]
    BY <1>7, Zenon DEF StoreFst, Words
  <2>. QED
    BY <1>7, <2>1 DEF StoreFst
<1>8. ASSUME NEW t \in Threads, Sync(t) \/ SeePopped(t)
      PROVE  TypeOK'
  BY <1>8, Zenon DEF Sync, SeePopped
<1>9. CASE PollFst \/ PollSnd
  <2>1. hostTrigger' \in Words
    <3>1. tail % Size \in Slots
      BY SlotOf, Zenon
    <3>2. triggers[tail % Size] \in Words
      BY <3>1
    <3>. QED
      BY <1>9, <3>2, Zenon DEF PollFst, PollSnd, Words
  <2>. QED
    BY <1>9, <2>1 DEF PollFst, PollSnd
<1>10. CASE Handle
  <2>1. Flip(hostTrigger) \in Words
    BY FlipWord
  <2>. QED
    BY <1>10, <2>1 DEF Handle
<1>11. CASE PopClear
  <2>1. triggers' \in [Slots -> Words]
    BY <1>11, Zenon DEF PopClear, Words
  <2>. QED
    BY <1>11, <2>1 DEF PopClear
<1>12. CASE NotReady \/ PopAdvance
  BY <1>12 DEF NotReady, PopAdvance
<1>13. CASE UNCHANGED vars
  BY <1>13 DEF vars
<1>. QED
  BY <1>1, <1>2, <1>3, <1>4, <1>5, <1>6, <1>7, <1>8, <1>9, <1>10, <1>11, <1>12, <1>13, SMTT(30)
     DEF Next, HostStep, DeviceStep

\* No step takes a thread's position away.
LEMMA PositionStep == TypeOK /\ ThreadPosition /\ [Next]_vars => ThreadPosition'
<1> SUFFICES ASSUME TypeOK, ThreadPosition, [Next]_vars
             PROVE  ThreadPosition'
  OBVIOUS
<1> USE DEF TypeOK, ThreadPosition, deviceVars, hostVars
<1>1. ASSUME NEW t \in Threads, NEW trig \in Triggers, Push(t, trig)
      PROVE  ThreadPosition'
  BY <1>1 DEF Push
<1>2. ASSUME NEW t \in Threads, Sync(t) \/ SeePopped(t) \/ DeviceStep(t)
      PROVE  ThreadPosition'
  BY <1>2 DEF Sync, SeePopped, DeviceStep, CheckTailCache, SyncFree, WriteTailCache,
              StoreTrigger, StoreSnd, StoreFst
<1>3. CASE HostStep
  BY <1>3 DEF HostStep, PollFst, PollSnd, NotReady, Handle, PopClear, PopAdvance
<1>4. CASE UNCHANGED vars
  BY <1>4 DEF vars
<1>. QED
  BY <1>1, <1>2, <1>3, <1>4 DEF Next

\* The FIFO starts with the types it keeps.
LEMMA TypeInit == Init => TypeOK /\ ThreadPosition
<1>1. Empty \in Words
  BY FifoAssumption DEF Empty, Words
<1>. QED
  BY <1>1, FifoAssumption DEF Init, TypeOK, ThreadPosition

\* The variables of push(), sync(), poll() and pop() keep their types.
THEOREM TypeCorrect == Spec => []TypeOK
BY TypeInit, TypeStep, PositionStep, PTL DEF Spec

-----------------------------------------------------------------------------
(***************************************************************************)
(* The inductive invariant.                                                *)
(***************************************************************************)

\* Types of what the steps below compute with.
LEMMA Basics ==
  ASSUME IInv
  PROVE  /\ Size \in Nat \ {0} /\ head \in Nat /\ tail \in Nat /\ tailCache \in Nat
         /\ pc \in [Threads -> {"idle"} \cup PushPoints \cup WaitPoints]
         /\ prevHead \in [Threads -> Int] /\ val \in [Threads -> Nat]
         /\ trigger \in [Threads -> Words] /\ triggers \in [Slots -> Words]
         /\ \A t \in Threads : ThreadOK(t)
         /\ \A t \in Threads : InPush(t) => prevHead[t] \in 0 .. head - 1
<1>1. TypeOK /\ ThreadInv
  BY DEF IInv
<1>2. /\ Size \in Nat \ {0} /\ head \in Nat /\ tail \in Nat /\ tailCache \in Nat
      /\ pc \in [Threads -> {"idle"} \cup PushPoints \cup WaitPoints]
      /\ prevHead \in [Threads -> Int] /\ val \in [Threads -> Nat]
      /\ trigger \in [Threads -> Words] /\ triggers \in [Slots -> Words]
  BY <1>1, FifoAssumption DEF TypeOK
<1>3. \A t \in Threads : ThreadOK(t)
  BY <1>1 DEF ThreadInv
<1>4. ASSUME NEW t \in Threads, InPush(t)
      PROVE  prevHead[t] \in 0 .. head - 1
  <2>1. tail <= prevHead[t] /\ prevHead[t] < head
    BY <1>3, <1>4 DEF ThreadOK
  <2>. QED
    BY <1>2, <2>1
<1>. QED
  BY <1>2, <1>3, <1>4

\* A step of a thread that touches neither slots nor counters keeps the invariant if
\* it keeps that thread's own part of it.
LEMMA LocalStep ==
  ASSUME IInv, TypeOK', ThreadPosition', NEW t \in Threads,
         UNCHANGED <<head, tail, triggers, prevHead, trigger, pushed, handled, hostPc, hostTrigger>>,
         \A u \in Threads \ {t} : pc'[u] = pc[u] /\ val'[u] = val[u],
         InPush(t)' <=> InPush(t),
         tailCache' <= tail,
         ThreadOK(t)'
  PROVE  IInv'
<1>1. \A u \in Threads : InPush(u)' <=> InPush(u)
  BY DEF InPush
<1>2. \A p : Published(p)' <=> Published(p)
  BY <1>1 DEF Published
<1>3. CounterInv'
  BY DEF IInv, CounterInv
<1>4. ASSUME NEW u \in Threads \ {t}
      PROVE  ThreadOK(u)'
  <2>1. ThreadOK(u) /\ (InPush(u)' <=> InPush(u)) /\ pc'[u] = pc[u] /\ val'[u] = val[u]
    BY <1>1, Basics
  <2>. QED
    BY <2>1 DEF ThreadOK
<1>5. ThreadInv'
  BY <1>4 DEF ThreadInv
<1>6. DistinctInv'
  BY <1>1 DEF IInv, DistinctInv
<1>7. SlotInv'
  BY <1>2 DEF IInv, SlotInv, SlotOK
<1>8. WindowInv' /\ HostInv' /\ HandledInOrder'
  BY <1>2 DEF IInv, WindowInv, HostInv, HandledInOrder
<1>. QED
  BY <1>3, <1>5, <1>6, <1>7, <1>8 DEF IInv

\* push() drawing a position.
LEMMA PushStep ==
  ASSUME IInv, TypeOK', ThreadPosition', NEW t \in Threads, NEW trig \in Triggers, Push(t, trig)
  PROVE  IInv'
<1>1. /\ pc' = [pc EXCEPT ![t] = "check"] /\ prevHead' = [prevHead EXCEPT ![t] = head]
      /\ trigger' = [trigger EXCEPT ![t] = Flip(trig)] /\ head' = head + 1
      /\ pc[t] = "idle"
      /\ UNCHANGED <<tailCache, val, triggers, tail, hostPc, hostTrigger, handled>>
  BY DEF Push, hostVars
<1>2. /\ Len(pushed') = head + 1
      /\ pushed'[head + 1] = trig
      /\ \A i \in 1 .. head : pushed'[i] = pushed[i]
      /\ \A p \in 0 .. head - 1 : pushed'[p + 1] = pushed[p + 1]
  <2>1. pushed' = Append(pushed, trig) /\ Len(pushed) = head /\ pushed \in Seq(Triggers)
    BY DEF Push, IInv, CounterInv, TypeOK
  <2>. QED
    BY <2>1
<1>3. CounterInv'
  <2>1. CounterInv
    BY DEF IInv
  <2>. QED
    BY <1>1, <1>2, <2>1, Basics DEF CounterInv
<1>4. \A u \in Threads \ {t} : /\ pc'[u] = pc[u] /\ prevHead'[u] = prevHead[u]
                              /\ trigger'[u] = trigger[u] /\ (InPush(u)' <=> InPush(u))
  BY <1>1, Basics DEF InPush
<1>5. pc'[t] = "check" /\ prevHead'[t] = head /\ trigger'[t] = Flip(trig) /\ InPush(t)' /\ ~InPush(t)
  BY <1>1, Basics DEF InPush, PushPoints
<1>6. ASSUME NEW u \in Threads
      PROVE  ThreadOK(u)'
  <2>1. CASE u = t
    <3>1. tail <= head
      BY DEF IInv, CounterInv
    <3>. QED
      BY <1>1, <1>2, <1>5, <2>1, <3>1, Basics DEF ThreadOK
  <2>2. CASE u # t
    <3>1. InPush(u) => pushed'[prevHead[u] + 1] = pushed[prevHead[u] + 1]
      BY <1>2, Basics
    <3>2. ThreadOK(u) /\ prevHead[u] \in Int /\ head \in Int
      BY Basics
    <3>. QED
      BY <1>1, <1>4, <2>2, <3>1, <3>2 DEF ThreadOK
  <2>. QED
    BY <2>1, <2>2
<1>7. DistinctInv'
  <2>1. \A u \in Threads : prevHead[u] < head
    BY Basics DEF ThreadOK
  <2>. QED
    BY <1>4, <1>5, <2>1, Basics DEF IInv, DistinctInv
<1>8. ASSUME NEW p \in Nat
      PROVE  /\ Published(p)' <=> Published(p)
             /\ Published(p) => p \in 0 .. head - 1 /\ pushed'[p + 1] = pushed[p + 1]
  <2>1. Published(p) => p \in 0 .. head - 1
    BY Basics DEF Published
  <2>2. Published(p)' <=> Published(p)
    BY <1>1, <1>4, <1>5, Basics DEF Published
  <2>. QED
    BY <1>2, <2>1, <2>2
<1>9. ASSUME NEW p \in tail .. tail + Size - 1
      PROVE  SlotOK(p)'
  <2>1. SlotOK(p) /\ p \in Nat
    BY Basics DEF IInv, SlotInv
  <2>. QED
    BY <1>1, <1>8, <2>1 DEF SlotOK
<1>10. WindowInv'
  BY <1>1, <1>8, Basics DEF IInv, WindowInv
<1>11. HostInv'
  BY <1>1, <1>8, Basics DEF IInv, HostInv
<1>12. HandledInOrder'
  <2>1. Len(handled) <= head /\ Len(handled) \in Nat /\ \A i \in 1 .. Len(handled) : handled[i] = pushed[i]
    <3>1. HandledInOrder /\ Len(pushed) = head
      BY DEF IInv, CounterInv
    <3>2. handled \in Seq(Words)
      BY DEF IInv, TypeOK
    <3>. QED
      BY <3>1, <3>2 DEF HandledInOrder
  <2>2. \A i \in 1 .. Len(handled) : pushed'[i] = pushed[i]
    BY <1>2, <2>1, Basics
  <2>3. handled' = handled /\ Len(pushed') = head + 1 /\ head \in Nat
    BY <1>1, <1>2, Basics
  <2>4. Len(handled) <= Len(pushed')
    BY <2>1, <2>3
  <2>. QED
    BY <2>1, <2>2, <2>3, <2>4 DEF HandledInOrder
<1>. QED
  BY <1>1, <1>3, <1>6, <1>7, <1>9, <1>10, <1>11, <1>12 DEF IInv, ThreadInv, SlotInv

\* push() comparing its position with the cached tail.
LEMMA CheckTailCacheStep ==
  ASSUME IInv, TypeOK', ThreadPosition', NEW t \in Threads, CheckTailCache(t)
  PROVE  IInv'
<1>1. /\ pc' = [pc EXCEPT ![t] = IF prevHead[t] >= Size + tailCache THEN "sync" ELSE "store"]
      /\ pc[t] = "check"
      /\ UNCHANGED <<head, tailCache, prevHead, trigger, val, pushed, triggers, tail, hostPc,
                     hostTrigger, handled>>
  BY DEF CheckTailCache, hostVars
<1>2. ThreadOK(t) /\ InPush(t) /\ InPush(t)' /\ tailCache <= tail
  BY <1>1, Basics DEF InPush, PushPoints, IInv, CounterInv
<1>3. ThreadOK(t)'
  BY <1>1, <1>2, Basics DEF ThreadOK
<1>. QED
  BY <1>1, <1>2, <1>3, Basics, LocalStep

\* The load that ends the spin of the sync() called by push().
LEMMA SyncFreeStep ==
  ASSUME IInv, TypeOK', ThreadPosition', NEW t \in Threads, SyncFree(t)
  PROVE  IInv'
<1>1. /\ pc' = [pc EXCEPT ![t] = "cache"] /\ val' = [val EXCEPT ![t] = tail]
      /\ pc[t] = "sync" /\ prevHead[t] - Size < tail
      /\ UNCHANGED <<head, tailCache, prevHead, trigger, pushed, triggers, tail, hostPc,
                     hostTrigger, handled>>
  BY DEF SyncFree, hostVars
<1>2. ThreadOK(t) /\ InPush(t) /\ InPush(t)' /\ tailCache <= tail
  BY <1>1, Basics DEF InPush, PushPoints, IInv, CounterInv
<1>3. ThreadOK(t)'
  BY <1>1, <1>2, Basics DEF ThreadOK
<1>. QED
  BY <1>1, <1>2, <1>3, Basics, LocalStep

\* The store of a loaded tail, stale or not, to the shared cache.
LEMMA WriteTailCacheStep ==
  ASSUME IInv, TypeOK', ThreadPosition', NEW t \in Threads, WriteTailCache(t)
  PROVE  IInv'
<1>1. /\ pc' = [pc EXCEPT ![t] = IF pc[t] = "cache" THEN "store" ELSE "idle"]
      /\ pc[t] \in {"cache", "waitCache"} /\ tailCache' = val[t]
      /\ UNCHANGED <<head, prevHead, trigger, val, pushed, triggers, tail, hostPc,
                     hostTrigger, handled>>
  BY DEF WriteTailCache, hostVars
<1>2. ThreadOK(t) /\ (InPush(t)' <=> InPush(t)) /\ tailCache' <= tail
  BY <1>1, Basics DEF InPush, PushPoints, ThreadOK
<1>3. ThreadOK(t)'
  <2>1. CASE pc[t] = "cache"
    BY <1>1, <1>2, <2>1, Basics DEF ThreadOK
  <2>2. CASE pc[t] = "waitCache"
    BY <1>1, <1>2, <2>2, Basics DEF ThreadOK, InPush, PushPoints
  <2>. QED
    BY <1>1, <2>1, <2>2
<1>. QED
  BY <1>1, <1>2, <1>3, Basics, LocalStep

\* A caller of sync() or poll() that waits for its own trigger.
LEMMA CallerStep ==
  ASSUME IInv, TypeOK', ThreadPosition', NEW t \in Threads, Sync(t) \/ SeePopped(t)
  PROVE  IInv'
<1>1. /\ \A u \in Threads \ {t} : pc'[u] = pc[u] /\ val'[u] = val[u]
      /\ UNCHANGED <<head, tailCache, prevHead, trigger, pushed, triggers, tail, hostPc,
                     hostTrigger, handled>>
  BY Basics DEF Sync, SeePopped, hostVars
<1>2. ThreadOK(t) /\ ~InPush(t) /\ ~InPush(t)' /\ tailCache <= tail
  BY Basics, SMTT(30) DEF InPush, PushPoints, IInv, CounterInv, Sync, SeePopped
<1>3. \/ pc'[t] = "wait"
      \/ pc'[t] = "waitCache" /\ prevHead[t] < tail /\ val'[t] = tail
  BY Basics DEF Sync, SeePopped
<1>4. ThreadOK(t)'
  BY <1>1, <1>2, <1>3, Basics DEF ThreadOK
<1>. QED
  BY <1>1, <1>2, <1>4, Basics, LocalStep

\* Distinct positions of the window from the tail on have distinct slots.
LEMMA WindowSlots ==
  ASSUME IInv, NEW p \in tail .. tail + Size - 1, NEW q \in tail .. tail + Size - 1, p # q
  PROVE  p % Size # q % Size
<1>1. p \in Nat /\ q \in Nat /\ Size \in Nat \ {0} /\ p < q + Size /\ q < p + Size
  BY Basics
<1>2. CASE p <= q
  BY <1>1, <1>2, ModInjective, Zenon
<1>3. CASE q <= p
  BY <1>1, <1>3, ModInjective, Zenon
<1>. QED
  BY <1>1, <1>2, <1>3

\* The position of a push that stores is in the window, and not published.
LEMMA StorePosition ==
  ASSUME IInv, NEW t \in Threads, pc[t] \in {"store", "storeFst"}
  PROVE  /\ InPush(t)
         /\ prevHead[t] \in tail .. tail + Size - 1
         /\ prevHead[t] \in 0 .. head - 1
         /\ prevHead[t] % Size \in Slots
         /\ ~Published(prevHead[t])
         /\ triggers[prevHead[t] % Size].fst = 0
<1>1. InPush(t)
  BY DEF InPush, PushPoints
<1>2. prevHead[t] \in 0 .. head - 1 /\ prevHead[t] \in tail .. tail + Size - 1
  BY <1>1, Basics DEF ThreadOK
<1>3. ~Published(prevHead[t])
  BY <1>1 DEF Published
<1>4. SlotOK(prevHead[t])
  BY <1>2 DEF IInv, SlotInv
<1>5. triggers[prevHead[t] % Size].fst = 0
  BY <1>3, <1>4 DEF SlotOK
<1>. QED
  BY <1>1, <1>2, <1>3, <1>5, SlotOf

\* The store that completes a push, in one piece or as its second half.
LEMMA FinishStep ==
  ASSUME IInv, TypeOK', ThreadPosition', NEW t \in Threads, pc[t] \in {"store", "storeFst"},
         pc' = [pc EXCEPT ![t] = "idle"],
         triggers' = [triggers EXCEPT ![prevHead[t] % Size] = trigger[t]],
         UNCHANGED <<head, tailCache, prevHead, trigger, val, pushed, tail, hostPc,
                     hostTrigger, handled>>
  PROVE  IInv'
<1>1. /\ ~InPush(t)'
      /\ pc'[t] = "idle"
      /\ \A u \in Threads \ {t} : pc'[u] = pc[u] /\ (InPush(u)' <=> InPush(u))
  BY Basics DEF InPush, PushPoints
<1>2. \A p \in Nat : Published(p)' <=> Published(p) \/ p = prevHead[t]
  <2>1. /\ InPush(t)
        /\ prevHead[t] \in 0 .. head - 1
        /\ \A u \in Threads \ {t} : InPush(u) => prevHead[u] # prevHead[t]
    BY StorePosition DEF IInv, DistinctInv
  <2>2. ASSUME NEW p \in Nat, p # prevHead[t]
        PROVE  Published(p)' <=> Published(p)
    BY <1>1, <2>1, <2>2 DEF Published
  <2>3. Published(prevHead[t])'
    BY <1>1, <2>1, Basics DEF Published
  <2>. QED
    BY <2>2, <2>3
<1>3. triggers'[prevHead[t] % Size] = Flip(pushed[prevHead[t] + 1])
  BY StorePosition, Basics DEF ThreadOK
<1>4. ASSUME NEW p \in tail .. tail + Size - 1, p # prevHead[t]
      PROVE  triggers'[p % Size] = triggers[p % Size]
  <2>1. p \in Nat
    BY Basics
  <2>. QED
    BY <1>4, <2>1, StorePosition, WindowSlots, SlotOf, Basics
<1>5. ASSUME NEW u \in Threads
      PROVE  ThreadOK(u)'
  <2>1. CASE u = t
    BY <1>1, <2>1, Basics DEF ThreadOK
  <2>2. CASE u # t
    <3>1. ASSUME pc[u] = "storeFst"
          PROVE  triggers'[prevHead[u] % Size] = triggers[prevHead[u] % Size]
      <4>1. prevHead[u] # prevHead[t]
        BY <2>2, <3>1, StorePosition DEF IInv, DistinctInv
      <4>. QED
        BY <1>4, <3>1, <4>1, StorePosition
    <3>. QED
      BY <1>1, <2>2, <3>1, Basics DEF ThreadOK
  <2>. QED
    BY <2>1, <2>2
<1>6. ASSUME NEW p \in tail .. tail + Size - 1
      PROVE  SlotOK(p)'
  <2>1. p \in Nat /\ SlotOK(p)
    BY Basics DEF IInv, SlotInv
  <2>2. CASE p = prevHead[t]
    <3>1. ~(p = tail /\ hostPc = "advance")
      BY <2>2, StorePosition DEF IInv, HostInv
    <3>. QED
      BY <1>2, <1>3, <2>1, <2>2, <3>1 DEF SlotOK
  <2>3. CASE p # prevHead[t]
    BY <1>2, <1>4, <2>1, <2>3 DEF SlotOK
  <2>. QED
    BY <2>2, <2>3
<1>7. ThreadInv' /\ SlotInv'
  BY <1>5, <1>6 DEF ThreadInv, SlotInv
<1>8. CounterInv' /\ HandledInOrder'
  BY DEF IInv, CounterInv, HandledInOrder
<1>9. DistinctInv'
  BY <1>1 DEF IInv, DistinctInv
<1>10. WindowInv'
  <2>1. prevHead[t] < tail + Size
    BY StorePosition, Basics
  <2>. QED
    BY <1>2, <2>1, Basics DEF IInv, WindowInv
<1>11. HostInv'
  BY <1>2, Basics DEF IInv, HostInv
<1>. QED
  BY <1>7, <1>8, <1>9, <1>10, <1>11 DEF IInv

\* Both ways push() publishes a trigger: the 128-bit store and the store of fst.
LEMMA StoreStep ==
  ASSUME IInv, TypeOK', ThreadPosition', NEW t \in Threads, StoreTrigger(t) \/ StoreFst(t)
  PROVE  IInv'
<1>1. /\ pc[t] \in {"store", "storeFst"}
      /\ pc' = [pc EXCEPT ![t] = "idle"]
      /\ UNCHANGED <<head, tailCache, prevHead, trigger, val, pushed, tail, hostPc,
                     hostTrigger, handled>>
  BY DEF StoreTrigger, StoreFst, hostVars
<1>2. triggers' = [triggers EXCEPT ![prevHead[t] % Size] = trigger[t]]
  <2>1. CASE StoreTrigger(t)
    BY <2>1 DEF StoreTrigger
  <2>2. CASE StoreFst(t)
    <3> DEFINE w == triggers[prevHead[t] % Size]
    <3>1. triggers' = [triggers EXCEPT ![prevHead[t] % Size] = [w EXCEPT !.fst = trigger[t].fst]]
      BY <2>2 DEF StoreFst
    <3>2. w \in Words /\ trigger[t] \in Words /\ w.snd = trigger[t].snd
      BY <2>2, <1>1, StorePosition, Basics DEF StoreFst, ThreadOK
    <3>3. [w EXCEPT !.fst = trigger[t].fst] = trigger[t]
      BY <3>2 DEF Words
    <3>. QED
      BY <3>1, <3>3, Zenon
  <2>. QED
    BY <2>1, <2>2
<1>. QED
  BY <1>1, <1>2, FinishStep, Zenon

\* The first half of a split store: only snd of an empty slot changes.
LEMMA StoreSndStep ==
  ASSUME IInv, TypeOK', ThreadPosition', NEW t \in Threads, StoreSnd(t)
  PROVE  IInv'
<1> DEFINE w == triggers[prevHead[t] % Size]
<1>1. /\ pc[t] = "store" /\ pc' = [pc EXCEPT ![t] = "storeFst"]
      /\ triggers' = [triggers EXCEPT ![prevHead[t] % Size] = [w EXCEPT !.snd = trigger[t].snd]]
      /\ UNCHANGED <<head, tailCache, prevHead, trigger, val, pushed, tail, hostPc,
                     hostTrigger, handled>>
  BY DEF StoreSnd, hostVars
<1>2. /\ pc'[t] = "storeFst" /\ InPush(t) /\ InPush(t)'
      /\ \A u \in Threads \ {t} : pc'[u] = pc[u]
      /\ \A u \in Threads : InPush(u)' <=> InPush(u)
  BY <1>1, Basics DEF InPush, PushPoints
<1>3. \A p : Published(p)' <=> Published(p)
  BY <1>1, <1>2 DEF Published
<1>4. triggers'[prevHead[t] % Size].fst = 0 /\ triggers'[prevHead[t] % Size].snd = trigger[t].snd
  <2>1. w \in Words /\ prevHead[t] % Size \in Slots /\ w.fst = 0
    BY <1>1, StorePosition, Basics
  <2>. QED
    BY <1>1, <2>1, Basics DEF Words
<1>5. ASSUME NEW p \in tail .. tail + Size - 1, p # prevHead[t]
      PROVE  triggers'[p % Size] = triggers[p % Size]
  <2>1. p \in Nat /\ prevHead[t] \in tail .. tail + Size - 1
    BY <1>1, Basics, StorePosition
  <2>2. p % Size # prevHead[t] % Size /\ p % Size \in Slots
    BY <1>5, <2>1, WindowSlots, SlotOf
  <2>. QED
    BY <1>1, <2>2, Basics
<1>6. ASSUME NEW u \in Threads
      PROVE  ThreadOK(u)'
  <2>1. CASE u = t
    <3>1. ThreadOK(t) /\ pc[t] = "store" /\ pc'[t] = "storeFst" /\ InPush(t)
      BY <1>1, <1>2, Basics
    <3>2. /\ UNCHANGED <<head, tail, prevHead, trigger, val, pushed>>
          /\ triggers'[prevHead[t] % Size].snd = trigger[t].snd
      BY <1>1, <1>4, SMTT(30)
    <3>. QED
      BY <2>1, <3>1, <3>2 DEF ThreadOK
  <2>2. CASE u # t
    <3>1. ASSUME pc[u] = "storeFst"
          PROVE  triggers'[prevHead[u] % Size] = triggers[prevHead[u] % Size]
      <4>1. prevHead[u] # prevHead[t]
        BY <1>1, <2>2, <3>1, StorePosition DEF IInv, DistinctInv
      <4>. QED
        BY <1>5, <3>1, <4>1, StorePosition
    <3>2. ThreadOK(u) /\ pc'[u] = pc[u] /\ (InPush(u)' <=> InPush(u))
      BY <1>2, <2>2 DEF IInv, ThreadInv
    <3>3. UNCHANGED <<head, tail, prevHead, trigger, val, pushed>>
      BY <1>1
    <3>. QED
      BY <3>1, <3>2, <3>3 DEF ThreadOK
  <2>. QED
    BY <2>1, <2>2, SMTT(30)
<1>7. ASSUME NEW p \in tail .. tail + Size - 1
      PROVE  SlotOK(p)'
  <2>1. SlotOK(p)
    BY DEF IInv, SlotInv
  <2>2. CASE p = prevHead[t]
    BY <1>1, <1>3, <1>4, <2>1, <2>2, StorePosition DEF SlotOK
  <2>3. CASE p # prevHead[t]
    BY <1>1, <1>3, <1>5, <2>1, <2>3 DEF SlotOK
  <2>. QED
    BY <2>2, <2>3
<1>8. ThreadInv' /\ SlotInv'
  BY <1>1, <1>6, <1>7 DEF ThreadInv, SlotInv
<1>9. CounterInv' /\ HandledInOrder' /\ DistinctInv'
  BY <1>1, <1>2 DEF IInv, CounterInv, HandledInOrder, DistinctInv
<1>10. WindowInv' /\ HostInv'
  BY <1>1, <1>3 DEF IInv, WindowInv, HostInv
<1>. QED
  BY <1>8, <1>9, <1>10 DEF IInv

\* The steps of the proxy thread that only read: a load, a loop back, a handled trigger.
LEMMA ReadStep ==
  ASSUME IInv, TypeOK', ThreadPosition', PollFst \/ PollSnd \/ NotReady \/ Handle
  PROVE  IInv'
<1>1. /\ hostPc \in {"pollFst", "pollSnd", "check"}
      /\ hostPc' \in {"pollFst", "pollSnd", "check", "clear"}
      /\ UNCHANGED <<tail, triggers, head, tailCache, pc, prevHead, trigger, val, pushed>>
  BY DEF PollFst, PollSnd, NotReady, Handle, deviceVars
<1>2. \A u \in Threads : InPush(u)' <=> InPush(u)
  BY <1>1 DEF InPush
<1>3. \A p : Published(p)' <=> Published(p)
  BY <1>1, <1>2 DEF Published
<1>4. ThreadInv'
  <2>1. \A u \in Threads : ThreadOK(u)' <=> ThreadOK(u)
    BY <1>1, <1>2 DEF ThreadOK
  <2>. QED
    BY <2>1, Basics DEF ThreadInv
<1>5. SlotInv'
  <2>1. \A p \in tail .. tail + Size - 1 : SlotOK(p)' <=> SlotOK(p)
    BY <1>1, <1>3 DEF SlotOK
  <2>. QED
    BY <1>1, <2>1 DEF SlotInv, IInv
<1>6. DistinctInv' /\ WindowInv'
  BY <1>1, <1>2, <1>3 DEF IInv, DistinctInv, WindowInv
<1>7. /\ Len(handled) = tail /\ handled \in Seq(Words) /\ hostTrigger \in Words
      /\ Len(pushed) = head /\ pushed \in Seq(Triggers) /\ tail \in Nat /\ head \in Nat
  BY <1>1 DEF IInv, CounterInv, TypeOK
<1>8. tail % Size \in Slots /\ triggers[tail % Size] \in Words
  BY SlotOf, Basics
<1>9. IF Published(tail) THEN triggers[tail % Size] = Flip(pushed[tail + 1])
                         ELSE triggers[tail % Size].fst = 0
  <2>1. tail \in tail .. tail + Size - 1
    BY Basics
  <2>2. SlotOK(tail)
    BY <2>1 DEF IInv, SlotInv
  <2>. QED
    BY <1>1, <2>2 DEF SlotOK
<1>10. Published(tail) => /\ pushed[tail + 1] \in Triggers
                         /\ pushed[tail + 1] \in Words
                         /\ Flip(pushed[tail + 1]) \in Words
                         /\ Flip(pushed[tail + 1]).fst = pushed[tail + 1].fst
                         /\ pushed[tail + 1].fst # 0
                         /\ Flip(Flip(pushed[tail + 1])) = pushed[tail + 1]
  <2>1. Published(tail) => tail + 1 \in 1 .. Len(pushed)
    BY <1>7 DEF Published
  <2>2. Published(tail) => pushed[tail + 1] \in Triggers
    BY <1>7, <2>1
  <2>. QED
    BY <2>2, TriggerWord, FlipWord
<1>11. CounterInv /\ HostInv /\ HandledInOrder
  BY DEF IInv
<1>12. CASE PollFst
  <2>1. hostPc' = "pollSnd" /\ handled' = handled /\ hostTrigger'.fst = triggers[tail % Size].fst
    BY <1>7, <1>12 DEF PollFst, Words
  <2>2. HostInv'
    BY <1>1, <1>3, <1>9, <1>10, <2>1 DEF HostInv
  <2>3. CounterInv' /\ HandledInOrder'
    BY <1>1, <1>11, <2>1 DEF CounterInv, HandledInOrder
  <2>. QED
    BY <1>4, <1>5, <1>6, <2>2, <2>3 DEF IInv
<1>13. CASE PollSnd
  <2>1. /\ hostPc = "pollSnd" /\ hostPc' = "check" /\ handled' = handled
        /\ hostTrigger' = [hostTrigger EXCEPT !.snd = triggers[tail % Size].snd]
    BY <1>13 DEF PollSnd
  <2>2. hostTrigger'.fst = hostTrigger.fst
    BY <1>7, <2>1 DEF Words
  <2>3. CASE Published(tail) /\ hostTrigger.fst = pushed[tail + 1].fst
    <3>1. hostTrigger' = Flip(pushed[tail + 1])
      <4>1. triggers[tail % Size] = Flip(pushed[tail + 1])
        BY <1>9, <2>3
      <4>2. /\ Flip(pushed[tail + 1]) \in Words
            /\ Flip(pushed[tail + 1]).fst = hostTrigger.fst
        BY <1>10, <2>3
      <4>3. hostTrigger' = [hostTrigger EXCEPT !.snd = Flip(pushed[tail + 1]).snd]
        BY <2>1, <4>1
      <4>4. hostTrigger \in Words
        BY <1>7
      <4>. QED
        BY <4>2, <4>3, <4>4 DEF Words
    <3>2. HostInv'
      BY <1>1, <1>3, <2>1, <2>3, <3>1 DEF HostInv
    <3>3. CounterInv' /\ HandledInOrder'
      BY <1>1, <1>11, <2>1 DEF CounterInv, HandledInOrder
    <3>. QED
      BY <1>4, <1>5, <1>6, <3>2, <3>3 DEF IInv
  <2>4. CASE hostTrigger.fst = 0
    BY <1>1, <1>3, <2>1, <2>2, <2>4, <1>4, <1>5, <1>6, <1>11
       DEF IInv, HostInv, CounterInv, HandledInOrder
  <2>. QED
    BY <1>11, <2>1, <2>3, <2>4 DEF HostInv
<1>14. CASE NotReady
  BY <1>1, <1>3, <1>14, <1>4, <1>5, <1>6, <1>11
     DEF IInv, NotReady, HostInv, CounterInv, HandledInOrder
<1>15. CASE Handle
  <2>1. /\ hostPc = "check" /\ hostPc' = "clear" /\ hostTrigger.fst # 0
        /\ handled' = Append(handled, Flip(hostTrigger))
    BY <1>15 DEF Handle
  <2>2. Published(tail) /\ Flip(hostTrigger) = pushed[tail + 1]
    BY <1>10, <1>11, <2>1 DEF HostInv
  <2>3. tail < head
    BY <2>2 DEF Published
  <2>4. Flip(hostTrigger) \in Words
    BY <1>7, FlipWord
  <2>5. /\ Len(handled') = tail + 1
        /\ \A i \in 1 .. tail : handled'[i] = handled[i]
        /\ handled'[tail + 1] = pushed[tail + 1]
    BY <1>7, <2>1, <2>2, <2>4
  <2>6. HandledInOrder'
    BY <1>1, <1>7, <1>11, <2>3, <2>5 DEF HandledInOrder
  <2>7. CounterInv' /\ HostInv'
    BY <1>1, <1>3, <1>11, <2>1, <2>2, <2>5 DEF CounterInv, HostInv
  <2>. QED
    BY <1>4, <1>5, <1>6, <2>6, <2>7 DEF IInv
<1>. QED
  BY <1>12, <1>13, <1>14, <1>15

\* pop() clearing fst of the slot at the tail.
LEMMA PopClearStep ==
  ASSUME IInv, TypeOK', ThreadPosition', PopClear
  PROVE  IInv'
<1> DEFINE w == triggers[tail % Size]
<1>1. /\ hostPc = "clear" /\ hostPc' = "advance"
      /\ triggers' = [triggers EXCEPT ![tail % Size] = [w EXCEPT !.fst = 0]]
      /\ UNCHANGED <<tail, hostTrigger, handled, head, tailCache, pc, prevHead, trigger, val, pushed>>
  BY DEF PopClear, deviceVars
<1>2. \A u \in Threads : InPush(u)' <=> InPush(u)
  BY <1>1 DEF InPush
<1>3. \A p : Published(p)' <=> Published(p)
  BY <1>1, <1>2 DEF Published
<1>4. Published(tail) /\ tail \in tail .. tail + Size - 1 /\ tail \in Nat
  BY <1>1, Basics DEF IInv, HostInv
<1>5. triggers'[tail % Size].fst = 0
  <2>1. tail % Size \in Slots /\ w \in Words
    BY <1>4, SlotOf, Basics
  <2>. QED
    BY <1>1, <2>1, Basics DEF Words
<1>6. ASSUME NEW p \in tail .. tail + Size - 1, p # tail
      PROVE  triggers'[p % Size] = triggers[p % Size]
  <2>1. p \in Nat
    BY Basics
  <2>2. p % Size # tail % Size /\ p % Size \in Slots
    BY <1>4, <1>6, <2>1, WindowSlots, SlotOf
  <2>. QED
    BY <1>1, <2>2, Basics
<1>7. ASSUME NEW u \in Threads
      PROVE  ThreadOK(u)'
  <2>1. ASSUME pc[u] = "storeFst"
        PROVE  triggers'[prevHead[u] % Size] = triggers[prevHead[u] % Size]
    BY <1>4, <1>6, <2>1, StorePosition
  <2>. QED
    BY <1>1, <1>2, <2>1, Basics DEF ThreadOK
<1>8. ASSUME NEW p \in tail .. tail + Size - 1
      PROVE  SlotOK(p)'
  <2>1. SlotOK(p)
    BY DEF IInv, SlotInv
  <2>2. CASE p = tail
    BY <1>1, <1>5, <2>2 DEF SlotOK
  <2>3. CASE p # tail
    BY <1>1, <1>3, <1>6, <2>1, <2>3 DEF SlotOK
  <2>. QED
    BY <2>2, <2>3
<1>9. ThreadInv' /\ SlotInv'
  BY <1>1, <1>7, <1>8 DEF ThreadInv, SlotInv
<1>10. CounterInv' /\ HandledInOrder' /\ DistinctInv'
  BY <1>1, <1>2 DEF IInv, CounterInv, HandledInOrder, DistinctInv
<1>11. WindowInv' /\ HostInv'
  BY <1>1, <1>3, <1>4 DEF IInv, WindowInv, HostInv
<1>. QED
  BY <1>9, <1>10, <1>11 DEF IInv

\* pop() publishing the new tail: the window moves on by one position, whose slot is
\* the one just cleared.
LEMMA PopAdvanceStep ==
  ASSUME IInv, TypeOK', ThreadPosition', PopAdvance
  PROVE  IInv'
<1>1. /\ hostPc = "advance" /\ hostPc' = "pollFst" /\ tail' = tail + 1
      /\ UNCHANGED <<triggers, hostTrigger, handled, head, tailCache, pc, prevHead, trigger,
                     val, pushed>>
  BY DEF PopAdvance, deviceVars
<1>2. \A u \in Threads : InPush(u)' <=> InPush(u)
  BY <1>1 DEF InPush
<1>3. \A p : Published(p)' <=> Published(p)
  BY <1>1, <1>2, SMTT(30) DEF Published
<1>4. Published(tail) /\ tail \in Nat /\ tail + Size \in Nat
  BY <1>1, Basics DEF IInv, HostInv
<1>5. \A u \in Threads : InPush(u) => tail + 1 <= prevHead[u]
  BY <1>4, Basics DEF Published, ThreadOK
<1>6. ASSUME NEW u \in Threads
      PROVE  ThreadOK(u)'
  BY <1>1, <1>2, <1>5, Basics DEF ThreadOK
<1>7. ASSUME NEW p \in tail + 1 .. tail + Size
      PROVE  SlotOK(p)'
  <2>1. CASE p = tail + Size
    <3>1. ~Published(p)
      BY <1>4, <2>1, Basics DEF IInv, WindowInv, Published
    <3>2. SlotOK(tail)
      BY <1>4, Basics DEF IInv, SlotInv
    <3>3. triggers[tail % Size].fst = 0
      BY <1>1, <3>2 DEF SlotOK
    <3>4. p % Size = tail % Size
      BY <1>4, <2>1, Basics, ModWrap
    <3>. QED
      BY <1>1, <1>3, <3>1, <3>3, <3>4 DEF SlotOK
  <2>2. CASE p # tail + Size
    <3>1. p \in tail .. tail + Size - 1 /\ p # tail
      BY <1>4, <2>2, Basics
    <3>2. SlotOK(p)
      BY <3>1 DEF IInv, SlotInv
    <3>. QED
      BY <1>1, <1>3, <3>1, <3>2 DEF SlotOK
  <2>. QED
    BY <2>1, <2>2, SMTT(30)
<1>8. ThreadInv' /\ SlotInv'
  <2>1. (tail + 1) + Size - 1 = tail + Size
    BY <1>4, Basics
  <2>. QED
    BY <1>1, <1>6, <1>7, <2>1 DEF ThreadInv, SlotInv
<1>9. CounterInv'
  BY <1>1, <1>4, Basics DEF IInv, CounterInv, Published
<1>10. HandledInOrder' /\ DistinctInv' /\ HostInv'
  BY <1>1, <1>2 DEF IInv, HandledInOrder, DistinctInv, HostInv
<1>11. WindowInv'
  BY <1>1, <1>3, Basics DEF IInv, WindowInv
<1>. QED
  BY <1>8, <1>9, <1>10, <1>11 DEF IInv

\* The empty FIFO satisfies the inductive invariant.
LEMMA InvInit == Init => IInv
<1> SUFFICES ASSUME Init
             PROVE  IInv
  OBVIOUS
<1>1. TypeOK /\ ThreadPosition
  BY TypeInit
<1>2. \A t \in Threads : ~InPush(t) /\ pc[t] = "idle" /\ prevHead[t] = -1
  BY DEF Init, InPush, PushPoints
<1>3. ThreadInv /\ DistinctInv
  BY <1>2 DEF Init, ThreadInv, ThreadOK, DistinctInv
<1>4. \A p \in Nat : ~Published(p)
  BY DEF Init, Published
<1>5. SlotInv
  <2>1. ASSUME NEW p \in tail .. tail + Size - 1
        PROVE  SlotOK(p)
    <3>1. p \in Nat
      BY <1>1 DEF TypeOK
    <3>2. triggers[p % Size] = Empty
      BY <3>1, SlotOf DEF Init
    <3>. QED
      BY <1>4, <3>1, <3>2 DEF SlotOK, Empty
  <2>. QED
    BY <2>1 DEF SlotInv
<1>6. CounterInv /\ WindowInv /\ HostInv /\ HandledInOrder
  BY <1>4 DEF Init, CounterInv, WindowInv, HostInv, HandledInOrder
<1>. QED
  BY <1>1, <1>3, <1>5, <1>6 DEF IInv

\* Every step of the device threads and of the proxy thread keeps the invariant.
LEMMA InvStep == IInv /\ [Next]_vars => IInv'
<1> SUFFICES ASSUME IInv, [Next]_vars
             PROVE  IInv'
  OBVIOUS
<1>1. TypeOK' /\ ThreadPosition'
  BY TypeStep, PositionStep DEF IInv
<1>2. ASSUME NEW t \in Threads, NEW trig \in Triggers, Push(t, trig)
      PROVE  IInv'
  BY <1>1, <1>2, PushStep
<1>3. ASSUME NEW t \in Threads, Sync(t) \/ SeePopped(t)
      PROVE  IInv'
  BY <1>1, <1>3, CallerStep
<1>4. ASSUME NEW t \in Threads, DeviceStep(t)
      PROVE  IInv'
  BY <1>1, <1>4, CheckTailCacheStep, SyncFreeStep, WriteTailCacheStep, StoreStep, StoreSndStep,
     CallerStep DEF DeviceStep
<1>5. CASE HostStep
  BY <1>1, <1>5, ReadStep, PopClearStep, PopAdvanceStep DEF HostStep
<1>6. CASE UNCHANGED vars
  <2>1. \A u \in Threads : InPush(u)' <=> InPush(u)
    BY <1>6 DEF vars, deviceVars, InPush
  <2>2. \A p : Published(p)' <=> Published(p)
    BY <1>6, <2>1 DEF vars, deviceVars, Published
  <2>3. CounterInv' /\ HandledInOrder' /\ DistinctInv' /\ WindowInv' /\ HostInv'
    BY <1>6, <2>1, <2>2, SMTT(30) DEF vars, deviceVars, hostVars, IInv, CounterInv, HandledInOrder,
       DistinctInv, WindowInv, HostInv
  <2>4. \A u \in Threads : ThreadOK(u)' <=> ThreadOK(u)
    BY <1>6, <2>1 DEF vars, deviceVars, hostVars, ThreadOK
  <2>5. \A p : SlotOK(p)' <=> SlotOK(p)
    BY <1>6, <2>2 DEF vars, deviceVars, hostVars, SlotOK
  <2>6. ThreadInv' /\ SlotInv'
    BY <1>6, <2>4, <2>5 DEF vars, deviceVars, hostVars, ThreadInv, SlotInv, IInv
  <2>. QED
    BY <1>1, <2>3, <2>6 DEF IInv
<1>. QED
  BY <1>2, <1>3, <1>4, <1>5, <1>6 DEF Next

\* The inductive invariant relates slots, counters and control points of push(),
\* poll() and pop() in every reachable state.
THEOREM Inductive == Spec => []IInv
BY InvInit, InvStep, PTL DEF Spec

\* Whatever tailCache holds, a push() about to store owns its slot.
THEOREM StoresExclusive == Spec => []StoreExclusive
<1>1. IInv => StoreExclusive
  <2> SUFFICES ASSUME IInv, NEW t \in Threads, pc[t] \in {"store", "storeFst"}
               PROVE  /\ triggers[prevHead[t] % Size].fst = 0
                      /\ \A u \in Threads \ {t} : pc[u] \in {"store", "storeFst"} =>
                           prevHead[u] % Size # prevHead[t] % Size
    BY DEF StoreExclusive
  <2>1. ASSUME NEW u \in Threads \ {t}, pc[u] \in {"store", "storeFst"}
        PROVE  prevHead[u] % Size # prevHead[t] % Size
    <3>1. prevHead[u] # prevHead[t]
      BY <2>1, StorePosition DEF IInv, DistinctInv
    <3>. QED
      BY <2>1, <3>1, StorePosition, WindowSlots
  <2>. QED
    BY <2>1, StorePosition
<1>. QED
  BY <1>1, Inductive, PTL

\* The handler gets the pushed triggers intact, in position order, each once.
THEOREM HandledOnceInOrder == Spec => []HandledInOrder
<1>1. IInv => HandledInOrder
  BY DEF IInv
<1>. QED
  BY <1>1, Inductive, PTL

\* sync() and poll() report a trigger popped only after its handler has run.
THEOREM PoppedHandled == Spec => []PoppedIsHandled
<1>1. IInv => PoppedIsHandled
  BY Basics DEF PoppedIsHandled, ThreadOK, IInv, CounterInv
<1>. QED
  BY <1>1, Inductive, PTL

\* The ring of slots, its counters and its caches implement the abstract queue.
THEOREM Refinement == Spec => ImplementsQueue
<1>1. Init => Abstract!AbsInit
  BY DEF Init, Abstract!AbsInit
<1>2. IInv /\ [Next]_vars => [Abstract!AbsNext]_(Abstract!absVars)
  <2> SUFFICES ASSUME IInv, [Next]_vars
               PROVE  [Abstract!AbsNext]_(Abstract!absVars)
    OBVIOUS
  <2>1. ASSUME NEW t \in Threads, NEW trig \in Triggers, Push(t, trig)
        PROVE  Abstract!AbsNext
    <3>1. Abstract!AbsPush(trig)
      BY <2>1 DEF Push, hostVars, IInv, CounterInv, Abstract!AbsPush
    <3>. QED
      BY <3>1 DEF Abstract!AbsNext
  <2>2. CASE Handle
    <3>1. /\ hostPc = "check" /\ hostTrigger.fst # 0 /\ pushed' = pushed
          /\ handled' = Append(handled, Flip(hostTrigger))
      BY <2>2 DEF Handle, deviceVars
    <3>2. /\ Published(tail) /\ hostTrigger = Flip(pushed[tail + 1])
          /\ Len(handled) = tail /\ Len(pushed) = head
      BY <3>1 DEF IInv, HostInv, CounterInv
    <3>3. tail < head /\ tail + 1 \in 1 .. Len(pushed) /\ pushed \in Seq(Triggers)
      BY <3>2, Basics, SMTT(30) DEF Published, IInv, TypeOK
    <3>4. Flip(hostTrigger) = pushed[tail + 1]
      BY <3>2, <3>3, TriggerWord, FlipWord
    <3>5. Abstract!AbsHandle
      BY <3>1, <3>2, <3>3, <3>4 DEF Abstract!AbsHandle
    <3>. QED
      BY <3>5 DEF Abstract!AbsNext
  <2>3. ASSUME NEW t \in Threads, Sync(t) \/ SeePopped(t) \/ DeviceStep(t)
        PROVE  UNCHANGED Abstract!absVars
    BY <2>3 DEF Sync, SeePopped, DeviceStep, CheckTailCache, SyncFree, WriteTailCache,
                StoreTrigger, StoreSnd, StoreFst, hostVars, Abstract!absVars
  <2>4. CASE PollFst \/ PollSnd \/ NotReady \/ PopClear \/ PopAdvance
    BY <2>4 DEF PollFst, PollSnd, NotReady, PopClear, PopAdvance, deviceVars, Abstract!absVars
  <2>5. CASE UNCHANGED vars
    BY <2>5 DEF vars, deviceVars, hostVars, Abstract!absVars
  <2>. QED
    BY <2>1, <2>2, <2>3, <2>4, <2>5 DEF Next, HostStep
<1>. QED
  BY <1>1, <1>2, Inductive, PTL DEF Spec, ImplementsQueue, Abstract!AbsSpec
=============================================================================
