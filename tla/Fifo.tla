-------------------------------- MODULE Fifo --------------------------------
(***************************************************************************)
(* The concurrent FIFO of triggers: device threads push                    *)
(* (include/mscclpp/fifo_device.hpp), the proxy thread polls and pops      *)
(* (src/core/fifo.cc, driven by the loop of src/core/proxy.cc).  Every     *)
(* access to a word another thread also accesses is a step of its own.     *)
(*                                                                         *)
(* A trigger is its two 64-bit words.  fst is never zero; the top bit of   *)
(* snd is reserved for the FIFO, so snd is below Half, the weight of that  *)
(* bit.                                                                    *)
(***************************************************************************)
EXTENDS Integers, Sequences

CONSTANTS Threads,     \* device threads
          Size,        \* number of slots
          Half,        \* the weight of the reserved bit of snd (2^63)
          Triggers,    \* the triggers the threads push
          SplitStore,  \* TRUE: two 64-bit stores (HIP); FALSE: one 128-bit store (CUDA)
          MaxPush      \* bound on the number of pushes

ASSUME FifoAssumption ==
  /\ Size \in Nat \ {0}
  /\ Half \in Nat \ {0}
  /\ Triggers \subseteq [fst : Nat \ {0}, snd : 0 .. Half - 1]
  /\ SplitStore \in BOOLEAN
  /\ MaxPush \in Nat

VARIABLES
  head,       \* next position, on the device
  tail,       \* number of popped triggers, on the host
  tailCache,  \* device copy of tail
  triggers,   \* the slots
  pc,         \* control point of each device thread
  prevHead,   \* position drawn by the last push of each thread, -1 before the first
  trigger,    \* the trigger each thread is pushing, its snd already flipped
  val,        \* tail as loaded by the sync or poll of each thread
  hostPc,     \* control point of the proxy thread
  hostTrigger,\* the trigger the proxy thread loads
  pushed,     \* history: the triggers in position order
  handled     \* history: the triggers given to the proxy handler

deviceVars == <<head, tailCache, pc, prevHead, trigger, val, pushed>>
hostVars   == <<tail, hostPc, hostTrigger, handled>>
vars == <<deviceVars, hostVars, triggers>>

\* The exclusive or with bit 63 done by push and undone by the proxy.
FlipReserved(snd) == IF snd < Half THEN snd + Half ELSE snd - Half

Flip(t) == [t EXCEPT !.snd = FlipReserved(@)]

Slots == 0 .. Size - 1
Empty == [fst |-> 0, snd |-> 0]

\* Control points inside push(), and inside the sync() and poll() a caller invokes.
PushPoints == {"check", "sync", "cache", "store", "storeFst"}
WaitPoints == {"wait", "waitCache"}

Init ==
  /\ head = 0
  /\ tail = 0
  /\ tailCache = 0
  /\ triggers = [s \in Slots |-> Empty]
  /\ pc = [t \in Threads |-> "idle"]
  /\ prevHead = [t \in Threads |-> -1]
  /\ trigger = [t \in Threads |-> Empty]
  /\ val = [t \in Threads |-> 0]
  /\ hostPc = "pollFst"
  /\ hostTrigger = Empty
  /\ pushed = <<>>
  /\ handled = <<>>

-----------------------------------------------------------------------------
(***************************************************************************)
(* The device side.                                                        *)
(***************************************************************************)

\* push(): draw a position with a fetch-and-add and flip the reserved bit.
Push(t, trig) ==
  /\ pc[t] = "idle"
  /\ head < MaxPush
  /\ prevHead' = [prevHead EXCEPT ![t] = head]
  /\ head' = head + 1
  /\ trigger' = [trigger EXCEPT ![t] = Flip(trig)]
  /\ pushed' = Append(pushed, trig)
  /\ pc' = [pc EXCEPT ![t] = "check"]
  /\ UNCHANGED <<tailCache, val, triggers, hostVars>>

\* Mutant: off by one when comparing with the cached tail.
CheckTailCacheLate(t) ==
  /\ pc[t] = "check"
  /\ pc' = [pc EXCEPT ![t] = IF prevHead[t] > Size + tailCache THEN "sync" ELSE "store"]
  /\ UNCHANGED <<head, tailCache, prevHead, trigger, val, pushed, triggers, hostVars>>

\* push(): skip sync() when the cached tail already frees the slot.
CheckTailCache(t) ==
  /\ pc[t] = "check"
  /\ pc' = [pc EXCEPT ![t] = IF prevHead[t] >= Size + tailCache THEN "sync" ELSE "store"]
  /\ UNCHANGED <<head, tailCache, prevHead, trigger, val, pushed, triggers, hostVars>>

\* Mutant: push() syncs on its own position instead of prevHead - size.
SyncOnOwnPosition(t) ==
  /\ pc[t] = "sync"
  /\ prevHead[t] < tail
  /\ val' = [val EXCEPT ![t] = tail]
  /\ pc' = [pc EXCEPT ![t] = "cache"]
  /\ UNCHANGED <<head, tailCache, prevHead, trigger, pushed, triggers, hostVars>>

\* sync() called by push() on prevHead - size: the load that ends the spin.
SyncFree(t) ==
  /\ pc[t] = "sync"
  /\ prevHead[t] - Size < tail
  /\ val' = [val EXCEPT ![t] = tail]
  /\ pc' = [pc EXCEPT ![t] = "cache"]
  /\ UNCHANGED <<head, tailCache, prevHead, trigger, pushed, triggers, hostVars>>

\* sync() or poll(): write the loaded, by now possibly stale, tail to the cache.
WriteTailCache(t) ==
  /\ pc[t] \in {"cache", "waitCache"}
  /\ tailCache' = val[t]
  /\ pc' = [pc EXCEPT ![t] = IF pc[t] = "cache" THEN "store" ELSE "idle"]
  /\ UNCHANGED <<head, prevHead, trigger, val, pushed, triggers, hostVars>>

\* push() on CUDA: one 128-bit store publishes the trigger.  Elsewhere this is the
\* case that nobody looks between the two stores.
StoreTrigger(t) ==
  /\ pc[t] = "store"
  /\ triggers' = [triggers EXCEPT ![prevHead[t] % Size] = trigger[t]]
  /\ pc' = [pc EXCEPT ![t] = "idle"]
  /\ UNCHANGED <<head, tailCache, prevHead, trigger, val, pushed, hostVars>>

\* push() elsewhere: snd is stored first, and others may see that ...
StoreSnd(t) ==
  /\ SplitStore
  /\ pc[t] = "store"
  /\ triggers' = [triggers EXCEPT ![prevHead[t] % Size].snd = trigger[t].snd]
  /\ pc' = [pc EXCEPT ![t] = "storeFst"]
  /\ UNCHANGED <<head, tailCache, prevHead, trigger, val, pushed, hostVars>>

\* ... and fst, which publishes the trigger, no earlier than snd.
StoreFst(t) ==
  /\ pc[t] = "storeFst"
  /\ triggers' = [triggers EXCEPT ![prevHead[t] % Size].fst = trigger[t].fst]
  /\ pc' = [pc EXCEPT ![t] = "idle"]
  /\ UNCHANGED <<head, tailCache, prevHead, trigger, val, pushed, hostVars>>

\* A caller starts sync() on the position of its last push ...
Sync(t) ==
  /\ pc[t] = "idle"
  /\ prevHead[t] # -1
  /\ pc' = [pc EXCEPT ![t] = "wait"]
  /\ UNCHANGED <<head, tailCache, prevHead, trigger, val, pushed, triggers, hostVars>>

\* Mutant: off by one when comparing the position with the tail.
SeePoppedEarly(t) ==
  /\ pc[t] \in {"idle", "wait"}
  /\ prevHead[t] # -1
  /\ prevHead[t] <= tail
  /\ val' = [val EXCEPT ![t] = tail]
  /\ pc' = [pc EXCEPT ![t] = "waitCache"]
  /\ UNCHANGED <<head, tailCache, prevHead, trigger, pushed, triggers, hostVars>>

\* ... or poll(), which goes on only when the trigger is popped.  Either way
\* this is the load that finds the trigger popped.
SeePopped(t) ==
  /\ pc[t] \in {"idle", "wait"}
  /\ prevHead[t] # -1
  /\ prevHead[t] < tail
  /\ val' = [val EXCEPT ![t] = tail]
  /\ pc' = [pc EXCEPT ![t] = "waitCache"]
  /\ UNCHANGED <<head, tailCache, prevHead, trigger, pushed, triggers, hostVars>>

-----------------------------------------------------------------------------
(***************************************************************************)
(* The proxy thread: poll(), the handler, pop().                           *)
(***************************************************************************)

PollFst ==
  /\ hostPc = "pollFst"
  /\ hostTrigger' = [hostTrigger EXCEPT !.fst = triggers[tail % Size].fst]
  /\ hostPc' = "pollSnd"
  /\ UNCHANGED <<tail, handled, triggers, deviceVars>>

PollSnd ==
  /\ hostPc = "pollSnd"
  /\ hostTrigger' = [hostTrigger EXCEPT !.snd = triggers[tail % Size].snd]
  /\ hostPc' = "check"
  /\ UNCHANGED <<tail, handled, triggers, deviceVars>>

\* A zero word: no trigger yet, poll again.
NotReady ==
  /\ hostPc = "check"
  /\ hostTrigger.fst = 0 \/ hostTrigger.snd = 0
  /\ hostPc' = "pollFst"
  /\ UNCHANGED <<tail, hostTrigger, handled, triggers, deviceVars>>

\* Mutant: the handler gets the trigger with its reserved bit flipped.
HandleFlipped ==
  /\ hostPc = "check"
  /\ hostTrigger.fst # 0 /\ hostTrigger.snd # 0
  /\ handled' = Append(handled, hostTrigger)
  /\ hostPc' = "clear"
  /\ UNCHANGED <<tail, hostTrigger, triggers, deviceVars>>

\* Restore the reserved bit and run the handler.
Handle ==
  /\ hostPc = "check"
  /\ hostTrigger.fst # 0 /\ hostTrigger.snd # 0
  /\ handled' = Append(handled, Flip(hostTrigger))
  /\ hostPc' = "clear"
  /\ UNCHANGED <<tail, hostTrigger, triggers, deviceVars>>

\* pop(): clear fst only ...
PopClear ==
  /\ hostPc = "clear"
  /\ triggers' = [triggers EXCEPT ![tail % Size].fst = 0]
  /\ hostPc' = "advance"
  /\ UNCHANGED <<tail, hostTrigger, handled, deviceVars>>

\* ... then publish the new tail.
PopAdvance ==
  /\ hostPc = "advance"
  /\ tail' = tail + 1
  /\ hostPc' = "pollFst"
  /\ UNCHANGED <<hostTrigger, handled, triggers, deviceVars>>

\* Steps of a call under way; starting a call is the caller's choice.
DeviceStep(t) ==
  \/ CheckTailCache(t) \/ SyncFree(t) \/ WriteTailCache(t)
  \/ StoreTrigger(t) \/ StoreSnd(t) \/ StoreFst(t)
  \/ pc[t] = "wait" /\ SeePopped(t)

HostStep == PollFst \/ PollSnd \/ NotReady \/ Handle \/ PopClear \/ PopAdvance

Next ==
  \/ \E t \in Threads, trig \in Triggers : Push(t, trig)
  \/ \E t \in Threads : Sync(t) \/ SeePopped(t) \/ DeviceStep(t)
  \/ HostStep

Spec == Init /\ [][Next]_vars

\* The blocks of a kernel are co-resident and each makes progress; the proxy
\* thread is an operating-system thread.
FairSpec == Spec /\ WF_vars(HostStep) /\ \A t \in Threads : WF_vars(DeviceStep(t))
-----------------------------------------------------------------------------
(***************************************************************************)
(* Properties.                                                             *)
(***************************************************************************)

Words == [fst : Nat, snd : 0 .. 2 * Half - 1]

\* The variables of push(), sync(), poll() and pop() keep their types.
TypeOK ==
  /\ head \in 0 .. MaxPush
  /\ tail \in Nat
  /\ tailCache \in Nat
  /\ triggers \in [Slots -> Words]
  /\ pc \in [Threads -> {"idle"} \cup PushPoints \cup WaitPoints]
  /\ prevHead \in [Threads -> Nat \cup {-1}]
  /\ trigger \in [Threads -> Words]
  /\ val \in [Threads -> Nat]
  /\ hostPc \in {"pollFst", "pollSnd", "check", "clear", "advance"}
  /\ hostTrigger \in Words
  /\ pushed \in Seq(Triggers)
  /\ handled \in Seq(Words)

\* Whatever stale value tailCache holds, a push() about to store owns its slot:
\* the slot has been popped, and no other push is about to store into it.
StoreExclusive ==
  \A t \in Threads : pc[t] \in {"store", "storeFst"} =>
    /\ triggers[prevHead[t] % Size].fst = 0
    /\ \A u \in Threads \ {t} : pc[u] \in {"store", "storeFst"} =>
         prevHead[u] % Size # prevHead[t] % Size

\* The triggers given to the handler are the first ones pushed, each exactly
\* once, with both words as pushed: no trigger is torn, lost, repeated or
\* overtaken, although pop() leaves the old snd in the slot.
HandledInOrder ==
  /\ Len(handled) <= Len(pushed)
  /\ \A i \in 1 .. Len(handled) : handled[i] = pushed[i]

\* When sync() or poll() of a caller sees its trigger popped, the handler has
\* run on that trigger.
PoppedIsHandled ==
  \A t \in Threads : pc[t] = "waitCache" => prevHead[t] < Len(handled)

\* The FIFO implements the abstract queue.
Abstract == INSTANCE AbstractFifo
ImplementsQueue == Abstract!AbsSpec

\* Every push() and sync() returns, also when the FIFO is full and several threads
\* wait for slots, and every trigger whose position was drawn reaches the handler.
CallsReturn ==
  /\ \A t \in Threads : (pc[t] # "idle") ~> (pc[t] = "idle")
  /\ \A i \in 1 .. MaxPush : (Len(pushed) >= i) ~> (Len(handled) >= i)
=============================================================================
