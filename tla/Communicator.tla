---------------------------- MODULE Communicator ----------------------------
(***************************************************************************)
(* Communicator (src/core/communicator.cc): sendMemory(), recvMemory(),    *)
(* connect() and buildSemaphore() between two ranks with tags, whose       *)
(* receives are deferred futures run in any order by get(), and            *)
(* sendMemory() and recvMemory() of a rank to itself.                      *)
(*                                                                         *)
(* The bootstrap is a FIFO for each receiver and tag.  A message is its    *)
(* number among those sent to that receiver with that tag.                 *)
(***************************************************************************)
EXTENDS Integers, Sequences

CONSTANTS Ranks,        \* two ranks
          Calls,        \* of each rank: the kinds of calls it makes, "send", "recv" and "connect"
          Tags,
          MaxOps,       \* bound on the calls of each rank, other than get()
          EarlyRecv     \* TRUE: a rank may receive from itself before it sends

CommunicatorAssumption ==
  /\ Calls \in [Ranks -> SUBSET {"send", "recv", "connect"}]
  /\ MaxOps \in Nat
  /\ EarlyRecv \in BOOLEAN

VARIABLES
  sent,           \* messages sent to each rank with each tag
  taken,          \* messages each rank has received with each tag
  items,          \* the receive futures of each rank, in the order of the calls
  lastRecvItems,  \* of each rank and tag: the index of the last item, 0 if none
  stack,          \* the items the get() of each rank is running, innermost last
  ops,
  localRecvMemories,  \* of each rank: the list of futures, by index in localItems
  localItems,     \* of each rank: the memory of each future, 0 if not set
  localSent,      \* sends of each rank to itself
  localRecvs      \* of each rank: the futures returned by recvMemory(), in order

messageVars == <<sent, taken, items, lastRecvItems, stack>>
localVars == <<localRecvMemories, localItems, localSent, localRecvs>>
vars == <<ops, messageVars, localVars>>

Peer(r) == CHOOSE p \in Ranks : p # r

Init ==
  /\ sent = [r \in Ranks |-> [g \in Tags |-> 0]]
  /\ taken = [r \in Ranks |-> [g \in Tags |-> 0]]
  /\ items = [r \in Ranks |-> <<>>]
  /\ lastRecvItems = [r \in Ranks |-> [g \in Tags |-> 0]]
  /\ stack = [r \in Ranks |-> <<>>]
  /\ ops = [r \in Ranks |-> 0]
  /\ localRecvMemories = [r \in Ranks |-> <<>>]
  /\ localItems = [r \in Ranks |-> <<>>]
  /\ localSent = [r \in Ranks |-> 0]
  /\ localRecvs = [r \in Ranks |-> <<>>]

\* A rank makes one call at a time.
Idle(r) == stack[r] = <<>>

Called(r) == Idle(r) /\ ops[r] < MaxOps /\ ops' = [ops EXCEPT ![r] = @ + 1]

-----------------------------------------------------------------------------
(***************************************************************************)
(* Between two ranks.                                                      *)
(***************************************************************************)

BootstrapSend(r, g) == sent' = [sent EXCEPT ![Peer(r)][g] = @ + 1]

SendMemory(r, g) ==
  /\ "send" \in Calls[r] /\ Called(r) /\ BootstrapSend(r, g)
  /\ UNCHANGED <<taken, items, lastRecvItems, stack, localVars>>

Ready(r, i) == items[r][i].value # 0

\* Mutant: an item that is not ready is dropped from the map, too.
ForgetLastRecvItem(r, g) == 0

\* getLastRecvItem(): the last item, unless it is ready.
GetLastRecvItem(r, g) ==
  LET i == lastRecvItems[r][g] IN IF i # 0 /\ ~Ready(r, i) THEN i ELSE 0

\* makeOrderedRecvFuture(): the deferred receive remembers the one before it.
MakeOrderedRecvFuture(r, g) ==
  /\ items' = [items EXCEPT ![r] =
                 Append(@, [tag |-> g, prev |-> GetLastRecvItem(r, g), value |-> 0])]
  /\ lastRecvItems' = [lastRecvItems EXCEPT ![r][g] = Len(items[r]) + 1]

RecvMemory(r, g) ==
  /\ "recv" \in Calls[r] /\ Called(r) /\ MakeOrderedRecvFuture(r, g)
  /\ UNCHANGED <<sent, taken, stack, localVars>>

\* connect() and buildSemaphore(): send the own part, receive the peer's later.
Connect(r, g) ==
  /\ "connect" \in Calls[r] /\ Called(r) /\ BootstrapSend(r, g) /\ MakeOrderedRecvFuture(r, g)
  /\ UNCHANGED <<taken, stack, localVars>>

\* get() or wait() on a future whose receive has not run.
Get(r, i) ==
  /\ Idle(r) /\ ~Ready(r, i)
  /\ stack' = [stack EXCEPT ![r] = <<i>>]
  /\ UNCHANGED <<sent, taken, items, lastRecvItems, ops, localVars>>

Top(r) == stack[r][Len(stack[r])]

\* The deferred receive first waits for the one before it ...
WaitForLast(r) ==
  /\ ~Idle(r)
  /\ LET prev == items[r][Top(r)].prev IN
       /\ prev # 0 /\ ~Ready(r, prev)
       /\ stack' = [stack EXCEPT ![r] = Append(@, prev)]
  /\ UNCHANGED <<sent, taken, items, lastRecvItems, ops, localVars>>

\* ... then takes a message, and clears the map if it is still the last item.
BootstrapRecv(r) ==
  /\ ~Idle(r)
  /\ LET i == Top(r)
         g == items[r][i].tag
         prev == items[r][i].prev
     IN /\ prev # 0 => Ready(r, prev)
        /\ taken[r][g] < sent[r][g]
        /\ taken' = [taken EXCEPT ![r][g] = @ + 1]
        /\ items' = [items EXCEPT ![r][i].value = taken[r][g] + 1]
        /\ lastRecvItems' = [lastRecvItems EXCEPT ![r][g] = IF @ = i THEN 0 ELSE @]
        /\ stack' = [stack EXCEPT ![r] = SubSeq(@, 1, Len(@) - 1)]
  /\ UNCHANGED <<sent, ops, localVars>>

-----------------------------------------------------------------------------
(***************************************************************************)
(* A rank to itself, with one tag.                                         *)
(***************************************************************************)

LocalReady(r, i) == localItems[r][i] # 0

\* Positions in the list of a rank whose future is ready, or not.
ReadyAt(r, ready) ==
  {k \in DOMAIN localRecvMemories[r] : LocalReady(r, localRecvMemories[r][k]) = ready}

First(S) == CHOOSE k \in S : \A j \in S : k <= j

\* sendMemory(): set the first future that is not ready, or add a ready one.
LocalSend(r) ==
  LET open == ReadyAt(r, FALSE)
      memory == localSent[r] + 1
  IN /\ Called(r)
     /\ localSent' = [localSent EXCEPT ![r] = memory]
     /\ IF open # {}
          THEN /\ localItems' = [localItems EXCEPT ![r][localRecvMemories[r][First(open)]] = memory]
               /\ UNCHANGED localRecvMemories
          ELSE /\ localItems' = [localItems EXCEPT ![r] = Append(@, memory)]
               /\ localRecvMemories' = [localRecvMemories EXCEPT ![r] = Append(@, Len(localItems[r]) + 1)]
     /\ UNCHANGED <<messageVars, localRecvs>>

\* recvMemory() takes the first ready future of the list.
LocalTakes(ready) == First(ready)

\* recvMemory(): take a ready future off the list, or add one that is not.
LocalRecv(r) ==
  LET ready == ReadyAt(r, TRUE)
      list == localRecvMemories[r]
      k == LocalTakes(ready)
  IN /\ Called(r)
     /\ EarlyRecv \/ Len(localRecvs[r]) < localSent[r]
     /\ IF ready # {}
          THEN /\ localRecvs' = [localRecvs EXCEPT ![r] = Append(@, list[k])]
               /\ localRecvMemories' = [localRecvMemories EXCEPT ![r] =
                                          SubSeq(list, 1, k - 1) \o SubSeq(list, k + 1, Len(list))]
               /\ UNCHANGED localItems
          ELSE /\ localItems' = [localItems EXCEPT ![r] = Append(@, 0)]
               /\ localRecvMemories' = [localRecvMemories EXCEPT ![r] = Append(@, Len(localItems[r]) + 1)]
               /\ localRecvs' = [localRecvs EXCEPT ![r] = Append(@, Len(localItems[r]) + 1)]
     /\ UNCHANGED <<messageVars, localSent>>

RankStep(r) == WaitForLast(r) \/ BootstrapRecv(r)

MessageNext ==
  \E r \in Ranks :
    \/ \E g \in Tags : SendMemory(r, g) \/ RecvMemory(r, g) \/ Connect(r, g)
    \/ \E i \in DOMAIN items[r] : Get(r, i)
    \/ RankStep(r)

LocalNext == \E r \in Ranks : LocalSend(r) \/ LocalRecv(r)

Next == MessageNext \/ LocalNext

Spec == Init /\ [][Next]_vars

\* A get() under way goes on; the calls are the application's choice.
FairSpec == Spec /\ \A r \in Ranks : WF_vars(RankStep(r))
-----------------------------------------------------------------------------

\* The number of an item among those of its rank and tag.
Index(r, i) == Len(SelectSeq(SubSeq(items[r], 1, i), LAMBDA it : it.tag = items[r][i].tag))

\* "Multiple calls ... will be ordered by the order of calls": the i-th receiving call
\* gets what the i-th sending call sent, in whatever order get() is called and calls
\* of recvMemory(), connect() and buildSemaphore() are mixed.
ReceivedInCallOrder ==
  \A r \in Ranks : \A i \in DOMAIN items[r] : Ready(r, i) => items[r][i].value = Index(r, i)

\* The peer has made the sending call for the get() that rank r is in.
Due(r) == ~Idle(r) /\ sent[r][items[r][stack[r][1]].tag] >= Index(r, stack[r][1])

\* The same order for a rank that sends to itself: the i-th recvMemory() gets the i-th
\* memory sent.
LocalInCallOrder ==
  \A r \in Ranks : \A i \in DOMAIN localRecvs[r] : localItems[r][localRecvs[r][i]] \in {0, i}
=============================================================================
