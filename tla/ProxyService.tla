---------------------------- MODULE ProxyService ----------------------------
(***************************************************************************)
(* Port channels: device threads push triggers (port_channel_device.hpp),  *)
(* the proxy thread (proxy.cc) hands each to ProxyService::handleTrigger   *)
(* (port_channel.cc), which posts writes and signals on connections        *)
(* (connection.cc) and completes flushes asynchronously.  The main thread  *)
(* starts and stops the proxy.                                             *)
(*                                                                         *)
(* The FIFO is the abstract queue that Fifo implements: the position of a  *)
(* trigger is the number of triggers pushed before it.  Each connection    *)
(* has a work queue: the send queue of its QP (InfiniBand) or the CUDA     *)
(* stream, which connections may share (CudaIpc).                          *)
(***************************************************************************)
EXTENDS Integers, Sequences, FiniteSets

CONSTANTS
  Threads,            \* device threads
  Conns, Ib,          \* connections; those over InfiniBand
  Queues, QueueOf,    \* work queues; the queue of each connection
  Sems, SemConn,      \* semaphores; the connection of each
  Types,              \* trigger types the threads use: subsets of {"data", "flag", "sync"}
  MaxWriteQueueSize,  \* of each connection, -1 if none
  StopCheckPeriod,    \* iterations between two looks at running, less one
  DrainTries,         \* iterations of the bounded drain in stopProxy
  MaxPush, MaxStop    \* bounds on the number of pushes and of calls of stopProxy

Triggers == [type : Types, sem : Sems]
Sentinel == MaxPush + 1   \* UINT64_MAX, above any position plus one
None == -1

ASSUME ProxyAssumption ==
  /\ Ib \subseteq Conns
  /\ QueueOf \in [Conns -> Queues]
  /\ \A c \in Ib, d \in Conns \ Ib : QueueOf[c] # QueueOf[d]   \* a QP is no stream
  /\ SemConn \in [Sems -> Conns]
  /\ MaxWriteQueueSize \in [Conns -> Int]
  /\ Types \subseteq SUBSET {"data", "flag", "sync"}
  /\ StopCheckPeriod \in Nat /\ DrainTries \in Nat
  /\ MaxPush \in Nat /\ MaxStop \in Nat

VARIABLES
  pushed, handled,   \* the FIFO
  pc, pos,           \* of each device thread: control point, position of its last flush
  mainPc, tries,     \* main thread: control point, iterations left in the drain
  stops,             \* number of calls of stopProxy
  running, threadStarted,  \* of Proxy::Impl
  service, runCnt,   \* proxy thread: control point, runCnt
  inflightRequests, pendingFlushPos,  \* of each connection; None if the map has no entry
  flushDone,         \* of each connection: *gpuFlushDonePos_
  outboundToken,     \* of each semaphore
  sq,                \* of each work queue: the operations posted and not yet performed
  cq,                \* of each work queue: completions not yet polled
  numPosted,         \* of each work queue: numPostedSignaledSend_, for a stream dirty_ as 0 or 1
  landed,            \* positions whose data is in the remote memory
  inboundToken,      \* remote token of each semaphore
  forced             \* history: positions pushed before a sentinel, or the restart after it

queueVars  == <<sq, cq, numPosted>>
remoteVars == <<landed, inboundToken>>
threadVars == <<pc, pos>>
mainVars   == <<mainPc, tries, stops, running, forced>>
proxyVars  == <<threadStarted, service, runCnt, inflightRequests, pendingFlushPos, flushDone, outboundToken>>
vars == <<pushed, handled, threadVars, mainVars, proxyVars, queueVars, remoteVars>>

Fifo == INSTANCE AbstractFifo

Init ==
  /\ Fifo!AbsInit
  /\ pc = [t \in Threads |-> "idle"] /\ pos = [t \in Threads |-> None]
  /\ mainPc = "stopped" /\ tries = 0 /\ stops = 0
  /\ running = FALSE /\ threadStarted = FALSE
  /\ service = "none" /\ runCnt = StopCheckPeriod
  /\ inflightRequests = [c \in Conns |-> 0]
  /\ pendingFlushPos = [c \in Conns |-> None]
  /\ flushDone = [c \in Conns |-> 0]
  /\ outboundToken = [s \in Sems |-> 0]
  /\ sq = [q \in Queues |-> <<>>]
  /\ cq = [q \in Queues |-> 0]
  /\ numPosted = [q \in Queues |-> 0]
  /\ landed = {} /\ inboundToken = [s \in Sems |-> 0]
  /\ forced = {}

ConnOf(trig) == SemConn[trig.sem]
IbQueue(q) == \E c \in Ib : QueueOf[c] = q

-----------------------------------------------------------------------------
(***************************************************************************)
(* Device threads.                                                         *)
(***************************************************************************)

\* put(), signal(), putWithSignal(), putWithSignalAndFlush(), flush(): one push.
Push(t, trig) ==
  /\ pc[t] \in {"idle", "flushed"}
  /\ Fifo!AbsPush(trig)
  /\ IF "sync" \in trig.type
       THEN pc' = [pc EXCEPT ![t] = "waitFlush"] /\ pos' = [pos EXCEPT ![t] = Len(pushed)]
       ELSE pc' = [pc EXCEPT ![t] = "idle"] /\ UNCHANGED pos
  /\ forced' = IF flushDone[ConnOf(trig)] = Sentinel /\ ~running
                 THEN forced \cup {Len(pushed)}
                 ELSE forced
  /\ UNCHANGED <<mainPc, tries, stops, running, proxyVars, queueVars, remoteVars>>

\* waitFlush(): the load that ends the spin.
WaitFlush(t) ==
  /\ pc[t] = "waitFlush"
  /\ flushDone[ConnOf(pushed[pos[t] + 1])] > pos[t]
  /\ pc' = [pc EXCEPT ![t] = "flushed"]
  /\ UNCHANGED <<pos, pushed, handled, mainVars, proxyVars, queueVars, remoteVars>>

-----------------------------------------------------------------------------
(***************************************************************************)
(* The NIC and the copy engine.                                            *)
(***************************************************************************)

\* The oldest operation of a work queue takes effect at the remote side; on a QP its
\* completion is then in the CQ.  A signal is an atomic add, or a copy of the value.
Perform(q) ==
  /\ sq[q] # <<>>
  /\ LET op == Head(sq[q]) IN
       IF op.kind = "write"
         THEN landed' = landed \cup {op.pos} /\ UNCHANGED inboundToken
         ELSE /\ inboundToken' = [inboundToken EXCEPT ![op.sem] =
                                    IF IbQueue(q) THEN @ + op.val - op.old ELSE op.val]
              /\ UNCHANGED landed
  /\ sq' = [sq EXCEPT ![q] = Tail(@)]
  /\ cq' = [cq EXCEPT ![q] = IF IbQueue(q) THEN @ + 1 ELSE @]
  /\ UNCHANGED <<pushed, handled, threadVars, mainVars, proxyVars, numPosted>>

-----------------------------------------------------------------------------
(***************************************************************************)
(* The proxy thread.                                                       *)
(***************************************************************************)

\* The thread reaches its loop.
ThreadInit ==
  /\ service = "init"
  /\ threadStarted' = TRUE
  /\ service' = "top"
  /\ UNCHANGED <<pushed, handled, threadVars, mainVars, queueVars, remoteVars>>
  /\ UNCHANGED <<runCnt, inflightRequests, pendingFlushPos, flushDone, outboundToken>>

\* Top of the loop: running is looked at every StopCheckPeriod + 1 iterations.
LoopTop ==
  /\ service = "top"
  /\ IF runCnt = 0
       THEN /\ runCnt' = StopCheckPeriod
            /\ service' = IF running THEN "progress" ELSE "exited"
       ELSE /\ runCnt' = runCnt - 1
            /\ service' = "progress"
  /\ UNCHANGED <<pushed, handled, threadVars, mainVars, queueVars, remoteVars>>
  /\ UNCHANGED <<threadStarted, inflightRequests, pendingFlushPos, flushDone, outboundToken>>

\* pollSendCq() by progressFlush(c): at most one completion.
Polls(c) == c \in Ib /\ numPosted[QueueOf[c]] # 0 /\ cq[QueueOf[c]] # 0

\* Mutant: the CQ is empty, instead of nothing being uncompleted.
CqEmpty(c) == c \in Ib => cq[QueueOf[c]] - (IF Polls(c) THEN 1 ELSE 0) = 0

\* progressFlush(c) returns true.
Progressed(c) ==
  c \in Ib => numPosted[QueueOf[c]] - (IF Polls(c) THEN 1 ELSE 0) = 0

\* progressFlushes(): poll for each pending connection, publish the drained ones.
ProgressFlushes ==
  LET pending == {c \in Conns : pendingFlushPos[c] # None}
      polled == {QueueOf[c] : c \in {d \in pending : Polls(d)}}
      done == {c \in pending : Progressed(c)}
  IN /\ cq' = [q \in Queues |-> IF q \in polled THEN cq[q] - 1 ELSE cq[q]]
     /\ numPosted' = [q \in Queues |-> IF q \in polled THEN numPosted[q] - 1 ELSE numPosted[q]]
     /\ flushDone' = [c \in Conns |-> IF c \in done THEN pendingFlushPos[c] + 1 ELSE flushDone[c]]
     /\ pendingFlushPos' = [c \in Conns |-> IF c \in done THEN None ELSE pendingFlushPos[c]]

Progress ==
  /\ service = "progress"
  /\ ProgressFlushes
  /\ service' = "poll"
  /\ UNCHANGED <<pushed, handled, threadVars, mainVars, remoteVars, sq>>
  /\ UNCHANGED <<threadStarted, runCnt, inflightRequests, outboundToken>>

PollEmpty ==
  /\ service = "poll"
  /\ Len(handled) = Len(pushed)
  /\ service' = "top"
  /\ UNCHANGED <<pushed, handled, threadVars, mainVars, queueVars, remoteVars>>
  /\ UNCHANGED <<threadStarted, runCnt, inflightRequests, pendingFlushPos, flushDone, outboundToken>>

\* Mutant: the token is updated before the data is written.
SignalFirst(trig) ==
  LET write == [kind |-> "write", pos |-> Len(handled)]
      old == outboundToken[trig.sem]
      signal == [kind |-> "signal", sem |-> trig.sem, old |-> old, val |-> old + 1]
  IN (IF "flag" \in trig.type THEN <<signal>> ELSE <<>>)
     \o (IF "data" \in trig.type THEN <<write>> ELSE <<>>)

\* The operations handleTrigger() posts for the trigger at the tail: the write, then
\* the update of the remote token.
Posted(trig) ==
  LET write == [kind |-> "write", pos |-> Len(handled)]
      old == outboundToken[trig.sem]
      signal == [kind |-> "signal", sem |-> trig.sem, old |-> old, val |-> old + 1]
  IN (IF "data" \in trig.type THEN <<write>> ELSE <<>>)
     \o (IF "flag" \in trig.type THEN <<signal>> ELSE <<>>)

\* Where handleTrigger() goes on when it has posted; numRequests counts the posts.
AfterPost(trig, numRequests) ==
  LET limit == MaxWriteQueueSize[ConnOf(trig)] IN
  IF "sync" \in trig.type THEN "requestFlush"
  ELSE IF limit # -1 /\ numRequests >= limit THEN "flush"
  ELSE "top"

HandleTrigger ==
  LET trig == pushed[Len(handled) + 1]
      c == ConnOf(trig)
      q == QueueOf[c]
      ops == Posted(trig)
      numRequests == inflightRequests[c] + Len(ops)
  IN /\ service = "poll"
     /\ Fifo!AbsHandle
     /\ sq' = [sq EXCEPT ![q] = @ \o ops]
     /\ numPosted' = [numPosted EXCEPT ![q] =
                        IF c \in Ib THEN @ + Len(ops) ELSE IF ops = <<>> THEN @ ELSE 1]
     /\ outboundToken' = IF "flag" \in trig.type
                           THEN [outboundToken EXCEPT ![trig.sem] = @ + 1]
                           ELSE outboundToken
     /\ inflightRequests' = [inflightRequests EXCEPT ![c] = numRequests]
     /\ service' = AfterPost(trig, numRequests)
     /\ UNCHANGED <<threadVars, mainVars, remoteVars, cq, threadStarted, runCnt,
                    pendingFlushPos, flushDone>>

\* The connection of the trigger being handled.
Current == ConnOf(pushed[Len(handled)])

\* flush() has nothing left to wait for: the QP has no uncompleted request, the stream
\* is not dirty or has run dry.
Drained(c) ==
  IF c \in Ib THEN numPosted[QueueOf[c]] = 0
              ELSE numPosted[QueueOf[c]] = 0 \/ sq[QueueOf[c]] = <<>>

\* flush(): one completion polled.
FlushPoll ==
  LET q == QueueOf[Current] IN
  /\ service = "flush"
  /\ Current \in Ib
  /\ numPosted[q] # 0 /\ cq[q] # 0
  /\ numPosted' = [numPosted EXCEPT ![q] = @ - 1]
  /\ cq' = [cq EXCEPT ![q] = @ - 1]
  /\ UNCHANGED <<pushed, handled, threadVars, mainVars, proxyVars, sq, remoteVars>>

\* flush() returns; sync() of a stream resets dirty_.
FlushReturns ==
  /\ service = "flush"
  /\ Drained(Current)
  /\ numPosted' = [numPosted EXCEPT ![QueueOf[Current]] = 0]
  /\ inflightRequests' = [inflightRequests EXCEPT ![Current] = 0]
  /\ service' = "top"
  /\ UNCHANGED <<pushed, handled, threadVars, mainVars, sq, cq, remoteVars>>
  /\ UNCHANGED <<threadStarted, runCnt, pendingFlushPos, flushDone, outboundToken>>

\* Mutant: an entry that is already in pendingFlushPos_ is kept.
KeepPendingPos ==
  /\ service = "requestFlush"
  /\ IF Current \in Ib THEN UNCHANGED numPosted
     ELSE Drained(Current) /\ numPosted' = [numPosted EXCEPT ![QueueOf[Current]] = 0]
  /\ pendingFlushPos' = [pendingFlushPos EXCEPT ![Current] = IF @ = None THEN Len(handled) - 1 ELSE @]
  /\ inflightRequests' = [inflightRequests EXCEPT ![Current] = 0]
  /\ service' = "top"
  /\ UNCHANGED <<pushed, handled, threadVars, mainVars, sq, cq, remoteVars>>
  /\ UNCHANGED <<threadStarted, runCnt, flushDone, outboundToken>>

\* requestFlush(), a no-op on InfiniBand and a flush() elsewhere, and the entry in
\* pendingFlushPos_.  The position is the tail, one less than the number of handled.
RequestFlush ==
  /\ service = "requestFlush"
  /\ IF Current \in Ib THEN UNCHANGED numPosted
     ELSE Drained(Current) /\ numPosted' = [numPosted EXCEPT ![QueueOf[Current]] = 0]
  /\ pendingFlushPos' = [pendingFlushPos EXCEPT ![Current] = Len(handled) - 1]
  /\ inflightRequests' = [inflightRequests EXCEPT ![Current] = 0]
  /\ service' = "top"
  /\ UNCHANGED <<pushed, handled, threadVars, mainVars, sq, cq, remoteVars>>
  /\ UNCHANGED <<threadStarted, runCnt, flushDone, outboundToken>>

ServiceStep ==
  \/ ThreadInit \/ LoopTop \/ Progress \/ PollEmpty \/ HandleTrigger
  \/ FlushPoll \/ FlushReturns \/ RequestFlush

-----------------------------------------------------------------------------
(***************************************************************************)
(* The main thread.                                                        *)
(***************************************************************************)

\* Proxy::start() creates the thread ...
StartProxy(blocking) ==
  /\ mainPc = "stopped"
  /\ running' = TRUE
  /\ service' = "init" /\ runCnt' = StopCheckPeriod
  /\ mainPc' = IF blocking THEN "starting" ELSE "started"
  /\ UNCHANGED <<pushed, handled, threadVars, tries, stops, forced, queueVars, remoteVars>>
  /\ UNCHANGED <<threadStarted, inflightRequests, pendingFlushPos, flushDone, outboundToken>>

\* ... and, when blocking, waits until it runs.
Started ==
  /\ mainPc = "starting" /\ threadStarted
  /\ mainPc' = "ready"
  /\ UNCHANGED <<pushed, handled, threadVars, proxyVars, queueVars, remoteVars>>
  /\ UNCHANGED <<tries, stops, running, forced>>

\* Mutant: stop() joins without clearing running.
StopKeepsRunning ==
  /\ mainPc \in {"started", "ready"} /\ stops < MaxStop
  /\ mainPc' = "join" /\ stops' = stops + 1
  /\ UNCHANGED <<pushed, handled, threadVars, proxyVars, queueVars, remoteVars>>
  /\ UNCHANGED <<running, tries, forced>>

\* stopProxy(): Proxy::stop() clears running ...
StopProxy ==
  /\ mainPc \in {"started", "ready"} /\ stops < MaxStop
  /\ running' = FALSE
  /\ mainPc' = "join" /\ stops' = stops + 1
  /\ UNCHANGED <<pushed, handled, threadVars, proxyVars, queueVars, remoteVars>>
  /\ UNCHANGED <<tries, forced>>

\* ... and joins the thread.
Join ==
  /\ mainPc = "join" /\ service = "exited"
  /\ threadStarted' = FALSE
  /\ service' = "none"
  /\ mainPc' = "drain" /\ tries' = DrainTries
  /\ UNCHANGED <<pushed, handled, threadVars, queueVars, remoteVars, stops, running, forced>>
  /\ UNCHANGED <<runCnt, inflightRequests, pendingFlushPos, flushDone, outboundToken>>

NonePending == \A c \in Conns : pendingFlushPos[c] = None

\* The bounded drain.
Drain ==
  /\ mainPc = "drain" /\ tries > 0 /\ ~NonePending
  /\ ProgressFlushes
  /\ tries' = tries - 1
  /\ UNCHANGED <<pushed, handled, threadVars, remoteVars, sq, mainPc, stops, running, forced>>
  /\ UNCHANGED <<threadStarted, service, runCnt, inflightRequests, outboundToken>>

\* The end of stopProxy(): a sentinel for what is still pending.
DrainEnd ==
  LET pending == {c \in Conns : pendingFlushPos[c] # None} IN
  /\ mainPc = "drain"
  /\ NonePending \/ tries = 0
  /\ flushDone' = [c \in Conns |-> IF c \in pending THEN Sentinel ELSE flushDone[c]]
  /\ pendingFlushPos' = [c \in Conns |-> None]
  /\ forced' = forced \cup {p \in 0 .. Len(pushed) - 1 : ConnOf(pushed[p + 1]) \in pending}
  /\ mainPc' = "stopped"
  /\ UNCHANGED <<pushed, handled, threadVars, remoteVars, queueVars, tries, stops, running>>
  /\ UNCHANGED <<threadStarted, service, runCnt, inflightRequests, outboundToken>>

MainStep == Started \/ Join \/ Drain \/ DrainEnd

Next ==
  \/ \E t \in Threads, trig \in Triggers : Push(t, trig)
  \/ \E t \in Threads : WaitFlush(t)
  \/ \E q \in Queues : Perform(q)
  \/ ServiceStep
  \/ \E blocking \in BOOLEAN : StartProxy(blocking)
  \/ StopProxy \/ MainStep

Spec == Init /\ [][Next]_vars

\* Device threads, the proxy thread and the NIC make progress, and so does a started
\* call of stopProxy(); calling it is the application's choice.
FairSpec ==
  /\ Spec
  /\ \A t \in Threads : WF_vars(WaitFlush(t))
  /\ \A q \in Queues : WF_vars(Perform(q))
  /\ WF_vars(ServiceStep)
  /\ WF_vars(MainStep)

-----------------------------------------------------------------------------
(***************************************************************************)
(* Properties.                                                             *)
(***************************************************************************)

\* Positions up to p of data triggers on connection c.
DataUpTo(c, p) ==
  {i \in 0 .. p : ConnOf(pushed[i + 1]) = c /\ "data" \in pushed[i + 1].type}

\* When the remote token of a semaphore shows the k-th signal, the data of every
\* trigger on the connection up to that signal is in the remote memory: a remote
\* wait() never reads stale data, although flushes, other semaphores of the connection
\* and triggers of other connections come in between.
DataBeforeSignal ==
  \A s \in Sems, p \in 0 .. Len(pushed) - 1 :
    LET flags == {i \in 0 .. p : pushed[i + 1].sem = s /\ "flag" \in pushed[i + 1].type}
    IN  Cardinality(flags) <= inboundToken[s] /\ p \in flags
          => DataUpTo(SemConn[s], p) \subseteq landed

\* waitFlush() returns only when all the data pushed to the connection up to the
\* caller's own trigger is in the remote memory, also when flushes of several threads
\* are pending and later ones overwrite the recorded position.  A waiter that
\* stopProxy() releases by force is excepted.
FlushMeansDrained ==
  \A t \in Threads : pc[t] = "flushed" /\ pos[t] \notin forced =>
    DataUpTo(ConnOf(pushed[pos[t] + 1]), pos[t]) \subseteq landed

\* While the proxy runs every flush returns, whatever the other threads push.
FlushCompletes ==
  \A t \in Threads :
    pc[t] = "waitFlush" /\ mainPc \in {"started", "ready"} ~>
      pc[t] = "flushed" \/ mainPc = "join"

\* stopProxy() returns: the proxy thread sees running whatever it is doing, and its
\* drain is bounded.
StopReturns == mainPc = "join" ~> mainPc = "stopped"
=============================================================================
