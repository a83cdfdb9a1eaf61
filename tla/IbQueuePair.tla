---------------------------- MODULE IbQueuePair -----------------------------
(***************************************************************************)
(* The sending side of an InfiniBand connection (connection.cc) over its   *)
(* queue pair (ib.cc): work requests are staged, posted and polled, the    *)
(* NIC performs them in order or fails, and the queues have limits.  The   *)
(* connection is driven by the flow control of ProxyService::handleTrigger *)
(* (port_channel.cc) or directly by a host program that calls write(),     *)
(* updateAndSync() and flush() with a timeout.                             *)
(*                                                                         *)
(* A scenario is a record: sizes of the queues (maxCqSize, maxSendWr,      *)
(* maxCqPollNum, maxWrPerSend), the calls the driver may make (triggers,   *)
(* sequences of "write", "signal" and what ends them: "sync", "limit",     *)
(* "flush", "timed"), how many (calls), how many faults of the NIC, and    *)
(* the exceptions after which the program goes on (tolerated).             *)
(***************************************************************************)
EXTENDS Integers, SequencesExt

CONSTANT Scenarios

VARIABLES
  scenario, calls, \* the scenario and the number of calls begun
  todo,            \* rest of the call being executed
  thrown,          \* the exception of the last call, or "none"
  staged,          \* sendWrs_[0 .. numStagedSend_ - 1]: "write" or "add"
  numPosted,       \* numPostedSignaledSend_
  inflight,        \* numRequests of handleTrigger
  pendingFlush,    \* progressFlushes() has an entry for the connection
  outboundToken,   \* of the semaphore
  qp, sq, cq,      \* the NIC: state of the queue pair, send queue, completion queue
  faults,          \* faults of the NIC so far
  landed, inboundToken,   \* at the remote side: writes and the token
  written, promised       \* history: write() calls returned, those a flush covered

callVars   == <<scenario, calls, todo, thrown>>
qpVars     == <<staged, numPosted>>
nicVars    == <<qp, sq, cq, faults, landed, inboundToken>>
proxyVars  == <<inflight, pendingFlush>>
ibVars == <<callVars, qpVars, nicVars, proxyVars, outboundToken, written, promised>>

Conf == Scenarios[scenario]

\* The endpoint limits the writes in flight to the size of the completion queue.
MaxWriteQueueSize == Conf.maxCqSize

IbInit ==
  /\ scenario \in DOMAIN Scenarios
  /\ calls = 0 /\ todo = <<>> /\ thrown = "none"
  /\ staged = <<>> /\ numPosted = 0
  /\ inflight = 0 /\ pendingFlush = FALSE
  /\ outboundToken = 0
  /\ qp = "rts" /\ sq = <<>> /\ cq = <<>> /\ faults = 0
  /\ landed = 0 /\ inboundToken = 0
  /\ written = 0 /\ promised = 0

-----------------------------------------------------------------------------
(***************************************************************************)
(* The NIC.                                                                *)
(***************************************************************************)

\* A completion that finds the queue full is lost and the queue pair fails.
Complete(status) ==
  IF Len(cq) < Conf.maxCqSize THEN cq' = Append(cq, status) ELSE UNCHANGED cq

\* The oldest request takes effect at the remote side.
Perform ==
  /\ qp = "rts" /\ sq # <<>>
  /\ IF Head(sq) = "write"
       THEN landed' = landed + 1 /\ UNCHANGED inboundToken
       ELSE inboundToken' = inboundToken + 1 /\ UNCHANGED landed
  /\ sq' = Tail(sq)
  /\ Complete("success")
  /\ qp' = IF Len(cq) < Conf.maxCqSize THEN "rts" ELSE "error"
  /\ UNCHANGED <<callVars, qpVars, proxyVars, outboundToken, faults, written, promised>>

\* A request fails, and with it every later one of the queue pair.
Fail ==
  /\ sq # <<>>
  /\ \/ qp = "error" /\ UNCHANGED faults
     \/ qp = "rts" /\ faults < Conf.faults /\ faults' = faults + 1
  /\ qp' = "error"
  /\ sq' = Tail(sq)
  /\ Complete("failed")
  /\ UNCHANGED <<callVars, qpVars, proxyVars, outboundToken, landed, inboundToken, written, promised>>

-----------------------------------------------------------------------------
(***************************************************************************)
(* Posting: stageSendWrite() or stageSendAtomicAdd(), then postSend().     *)
(***************************************************************************)

\* Requests the send queue still takes; a slot is free once its completion is polled.
Room == Conf.maxSendWr - Len(sq) - Len(cq)

Throw(error) == thrown' = error /\ todo' = <<>>

Proceed == todo' = Tail(todo) /\ UNCHANGED thrown

\* Mutant: the staged requests are kept after they were posted.
PostKeepsStaged(wrs) ==
  /\ sq' = sq \o SubSeq(wrs, 1, IF Room < Len(wrs) THEN Room ELSE Len(wrs))
  /\ staged' = wrs
  /\ IF Room < Len(wrs)
       THEN Throw("post") /\ UNCHANGED numPosted
       ELSE Proceed /\ numPosted' = numPosted + Len(wrs)

\* postSend(): the list is posted up to the first request that does not fit.  On an error
\* the staged requests stay.
PostSend(wrs) ==
  /\ sq' = sq \o SubSeq(wrs, 1, IF Room < Len(wrs) THEN Room ELSE Len(wrs))
  /\ IF Room < Len(wrs)
       THEN Throw("post") /\ staged' = wrs /\ UNCHANGED numPosted
       ELSE Proceed /\ staged' = <<>> /\ numPosted' = numPosted + Len(wrs)

\* getNewSendWrInfo() refuses a request when maxWrPerSend are staged.
StageAndPost(wr) ==
  IF Len(staged) >= Conf.maxWrPerSend
    THEN Throw("stage") /\ UNCHANGED <<staged, numPosted, sq>>
    ELSE PostSend(Append(staged, wr))

Write ==
  /\ todo # <<>> /\ Head(todo) = "write"
  /\ StageAndPost("write")
  /\ IF thrown' = "none" THEN written' = written + 1 /\ inflight' = inflight + 1
                         ELSE UNCHANGED <<written, inflight>>
  /\ UNCHANGED <<scenario, calls, pendingFlush, outboundToken, qp, cq, faults, landed, inboundToken, promised>>

\* updateAndSync() of signal(): the local token is stored before the request is posted.
UpdateAndSync ==
  /\ todo # <<>> /\ Head(todo) = "signal"
  /\ outboundToken' = outboundToken + 1
  /\ StageAndPost("add")
  /\ inflight' = IF thrown' = "none" THEN inflight + 1 ELSE inflight
  /\ UNCHANGED <<scenario, calls, pendingFlush, qp, cq, faults, landed, inboundToken, written, promised>>

-----------------------------------------------------------------------------
(***************************************************************************)
(* Polling.                                                                *)
(***************************************************************************)

WcNum == IF Len(cq) < Conf.maxCqPollNum THEN Len(cq) ELSE Conf.maxCqPollNum

PollSendCq ==
  /\ cq' = SubSeq(cq, WcNum + 1, Len(cq))
  /\ numPosted' = numPosted - WcNum

\* Mutant: only the first completion polled is looked at.
FirstPolledFailed == WcNum > 0 /\ cq[1] # "success"

PolledFailed == \E i \in 1..WcNum : cq[i] # "success"

\* flush(): its loop ends ...
FlushReturn ==
  /\ todo # <<>> /\ Head(todo) \in {"flush", "timed"} /\ numPosted = 0
  /\ Proceed
  /\ promised' = written
  /\ inflight' = 0
  /\ UNCHANGED <<scenario, calls, qpVars, nicVars, pendingFlush, outboundToken, written>>

\* ... or polls; when the time is over it throws whatever it polled, and only then the
\* status of the completions is looked at.
FlushPoll(timedOut) ==
  /\ todo # <<>> /\ Head(todo) \in {"flush", "timed"} /\ numPosted # 0
  /\ timedOut => Head(todo) = "timed"
  /\ timedOut \/ WcNum > 0
  /\ PollSendCq
  /\ IF timedOut THEN Throw("timeout")
     ELSE IF PolledFailed THEN Throw("failed")
     ELSE UNCHANGED <<todo, thrown>>
  /\ UNCHANGED <<scenario, calls, staged, qp, sq, faults, landed, inboundToken, proxyVars,
                 outboundToken, written, promised>>

\* progressFlush(), between two triggers: one poll, and whether everything is complete.
Drained == numPosted - (IF numPosted = 0 THEN 0 ELSE WcNum) = 0

ProgressFlush ==
  /\ todo = <<>> /\ thrown = "none" /\ pendingFlush
  /\ numPosted # 0 => WcNum > 0
  /\ IF numPosted = 0 THEN UNCHANGED <<cq, numPosted>> ELSE PollSendCq
  /\ IF numPosted # 0 /\ PolledFailed
       THEN thrown' = "failed" /\ UNCHANGED <<pendingFlush, promised>>
       ELSE /\ UNCHANGED thrown
            /\ pendingFlush' = ~Drained
            /\ promised' = IF Drained THEN written ELSE promised
  /\ UNCHANGED <<scenario, calls, todo, staged, qp, sq, faults, landed, inboundToken,
                 inflight, outboundToken, written>>

-----------------------------------------------------------------------------
(***************************************************************************)
(* The driver.                                                             *)
(***************************************************************************)

\* The proxy handles the next trigger, or the program makes its next call.
Call(trigger) ==
  /\ todo = <<>> /\ thrown \in {"none"} \cup Conf.tolerated
  /\ calls < Conf.calls
  /\ calls' = calls + 1
  /\ todo' = trigger /\ thrown' = "none"
  /\ UNCHANGED <<scenario, qpVars, nicVars, proxyVars, outboundToken, written, promised>>

\* End of handleTrigger(): an asynchronous flush ...
RequestFlush ==
  /\ todo # <<>> /\ Head(todo) = "sync"
  /\ Proceed
  /\ pendingFlush' = TRUE
  /\ inflight' = 0
  /\ UNCHANGED <<scenario, calls, qpVars, nicVars, outboundToken, written, promised>>

\* Mutant: the count may pass the limit.
LimitPassed ==
  /\ todo # <<>> /\ Head(todo) = "limit"
  /\ todo' = IF inflight > MaxWriteQueueSize THEN <<"flush">> ELSE <<>>
  /\ UNCHANGED <<scenario, calls, thrown, qpVars, nicVars, proxyVars, outboundToken, written, promised>>

\* ... or, at the limit, a flush that waits.
FlowControl ==
  /\ todo # <<>> /\ Head(todo) = "limit"
  /\ todo' = IF inflight >= MaxWriteQueueSize THEN <<"flush">> ELSE <<>>
  /\ UNCHANGED <<scenario, calls, thrown, qpVars, nicVars, proxyVars, outboundToken, written, promised>>

FlushStep == FlushReturn \/ \E timedOut \in BOOLEAN : FlushPoll(timedOut)

IbNext ==
  \/ Perform \/ Fail
  \/ Write \/ UpdateAndSync \/ FlushStep \/ ProgressFlush
  \/ RequestFlush \/ FlowControl
  \/ \E trigger \in Conf.triggers : Call(trigger)

IbSpec == IbInit /\ [][IbNext]_ibVars

\* The NIC works on what is posted, a loop that polls keeps polling.
IbFairSpec == IbSpec /\ WF_ibVars(Perform \/ Fail) /\ WF_ibVars(FlushStep)

-----------------------------------------------------------------------------
Adds(wrs) == Len(SelectSeq(wrs, LAMBDA wr : wr = "add"))

\* When flush() has returned or progressFlush() has reported the drain, every write() that
\* returned before has reached the remote memory: no failed completion is passed over and
\* none is counted for another.
FlushMeansLanded == promised <= landed

\* As long as the queue pair works the remote token is the local one, less the signals
\* posted and the one a failed postSend() left staged: none is lost and none is added twice.
SignalsCounted == qp = "rts" => inboundToken + Adds(sq) + Adds(staged) = outboundToken

\* The requests posted and not polled never exceed the maximum write queue size, which
\* is the size of the completion queue.
WriteQueueBounded == Len(sq) + Len(cq) <= MaxWriteQueueSize
=============================================================================
