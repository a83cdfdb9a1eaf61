-------------------------- MODULE SignalForwarding --------------------------
(***************************************************************************)
(* A Host2DeviceSemaphore over an InfiniBand connection without atomics    *)
(* (HostNoAtomic): signal() sends the low bits of the token as immediate   *)
(* data (connection.cc, updateAndSync), the receive thread of the peer     *)
(* rebuilds the token (recvThreadFunc) and stores it where device threads  *)
(* poll() and wait() (semaphore_device.hpp).                               *)
(*                                                                         *)
(* Every signal follows a data write on the same queue pair, which keeps   *)
(* the order.                                                              *)
(***************************************************************************)
EXTENDS Integers, Sequences, FiniteSets

CONSTANTS Threads,           \* device threads
          ImmRange,          \* number of values of the immediate data (2^32)
          MaxRecvWr,         \* receive requests of the queue pair
          MaxSignal          \* bound on the number of signals

ASSUME ForwardingAssumption ==
  /\ IsFiniteSet(Threads)
  /\ ImmRange \in Nat \ {0, 1}
  /\ MaxRecvWr \in Nat \ {0}
  /\ MaxSignal \in Nat

VARIABLES
  outboundToken,   \* of the sender
  wire,            \* operations posted on the send queue: "data" or immediate data
  landed,          \* number of data writes in the receiver's memory
  recvWrs,         \* posted receive requests
  recvCq,          \* immediate data of the completions in the receive CQ
  recvPc, wcs,     \* receive thread: control point, completions polled and not yet forwarded
  lastImmData, immHighBits,
  inboundToken, expectedInboundToken,
  pc, expected,    \* of each device thread: control point, value waited for or seen
  consumed         \* history: number of wait() and successful poll() that returned

recvVars   == <<recvPc, wcs, lastImmData, immHighBits>>
deviceVars == <<expectedInboundToken, pc, expected, consumed>>
forwardingVars == <<outboundToken, wire, landed, recvWrs, recvCq, recvVars, inboundToken, deviceVars>>

Data == -1

ForwardingInit ==
  /\ outboundToken = 0 /\ wire = <<>> /\ landed = 0
  /\ recvWrs = MaxRecvWr /\ recvCq = <<>>
  /\ recvPc = "none" /\ wcs = <<>> /\ lastImmData = 0 /\ immHighBits = 0
  /\ inboundToken = 0 /\ expectedInboundToken = 0
  /\ pc = [t \in Threads |-> "idle"] /\ expected = [t \in Threads |-> 0]
  /\ consumed = 0

-----------------------------------------------------------------------------
(***************************************************************************)
(* The sender and the network.                                             *)
(***************************************************************************)

\* A write, then signal(): the token is incremented, its low bits are sent.
Signal ==
  /\ outboundToken < MaxSignal
  /\ outboundToken' = outboundToken + 1
  /\ wire' = wire \o <<Data, (outboundToken + 1) % ImmRange>>
  /\ UNCHANGED <<landed, recvWrs, recvCq, recvVars, inboundToken, deviceVars>>

DeliverData ==
  /\ wire # <<>> /\ Head(wire) = Data
  /\ wire' = Tail(wire)
  /\ landed' = landed + 1
  /\ UNCHANGED <<outboundToken, recvWrs, recvCq, recvVars, inboundToken, deviceVars>>

\* A write with immediate data consumes a receive request; without one the sender
\* NIC retries.
DeliverImm ==
  /\ wire # <<>> /\ Head(wire) # Data
  /\ recvWrs > 0
  /\ recvWrs' = recvWrs - 1
  /\ recvCq' = Append(recvCq, Head(wire))
  /\ wire' = Tail(wire)
  /\ UNCHANGED <<outboundToken, landed, recvVars, inboundToken, deviceVars>>

-----------------------------------------------------------------------------
(***************************************************************************)
(* The receive thread.                                                     *)
(***************************************************************************)

\* startSignalForwarding(); signals may have arrived before.
StartSignalForwarding ==
  /\ recvPc = "none"
  /\ recvPc' = "poll"
  /\ lastImmData' = 0 /\ immHighBits' = 0
  /\ UNCHANGED <<outboundToken, wire, landed, recvWrs, recvCq, wcs, inboundToken, deviceVars>>

\* pollRecvCq(): all completions, of which there are at most MaxRecvWr.
PollRecvCq ==
  /\ recvPc = "poll" /\ recvCq # <<>>
  /\ wcs' = recvCq
  /\ recvCq' = <<>>
  /\ recvPc' = "forward"
  /\ UNCHANGED <<outboundToken, wire, landed, recvWrs, lastImmData, immHighBits, inboundToken, deviceVars>>

\* Mutant: the operands are swapped.
WrapsSwapped(immData) == lastImmData < immData

\* The low bits decreased, so the high bits have grown by one.
Wraps(immData) == immData < lastImmData

\* Rebuild the token and store it.
Forward ==
  LET immData == Head(wcs)
      high == IF Wraps(immData) THEN immHighBits + ImmRange ELSE immHighBits
  IN /\ recvPc = "forward"
     /\ immHighBits' = high
     /\ lastImmData' = immData
     /\ inboundToken' = high + immData
     /\ wcs' = Tail(wcs)
     /\ recvPc' = "repost"
     /\ UNCHANGED <<outboundToken, wire, landed, recvWrs, recvCq, deviceVars>>

\* Mutant: the request is posted again only when the batch is longer than one.
RepostRest ==
  /\ recvPc = "repost"
  /\ recvWrs' = IF wcs = <<>> THEN recvWrs ELSE recvWrs + 1
  /\ recvPc' = IF wcs = <<>> THEN "poll" ELSE "forward"
  /\ UNCHANGED <<outboundToken, wire, landed, recvCq, wcs, lastImmData, immHighBits, inboundToken, deviceVars>>

\* stageRecv(), postRecv().
Repost ==
  /\ recvPc = "repost"
  /\ recvWrs' = recvWrs + 1
  /\ recvPc' = IF wcs = <<>> THEN "poll" ELSE "forward"
  /\ UNCHANGED <<outboundToken, wire, landed, recvCq, wcs, lastImmData, immHighBits, inboundToken, deviceVars>>

-----------------------------------------------------------------------------
(***************************************************************************)
(* Device threads.                                                         *)
(***************************************************************************)

\* poll() compares and increments in two steps; callers do not overlap it with other calls.
Polling(t) == pc[t] \in {"compare", "inc"}

\* wait(): draw the value to wait for ...
Wait(t) ==
  /\ pc[t] = "idle" /\ expectedInboundToken < MaxSignal
  /\ \A u \in Threads : ~Polling(u)
  /\ expectedInboundToken' = expectedInboundToken + 1
  /\ expected' = [expected EXCEPT ![t] = expectedInboundToken + 1]
  /\ pc' = [pc EXCEPT ![t] = "spin"]
  /\ UNCHANGED <<outboundToken, wire, landed, recvWrs, recvCq, recvVars, inboundToken, consumed>>

\* Mutant: the spin ends one signal early.
SpinEarly(t) ==
  /\ pc[t] = "spin" /\ inboundToken + 1 >= expected[t]
  /\ pc' = [pc EXCEPT ![t] = "idle"]
  /\ consumed' = consumed + 1
  /\ UNCHANGED <<outboundToken, wire, landed, recvWrs, recvCq, recvVars, inboundToken,
                 expectedInboundToken, expected>>

\* ... and the load that ends the spin.
Spin(t) ==
  /\ pc[t] = "spin" /\ inboundToken >= expected[t]
  /\ pc' = [pc EXCEPT ![t] = "idle"]
  /\ consumed' = consumed + 1
  /\ UNCHANGED <<outboundToken, wire, landed, recvWrs, recvCq, recvVars, inboundToken,
                 expectedInboundToken, expected>>

\* poll(): load the inbound token ...
PollLoad(t) ==
  /\ \A u \in Threads : pc[u] = "idle"
  /\ expected' = [expected EXCEPT ![t] = inboundToken]
  /\ pc' = [pc EXCEPT ![t] = "compare"]
  /\ UNCHANGED <<outboundToken, wire, landed, recvWrs, recvCq, recvVars, inboundToken,
                 expectedInboundToken, consumed>>

\* ... compare it with the expected one ...
PollCompare(t) ==
  /\ pc[t] = "compare"
  /\ pc' = [pc EXCEPT ![t] = IF expected[t] > expectedInboundToken THEN "inc" ELSE "idle"]
  /\ UNCHANGED <<outboundToken, wire, landed, recvWrs, recvCq, recvVars, inboundToken,
                 expectedInboundToken, expected, consumed>>

\* ... and consume the signal.
PollInc(t) ==
  /\ pc[t] = "inc"
  /\ expectedInboundToken' = expectedInboundToken + 1
  /\ pc' = [pc EXCEPT ![t] = "idle"]
  /\ consumed' = consumed + 1
  /\ UNCHANGED <<outboundToken, wire, landed, recvWrs, recvCq, recvVars, inboundToken, expected>>

RecvStep == StartSignalForwarding \/ PollRecvCq \/ Forward \/ Repost

ForwardingNext ==
  \/ Signal \/ DeliverData \/ DeliverImm \/ RecvStep
  \/ \E t \in Threads : Wait(t) \/ Spin(t) \/ PollLoad(t) \/ PollCompare(t) \/ PollInc(t)

ForwardingSpec == ForwardingInit /\ [][ForwardingNext]_forwardingVars

\* The NIC delivers, the receive thread runs, a device thread keeps polling.
ForwardingFairSpec ==
  /\ ForwardingSpec
  /\ WF_forwardingVars(DeliverData \/ DeliverImm) /\ WF_forwardingVars(RecvStep)
  /\ \A t \in Threads : WF_forwardingVars(Spin(t))
-----------------------------------------------------------------------------

ImmsIn(ops) == Cardinality({i \in DOMAIN ops : ops[i] # Data})

\* The rebuilt token is exact across any number of wraps of the immediate data: it
\* differs from the sender's token by the signals still on their way.
TokenExact ==
  inboundToken = outboundToken - ImmsIn(wire) - Len(recvCq) - Len(wcs)

\* A wait() or poll() that has consumed the n-th signal finds the data written before
\* it, and no signal is consumed twice.
ConsumedDataLanded == consumed <= inboundToken /\ consumed <= landed

\* Thread t waits for a signal that was sent.
Due(t) == pc[t] = "spin" /\ expected[t] <= outboundToken
=============================================================================
