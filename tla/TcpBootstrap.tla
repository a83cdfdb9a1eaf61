---------------------------- MODULE TcpBootstrap ----------------------------
(***************************************************************************)
(* TcpBootstrap (src/core/bootstrap/bootstrap.cc): the ranks check in with *)
(* the root thread, connect to a ring, and then use the ring for           *)
(* allGather(), broadcast() and barrier(), and sockets of their own, one   *)
(* for each peer and tag, for send() and recv().                           *)
(*                                                                         *)
(* An address is the rank that listens on it.  A connection is accepted    *)
(* some time after connect() returns, in the order of the connects; a ring *)
(* connection and the connections of send() arrive on the same listening   *)
(* socket.                                                                 *)
(***************************************************************************)
EXTENDS Integers, Sequences

CONSTANTS NRanks,
          Peers,         \* sender, receiver and tag of the send() and recv() calls
          Program,       \* the collective calls every rank makes, in order
          RingCapacity,  \* slices that fit in the buffers of a ring socket
          MaxSend        \* bound on the messages of a sender to a receiver with a tag

Ranks == 0 .. NRanks - 1

BootstrapAssumption ==
  /\ NRanks \in Nat \ {0, 1}
  /\ \A c \in Peers : c[1] \in Ranks /\ c[2] \in Ranks \ {c[1]}
  /\ RingCapacity \in Nat \ {0}
  /\ \A k \in DOMAIN Program : Program[k].op \in {"allGather", "broadcast"} /\ Program[k].root \in Ranks
  /\ MaxSend \in Nat

VARIABLES
  pc,          \* control point of each rank
  infos,       \* ranks whose info waits at the root's listening socket
  collected,   \* ranks that have checked in
  handlesSent, \* peers the root has sent a handle to
  nextAddr,    \* the handle each rank got from the root, -1 before
  backlog,     \* connections waiting at the listening socket of each rank
  ringRecv,    \* the connection each rank took as its ringRecvSocket_
  ring,        \* slices in the ring socket each rank sends on
  call, step,  \* collective calls each rank has begun, loop index of the current one
  data,        \* the buffer of the current or last collective call of each rank
  peerRecvSockets, \* connections each rank has accepted in recv()
  stream,      \* messages in the socket of a sender, a receiver and a tag
  want,        \* the connection each rank wants in recv()
  sent, received   \* history: messages sent and received, by sender, receiver and tag

initVars == <<infos, collected, handlesSent, nextAddr>>
ringVars == <<ringRecv, ring, call, step, data>>
peerVars == <<peerRecvSockets, stream, want, sent, received>>
vars == <<pc, initVars, backlog, ringVars, peerVars>>

None == <<-1, -1>>
NextOf(r) == (r + 1) % NRanks
Init ==
  /\ pc = [r \in Ranks |-> "checkIn"]
  /\ infos = <<>> /\ collected = {} /\ handlesSent = 0
  /\ nextAddr = [r \in Ranks |-> -1]
  /\ backlog = [r \in Ranks |-> <<>>]
  /\ ringRecv = [r \in Ranks |-> -1]
  /\ ring = [r \in Ranks |-> <<>>]
  /\ call = [r \in Ranks |-> 0] /\ step = [r \in Ranks |-> 0]
  /\ data = [r \in Ranks |-> [s \in Ranks |-> None]]
  /\ peerRecvSockets = [r \in Ranks |-> {}]
  /\ stream = [p \in Peers |-> <<>>]
  /\ want = [r \in Ranks |-> None]
  /\ sent = [p \in Peers |-> 0] /\ received = [p \in Peers |-> 0]

Goto(r, label) == pc' = [pc EXCEPT ![r] = label]

-----------------------------------------------------------------------------
(***************************************************************************)
(* establishConnections(), and the root thread.                            *)
(***************************************************************************)

\* The rank listens on its two sockets and sends their addresses to the root.
CheckIn(r) ==
  /\ pc[r] = "checkIn"
  /\ infos' = Append(infos, r)
  /\ Goto(r, "handle")
  /\ UNCHANGED <<collected, handlesSent, nextAddr, backlog, ringVars, peerVars>>

\* getRemoteAddresses(): a rank that has already checked in is an error.
Collect ==
  /\ infos # <<>> /\ Head(infos) \notin collected
  /\ collected' = collected \cup {Head(infos)}
  /\ infos' = Tail(infos)
  /\ UNCHANGED <<pc, handlesSent, nextAddr, backlog, ringVars, peerVars>>

\* The rank whose address sendHandleToPeer() sends.
HandleFor(peer) == NextOf(peer)

\* sendHandleToPeer(), for one peer after the other, once all have checked in.
SendHandleToPeer ==
  /\ collected = Ranks /\ handlesSent < NRanks
  /\ nextAddr' = [nextAddr EXCEPT ![handlesSent] = HandleFor(handlesSent)]
  /\ handlesSent' = handlesSent + 1
  /\ UNCHANGED <<pc, infos, collected, backlog, ringVars, peerVars>>

\* The rank has its handle: it connects to the next rank.
ConnectRing(r) ==
  /\ pc[r] = "handle" /\ nextAddr[r] # -1
  /\ backlog' = [backlog EXCEPT ![nextAddr[r]] = Append(@, <<r, -1>>)]
  /\ Goto(r, "accept")
  /\ UNCHANGED <<initVars, ringVars, peerVars>>

\* The slices of a rank at the start of a call: its own, <<call, rank>>.
OwnSlice(r, k) == [s \in Ranks |-> IF s = r THEN <<k, r>> ELSE None]

\* Mutant: the rank receives before it sends.
AcceptRingRecvFirst(r) ==
  /\ pc[r] = "accept" /\ backlog[r] # <<>>
  /\ ringRecv' = [ringRecv EXCEPT ![r] = Head(backlog[r])[1]]
  /\ backlog' = [backlog EXCEPT ![r] = Tail(@)]
  /\ data' = [data EXCEPT ![r] = OwnSlice(r, 0)]
  /\ step' = [step EXCEPT ![r] = 0]
  /\ Goto(r, "gatherRecv")
  /\ UNCHANGED <<initVars, ring, call, peerVars>>

\* It takes the first connection that arrives as the one of the previous rank, and
\* starts the allGather() of the addresses.
AcceptRing(r) ==
  /\ pc[r] = "accept" /\ backlog[r] # <<>>
  /\ ringRecv' = [ringRecv EXCEPT ![r] = Head(backlog[r])[1]]
  /\ backlog' = [backlog EXCEPT ![r] = Tail(@)]
  /\ data' = [data EXCEPT ![r] = OwnSlice(r, 0)]
  /\ step' = [step EXCEPT ![r] = 0]
  /\ Goto(r, "gatherSend")
  /\ UNCHANGED <<initVars, ring, call, peerVars>>

-----------------------------------------------------------------------------
(***************************************************************************)
(* Collectives on the ring.                                                *)
(***************************************************************************)

\* netSend() and netRecv() on the ring.
NetSend(r, slice) ==
  /\ Len(ring[r]) < RingCapacity
  /\ ring' = [ring EXCEPT ![r] = Append(@, slice)]

NetRecv(r, s) ==
  LET from == ringRecv[r] IN
  /\ ring[from] # <<>>
  /\ ring' = [ring EXCEPT ![from] = Tail(@)]
  /\ data' = [data EXCEPT ![r][s] = Head(ring[from])]

\* The application begins its next collective call.  barrier() is an allGather().
BeginCall(r) ==
  LET k == call[r] + 1 IN
  /\ pc[r] = "ready" /\ call[r] < Len(Program)
  /\ call' = [call EXCEPT ![r] = k]
  /\ step' = [step EXCEPT ![r] = 0]
  /\ data' = [data EXCEPT ![r] = OwnSlice(r, k)]
  /\ Goto(r, IF Program[k].op = "allGather" THEN "gatherSend"
             ELSE IF r = Program[k].root THEN "forward" ELSE "broadcastRecv")
  /\ UNCHANGED <<initVars, backlog, ringRecv, ring, peerVars>>

\* allGather(): send the slice of the previous step to the right ...
GatherSend(r) ==
  /\ pc[r] = "gatherSend"
  /\ NetSend(r, data[r][(r - step[r] + NRanks) % NRanks])
  /\ Goto(r, "gatherRecv")
  /\ UNCHANGED <<initVars, backlog, ringRecv, call, step, data, peerVars>>

\* Mutant: one step too few.
LastStepEarly == NRanks - 3

\* The index of the last step of the loop.
LastStep == NRanks - 2

\* ... and receive a slice from the left.
GatherRecv(r) ==
  /\ pc[r] = "gatherRecv"
  /\ NetRecv(r, (r - step[r] - 1 + NRanks) % NRanks)
  /\ step' = [step EXCEPT ![r] = @ + 1]
  /\ Goto(r, IF step[r] < LastStep THEN "gatherSend" ELSE "ready")
  /\ UNCHANGED <<initVars, backlog, ringRecv, call, peerVars>>

\* broadcast(): a rank receives at step receiveStep and, unless it is the last, forwards.
BroadcastRecv(r) ==
  LET root == Program[call[r]].root
      receiveStep == (r - root - 1 + NRanks) % NRanks
  IN /\ pc[r] = "broadcastRecv"
     /\ NetRecv(r, root)
     /\ Goto(r, IF receiveStep < LastStep THEN "forward" ELSE "ready")
     /\ UNCHANGED <<initVars, backlog, ringRecv, call, step, peerVars>>

\* The root, or a rank that forwards, sends to the right.
Forward(r) ==
  /\ pc[r] = "forward"
  /\ NetSend(r, data[r][Program[call[r]].root])
  /\ Goto(r, "ready")
  /\ UNCHANGED <<initVars, backlog, ringRecv, call, step, data, peerVars>>

-----------------------------------------------------------------------------
(***************************************************************************)
(* send() and recv().                                                      *)
(***************************************************************************)

\* The first send() to a peer with a tag connects and sends the rank and the tag.
Send(c) ==
  /\ pc[c[1]] = "ready"
  /\ sent[c] < MaxSend
  /\ backlog' = IF sent[c] = 0 THEN [backlog EXCEPT ![c[2]] = Append(@, <<c[1], c[3]>>)] ELSE backlog
  /\ stream' = [stream EXCEPT ![c] = Append(@, sent[c] + 1)]
  /\ sent' = [sent EXCEPT ![c] = @ + 1]
  /\ UNCHANGED <<pc, initVars, ringVars, peerRecvSockets, want, received>>

Recv(c) ==
  /\ pc[c[2]] = "ready"
  /\ received[c] < MaxSend
  /\ want' = [want EXCEPT ![c[2]] = <<c[1], c[3]>>]
  /\ Goto(c[2], "recv")
  /\ UNCHANGED <<initVars, backlog, ringVars, peerRecvSockets, stream, sent, received>>

\* Mutant: a connection other than the wanted one is dropped.
AcceptAndDrop(r) ==
  /\ pc[r] = "recv" /\ want[r] \notin peerRecvSockets[r]
  /\ backlog[r] # <<>>
  /\ peerRecvSockets' = [peerRecvSockets EXCEPT ![r] = @ \cup ({Head(backlog[r])} \cap {want[r]})]
  /\ backlog' = [backlog EXCEPT ![r] = Tail(@)]
  /\ UNCHANGED <<pc, initVars, ringVars, stream, want, sent, received>>

\* getPeerRecvSocket(): accept connections, keeping each, until the wanted one arrives.
AcceptPeer(r) ==
  /\ pc[r] = "recv" /\ want[r] \notin peerRecvSockets[r]
  /\ backlog[r] # <<>>
  /\ peerRecvSockets' = [peerRecvSockets EXCEPT ![r] = @ \cup {Head(backlog[r])}]
  /\ backlog' = [backlog EXCEPT ![r] = Tail(@)]
  /\ UNCHANGED <<pc, initVars, ringVars, stream, want, sent, received>>

RecvReturns(r) ==
  LET c == <<want[r][1], r, want[r][2]>> IN
  /\ pc[r] = "recv" /\ want[r] \in peerRecvSockets[r]
  /\ stream[c] # <<>>
  /\ stream' = [stream EXCEPT ![c] = Tail(@)]
  /\ received' = [received EXCEPT ![c] = @ + 1]
  /\ want' = [want EXCEPT ![r] = None]
  /\ Goto(r, "ready")
  /\ UNCHANGED <<initVars, backlog, ringVars, peerRecvSockets, sent>>

RootStep == Collect \/ SendHandleToPeer

RankStep(r) ==
  \/ CheckIn(r) \/ ConnectRing(r) \/ AcceptRing(r)
  \/ BeginCall(r) \/ GatherSend(r) \/ GatherRecv(r) \/ BroadcastRecv(r) \/ Forward(r)
  \/ AcceptPeer(r) \/ RecvReturns(r)

Next ==
  \/ RootStep
  \/ \E r \in Ranks : RankStep(r)
  \/ \E c \in Peers : Send(c) \/ Recv(c)

Spec == Init /\ [][Next]_vars

\* Threads make progress in a call; the collective calls are made, send() and recv()
\* are the application's choice.
FairSpec == Spec /\ WF_vars(RootStep) /\ \A r \in Ranks : WF_vars(RankStep(r))
-----------------------------------------------------------------------------

\* When a collective call has returned on a rank its buffer holds the slices of that
\* very call, from every rank or from the root, however far ahead the others are.
CollectiveResult ==
  \A r \in Ranks : pc[r] \in {"ready", "recv"} =>
    IF call[r] = 0 \/ (call[r] > 0 /\ Program[call[r]].op = "allGather")
      THEN data[r] = [s \in Ranks |-> <<call[r], s>>]
      ELSE data[r][Program[call[r]].root] = <<call[r], Program[call[r]].root>>

\* The messages in the socket of a sender and a tag are the ones not yet received, in
\* the order sent, and the socket is waiting to be accepted or has been.
NoMessageLost ==
  \A c \in Peers :
    /\ stream[c] = [i \in 1 .. sent[c] - received[c] |-> received[c] + i]
    /\ sent[c] > 0 =>
         \/ <<c[1], c[3]>> \in peerRecvSockets[c[2]]
         \/ \E i \in DOMAIN backlog[c[2]] : backlog[c[2]][i] = <<c[1], c[3]>>

\* The message a rank waits for in recv() has not been sent.
Unsent(r) ==
  /\ pc[r] = "recv"
  /\ LET c == <<want[r][1], r, want[r][2]>> IN sent[c] = received[c]

AllReturned == \A r \in Ranks : pc[r] = "ready" /\ call[r] = Len(Program)

Due(r) == pc[r] = "recv" /\ ~Unsent(r)
=============================================================================
