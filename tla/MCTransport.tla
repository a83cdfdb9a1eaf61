---------------------------- MODULE MCTransport -----------------------------
(***************************************************************************)
(* The transports, each alone: a behaviour is one of the component its     *)
(* scenario belongs to.  SignalForwarding stays in its initial state in    *)
(* the others, whose variables are not used outside of their own.          *)
(***************************************************************************)
EXTENDS SignalForwarding, TLC

CONSTANT Chosen

VARIABLES
  scenario, stream, token, written, promised,
  op, sentDataSize, headerSize, recvThread, ptr, size, recvSize, memory, ops,
  calls, todo, thrown, staged, numPosted, inflight, pendingFlush, qp, sq, cq, faults, remoteLanded, remoteToken,
  port, listener, remainSecs, backlog, client, attempt, blocking, bytes, ended, socket, served,
  epoch, server, lookedUp, fds, fdSet, stage, handle, conns, cached, thread, got

Given == INSTANCE TransportScenarios

\* Writes that fit in the send buffer, received in several pieces.
Ethernet == INSTANCE EthernetConnection
  WITH SendBufferSize <- 5, RecvBufferSize <- 2, MemSize <- 4, Sizes <- {0, 1, 3}, MaxOps <- 4,
       outboundToken <- token, recvPc <- recvThread
Ib == INSTANCE IbQueuePair
  WITH Scenarios <- Given!IbScenarios, outboundToken <- token, landed <- remoteLanded, inboundToken <- remoteToken
Handshake == INSTANCE SocketHandshake
  WITH Scenarios <- Given!SocketScenarios, FinTimeout <- 2, wire <- bytes
Ipc == INSTANCE IpcMemory WITH Scenarios <- Given!IpcScenarios

ASSUME Ethernet!EthernetAssumption

InSignals == scenario = "signals"
InEthernet == scenario = "ethernet"
InIb == scenario \in DOMAIN Given!IbScenarios
InHandshake == scenario \in DOMAIN Given!SocketScenarios
InIpc == scenario \in DOMAIN Given!IpcScenarios

-----------------------------------------------------------------------------
NoToken == token = 0
NoStream == stream = 0
NoHistory == written = 0 /\ promised = 0

NoEthernet ==
  /\ op = 0 /\ sentDataSize = 0 /\ headerSize = 0 /\ recvThread = 0 /\ ptr = 0 /\ size = 0 /\ recvSize = 0
  /\ memory = 0 /\ ops = 0
NoIb ==
  /\ calls = 0 /\ todo = 0 /\ thrown = 0 /\ staged = 0 /\ numPosted = 0 /\ inflight = 0
  /\ pendingFlush = 0 /\ qp = 0 /\ sq = 0 /\ cq = 0 /\ faults = 0 /\ remoteLanded = 0 /\ remoteToken = 0
NoHandshake ==
  /\ port = 0 /\ listener = 0 /\ remainSecs = 0 /\ backlog = 0 /\ client = 0 /\ attempt = 0
  /\ blocking = 0 /\ bytes = 0 /\ ended = 0 /\ socket = 0 /\ served = 0
NoIpc ==
  /\ epoch = 0 /\ server = 0 /\ lookedUp = 0 /\ fds = 0 /\ fdSet = 0 /\ stage = 0 /\ handle = 0
  /\ conns = 0 /\ cached = 0 /\ thread = 0 /\ got = 0

ethernetOnly == <<op, sentDataSize, headerSize, recvThread, ptr, size, recvSize, memory, ops>>
ibOnly == <<calls, todo, thrown, staged, numPosted, inflight, pendingFlush, qp, sq, cq, faults, remoteLanded,
            remoteToken>>
handshakeOnly == <<port, listener, remainSecs, backlog, client, attempt, blocking, bytes, ended, socket, served>>
ipcOnly == <<epoch, server, lookedUp, fds, fdSet, stage, handle, conns, cached, thread, got>>

Init ==
  /\ scenario \in Chosen
  /\ ForwardingInit
  /\ \/ InSignals /\ NoEthernet /\ NoIb /\ NoHandshake /\ NoIpc /\ NoToken /\ NoStream /\ NoHistory
     \/ /\ InEthernet /\ Ethernet!Init
        /\ NoIb /\ NoHandshake /\ NoIpc
     \/ /\ InIb /\ Ib!IbInit
        /\ NoEthernet /\ NoHandshake /\ NoIpc /\ NoStream
     \/ /\ InHandshake /\ Handshake!SocketInit
        /\ NoEthernet /\ NoIb /\ NoIpc /\ NoToken /\ NoHistory
     \/ /\ InIpc /\ Ipc!IpcInit
        /\ NoEthernet /\ NoIb /\ NoHandshake /\ NoToken /\ NoStream /\ NoHistory

\* The component of a scenario, and what it leaves alone.
SignalsPart ==
  InSignals /\ UNCHANGED <<scenario, token, stream, written, promised, ethernetOnly, ibOnly, handshakeOnly, ipcOnly>>
EthernetPart ==
  InEthernet /\ UNCHANGED <<scenario, forwardingVars, ibOnly, handshakeOnly, ipcOnly>>
IbPart ==
  InIb /\ UNCHANGED <<forwardingVars, stream, ethernetOnly, handshakeOnly, ipcOnly>>
HandshakePart ==
  InHandshake /\ UNCHANGED <<forwardingVars, token, written, promised, ethernetOnly, ibOnly, ipcOnly>>
IpcPart ==
  InIpc /\ UNCHANGED <<forwardingVars, token, stream, written, promised, ethernetOnly, ibOnly, handshakeOnly>>

Next ==
  \/ SignalsPart /\ ForwardingNext
  \/ EthernetPart /\ Ethernet!Next
  \/ IbPart /\ Ib!IbNext
  \/ HandshakePart /\ Handshake!SocketNext
  \/ IpcPart /\ Ipc!IpcNext

vars == <<scenario, forwardingVars, token, stream, written, promised, ethernetOnly, ibOnly, handshakeOnly,
          ipcOnly>>

Spec == Init /\ [][Next]_vars

\* Of each component what its own specification assumes: the network delivers, and
\* threads and loops that poll go on.  As a behaviour is one of a single component, weak
\* fairness of a disjunction over components is that of each of them.
Fairness ==
  /\ WF_vars(\/ SignalsPart /\ (DeliverData \/ DeliverImm)
             \/ IbPart /\ (Ib!Perform \/ Ib!Fail))
  /\ WF_vars(\/ SignalsPart /\ RecvStep
             \/ IbPart /\ Ib!FlushStep
             \/ HandshakePart /\ Handshake!SocketNext
             \/ IpcPart /\ Ipc!IpcNext)
  /\ \A t \in Threads : WF_vars(SignalsPart /\ Spin(t))

FairSpec == Spec /\ Fairness

-----------------------------------------------------------------------------
\* When everything sent over the socket has been received, the remote memory holds every
\* byte of every write, the later write where they overlap, however the buffers cut them;
\* and a visible token is the k-th signal's, with the data written before it.
StreamDelivered == InEthernet => Ethernet!WritesDelivered /\ Ethernet!TokenAfterData

\* When flush() has returned or progressFlush() has reported the drain, every write() that
\* returned before has reached the remote memory.
FlushMeansLanded == InIb => Ib!FlushMeansLanded

\* As long as the queue pair works the remote token is the local one, less the signals
\* posted or staged: none is lost and none is added twice (postSend(), updateAndSync()).
SignalsCounted == InIb => Ib!SignalsCounted

\* The requests posted and not polled never exceed the maximum write queue size that
\* handleTrigger() observes.
WriteQueueBounded == InIb => Ib!WriteQueueBounded

\* accept() returns only connections of ranks, each once, at the first byte after the
\* handshake, however the bytes arrive, and connections with another magic number do not
\* make it throw (finalizeAccept(), finalizeConnect()).
AcceptsRanks == InHandshake => Handshake!AcceptsRanks

\* An import maps the memory whose handle it was given, or leaves it to IB, through every
\* reuse of a descriptor's number (requestFd(), mainLoop(), deleter()).
ImportedIsExported == InIpc => Ipc!ImportedIsExported

\* Imports do not fail, and no process dies, while the application keeps the memories and
\* communicators they need (requestFd(), mainLoop(), registerFd()).
ImportsSucceed == InIpc => Ipc!ImportsSucceed

\* Calls end: wait() once its signal was sent, however many are in flight; a flush(), which
\* returns or throws; the connection of every rank, whether it comes before or after the
\* listener; every import, as no request stays unanswered.
TransportCallsEnd ==
  /\ \A t \in Threads : (InSignals /\ Due(t)) ~> (InSignals /\ pc[t] = "idle")
  /\ (InIb /\ todo = <<"flush">>) ~> (InIb /\ todo = <<>>)
  /\ <>((InHandshake => Handshake!AllServed) /\ (InIpc => Ipc!AllReturned))
=============================================================================
