-------------------------- MODULE SocketHandshake --------------------------
(***************************************************************************)
(* How two ranks come to share a TCP connection (bootstrap/socket.cc): the *)
(* listener binds its port and accepts connections one after the other, as *)
(* bootstrapRoot() does, serving each before the next; clients connect with*)
(* the magic number of the bootstrap, which they send first with the type  *)
(* of the socket.                                                          *)
(*                                                                         *)
(* A scenario S gives the clients of the bootstrap, what other programs    *)
(* send to the port, which of these then close, and for how many seconds   *)
(* the port is still in use.  The magic number is two bytes "m", the type  *)
(* is "t", and "d" stands for the data that follows.                       *)
(***************************************************************************)
EXTENDS Naturals, Sequences, FiniteSets

CONSTANTS
  Scenarios,
  FinTimeout    \* getTcpFinTimeout(), in seconds

VARIABLES
  scenario,
  port,         \* for how many seconds the port stays in use
  listener,     \* Socket::state_ of the listening socket
  remainSecs,   \* of its bind()
  backlog,      \* the connections that the listener has not accepted
  client,       \* of a client: Socket::state_
  attempt,      \* its ::connect(): "none", "pending", "done" or "refused"
  blocking,     \* whether its descriptor is a blocking one
  wire,         \* of a connection: the bytes that are on the way
  stream,       \* the bytes that arrived and were not read
  ended,        \* whether its client closed it
  socket,       \* the socket that accepts: its state, connection, and the bytes of the magic read
  served        \* the connections served and what was read from each

socketVars == <<scenario, port, listener, remainSecs, backlog, client, attempt, blocking, wire, stream, ended,
                socket, served>>

S == Scenarios[scenario]
Peers == S.clients \cup DOMAIN S.others

listenVars == <<port, listener, remainSecs>>
connectVars == <<client, attempt, blocking>>

Magic == <<"m", "m">>

-----------------------------------------------------------------------------
\* ::bind() fails because the port is in use: bind() sleeps for a second and tries
\* again, or gives up.
BindInUse ==
  /\ listener = "Initialized" /\ port > 0
  /\ listener' = IF remainSecs > 0 THEN listener ELSE "Error"
  /\ remainSecs' = IF remainSecs > 0 THEN remainSecs - 1 ELSE remainSecs
  /\ port' = IF remainSecs > 0 THEN port - 1 ELSE port
  /\ UNCHANGED <<scenario, backlog, connectVars, wire, stream, ended, socket, served>>

\* bindAndListen(), and the first accept().
BindAndListen ==
  /\ listener = "Initialized" /\ port = 0
  /\ listener' = "Ready"
  /\ socket' = [socket EXCEPT !.state = "Accepting"]
  /\ UNCHANGED <<scenario, port, remainSecs, backlog, connectVars, wire, stream, ended, served>>

-----------------------------------------------------------------------------
\* The kernel answers a connection request.
Establish(p) ==
  /\ attempt[p] = "pending"
  /\ attempt' = [attempt EXCEPT ![p] = IF listener = "Ready" THEN "done" ELSE "refused"]
  /\ backlog' = IF listener = "Ready" THEN Append(backlog, p) ELSE backlog
  /\ UNCHANGED <<scenario, listenVars, client, blocking, wire, stream, ended, socket, served>>

\* ::connect() of a blocking descriptor returns when it is answered, and is called
\* again if it is refused; else it is in progress.
StartConnect(p) ==
  /\ client[p] = "Connecting"
  /\ \/ /\ blocking[p] /\ listener = "Ready"
        /\ client' = [client EXCEPT ![p] = "Connected"]
        /\ attempt' = [attempt EXCEPT ![p] = "done"]
        /\ backlog' = Append(backlog, p)
     \/ /\ ~blocking[p]
        /\ client' = [client EXCEPT ![p] = "ConnectPolling"]
        /\ attempt' = [attempt EXCEPT ![p] = "pending"]
        /\ UNCHANGED backlog
  /\ UNCHANGED <<scenario, listenVars, blocking, wire, stream, ended, socket, served>>

\* After a refusal there is a new descriptor, which is not set to O_NONBLOCK.
PollConnect(p) ==
  /\ client[p] = "ConnectPolling"
  /\ \/ /\ attempt[p] = "done"
        /\ client' = [client EXCEPT ![p] = "Connected"]
        /\ UNCHANGED <<attempt, blocking>>
     \/ /\ attempt[p] = "refused"
        /\ client' = [client EXCEPT ![p] = "Connecting"]
        /\ attempt' = [attempt EXCEPT ![p] = "none"]
        /\ blocking' = [blocking EXCEPT ![p] = TRUE]
  /\ UNCHANGED <<scenario, listenVars, backlog, wire, stream, ended, socket, served>>

\* finalizeConnect(), and the data that the rank sends when connect() returns.
FinalizeConnect(p) ==
  /\ p \in S.clients /\ client[p] = "Connected"
  /\ client' = [client EXCEPT ![p] = "Ready"]
  /\ wire' = [wire EXCEPT ![p] = Magic \o <<"t", "d">>]
  /\ UNCHANGED <<scenario, listenVars, attempt, blocking, backlog, stream, ended, socket, served>>

\* Another program sends what it sends, and closes if it does.
SendOther(p) ==
  /\ p \in DOMAIN S.others /\ client[p] = "Connected"
  /\ client' = [client EXCEPT ![p] = "Ready"]
  /\ wire' = [wire EXCEPT ![p] = S.others[p]]
  /\ ended' = [ended EXCEPT ![p] = p \in S.closing]
  /\ UNCHANGED <<scenario, listenVars, attempt, blocking, backlog, stream, socket, served>>

\* The network delivers in order, in pieces.
Deliver(p) ==
  /\ wire[p] # <<>>
  /\ stream' = [stream EXCEPT ![p] = Append(@, Head(wire[p]))]
  /\ wire' = [wire EXCEPT ![p] = Tail(@)]
  /\ UNCHANGED <<scenario, listenVars, connectVars, backlog, ended, socket, served>>

-----------------------------------------------------------------------------
TryAccept ==
  /\ socket.state = "Accepting" /\ backlog # <<>>
  /\ socket' = [state |-> "Accepted", conn |-> Head(backlog), magic |-> <<>>]
  /\ backlog' = Tail(backlog)
  /\ UNCHANGED <<scenario, listenVars, connectVars, wire, stream, ended, served>>

\* socketProgress(): a byte of the connection is read, or the exception that its
\* end throws leaves accept().
Read(p) ==
  /\ stream[p] # <<>>
  /\ stream' = [stream EXCEPT ![p] = Tail(@)]

RemoteError(p) ==
  /\ stream[p] = <<>> /\ wire[p] = <<>> /\ ended[p]
  /\ socket' = [socket EXCEPT !.state = "Error"]
  /\ UNCHANGED stream

\* Mutant: the type stays in the stream.
TypeNotRead ==
  LET p == socket.conn
      magic == Append(socket.magic, Head(stream[p]))
  IN /\ socket.state = "Accepted" /\ Read(p)
     /\ socket' = IF Len(magic) < Len(Magic) THEN [socket EXCEPT !.magic = magic]
                  ELSE [socket EXCEPT !.magic = magic, !.state = IF magic = Magic THEN "Ready" ELSE "Accepting"]
     /\ UNCHANGED <<scenario, listenVars, connectVars, backlog, wire, ended, served>>

\* finalizeAccept(): the magic number is read to its end; the connection of another
\* program is closed and the next one accepted.
FinalizeAccept ==
  LET p == socket.conn
      magic == Append(socket.magic, Head(stream[p]))
  IN /\ socket.state = "Accepted"
     /\ \/ /\ Read(p)
           /\ socket' = [socket EXCEPT !.magic = magic,
                                       !.state = CASE Len(magic) < Len(Magic) -> "Accepted"
                                                   [] magic = Magic -> "Typing"
                                                   [] Len(magic) = Len(Magic) /\ magic # Magic -> "Accepting"]
        \/ RemoteError(p)
     /\ UNCHANGED <<scenario, listenVars, connectVars, backlog, wire, ended, served>>

\* Then the type, which must be right.
FinalizeType ==
  LET p == socket.conn IN
  /\ socket.state = "Typing"
  /\ \/ /\ Read(p)
        /\ socket' = [socket EXCEPT !.state = IF Head(stream[p]) = "t" THEN "Ready" ELSE "Error"]
     \/ RemoteError(p)
  /\ UNCHANGED <<scenario, listenVars, connectVars, backlog, wire, ended, served>>

\* accept() has returned: the data is received, and the next connection accepted.
Serve ==
  LET p == socket.conn IN
  /\ socket.state = "Ready"
  /\ \/ /\ Read(p)
        /\ served' = Append(served, <<p, Head(stream[p])>>)
        /\ socket' = [socket EXCEPT !.state = IF Len(served') = Cardinality(S.clients) THEN "Closed" ELSE "Accepting"]
     \/ RemoteError(p) /\ UNCHANGED served
  /\ UNCHANGED <<scenario, listenVars, connectVars, backlog, wire, ended>>

-----------------------------------------------------------------------------
SocketInit ==
  /\ scenario \in DOMAIN Scenarios
  /\ port = S.inUse
  /\ listener = "Initialized"
  /\ remainSecs = FinTimeout + 1
  /\ backlog = <<>>
  /\ client = [p \in Peers |-> "Connecting"]
  /\ attempt = [p \in Peers |-> "none"]
  /\ blocking = [p \in Peers |-> FALSE]
  /\ wire = [p \in Peers |-> <<>>]
  /\ stream = [p \in Peers |-> <<>>]
  /\ ended = [p \in Peers |-> FALSE]
  /\ socket = [state |-> "Initialized", conn |-> "none", magic |-> <<>>]
  /\ served = <<>>

ServerStep == TryAccept \/ FinalizeAccept \/ FinalizeType \/ Serve
PeerStep(p) ==
  \/ StartConnect(p) \/ PollConnect(p) \/ FinalizeConnect(p) \/ SendOther(p)
  \/ Establish(p) \/ Deliver(p)

SocketNext == BindInUse \/ BindAndListen \/ ServerStep \/ \E p \in Peers : PeerStep(p)

\* The threads of the ranks go on and the network delivers.
SocketFairSpec == SocketInit /\ [][SocketNext]_socketVars /\ WF_socketVars(SocketNext)

-----------------------------------------------------------------------------
\* accept() returns only connections of ranks, each once, at the first byte after
\* the handshake, however the bytes arrive (finalizeAccept(), finalizeConnect()).  A
\* connection with another magic number is ignored: it does not make accept() throw
\* ("Ignore spurious connection and accept again").
AcceptsRanks ==
  /\ \A i \in DOMAIN served : served[i][1] \in S.clients /\ served[i][2] = "d"
  /\ \A i, j \in DOMAIN served : served[i][1] = served[j][1] => i = j
  /\ socket.state # "Error"

AllServed == \A p \in S.clients : \E i \in DOMAIN served : served[i][1] = p
=============================================================================
