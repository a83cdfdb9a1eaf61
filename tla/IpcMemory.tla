----------------------------- MODULE IpcMemory -----------------------------
(***************************************************************************)
(* The import of another process' GPU memory: registration and its inverse *)
(* (registered_memory.cc), the handles (gpu_ipc_mem.cc), and the server and*)
(* client that pass file descriptors over a unix socket (unix_socket.cc).  *)
(*                                                                         *)
(* A scenario S gives the processes with their hosts and process ids, the  *)
(* memories with their owners, the types of their handles, whether they are*)
(* registered for IB too and the communicator (1, 2, ...) they are for, and*)
(* what each thread imports, in order.  A process has one server and one   *)
(* client, which all its communicators share.                              *)
(***************************************************************************)
EXTENDS Naturals, FiniteSetsExt, SequencesExt, TLC

CONSTANT Scenarios

VARIABLES
  scenario,
  epoch,      \* of a process: the communicators it has made
  server,     \* its UnixSocketServer: "off", "running" or, after an exception, "dead"
  lookedUp,   \* the request its main loop is serving
  fds,        \* its open descriptors of memories
  fdSet,      \* UnixSocketServer::fdSet_
  stage,      \* of a memory: "none", "exported", "unregistered", "released" or "refused"
  handle,     \* the descriptor in the handle that its owner sends, zero if there is none
  conns,      \* the connections, in the order they were made
  cached,     \* of a process: UnixSocketClient::cachedFds_, from process ids to connections
  thread,     \* of a thread: where it is, its connection and what is left to import
  got         \* what it imported

ipcVars == <<scenario, epoch, server, lookedUp, fds, fdSet, stage, handle, conns, cached, thread, got>>

S == Scenarios[scenario]
Processes == DOMAIN S.host
Memories == DOMAIN S.owner
Importers == DOMAIN S.proc

None == "none"
Descriptors == 1 .. Cardinality(Memories)

serverVars == <<epoch, server, lookedUp, fds, fdSet, stage, handle>>
clientVars == <<conns, cached, thread, got>>

\* Nothing more happens in a process whose server threw in its thread.
Alive(p) == server[p] # "dead"

\* generateSocketPath(): the path is made of the process id alone, so p finds behind
\* it a process of its own host.
Behind(p, pid) == {q \in Processes : S.host[p] = S.host[q] /\ S.pid[q] = pid /\ server[q] = "running"}

-----------------------------------------------------------------------------
(***************************************************************************)
(* The owner.                                                              *)
(***************************************************************************)

RegisterFd(p, fd) == [fdSet EXCEPT ![p] = @ \cup {fd}]
UnregisterFd(p, fd) == [fdSet EXCEPT ![p] = @ \ {fd}]

\* GpuIpcMemHandle::create(): the export opens the lowest free descriptor;
\* registerFd() throws if it is registered.
CreateHandle(p, m) ==
  LET fd == Min({d \in Descriptors : fds[p][d] = None}) IN
  IF "posix" \in S.types[m]
  THEN /\ fds' = [fds EXCEPT ![p][fd] = m]
       /\ fdSet' = RegisterFd(p, fd)
       /\ handle' = [handle EXCEPT ![m] = fd]
       /\ stage' = [stage EXCEPT ![m] = IF fd \in fdSet[p] THEN "refused" ELSE "exported"]
  ELSE stage' = [stage EXCEPT ![m] = "exported"] /\ UNCHANGED <<fds, fdSet, handle>>

\* RegisteredMemory::Impl::Impl() of a local memory
Register(m) ==
  /\ stage[m] = "none" /\ Alive(S.owner[m]) /\ epoch[S.owner[m]] >= S.epoch[m]
  /\ CreateHandle(S.owner[m], m)
  /\ UNCHANGED <<scenario, epoch, server, lookedUp, clientVars>>

Imported(m) == \A t \in Importers : m \notin Range(thread[t].left)

\* Mutant: the descriptor is closed before it is unregistered.
CloseFirst(m) ==
  LET p == S.owner[m] IN
  /\ stage[m] = "exported" /\ Alive(p) /\ m \in S.releases /\ Imported(m)
  /\ stage' = [stage EXCEPT ![m] = "unregistered"]
  /\ fds' = [fds EXCEPT ![p] = [d \in Descriptors |-> IF d = handle[m] THEN None ELSE @[d]]]
  /\ UNCHANGED <<scenario, epoch, server, lookedUp, fdSet, handle, clientVars>>

\* The memory is no longer registered: GpuIpcMemHandle::deleter() takes the
\* descriptor from the server.  The application has seen the imports return.
Unregister(m) ==
  LET p == S.owner[m] IN
  /\ stage[m] = "exported" /\ Alive(p) /\ m \in S.releases /\ Imported(m)
  /\ stage' = [stage EXCEPT ![m] = "unregistered"]
  /\ fdSet' = UnregisterFd(p, handle[m])
  /\ UNCHANGED <<scenario, epoch, server, lookedUp, fds, handle, clientVars>>

\* And closes it.
CloseFd(m) ==
  LET p == S.owner[m] IN
  /\ stage[m] = "unregistered" /\ Alive(p)
  /\ stage' = [stage EXCEPT ![m] = "released"]
  /\ fds' = [fds EXCEPT ![p] = [d \in Descriptors |-> IF @[d] = m THEN None ELSE @[d]]]
  /\ UNCHANGED <<scenario, epoch, server, lookedUp, fdSet, handle, clientVars>>

-----------------------------------------------------------------------------
(***************************************************************************)
(* The server.                                                             *)
(***************************************************************************)

\* A bootstrap is initialized: establishConnections() needs every process to be
\* there, then the server is started unless it runs.  The processes that close
\* their communicator have closed the one before.
Start(p) ==
  /\ Alive(p)
  /\ epoch[p] < S.epochs
  /\ \A q \in Processes :
       \/ epoch[q] > epoch[p]
       \/ epoch[q] = epoch[p] /\ (server[q] = "off" \/ q \in S.keeps)
  /\ epoch' = [epoch EXCEPT ![p] = @ + 1]
  /\ server' = [server EXCEPT ![p] = "running"]
  /\ UNCHANGED <<scenario, lookedUp, fds, fdSet, stage, handle, clientVars>>

\* The application closes a communicator when all its imports have returned.
Finished(p) ==
  \A t \in Importers : \A m \in Range(thread[t].left) :
    S.epoch[m] <= epoch[p] => S.owner[m] # p /\ S.proc[t] # p

\* TcpBootstrap::Impl::close(): stop() waits for the main loop, which closes the
\* connections it has; then UnixSocketClient::reset().
Close(p) ==
  /\ server[p] = "running" /\ lookedUp[p] = <<>>
  /\ Finished(p) /\ p \notin S.keeps
  /\ server' = [server EXCEPT ![p] = "off"]
  /\ conns' = [c \in DOMAIN conns |->
                 [conns[c] EXCEPT !.state = IF conns[c].server = p THEN "closed" ELSE @,
                                  !.open = @ /\ c \notin Range(cached[p])]]
  /\ cached' = [cached EXCEPT ![p] = <<>>]
  /\ UNCHANGED <<scenario, epoch, lookedUp, fds, fdSet, stage, handle, thread, got>>

Accept(p, c) ==
  /\ server[p] = "running" /\ lookedUp[p] = <<>>
  /\ conns[c].server = p /\ conns[c].state = "backlog"
  /\ conns' = [conns EXCEPT ![c].state = "accepted"]
  /\ UNCHANGED <<scenario, serverVars, cached, thread, got>>

\* removeClient(): a connection the client closed goes before its request is read.
RemoveClient(p, c) ==
  /\ server[p] = "running" /\ lookedUp[p] = <<>>
  /\ conns[c].server = p /\ conns[c].state = "accepted" /\ ~conns[c].open
  /\ conns' = [conns EXCEPT ![c].state = "closed"]
  /\ UNCHANGED <<scenario, serverVars, cached, thread, got>>

\* A request is read and looked up under the mutex; the exception that an unknown
\* descriptor throws leaves the thread.
LookUp(p, c) ==
  /\ server[p] = "running" /\ lookedUp[p] = <<>>
  /\ conns[c].server = p /\ conns[c].state = "accepted" /\ conns[c].open
  /\ conns[c].requests # <<>>
  /\ LET fd == Head(conns[c].requests) IN
     IF fd \in fdSet[p] THEN lookedUp' = [lookedUp EXCEPT ![p] = <<c, fd>>] /\ UNCHANGED server
     ELSE server' = [server EXCEPT ![p] = "dead"] /\ UNCHANGED lookedUp
  /\ conns' = [conns EXCEPT ![c].requests = Tail(@)]
  /\ UNCHANGED <<scenario, epoch, fds, fdSet, stage, handle, cached, thread, got>>

\* Mutant: the first descriptor of the set is sent, not the one that was found.
SendFirst(p) ==
  /\ lookedUp[p] # <<>>
  /\ conns' = [conns EXCEPT ![lookedUp[p][1]].answers = Append(@, fds[p][Min(fdSet[p])])]
  /\ lookedUp' = [lookedUp EXCEPT ![p] = <<>>]
  /\ UNCHANGED <<scenario, epoch, server, fds, fdSet, stage, handle, cached, thread, got>>

\* sendStatusAndFd(), without the mutex: what the descriptor is now is sent.
SendFd(p) ==
  /\ lookedUp[p] # <<>>
  /\ LET c == lookedUp[p][1]
         m == fds[p][lookedUp[p][2]]
     IN \/ /\ conns[c].open /\ m # None
           /\ conns' = [conns EXCEPT ![c].answers = Append(@, m)]
           /\ UNCHANGED server
        \/ /\ ~(conns[c].open /\ m # None)
           /\ server' = [server EXCEPT ![p] = "dead"]
           /\ UNCHANGED conns
  /\ lookedUp' = [lookedUp EXCEPT ![p] = <<>>]
  /\ UNCHANGED <<scenario, epoch, fds, fdSet, stage, handle, cached, thread, got>>

-----------------------------------------------------------------------------
(***************************************************************************)
(* The importing thread.                                                   *)
(***************************************************************************)

\* The import returns: it has mapped the memory.
Returns(t, memory) ==
  /\ got' = [got EXCEPT ![t] = Append(@, <<Head(thread[t].left), memory>>)]
  /\ thread' = [thread EXCEPT ![t] = [pc |-> "idle", conn |-> 0, left |-> Tail(@.left)]]

\* It throws: the memory is used through IB if it is registered for IB, else the
\* exception ends the set-up.
Throws(t) ==
  LET m == Head(thread[t].left) IN
  IF S.ib[m] THEN Returns(t, "IB")
  ELSE /\ got' = [got EXCEPT ![t] = Append(@, <<m, "error">>)]
       /\ thread' = [thread EXCEPT ![t] = [pc |-> "failed", conn |-> 0, left |-> <<>>]]

\* GpuIpcMem::GpuIpcMem() and map(): the types of the handle in turn.  For the
\* descriptor the client looks for a connection under its mutex.
CreateGpuIpcMem(t, p, m) ==
  LET pid == S.pid[S.owner[m]]
      fabric == S.fabric /\ "fabric" \in S.types[m]
      posix == "posix" \in S.types[m]
      runtime == "runtime" \in S.types[m] /\ S.host[p] = S.host[S.owner[m]]
  IN \/ fabric /\ Returns(t, m)
     \/ /\ ~fabric /\ posix
        /\ thread' = [thread EXCEPT ![t] = IF pid \in DOMAIN cached[p]
                                           THEN [@ EXCEPT !.pc = "send", !.conn = cached[p][pid]]
                                           ELSE [@ EXCEPT !.pc = "connect"]]
        /\ UNCHANGED got
     \/ ~fabric /\ ~posix /\ runtime /\ Returns(t, m)
     \/ ~fabric /\ ~posix /\ ~runtime /\ Throws(t)

\* RegisteredMemory::Impl::Impl() of a serialization: a memory of the process
\* itself is there already.
Import(t) ==
  LET p == S.proc[t]
      m == Head(thread[t].left)
  IN /\ Alive(p) /\ thread[t].pc = "idle" /\ thread[t].left # <<>>
     /\ stage[m] \notin {"none", "refused"} /\ epoch[p] >= S.epoch[m]
     /\ IF S.owner[m] = p THEN Returns(t, m) ELSE CreateGpuIpcMem(t, p, m)
     /\ UNCHANGED <<scenario, serverVars, conns, cached>>

\* connect()
Connect(t) ==
  LET p == S.proc[t]
      to == Behind(p, S.pid[S.owner[Head(thread[t].left)]])
  IN /\ Alive(p) /\ thread[t].pc = "connect"
     /\ \/ \E q \in to :
             /\ conns' = Append(conns, [server |-> q, open |-> TRUE, state |-> "backlog",
                                        requests |-> <<>>, answers |-> <<>>])
             /\ thread' = [thread EXCEPT ![t].pc = "cache", ![t].conn = Len(conns')]
             /\ UNCHANGED got
        \/ to = {} /\ Throws(t) /\ UNCHANGED conns
     /\ UNCHANGED <<scenario, serverVars, cached>>

\* The connection replaces one that another thread has made meanwhile.
Cache(t) ==
  LET p == S.proc[t]
      pid == S.pid[S.owner[Head(thread[t].left)]]
  IN /\ Alive(p) /\ thread[t].pc = "cache"
     /\ conns' = IF pid \in DOMAIN cached[p] THEN [conns EXCEPT ![cached[p][pid]].open = FALSE] ELSE conns
     /\ cached' = [cached EXCEPT ![p] = (pid :> thread[t].conn) @@ @]
     /\ thread' = [thread EXCEPT ![t].pc = "send"]
     /\ UNCHANGED <<scenario, serverVars, got>>

\* requestFdInternal() is not under the mutex: the request is sent.  To a
\* connection that the server closed the signal SIGPIPE ends the process.
SendRequest(t) ==
  LET c == thread[t].conn IN
  /\ Alive(S.proc[t]) /\ thread[t].pc = "send"
  /\ \/ /\ conns[c].open /\ conns[c].state # "closed"
        /\ conns' = [conns EXCEPT ![c].requests = Append(@, handle[Head(thread[t].left)])]
        /\ thread' = [thread EXCEPT ![t].pc = "receive"]
        /\ UNCHANGED <<server, got>>
     \/ /\ ~conns[c].open /\ Throws(t) /\ UNCHANGED <<server, conns>>
     \/ /\ conns[c].open /\ conns[c].state = "closed"
        /\ server' = [server EXCEPT ![S.proc[t]] = "dead"]
        /\ UNCHANGED <<conns, thread, got>>
  /\ UNCHANGED <<scenario, epoch, lookedUp, fds, fdSet, stage, handle, cached>>

\* And an answer is received, the first there is; then the memory is mapped.
Receive(t) ==
  LET c == thread[t].conn IN
  /\ Alive(S.proc[t]) /\ thread[t].pc = "receive"
  /\ \/ /\ conns[c].answers # <<>>
        /\ conns' = [conns EXCEPT ![c].answers = Tail(@)]
        /\ Returns(t, Head(conns[c].answers))
     \/ /\ \/ ~conns[c].open
           \/ conns[c].answers = <<>> /\ conns[c].state = "closed"
        /\ Throws(t)
        /\ UNCHANGED conns
  /\ UNCHANGED <<scenario, serverVars, cached>>

-----------------------------------------------------------------------------
IpcInit ==
  /\ scenario \in DOMAIN Scenarios
  /\ epoch = [p \in Processes |-> 0]
  /\ server = [p \in Processes |-> "off"]
  /\ lookedUp = [p \in Processes |-> <<>>]
  /\ fds = [p \in Processes |-> [d \in Descriptors |-> None]]
  /\ fdSet = [p \in Processes |-> {}]
  /\ stage = [m \in Memories |-> "none"]
  /\ handle = [m \in Memories |-> 0]
  /\ conns = <<>>
  /\ cached = [p \in Processes |-> <<>>]
  /\ thread = [t \in Importers |-> [pc |-> "idle", conn |-> 0, left |-> S.imports[t]]]
  /\ got = [t \in Importers |-> <<>>]

OwnerStep(m) == Register(m) \/ Unregister(m) \/ CloseFd(m)
ServerStep(p) ==
  \/ SendFd(p)
  \/ \E c \in DOMAIN conns : Accept(p, c) \/ RemoveClient(p, c) \/ LookUp(p, c)
ThreadStep(t) == Import(t) \/ Connect(t) \/ Cache(t) \/ SendRequest(t) \/ Receive(t)

IpcNext ==
  \/ \E m \in Memories : OwnerStep(m)
  \/ \E p \in Processes : Start(p) \/ Close(p) \/ ServerStep(p)
  \/ \E t \in Importers : ThreadStep(t)

\* The threads of the application, the main loops and the set-up of every
\* communicator go on.
IpcFairSpec == IpcInit /\ [][IpcNext]_ipcVars /\ WF_ipcVars(IpcNext)

-----------------------------------------------------------------------------
\* An import maps the memory whose handle it was given, or leaves it to IB: the
\* descriptor that comes back over the cached connection is the one asked for,
\* through every reuse of its number (requestFd(), mainLoop(), deleter()).
ImportedIsExported == \A t \in Importers : \A i \in DOMAIN got[t] : got[t][i][2] \in {got[t][i][1], "IB", "error"}

\* Imports do not fail while the application keeps the memories and communicators
\* they need: no connection is refused or found closed (requestFd(), close()), no
\* process dies of an exception in the server's thread or of a closed connection, and
\* no descriptor is refused because its number is still registered (mainLoop(),
\* registerFd(), deleter()).
ImportsSucceed ==
  /\ \A t \in Importers : thread[t].pc # "failed"
  /\ \A p \in Processes : Alive(p)
  /\ \A m \in Memories : stage[m] # "refused"

AllReturned == \A t \in Importers : thread[t].left = <<>>
=============================================================================
