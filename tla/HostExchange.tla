--------------------------- MODULE HostExchange ----------------------------
(***************************************************************************)
(* What the host threads of the ranks of a communicator say to each other  *)
(* while they set up a collective: endpoints of connections, semaphores,   *)
(* registered memories and multicast handles travel over one bootstrap FIFO*)
(* per pair of ranks (tag 0), and every receive takes whatever comes next. *)
(* A set-up is a sequence of blocking steps, the deferred receives of      *)
(* Communicator being where get() is called.                               *)
(***************************************************************************)
EXTENDS Integers, Sequences, SequencesExt, FiniteSets, TLC

VARIABLES
  todo,   \* of each rank: the steps left of the set-up it is in
  net,    \* messages sent and not received, for each <<sender, receiver>>
  got,    \* of each rank: the regions its peers have sent, by <<memory, peer>>
  matched \* no rank has received a message of another kind than it expects

exchangeVars == <<todo, net, got, matched>>

Each(s, op(_)) == FlattenSeq([i \in DOMAIN s |-> op(s[i])])

Upto(n) == [i \in 1 .. n |-> i]

\* for (i = 0; i < nRanks; i++) { if (i == rank) continue; ... }
PeersOf(r, nRanks) == SelectSeq([i \in 1 .. nRanks |-> i - 1], LAMBDA p : p # r)

Endpoint == [kind |-> "endpoint", name |-> 0]
Semaphore(i) == [kind |-> "semaphore", name |-> i]
Memory(name) == [kind |-> "memory", name |-> name]
Multicast(i) == [kind |-> "multicast", name |-> i]

None == [none |-> TRUE]

Send(p, what, region) == <<[do |-> "send", peer |-> p, what |-> what, region |-> region]>>
Recv(p, what) == <<[do |-> "recv", peer |-> p, what |-> what]>>

\* setupConnections(): all endpoints are sent before the first is received.
SetupConnections(r, nRanks) ==
  Each(PeersOf(r, nRanks), LAMBDA p : Send(p, Endpoint, None))
    \o Each(PeersOf(r, nRanks), LAMBDA p : Recv(p, Endpoint))

\* MemoryDevice2DeviceSemaphore(communicator, connection)
BuildSemaphore(p, i) == Send(p, Semaphore(i), None) \o Recv(p, Semaphore(i))

\* setupMemorySemaphores(): the i-th semaphore of every connection, in turn.
SetupMemorySemaphores(r, nRanks, first, n) ==
  Each([i \in 1 .. n |-> first + i - 1], LAMBDA i : Each(PeersOf(r, nRanks), LAMBDA p : BuildSemaphore(p, i)))

\* setupRemoteMemories()
SetupRemoteMemories(r, nRanks, name, region) ==
  Each(PeersOf(r, nRanks), LAMBDA p : Send(p, Memory(name), region))
    \o Each(PeersOf(r, nRanks), LAMBDA p : Recv(p, Memory(name)))

\* connectNvlsCollective(): the first rank creates the multicast object.
ConnectNvlsCollective(r, nRanks, i) ==
  IF r = 0 THEN Each(PeersOf(0, nRanks), LAMBDA p : Send(p, Multicast(i), None))
           ELSE Recv(0, Multicast(i))

\* setupNvlsConnections()
SetupNvlsConnections(r, nRanks, first, n) ==
  Each([i \in 1 .. n |-> first + i - 1], LAMBDA i : ConnectNvlsCollective(r, nRanks, i))

-----------------------------------------------------------------------------
ExchangeInit(nRanks) ==
  LET ranks == 0 .. nRanks - 1 IN
  /\ todo = [r \in ranks |-> <<>>]
  /\ net = [pair \in ranks \X ranks |-> <<>>]
  /\ got = [r \in ranks |-> <<>>]
  /\ matched = TRUE

At(r, step) == todo[r] # <<>> /\ Head(todo[r]).do = step

\* Communicator::sendMemory(), connect(), buildSemaphore(): the message is sent.
DoSend(r) ==
  /\ At(r, "send")
  /\ LET s == Head(todo[r]) IN
       net' = [net EXCEPT ![<<r, s.peer>>] = Append(@, [what |-> s.what, region |-> s.region])]
  /\ todo' = [todo EXCEPT ![r] = Tail(@)]
  /\ UNCHANGED <<got, matched>>

\* Their get(): the next message of the peer is taken for what is expected.
DoRecv(r) ==
  /\ At(r, "recv")
  /\ LET s == Head(todo[r])
         queue == net[<<s.peer, r>>]
     IN /\ queue # <<>>
        /\ net' = [net EXCEPT ![<<s.peer, r>>] = Tail(@)]
        /\ matched' = (matched /\ Head(queue).what = s.what)
        /\ got' = IF s.what.kind = "memory"
                  THEN [got EXCEPT ![r] = (<<s.what.name, s.peer>> :> Head(queue).region) @@ @]
                  ELSE got
  /\ todo' = [todo EXCEPT ![r] = Tail(@)]

Exchange(r) == DoSend(r) \/ DoRecv(r)

\* Every rank that still has something to do waits for a message.
Blocked(r) == At(r, "recv") /\ net[<<Head(todo[r]).peer, r>>] = <<>>
=============================================================================
