------------------------------ MODULE NcclComm ------------------------------
(***************************************************************************)
(* Communicators of the NCCL interface (nccl.cc): every rank runs its own  *)
(* calls of CommInitRank, CommSplit, CommFinalize and CommDestroy, which   *)
(* meet in the collectives of the bootstrap.  A collective is a            *)
(* rendezvous: a rank enters with its contribution and leaves when the     *)
(* ranks it depends on have entered (what TcpBootstrap promises).          *)
(*                                                                         *)
(* A scenario gives the number of ranks, the calls of each (scripts) and   *)
(* what loading the NCCL library does there: "unset", "ok" or "fails".     *)
(* Communicators are named by unique ids, 0 is an id nobody wrote.         *)
(***************************************************************************)
EXTENDS Integers, SequencesExt

CONSTANT Scenarios, MaxId   \* MaxId bounds the ids created

NoColor == -1               \* NCCL_SPLIT_NOCOLOR
NoComm == [id |-> 0, rank |-> 0, size |-> 0, lib |-> 0]
World == 1

VARIABLES
  scenario,
  script, steps,   \* of each rank: calls to make, rest of the current one
  entered,         \* of each rank: it is inside the collective at the head of steps
  board,           \* contributions: of each id and ordinal, by rank of the communicator
  ord,             \* of each rank and id: collectives it has left
  nextId,
  comm, front,     \* of each rank: communicator being built, original rank of its first rank
  handle,          \* of each rank: the communicators of the program, by name
  loaded           \* of each rank: mscclppNcclDlopenSharedLib

commVars == <<scenario, script, steps, entered, board, ord, nextId, comm, front, handle, loaded>>

Conf == Scenarios[scenario]
Ranks == 0..(Conf.n - 1)
Call(r) == Head(script[r])
Names(r) == {Conf.scripts[r + 1][i].comm : i \in 1..Len(Conf.scripts[r + 1])}

CommInit ==
  /\ scenario \in DOMAIN Scenarios
  /\ script = [r \in Ranks |-> Conf.scripts[r + 1]] /\ steps = [r \in Ranks |-> <<>>]
  /\ entered = [r \in Ranks |-> FALSE]
  /\ board = {} /\ ord = [r \in Ranks |-> [i \in 0..MaxId |-> 0]]
  /\ nextId = World + 1
  /\ comm = [r \in Ranks |-> NoComm] /\ front = [r \in Ranks |-> 0]
  /\ handle = [r \in Ranks |-> [c \in Names(r) |-> NoComm]]
  /\ loaded = [r \in Ranks |-> FALSE]

-----------------------------------------------------------------------------
\* The communicator the current collective runs on.
On(r) == IF Head(steps[r]) \in {"initialize", "broadcast", "libInit"} THEN comm[r] ELSE handle[r][Call(r).of]

At(r) == <<On(r).id, ord[r][On(r).id]>>

InRendezvous(r) == {b \in board : b.at = At(r)}

Done(r) == script' = [script EXCEPT ![r] = Tail(@)] /\ steps' = [steps EXCEPT ![r] = <<>>]

Goes(r, rest) == steps' = [steps EXCEPT ![r] = rest] /\ UNCHANGED script

\* CommInitRank of the world, CommSplit, CommFinalize; CommDestroy is a step of its own.
Begin(r) ==
  /\ steps[r] = <<>> /\ script[r] # <<>> /\ Call(r).op # "destroy"
  /\ comm' = [comm EXCEPT ![r] = IF Call(r).op = "init" THEN [id |-> World, rank |-> r, size |-> Conf.n, lib |-> 0] ELSE NoComm]
  /\ Goes(r, CASE Call(r).op = "init" -> <<"initialize", "load">>
               [] Call(r).op = "split" -> <<"infos", "infosBarrier", "ids", "idsBarrier">>
               [] Call(r).op = "finalize" -> <<"barrier">>)
  /\ UNCHANGED <<scenario, entered, board, ord, nextId, front, handle, loaded>>

CommDestroy(r) ==
  /\ steps[r] = <<>> /\ script[r] # <<>> /\ Call(r).op = "destroy"
  /\ handle' = [handle EXCEPT ![r][Call(r).comm] = NoComm]
  /\ Done(r)
  /\ UNCHANGED <<scenario, entered, board, ord, nextId, comm, front, loaded>>

\* What a rank brings into the collective.
Contribution(r) ==
  CASE Head(steps[r]) = "infos" -> [color |-> Call(r).color, key |-> Call(r).key, id |-> 0]
    [] Head(steps[r]) = "ids" -> [color |-> 0, key |-> 0, id |-> comm[r].id]
    [] Head(steps[r]) \in {"broadcast", "libInit"} -> [color |-> 0, key |-> 0, id |-> comm[r].lib]
    [] OTHER -> [color |-> 0, key |-> 0, id |-> 0]

Enter(r) ==
  /\ steps[r] # <<>> /\ Head(steps[r]) # "load" /\ ~entered[r]
  /\ entered' = [entered EXCEPT ![r] = TRUE]
  /\ board' = board \cup {[at |-> At(r), rank |-> On(r).rank, value |-> Contribution(r)]}
  /\ UNCHANGED <<scenario, script, steps, ord, nextId, comm, front, handle, loaded>>

\* The broadcast is passed on from rank to rank; every other collective needs all of them.
Needed(r) == IF Head(steps[r]) = "broadcast" THEN 0..On(r).rank ELSE 0..(On(r).size - 1)

Brought(r, q) == (CHOOSE b \in InRendezvous(r) : b.rank = q).value

-----------------------------------------------------------------------------
(***************************************************************************)
(* CommSplit.                                                              *)
(***************************************************************************)

\* Mutant: the group keeps the order of the old communicator.
GroupUnsorted(r) ==
  SelectSeq([i \in 1..On(r).size |-> [rank |-> i - 1, color |-> Brought(r, i - 1).color, key |-> Brought(r, i - 1).key]],
            LAMBDA info : info.color = Call(r).color)

\* The ranks with the color of r, sorted by key only: every rank sorts the same infos.
Group(r) ==
  LET infos == [i \in 1..On(r).size |-> [rank |-> i - 1, color |-> Brought(r, i - 1).color, key |-> Brought(r, i - 1).key]]
  IN SortSeq(SelectSeq(infos, LAMBDA info : info.color = Call(r).color), LAMBDA a, b : a.key < b.key)

\* After the infos: the place in the new communicator.
Grouped(r) ==
  LET group == Group(r)
      newRank == (CHOOSE i \in 1..Len(group) : group[i].rank = On(r).rank) - 1
  IN /\ comm' = [comm EXCEPT ![r] = [id |-> 0, rank |-> newRank, size |-> Len(group), lib |-> 0]]
     /\ front' = [front EXCEPT ![r] = group[1].rank]
     /\ Goes(r, Tail(steps[r]))
     /\ UNCHANGED <<nextId, handle>>

\* The first rank of the new communicator makes its id.
IdMade(r) ==
  /\ IF comm[r].rank = 0
       THEN nextId' = nextId + 1 /\ comm' = [comm EXCEPT ![r].id = nextId]
       ELSE UNCHANGED <<nextId, comm>>
  /\ Goes(r, Tail(steps[r]))
  /\ UNCHANGED <<front, handle>>

IdTaken(r) ==
  /\ comm' = [comm EXCEPT ![r].id = Brought(r, front[r]).id]
  /\ Goes(r, Tail(steps[r]))
  /\ UNCHANGED <<nextId, front, handle>>

\* A rank without a color takes part in all collectives and gets no communicator.
SplitEnds(r) ==
  /\ IF Call(r).color = NoColor THEN Done(r) ELSE Goes(r, <<"initialize", "load">>)
  /\ UNCHANGED <<nextId, comm, front, handle>>

-----------------------------------------------------------------------------
(***************************************************************************)
(* CommInitRank.                                                           *)
(***************************************************************************)

\* The communicator is handed out before the library is loaded.
Initialized(r) ==
  /\ handle' = [handle EXCEPT ![r][Call(r).comm] = comm[r]]
  /\ Goes(r, Tail(steps[r]))
  /\ UNCHANGED <<nextId, comm, front>>

LibIdTaken(r) ==
  /\ comm' = [comm EXCEPT ![r].lib = Brought(r, 0).id]
  /\ Goes(r, Tail(steps[r]))
  /\ UNCHANGED <<nextId, front, handle>>

LibInitialized(r) ==
  /\ handle' = [handle EXCEPT ![r][Call(r).comm] = comm[r]]
  /\ Done(r)
  /\ UNCHANGED <<nextId, comm, front>>

\* CommFinalize leaves the barrier.
Finalized(r) == Done(r) /\ UNCHANGED <<nextId, comm, front, handle>>

Leave(r) ==
  /\ steps[r] # <<>> /\ entered[r]
  /\ Needed(r) \subseteq {b.rank : b \in InRendezvous(r)}
  /\ entered' = [entered EXCEPT ![r] = FALSE]
  /\ ord' = [ord EXCEPT ![r][On(r).id] = @ + 1]
  /\ CASE Head(steps[r]) = "infos" -> Grouped(r)
       [] Head(steps[r]) = "infosBarrier" -> IdMade(r)
       [] Head(steps[r]) = "ids" -> IdTaken(r)
       [] Head(steps[r]) = "idsBarrier" -> SplitEnds(r)
       [] Head(steps[r]) = "initialize" -> Initialized(r)
       [] Head(steps[r]) = "broadcast" -> LibIdTaken(r)
       [] Head(steps[r]) = "libInit" -> LibInitialized(r)
       [] Head(steps[r]) = "barrier" -> Finalized(r)
  /\ UNCHANGED <<scenario, board, loaded>>

\* The first rank makes the id of the library's communicator.
LibIdMade(r) ==
  IF comm[r].rank = 0 THEN nextId' = nextId + 1 /\ comm' = [comm EXCEPT ![r].lib = nextId]
                      ELSE UNCHANGED <<nextId, comm>>

\* mscclppNcclDlopenInit(): the path of the library may be unset or wrong.
LoadResult(r) == Conf.library[r + 1]

\* tryLoadNcclSharedLib(), once per process; on a failure the call returns an error.
Load(r) ==
  LET library == LoadResult(r) IN
  /\ steps[r] # <<>> /\ Head(steps[r]) = "load"
  /\ loaded' = [loaded EXCEPT ![r] = library = "ok"]
  /\ IF library = "ok" THEN Goes(r, <<"broadcast", "libInit">>) /\ LibIdMade(r)
                       ELSE Done(r) /\ UNCHANGED <<nextId, comm>>
  /\ UNCHANGED <<scenario, entered, board, ord, front, handle>>

RankStep(r) == Begin(r) \/ Enter(r) \/ Leave(r) \/ Load(r) \/ CommDestroy(r)

CommNext == \E r \in Ranks : RankStep(r)

CommSpec == CommInit /\ [][CommNext]_commVars

\* At least the ranks of every scenario.
AllRanks == 0..3

\* Every rank runs.
CommFairSpec == CommSpec /\ \A r \in AllRanks : WF_commVars(r \in Ranks /\ RankStep(r))

-----------------------------------------------------------------------------
\* The split call that makes a communicator.
SplitOf(r, name) ==
  LET calls == Conf.scripts[r + 1] IN calls[CHOOSE i \in 1..Len(calls) : calls[i].op = "split" /\ calls[i].comm = name]

\* Splits are made by all ranks with the same name.
Split(r, name) == name \in Names(r) /\ \E i \in 1..Len(Conf.scripts[r + 1]) :
                     Conf.scripts[r + 1][i].op = "split" /\ Conf.scripts[r + 1][i].comm = name

\* Ranks with the same color end up in one communicator, each at a place of its own, by
\* key; ranks with different colors in different ones, and a rank without a color in none
\* (CommSplit gathers, sorts and numbers on every rank apart).
SplitAgrees ==
  \A r, q \in Ranks : \A name \in Names(r) \cap Names(q) :
    /\ Split(r, name) /\ SplitOf(r, name).color = NoColor => handle[r][name] = NoComm
    /\ r # q /\ Split(r, name) /\ Split(q, name) /\ handle[r][name] # NoComm /\ handle[q][name] # NoComm =>
         IF SplitOf(r, name).color = SplitOf(q, name).color /\ SplitOf(r, name).of = SplitOf(q, name).of
           THEN /\ handle[r][name].id = handle[q][name].id /\ handle[r][name].id # 0
                /\ handle[r][name].size = handle[q][name].size
                /\ handle[r][name].rank # handle[q][name].rank
                /\ SplitOf(r, name).key < SplitOf(q, name).key => handle[r][name].rank < handle[q][name].rank
           ELSE handle[r][name].id # handle[q][name].id

\* The ranks of a communicator whose calls have returned gave the library one id, that of
\* their rank 0, which CommInitRank broadcasts.
LibraryIdsAgree ==
  \A r, q \in Ranks : \A c \in Names(r), d \in Names(q) :
    steps[r] = <<>> /\ steps[q] = <<>> /\ handle[r][c].id = handle[q][d].id =>
      handle[r][c].lib = handle[q][d].lib

AllReturned == \A r \in Ranks : script[r] = <<>>
=============================================================================
