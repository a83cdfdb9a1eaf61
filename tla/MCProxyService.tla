--------------------------- MODULE MCProxyService ---------------------------
(***************************************************************************)
(* Instances of ProxyService for TLC.                                      *)
(***************************************************************************)
EXTENDS ProxyService, TLC

CONSTANTS t1, t2, c1, c2, s1, s2, q1, q2

ThreadSymmetry == Permutations(Threads)

AllTypes == {{"data"}, {"flag"}, {"data", "flag"}, {"data", "flag", "sync"}, {"sync"}}
PutAndFlush == {{"data"}, {"data", "flag", "sync"}}

\* Each connection has a work queue of its own.
OwnQueues == c1 :> q1 @@ c2 :> q2
OneConnection == c1 :> q1

TwoConnections == s1 :> c1 @@ s2 :> c2
OneSemaphore == s1 :> c1

IbLimit == [c \in Conns |-> IF c \in Ib THEN 2 ELSE -1]
=============================================================================
