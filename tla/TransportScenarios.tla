------------------------- MODULE TransportScenarios -------------------------
(***************************************************************************)
(* The instances of the transports: the proxy, and a host program, on one  *)
(* InfiniBand connection; ranks that connect, other programs and a port    *)
(* that is in use at first; imports between processes of one or two hosts. *)
(***************************************************************************)
EXTENDS SequencesExt, TLC

Proxied(triggers) == {t \o (IF Last(t) = "sync" THEN <<>> ELSE <<"limit">>) : t \in triggers}

\* The queues are small; the send queue is larger than the completion queue.
Sizes(n, poll) == [maxCqSize |-> n, maxSendWr |-> n + 2, maxCqPollNum |-> poll, maxWrPerSend |-> 3]

IbScenarios == [
  \* the proxy at its limit, one request per trigger
  limit |-> Sizes(3, 1) @@ [triggers |-> Proxied({<<"write">>, <<"signal">>}), calls |-> 8,
                            faults |-> 1, tolerated |-> {}],
  \* asynchronous flushes that stay within the completion queue
  async |-> Sizes(8, 2) @@ [triggers |-> Proxied({<<"write">>, <<"write", "signal", "sync">>, <<"sync">>}),
                            calls |-> 4, faults |-> 1, tolerated |-> {}],
  \* a host program that tries again after a timeout
  again |-> Sizes(6, 2) @@ [triggers |-> {<<"write">>, <<"signal">>, <<"timed">>, <<"flush">>}, calls |-> 6,
                            faults |-> 0, tolerated |-> {"timeout"}],
  \* a host program that does not flush
  full |-> [maxCqSize |-> 5, maxSendWr |-> 3, maxCqPollNum |-> 1, maxWrPerSend |-> 1,
            triggers |-> {<<"write">>, <<"signal">>, <<"timed">>}, calls |-> 6,
            faults |-> 1, tolerated |-> {}],
  \* a flush requested and not waited for does not count
  overrun |-> Sizes(3, 1) @@ [triggers |-> Proxied({<<"write">>, <<"sync">>}), calls |-> 8,
                              faults |-> 0, tolerated |-> {}],
  \* two requests per trigger
  pairs |-> Sizes(3, 1) @@ [triggers |-> Proxied({<<"write", "signal">>}), calls |-> 4,
                            faults |-> 0, tolerated |-> {}],
  \* the request fails when the flush times out
  late_failure |-> Sizes(6, 1) @@ [triggers |-> {<<"write">>, <<"timed">>}, calls |-> 3,
                                   faults |-> 1, tolerated |-> {"timeout"}],
  \* postSend() fails and the program goes on
  post_again |-> [maxCqSize |-> 5, maxSendWr |-> 2, maxCqPollNum |-> 1, maxWrPerSend |-> 3,
                  triggers |-> {<<"signal">>, <<"timed">>}, calls |-> 8,
                  faults |-> 0, tolerated |-> {"post", "timeout"}]]

-----------------------------------------------------------------------------
SocketScenarios == [
  ranks |-> [clients |-> {"a", "b"}, others |-> <<>>, closing |-> {}, inUse |-> 2],
  \* a program sends something else, another only half of the magic number right
  spurious |-> [clients |-> {"a", "b"}, others |-> [x |-> <<"x", "x", "x">>], closing |-> {"x"}, inUse |-> 0],
  half |-> [clients |-> {"a"}, others |-> [x |-> <<"m", "x">>, y |-> <<"x", "m">>], closing |-> {"y"}, inUse |-> 1],
  \* a program connects and closes
  probe |-> [clients |-> {"a"}, others |-> [x |-> <<>>], closing |-> {"x"}, inUse |-> 0]]

-----------------------------------------------------------------------------
Posix == {"posix"}

IpcScenarios == [
  \* two memories of one process, the first released, and one of the other
  pair |-> [host |-> [p |-> "A", q |-> "A"], pid |-> [p |-> 1, q |-> 2],
    owner |-> [k |-> "p", l |-> "p", m |-> "q"], types |-> [k |-> Posix, l |-> Posix, m |-> {"posix", "runtime"}],
    ib |-> [k |-> FALSE, l |-> FALSE, m |-> FALSE], epoch |-> [k |-> 1, l |-> 1, m |-> 1], epochs |-> 1,
    releases |-> {"k"}, keeps |-> {}, fabric |-> FALSE,
    proc |-> [s |-> "p", t |-> "q"], imports |-> [s |-> <<"k", "m">>, t |-> <<"k", "l">>]],
  \* two processes import from a third, two threads of a process from different ones
  three |-> [host |-> [p |-> "A", q |-> "A", r |-> "A"], pid |-> [p |-> 1, q |-> 2, r |-> 3],
    owner |-> [k |-> "p", l |-> "q", m |-> "r"], types |-> [k |-> Posix, l |-> {"posix", "fabric"}, m |-> Posix],
    ib |-> [k |-> FALSE, l |-> FALSE, m |-> FALSE], epoch |-> [k |-> 1, l |-> 1, m |-> 1], epochs |-> 1,
    releases |-> {}, keeps |-> {}, fabric |-> FALSE,
    proc |-> [s |-> "q", t |-> "r", u |-> "q"], imports |-> [s |-> <<"k">>, t |-> <<"k", "l">>, u |-> <<"m">>]],
  \* a communicator after the other
  second |-> [host |-> [p |-> "A", q |-> "A"], pid |-> [p |-> 1, q |-> 2],
    owner |-> [k |-> "p", l |-> "p"], types |-> [k |-> Posix, l |-> Posix],
    ib |-> [k |-> FALSE, l |-> FALSE], epoch |-> [k |-> 1, l |-> 2], epochs |-> 2,
    releases |-> {"k"}, keeps |-> {}, fabric |-> FALSE,
    proc |-> [t |-> "q"], imports |-> [t |-> <<"k", "l">>]],
  \* two hosts: what cannot be opened goes through IB
  hosts |-> [host |-> [p |-> "A", q |-> "B"], pid |-> [p |-> 1, q |-> 2],
    owner |-> [k |-> "p", l |-> "p"], types |-> [k |-> {"posix", "fabric"}, l |-> {"runtime"}],
    ib |-> [k |-> TRUE, l |-> TRUE], epoch |-> [k |-> 1, l |-> 1], epochs |-> 1,
    releases |-> {"k", "l"}, keeps |-> {}, fabric |-> FALSE,
    proc |-> [t |-> "q"], imports |-> [t |-> <<"k", "l">>]],
  \* two hosts with one NVLink fabric
  fabric |-> [host |-> [p |-> "A", q |-> "B"], pid |-> [p |-> 1, q |-> 1],
    owner |-> [k |-> "p", l |-> "q"], types |-> [k |-> {"posix", "fabric"}, l |-> {"posix", "fabric"}],
    ib |-> [k |-> FALSE, l |-> FALSE], epoch |-> [k |-> 1, l |-> 1], epochs |-> 1,
    releases |-> {"k"}, keeps |-> {}, fabric |-> TRUE,
    proc |-> [s |-> "p", t |-> "q"], imports |-> [s |-> <<"l">>, t |-> <<"k">>]],
  \* two threads of a process import from the same one
  threads |-> [host |-> [p |-> "A", q |-> "A"], pid |-> [p |-> 1, q |-> 2],
    owner |-> [k |-> "p", l |-> "p"], types |-> [k |-> Posix, l |-> Posix],
    ib |-> [k |-> FALSE, l |-> FALSE], epoch |-> [k |-> 1, l |-> 1], epochs |-> 1,
    releases |-> {}, keeps |-> {}, fabric |-> FALSE,
    proc |-> [s |-> "q", t |-> "q"], imports |-> [s |-> <<"k">>, t |-> <<"l">>]],
  \* processes of two hosts with the same process id
  same_pid |-> [host |-> [p |-> "A", q |-> "B"], pid |-> [p |-> 1, q |-> 1],
    owner |-> [k |-> "p", l |-> "q"], types |-> [k |-> Posix, l |-> Posix],
    ib |-> [k |-> TRUE, l |-> TRUE], epoch |-> [k |-> 1, l |-> 1], epochs |-> 1,
    releases |-> {}, keeps |-> {}, fabric |-> FALSE,
    proc |-> [t |-> "q"], imports |-> [t |-> <<"k">>]],
  \* a process keeps its first communicator while it makes the second
  kept |-> [host |-> [p |-> "A", q |-> "A"], pid |-> [p |-> 1, q |-> 2],
    owner |-> [k |-> "p", l |-> "p"], types |-> [k |-> Posix, l |-> Posix],
    ib |-> [k |-> FALSE, l |-> FALSE], epoch |-> [k |-> 1, l |-> 2], epochs |-> 2,
    releases |-> {}, keeps |-> {"q"}, fabric |-> FALSE,
    proc |-> [t |-> "q"], imports |-> [t |-> <<"k", "l">>]]]
=============================================================================
