---------------------------- MODULE AbstractFifo ----------------------------
(***************************************************************************)
(* What the trigger FIFO between the GPU and the proxy thread promises:    *)
(* the triggers reach the proxy handler exactly once, unaltered, in the    *)
(* order in which the device threads drew their positions.  pushed is the  *)
(* history of the triggers in position order, handled that of the triggers *)
(* handed to the proxy handler.                                            *)
(***************************************************************************)
EXTENDS Naturals, Sequences

CONSTANTS Triggers,   \* the triggers device threads push
          MaxPush     \* bound on the number of pushes

VARIABLES pushed, handled

absVars == <<pushed, handled>>

AbsInit ==
  /\ pushed = <<>>
  /\ handled = <<>>

AbsPush(trigger) ==
  /\ Len(pushed) < MaxPush
  /\ pushed' = Append(pushed, trigger)
  /\ UNCHANGED handled

AbsHandle ==
  /\ Len(handled) < Len(pushed)
  /\ handled' = Append(handled, pushed[Len(handled) + 1])
  /\ UNCHANGED pushed

AbsNext ==
  \/ \E trigger \in Triggers : AbsPush(trigger)
  \/ AbsHandle

AbsSpec == AbsInit /\ [][AbsNext]_absVars
=============================================================================
