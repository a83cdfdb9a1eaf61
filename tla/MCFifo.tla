------------------------------- MODULE MCFifo -------------------------------
(***************************************************************************)
(* An instance of Fifo for TLC.  The second word of one trigger is zero.   *)
(***************************************************************************)
EXTENDS Fifo

MCTriggers == {[fst |-> 1, snd |-> 0], [fst |-> 2, snd |-> 1]}
=============================================================================
