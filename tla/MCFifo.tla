------------------------------- MODULE MCFifo -------------------------------
(***************************************************************************)
(* Fifo for TLC: two data words beside the zero word, so that a lost, a    *)
(* repeated and a reordered word can be told apart, and every occupancy    *)
(* from empty to full at every position of the pointers.                   *)
(***************************************************************************)
EXTENDS Fifo

MCWord == {"zero", "a", "b"}
MCZero == "zero"
=============================================================================
