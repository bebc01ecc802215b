----------------------------- MODULE MCSxiMmio -----------------------------
(***************************************************************************)
(* SxiMmio for TLC: a FIFO of four words and six words to send, so that    *)
(* the pointers wrap and the FIFO can fill while the program is slow.      *)
(***************************************************************************)
EXTENDS SxiMmio

MCWord == 0..NWords
=============================================================================
