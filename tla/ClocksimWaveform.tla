-------------------------- MODULE ClocksimWaveform --------------------------
(***************************************************************************)
(* Clocksim with a history variable that counts the changes of the outputs *)
(* it makes, which says where in the waveform of test/clocksim.c it is.    *)
(* Step counts and idle modes are stuttering steps of the waveform.        *)
(***************************************************************************)
EXTENDS Clocksim

VARIABLE at

W == INSTANCE Waveform WITH Prologue <- <<>>, Repeat <- <<>>, out <- state

\* What the code plays: frame and readout once, and from then on only frames.
Played == INSTANCE Waveform
            WITH Prologue <- W!frame \o W!readout, Repeat <- W!frame,
                 out <- state

Emits == \/ In("DOWN") /\ down_pixel \in {0, 1}
         \/ In("PIXEL") /\ pixel_step \in {0, 5}
         \/ In("FRAME") /\ frame_downs = NDown

HInit == Init /\ at = 0
HNext == Next /\ at' = IF Emits THEN Played!Advance(at) ELSE at
HSpec == HInit /\ [][HNext]_<<vars, at>> /\ WF_vars(Next)

(***************************************************************************)
(* The stack machine drives the signals in the order of the nested loops   *)
(* of test/clocksim.c: every down, pixel and row of a frame and of the     *)
(* first readout, no one skipped, repeated or out of order, and a frame    *)
(* without readout ever after.                                             *)
(***************************************************************************)
PlaysWaveform == Played!Spec
=============================================================================
