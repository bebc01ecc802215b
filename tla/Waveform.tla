------------------------------ MODULE Waveform ------------------------------
(***************************************************************************)
(* The CCD waveform as test/clocksim.c defines it: the order in which the  *)
(* procedures frame and readout drive the clock signals, with the time     *)
(* between two changes left out.  The specification plays Prologue once    *)
(* and then Repeat for ever.                                               *)
(***************************************************************************)
EXTENDS Naturals, Sequences

CONSTANTS NDown, NRow, NPixel

\* What one group of high() and low() calls does to the signals.
Effect == [
  down_1    |-> [high |-> {"P1VI", "P1VS"}, low |-> {"P2VI", "P2VS", "TG"}],
  down_2    |-> [high |-> {"P2VI", "P2VS", "TG"}, low |-> {"P1VI", "P1VS"}],
  pixel_1   |-> [high |-> {"P1H", "P2A4BH", "P4A2BH"},
                 low |-> {"P3H", "P2C4DH", "P4C2DH", "SG"}],
  pixel_2   |-> [high |-> {"P3H", "P2C4DH", "P4C2DH", "SG"},
                 low |-> {"P1H", "P2A4BH", "P4A2BH"}],
  frame_end |-> [high |-> {}, low |-> {"P2VI"}]]

Times(n, s) == [i \in 1..(n * Len(s)) |-> s[((i - 1) % Len(s)) + 1]]

pixel == <<"pixel_1", "pixel_2">>
pixel_maybe(ft) == IF ft THEN pixel ELSE <<>>
down(ft) == <<"down_1">> \o pixel_maybe(ft) \o <<"down_2">> \o pixel_maybe(ft)
frame == Times(NDown, down(TRUE)) \o <<"frame_end">>
row == down(FALSE) \o Times(NPixel, pixel)
readout == Times(NRow, row)
-----------------------------------------------------------------------------
CONSTANTS Prologue, Repeat

VARIABLES at, out   \* changes played so far (folded), the signals that are high

Program == Prologue \o Repeat

\* The position after one more change.
Advance(n) == IF n = Len(Program) THEN Len(Prologue) + 1 ELSE n + 1

Init == at = 0 /\ out = {}

Play == LET e == Effect[Program[Advance(at)]]
        IN  at' = Advance(at) /\ out' = (out \ e.low) \cup e.high

Spec == Init /\ [][Play]_<<at, out>>
=============================================================================
