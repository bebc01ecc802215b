------------------------------ MODULE Clocksim ------------------------------
(***************************************************************************)
(* state_proc of wishbone_CCD_simulator/vhdl/clocksim.vhdl: a stack        *)
(* machine that plays the CCD clock waveform.  The nested procedures of    *)
(* test/clocksim.c (frame, readout, row, down, pixel_maybe, pixel) become  *)
(* modes on a stack of four; their parameters, loop counters and return    *)
(* points are variables of the process.  One step is one rising edge of    *)
(* iSCLK; the reset branch, which rstgen_syscon takes once at power-up, is *)
(* the initial state.  A std_logic variable is 0 or 1.                     *)
(***************************************************************************)
EXTENDS Integers, Sequences

CONSTANTS
  NDown,   \* downs in a frame        (1280 in the code)
  NRow,    \* rows in a readout       (1280)
  NPixel   \* pixels in a row         (1280)

ASSUME ClocksimAssumption ==
  NDown \in Nat \ {0} /\ NRow \in Nat \ {0} /\ NPixel \in Nat \ {0}

VARIABLES
  state,                  \* the clock signals that are high
  stack, idx,             \* the mode stack and the index of its top
  ft,                     \* frame transfer: the parameter of pixel_maybe
  row_down,               \* the row has done its down
  down_pixel,             \* return point inside DOWN
  pixel_step, pm_step,    \* SCLK periods spent in PIXEL and PIXEL_MAYBE
  frame_downs, readout_rows, row_pixels

vars == <<state, stack, idx, ft, row_down, down_pixel, pixel_step, pm_step,
          frame_downs, readout_rows, row_pixels>>

STACK_SIZE == 4
Mode == {"FRAME", "READOUT", "ROW", "DOWN", "PIXEL_MAYBE", "PIXEL"}

Vertical == {"P1VI", "P2VI", "P1VS", "P2VS", "TG"}
HorizontalFirst == {"P1H", "P2A4BH", "P4A2BH"}
HorizontalSecond == {"P3H", "P2C4DH", "P4C2DH", "SG"}
Signal == Vertical \cup HorizontalFirst \cup HorizontalSecond

Init ==
  /\ state = {}
  /\ stack = [i \in 0..(STACK_SIZE - 1) |-> "FRAME"] /\ idx = 0
  /\ ft = 0 /\ row_down = 0
  /\ down_pixel = 0 /\ pixel_step = 0 /\ pm_step = 0
  /\ frame_downs = 0 /\ readout_rows = 0 /\ row_pixels = 0

\* The stack operations that the branches write out in full.
Call(m) == idx' = idx + 1 /\ stack' = [stack EXCEPT ![idx + 1] = m]
Return == idx' = idx - 1 /\ UNCHANGED stack
Restart(m) == idx' = 0 /\ stack' = [stack EXCEPT ![0] = m]

Drive(high, low) == state' = (state \ low) \cup high

In(m) == stack[idx] = m

Frame ==
  /\ In("FRAME")
  /\ \/ /\ frame_downs < NDown
        /\ ft' = 1
        /\ Call("DOWN")
        /\ frame_downs' = frame_downs + 1
        /\ UNCHANGED state
     \/ /\ frame_downs >= NDown
        /\ Drive({}, {"P2VI"})
        /\ frame_downs' = 0
        /\ Restart("READOUT")
        /\ UNCHANGED ft
  /\ UNCHANGED <<row_down, down_pixel, pixel_step, pm_step, readout_rows,
                 row_pixels>>

\* The end of a readout clears frame_downs, and leaves readout_rows at its limit.
Readout ==
  /\ In("READOUT")
  /\ \/ /\ readout_rows < NRow
        /\ Call("ROW")
        /\ readout_rows' = readout_rows + 1
        /\ UNCHANGED frame_downs
     \/ /\ readout_rows >= NRow
        /\ frame_downs' = 0
        /\ Restart("FRAME")
        /\ UNCHANGED readout_rows
  /\ UNCHANGED <<state, ft, row_down, down_pixel, pixel_step, pm_step,
                 row_pixels>>

\* Mutant of Row: its down keeps the frame-transfer parameter of the frame.
Row_keepsFt ==
  /\ In("ROW")
  /\ \/ /\ row_down = 0
        /\ Call("DOWN") /\ row_down' = 1
        /\ UNCHANGED row_pixels
     \/ /\ row_down = 1 /\ row_pixels < NPixel
        /\ Call("PIXEL") /\ row_pixels' = row_pixels + 1
        /\ UNCHANGED row_down
     \/ /\ row_down = 1 /\ row_pixels >= NPixel
        /\ row_pixels' = 0 /\ row_down' = 0 /\ Return
  /\ UNCHANGED <<state, ft, down_pixel, pixel_step, pm_step, frame_downs,
                 readout_rows>>

Row ==
  /\ In("ROW")
  /\ \/ /\ row_down = 0
        /\ ft' = 0
        /\ Call("DOWN")
        /\ row_down' = 1
        /\ UNCHANGED row_pixels
     \/ /\ row_down = 1 /\ row_pixels < NPixel
        /\ Call("PIXEL")
        /\ row_pixels' = row_pixels + 1
        /\ UNCHANGED <<ft, row_down>>
     \/ /\ row_down = 1 /\ row_pixels >= NPixel
        /\ row_pixels' = 0
        /\ row_down' = 0
        /\ Return
        /\ UNCHANGED ft
  /\ UNCHANGED <<state, down_pixel, pixel_step, pm_step, frame_downs,
                 readout_rows>>

Down ==
  /\ In("DOWN")
  /\ \/ /\ down_pixel = 0
        /\ Drive({"P1VI", "P1VS"}, {"P2VI", "P2VS", "TG"})
        /\ Call("PIXEL_MAYBE")
        /\ down_pixel' = 1
     \/ /\ down_pixel = 1
        /\ Drive({"P2VI", "P2VS", "TG"}, {"P1VI", "P1VS"})
        /\ Call("PIXEL_MAYBE")
        /\ down_pixel' = 2
     \/ /\ down_pixel = 2
        /\ Return
        /\ down_pixel' = 0
        /\ UNCHANGED state
  /\ UNCHANGED <<ft, row_down, pixel_step, pm_step, frame_downs, readout_rows,
                 row_pixels>>

\* Mutant of PixelMaybe: the wait is not cleared when the mode returns.
PixelMaybe_keepsStep ==
  /\ In("PIXEL_MAYBE")
  /\ \/ pm_step # 7 /\ ft = 1 /\ Call("PIXEL") /\ pm_step' = 7
     \/ pm_step # 7 /\ ft = 0 /\ pm_step' = pm_step + 1 /\ UNCHANGED <<idx, stack>>
     \/ pm_step = 7 /\ Return /\ UNCHANGED pm_step
  /\ UNCHANGED <<state, ft, row_down, down_pixel, pixel_step, frame_downs,
                 readout_rows, row_pixels>>

\* Mutant of PixelMaybe: the return point is not recorded before the call.
PixelMaybe_forgetsCall ==
  /\ In("PIXEL_MAYBE")
  /\ \/ pm_step # 7 /\ ft = 1 /\ Call("PIXEL") /\ UNCHANGED pm_step
     \/ pm_step # 7 /\ ft = 0 /\ pm_step' = pm_step + 1 /\ UNCHANGED <<idx, stack>>
     \/ pm_step = 7 /\ Return /\ pm_step' = 0
  /\ UNCHANGED <<state, ft, row_down, down_pixel, pixel_step, frame_downs,
                 readout_rows, row_pixels>>

PixelMaybe ==
  /\ In("PIXEL_MAYBE")
  /\ \/ /\ pm_step # 7 /\ ft = 1
        /\ Call("PIXEL")
        /\ pm_step' = 7
     \/ /\ pm_step # 7 /\ ft = 0
        /\ pm_step' = pm_step + 1
        /\ UNCHANGED <<idx, stack>>
     \/ /\ pm_step = 7
        /\ Return
        /\ pm_step' = 0
  /\ UNCHANGED <<state, ft, row_down, down_pixel, pixel_step, frame_downs,
                 readout_rows, row_pixels>>

\* Mutant of Pixel: the last period does not rewind the pixel.
Pixel_noRewind ==
  /\ In("PIXEL")
  /\ \/ pixel_step = 0 /\ Drive(HorizontalFirst, HorizontalSecond)
          /\ pixel_step' = 1 /\ UNCHANGED <<idx, stack>>
     \/ pixel_step = 5 /\ Drive(HorizontalSecond, HorizontalFirst)
          /\ pixel_step' = 6 /\ UNCHANGED <<idx, stack>>
     \/ pixel_step \in {1, 2, 3, 4, 6} /\ pixel_step' = pixel_step + 1
          /\ UNCHANGED <<state, idx, stack>>
     \/ pixel_step = 7 /\ Return /\ UNCHANGED <<state, pixel_step>>
  /\ UNCHANGED <<ft, row_down, down_pixel, pm_step, frame_downs, readout_rows,
                 row_pixels>>

Pixel ==
  /\ In("PIXEL")
  /\ \/ /\ pixel_step = 0
        /\ Drive(HorizontalFirst, HorizontalSecond)
        /\ pixel_step' = pixel_step + 1
        /\ UNCHANGED <<idx, stack>>
     \/ /\ pixel_step = 5
        /\ Drive(HorizontalSecond, HorizontalFirst)
        /\ pixel_step' = pixel_step + 1
        /\ UNCHANGED <<idx, stack>>
     \/ /\ pixel_step \in {1, 2, 3, 4, 6}
        /\ pixel_step' = pixel_step + 1
        /\ UNCHANGED <<state, idx, stack>>
     \/ /\ pixel_step = 7
        /\ pixel_step' = 0
        /\ Return
        /\ UNCHANGED state
  /\ UNCHANGED <<ft, row_down, down_pixel, pm_step, frame_downs, readout_rows,
                 row_pixels>>

Next == Frame \/ Readout \/ Row \/ Down \/ PixelMaybe \/ Pixel

\* sclocker toggles iSCLK for ever, so an edge always comes.
Spec == Init /\ [][Next]_vars /\ WF_vars(Next)
-----------------------------------------------------------------------------
OnStack(m) == \E i \in 0..idx : stack[i] = m

TypeOK ==
  /\ state \subseteq Signal
  /\ stack \in [0..(STACK_SIZE - 1) -> Mode] /\ idx \in 0..(STACK_SIZE - 1)
  /\ ft \in {0, 1} /\ row_down \in {0, 1}
  /\ down_pixel \in 0..2 /\ pixel_step \in 0..7 /\ pm_step \in 0..7
  /\ frame_downs \in 0..NDown /\ readout_rows \in 0..NRow
  /\ row_pixels \in 0..NPixel

(***************************************************************************)
(* The active part of the stack is a chain of calls that test/clocksim.c   *)
(* makes.  PIXEL under PIXEL_MAYBE is the fifth level when the down belongs *)
(* to a row: only ft, cleared by the row, keeps the stack of four from     *)
(* overflowing.                                                            *)
(***************************************************************************)
CallChain ==
  \/ idx = 0 /\ stack[0] = "FRAME"
  \/ idx = 0 /\ stack[0] = "READOUT"
  \/ idx = 1 /\ stack[0] = "READOUT" /\ stack[1] = "ROW"
  \/ /\ idx \in 1..3 /\ stack[0] = "FRAME" /\ ft = 1
     /\ stack[1] = "DOWN"
     /\ idx >= 2 => stack[2] = "PIXEL_MAYBE"
     /\ idx >= 3 => stack[3] = "PIXEL"
  \/ /\ idx \in 2..3 /\ stack[0] = "READOUT" /\ stack[1] = "ROW" /\ ft = 0
     /\ stack[2] = "DOWN"
     /\ idx >= 3 => stack[3] = "PIXEL_MAYBE"
  \/ /\ idx = 2 /\ stack[0] = "READOUT" /\ stack[1] = "ROW"
     /\ stack[2] = "PIXEL"

(***************************************************************************)
(* A step counter is nonzero only while the call that counts with it is on *)
(* the stack.  The counters are shared by all calls of a mode, so one left *)
(* over would make the next call skip part of its waveform.                *)
(***************************************************************************)
CountersBelongToCalls ==
  /\ pixel_step # 0 => In("PIXEL")
  /\ pm_step # 0 => OnStack("PIXEL_MAYBE")
  /\ down_pixel # 0 => OnStack("DOWN")
  /\ OnStack("PIXEL_MAYBE") => down_pixel # 0
  /\ row_pixels # 0 => OnStack("ROW") /\ row_down = 1
  /\ row_down = 1 => OnStack("ROW")
  /\ frame_downs # 0 => stack[0] = "FRAME"

(***************************************************************************)
(* The machine alternates between frame transfer and readout for ever: no  *)
(* call fails to return and no loop counter stops the outer loop.          *)
(***************************************************************************)
KeepsScanning ==
  /\ stack[0] = "FRAME" ~> stack[0] = "READOUT"
  /\ stack[0] = "READOUT" ~> stack[0] = "FRAME"

\* SCLK periods left to the calls on the stack: a PIXEL takes eight and the
\* period that calls it, a PIXEL_MAYBE ten or eight, a DOWN both of its own.
PixelLeft == IF In("PIXEL") THEN 8 - pixel_step ELSE 0

PixelMaybeLeft == IF ~OnStack("PIXEL_MAYBE") THEN 0
                  ELSE IF pm_step = 7 THEN 1
                  ELSE IF ft = 1 THEN 10 ELSE 8 - pm_step

DownLeft == IF ~OnStack("DOWN") THEN 0
            ELSE 3 - down_pixel + (2 - down_pixel) * (IF ft = 1 THEN 10 ELSE 8)

RowLeft == IF ~OnStack("ROW") THEN 0
           ELSE IF row_down = 0 THEN 21 + NPixel * 9
           ELSE (NPixel - row_pixels) * 9 + 1

\* test/clocksim.c counts in calls of step(): nine for a pixel and for the
\* wait that pixel_maybe puts in its place.
StepsPixel == 9
StepsDown == 2 * StepsPixel
StepsRow == StepsDown + NPixel * StepsPixel

\* Calls and returns take periods of their own, which steps do not have: two
\* for a DOWN and four inside it when each PIXEL_MAYBE calls a PIXEL, two for
\* a ROW and two for its DOWN.  A PIXEL has its call inside the nine.
CallsDown == 6
CallsRow == 4

PhaseLeft == IF stack[0] = "FRAME" THEN (NDown - frame_downs) * (StepsDown + CallsDown) + 1
             ELSE (NRow - readout_rows) * (StepsRow + CallsRow) + 1

Left == PixelLeft + PixelMaybeLeft + DownLeft + RowLeft + PhaseLeft

(***************************************************************************)
(* How long a phase lasts is fixed when it begins: every period is one     *)
(* less, whatever call it belongs to, and the phase changes with the last  *)
(* one (clocksim.vhdl:96-213).  The lengths are those of the code and not  *)
(* of test/clocksim.c, from which they differ twice.  In the program a     *)
(* down of a frame is 18 steps and a row 18 and nine for each pixel; here  *)
(* it is six and four periods more.  And a step() of the program sends the *)
(* eight bits of one state, eight periods of SCLK, where the process goes  *)
(* on at every period: a down is 24 periods of SCLK and not 144, and the   *)
(* eight bits sent one after the other are of different states.            *)
(***************************************************************************)
PhaseCountsDown ==
  [][/\ Left >= 1
     /\ IF stack'[0] = stack[0] THEN Left' = Left - 1 ELSE Left = 1 /\ Left' = PhaseLeft']_vars

(***************************************************************************)
(* test/clocksim.c:112 "for( i = 0; i < 1280; i +=1 ) row();": every       *)
(* readout() shifts rows out.  The code disagrees: readout_rows is never   *)
(* cleared, so a readout after the first one returns without a row.        *)
(***************************************************************************)
EveryReadoutHasRows == stack[0] = "FRAME" ~> In("ROW")
=============================================================================
