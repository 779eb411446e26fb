----------------------------- MODULE VgaTiming -----------------------------
(***************************************************************************)
(* VGA_controller.sv: the raster of the screen.  Its vertical sync pulse   *)
(* is the clock of the whole game (frame_clk of color_mapper), and its     *)
(* reset is the game's own reset button, so what a reset does to the game  *)
(* depends on what it does to this clock.                                  *)
(***************************************************************************)
EXTENDS Integers

CONSTANTS
    hpixels, vlines,        \* last column and last line          (799, 524)
    HVisible, VVisible,     \* first ones beyond the picture      (640, 480)
    HSyncFirst, HSyncEnd,   \* columns of the horizontal pulse    (656, 752)
    VSyncFirst              \* and where the vertical one starts  (490)

ASSUME RasterAssumption ==
    /\ {hpixels, vlines, HVisible, VVisible} \subseteq Nat \ {0}
    /\ HSyncFirst \in Nat /\ HSyncEnd \in Nat /\ VSyncFirst \in Nat
    /\ HVisible <= HSyncFirst /\ HSyncFirst < HSyncEnd /\ HSyncEnd <= hpixels
    /\ VVisible < VSyncFirst /\ VSyncFirst < vlines

VARIABLES
    Reset_h,        \* the button is held
    clkdiv,         \* pixel clock: half of Clk
    hc, vc,         \* column and line of the pixel
    hs, vs          \* sync pulses, active low

raster == <<clkdiv, hc, vc, hs, vs>>
vars == <<Reset_h, raster>>

TypeOK ==
    /\ Reset_h \in BOOLEAN /\ clkdiv \in BOOLEAN
    /\ hs \in BOOLEAN /\ vs \in BOOLEAN
    /\ hc \in 0 .. hpixels /\ vc \in 0 .. vlines

-----------------------------------------------------------------------------

\* Slips that the definitions of the same names below could contain.
BugNextLine ==              \* the line counter is never incremented
    0

BugNextLineEnd ==           \* tested one line too late
    IF vc > vlines THEN 0 ELSE vc + 1

BugNextHs ==                \* "or" for "and"
    ~(hc + 1 >= HSyncFirst \/ hc + 1 < HSyncEnd)

BugResetRaster ==           \* the sync pulses are reset to inactive
    /\ clkdiv' = FALSE
    /\ hc' = 0 /\ vc' = 0
    /\ hs' = TRUE /\ vs' = TRUE

NextLine == IF vc = vlines THEN 0 ELSE vc + 1

\* The pulses are registered and look at the pixel that is about to end.
NextHs == ~(hc + 1 >= HSyncFirst /\ hc + 1 < HSyncEnd)
NextVs == ~(vc + 1 = VSyncFirst \/ vc + 1 = VSyncFirst + 1)

\* Is the pixel part of the picture?  (display, blank)
display == hc < HVisible /\ vc < VVisible

\* While the button is held everything is zero, the pixel clock and the two
\* pulses included.
ResetRaster ==
    /\ clkdiv' = FALSE
    /\ hc' = 0 /\ vc' = 0
    /\ hs' = FALSE /\ vs' = FALSE

\* A rising edge of the pixel clock.
Pixel ==
    /\ hc' = IF hc = hpixels THEN 0 ELSE hc + 1
    /\ vc' = IF hc = hpixels THEN NextLine ELSE vc
    /\ hs' = NextHs
    /\ vs' = NextVs

-----------------------------------------------------------------------------

\* Power-up is like a reset.
Init ==
    /\ Reset_h = FALSE
    /\ clkdiv = FALSE
    /\ hc = 0 /\ vc = 0
    /\ hs = FALSE /\ vs = FALSE

Press ==
    /\ ~Reset_h
    /\ Reset_h' = TRUE
    /\ ResetRaster

Release ==
    /\ Reset_h
    /\ Reset_h' = FALSE
    /\ UNCHANGED raster

\* A rising edge of Clk; while the button is held it has no effect.
Clock ==
    /\ ~Reset_h
    /\ clkdiv' = ~clkdiv
    /\ IF clkdiv THEN UNCHANGED <<hc, vc, hs, vs>> ELSE Pixel
    /\ UNCHANGED Reset_h

Next == Press \/ Release \/ Clock

Spec == Init /\ [][Next]_vars

-----------------------------------------------------------------------------

\* A rising edge of frame_clk: one step of the game.
FrameEdge == ~vs /\ vs'

\* The game's clock never rises while the button is held, nor because of it.
\* Therefore the resets of color_mapper and plotObstacles that are written
\* "@ (posedge frame_clk) if (Reset)" have no effect: only the asynchronous
\* ones do.
ResetNeverSampled == [][FrameEdge => ~Reset_h /\ ~Reset_h']_vars

\* The pulses are outside the picture, except on the very first pixel after a
\* reset, which finds them still active.
SyncOutsidePicture ==
    ~hs \/ ~vs => ~display \/ (hc = 0 /\ vc = 0)

=============================================================================
