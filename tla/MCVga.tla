------------------------------- MODULE MCVga -------------------------------
(***************************************************************************)
(* VgaTiming with the pixels counted since the last frame of the game.     *)
(***************************************************************************)
EXTENDS VgaTiming

VARIABLES
    fresh,      \* no pixel has ended since the power-up or the last reset
    frames,     \* frames since then: 0, 1, or 2 for more
    pixels      \* pixels that have ended since the last of these frames

history == <<fresh, frames, pixels>>

Period == (hpixels + 1) * (vlines + 1)

MCInit == Init /\ fresh = TRUE /\ frames = 0 /\ pixels = 0

MCPress == Press /\ fresh' = TRUE /\ frames' = 0 /\ pixels' = 0

MCRelease == Release /\ UNCHANGED history

MCClock ==
    /\ Clock
    /\ fresh' = (fresh /\ clkdiv)
    /\ frames' = IF FrameEdge /\ frames < 2 THEN frames + 1 ELSE frames
    /\ pixels' = IF FrameEdge THEN 0
                 ELSE IF clkdiv \/ pixels > Period THEN pixels
                 ELSE pixels + 1

MCNext == MCPress \/ MCRelease \/ MCClock

MCSpec == MCInit /\ [][MCNext]_<<vars, history>>

\* The game gets one frame after another, however often the button is pressed:
\* no more than a picture's pixels pass without one.  From the second frame on
\* all are equally long; the first comes with the first pixel, the second early.
EvenFrames ==
    [][ /\ pixels' < Period
        /\ FrameEdge =>
              \/ frames = 0 /\ fresh
              \/ frames = 1 /\ pixels < Period
              \/ frames = 2 /\ pixels + 1 = Period ]_<<vars, history>>

=============================================================================
