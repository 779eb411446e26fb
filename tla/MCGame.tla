------------------------------- MODULE MCGame -------------------------------
(***************************************************************************)
(* Scenarios of the game with the real numbers of the program.  The driver *)
(* changes a key at most KeyChanges times, and only in every ReactionTime- *)
(* th frame; the reset button is pressed at most Resets times at the same  *)
(* moments; a scenario lasts MaxFrames frames.                             *)
(***************************************************************************)
EXTENDS Game

CONSTANTS KeyChanges, ReactionTime, Resets, MaxFrames

VARIABLES frames, changed, resets

counters == <<frames, changed, resets>>

Reaction == frames % ReactionTime = 0

MCInit == Init /\ frames = 0 /\ changed = 0 /\ resets = 0

MCFrame ==
    /\ frames < MaxFrames
    /\ Frame
    /\ frames' = frames + 1
    /\ UNCHANGED <<changed, resets>>

MCReset ==
    /\ Reaction /\ resets < Resets
    /\ Reset
    /\ resets' = resets + 1
    /\ UNCHANGED <<frames, changed>>

MCSetKey ==
    /\ Reaction /\ changed < KeyChanges
    /\ SetKey
    /\ changed' = changed + 1
    /\ UNCHANGED <<frames, resets>>

MCNext == MCFrame \/ MCReset \/ MCSetKey

MCSpec == MCInit /\ [][MCNext]_<<vars, counters>>

SteeringKeys == {0, 4, 7}
SpeedKeys == {0, 26, 22}
PowerUp == {0, 1000}

=============================================================================
