-------------------------------- MODULE Race --------------------------------
(***************************************************************************)
(* aiLogic.sv, second half: where the opponent is in the race (AIDistance) *)
(* and where its car is drawn (AIY).  The two are kept in registers of     *)
(* different widths that are updated from different speeds.                *)
(***************************************************************************)
EXTENDS HardwareWidths

CONSTANT DistanceSpan       \* distances count modulo this (2^16 in the code)

Car_Y_Init_Dist == 180      \* the opponent's head start, in lines
Car_Y_Max == 479
Car_YSize == 67

VARIABLES
    PlayerY, PlayerDistance, PlayerSpeed, GroundSpeed,
    AISpeed,
    AIDistance,     \* how far the opponent has driven, plus its head start
    AIY             \* line on which its car is drawn: Car_Y_Pos of aiLogic

race == <<AIDistance, AIY>>

-----------------------------------------------------------------------------

\* Slips that the definitions of the same names below could contain.
BugResetRace ==         \* the line is loaded from the PlayerY of before the reset
    /\ AIDistance' = Car_Y_Init_Dist
    /\ AIY' = U10(PlayerY - Car_Y_Init_Dist)

\* The lead of the opponent, unsigned: a player in front of it has a very
\* large one.
TarDistance == (AIDistance - PlayerDistance) % DistanceSpan

\* Is the top line of the opponent on the screen?  The code's other test, for
\* a car above the screen, compares an unsigned value with zero and is never
\* true.
inFrame == (PlayerY - TarDistance) % DistanceSpan <= Car_Y_Max

\* A reset loads AIY from PlayerY for as long as the button is held, so it
\* follows the value that the reset gives to PlayerY.
ResetRace ==
    /\ AIDistance' = Car_Y_Init_Dist
    /\ AIY' = U10(PlayerY' - Car_Y_Init_Dist)

FrameRace ==
    /\ AIDistance' = (AIDistance + AISpeed) % DistanceSpan
    /\ AIY' = U10(AIY - U10(AISpeed - GroundSpeed))

=============================================================================
