-------------------------------- MODULE Game --------------------------------
(***************************************************************************)
(* The whole game, as Color_Mapper.sv connects it: the player's car, the   *)
(* opponent, the obstacles, the race between the two and the verdict.  All *)
(* of them step together, on the frame clock, and each reads the values    *)
(* that the others held before the edge.                                   *)
(***************************************************************************)
EXTENDS HardwareWidths

CONSTANTS
    Keys0, Keys1,       \* the codes the firmware may put in each key register
    PowerUpAIY          \* the opponent's line before the first reset

\* Any value of a register of ten bits.
ASSUME PowerUpAssumption == PowerUpAIY \subseteq 0 .. 1023

\* No key is down at first.
ASSUME KeyAssumption == Keys0 \subseteq Nat /\ Keys1 \subseteq Nat /\ 0 \in Keys0 \cap Keys1

DistanceSpan == 65536

VARIABLES
    keycode_0, keycode_1,
    PlayerX, PlayerY, PlayerXMotion, PlayerSpeed, GroundSpeed, PlayerDistance,
    CurState, AIX, AIXMotion, AISpeed, AIDistance, AIY,
    laneDistance, PlayerCollide, AICollide,
    Distance,                       \* how far the road has scrolled
    GameStart, GameWin, GameLose, slowClk, slow_counter, Scale,
    beenReset                       \* the reset button has been pressed

keys == <<keycode_0, keycode_1>>
player == <<PlayerX, PlayerY, PlayerXMotion, PlayerSpeed, GroundSpeed,
            PlayerDistance>>
opponent == <<CurState, AIX, AIXMotion, AISpeed, AIDistance, AIY>>
road == <<laneDistance, PlayerCollide, AICollide, Distance>>
status == <<GameStart, GameWin, GameLose, slowClk, slow_counter, Scale>>
vars == <<keys, player, opponent, road, status, beenReset>>

Player == INSTANCE PlayerLogic WITH
    Car_X_Init <- 336, Car_X_Min <- 145, Car_X_Max <- 495, Car_XSize <- 47,
    Car_Y_Init <- 315, Car_Y_Min <- 0, Car_Y_Max <- 479, Car_YSize <- 67

Driver == INSTANCE AiDriver

RaceOf == INSTANCE Race

Road == INSTANCE Obstacles

Picture == INSTANCE Pixels WITH
    SheetWidth <- 404, TileWidth <- 51, TileHeight <- 67, Words <- 16384,
    inFrame <- RaceOf!inFrame

Status == INSTANCE GameStatus WITH
    SlowLast <- 15, ScaleMax <- 7, WinGap <- 65, LoseGap <- 32767,
    StartGap <- 180, GapSpan <- DistanceSpan, GapStep <- 5,
    TarDistance <- RaceOf!TarDistance,
    Collisions <- SUBSET {"front", "left", "back", "right"}

-----------------------------------------------------------------------------

\* A slip that AITouches could contain: bits 1 and 3 are swapped.
BugAITouches ==
    LET t == Driver!Touched(Road!AIAhead, Road!AIBehind, Road!AIBeside)
    IN  [t EXCEPT !.behind = t.right, !.right = t.behind]

\* What the opponent's collision box touches of the real obstacles.
AITouches == Driver!Touched(Road!AIAhead, Road!AIBehind, Road!AIBeside)

Init ==
    /\ keycode_0 = 0 /\ keycode_1 = 0
    /\ Player!InitPlayer
    /\ Driver!InitDriver
    /\ AIDistance = RaceOf!Car_Y_Init_Dist
    /\ AIY \in PowerUpAIY
    /\ Road!InitObstacles
    /\ Distance = 0
    /\ Status!InitStatus
    /\ beenReset = FALSE

\* A rising edge of frame_clk.
Frame ==
    /\ Player!FramePlayer
    /\ Driver!FrameDriver
    /\ RaceOf!FrameRace
    /\ Road!FrameObstacles(AITouches)
    /\ Distance' = U11(Distance + GroundSpeed)
    /\ Status!FrameStatus
    /\ UNCHANGED <<keys, beenReset>>

\* The reset button.  What has no asynchronous reset keeps its value: the road
\* and its obstacles, the collision registers, the opponent's speed and motion.
Reset ==
    /\ Player!ResetPlayer
    /\ Driver!ResetDriver
    /\ RaceOf!ResetRace
    /\ Status!ResetStatus
    /\ beenReset' = TRUE
    /\ UNCHANGED <<keys, road>>

\* The firmware writes a key code between two frames.
SetKey ==
    /\ Player!SetKeycode0 \/ Player!SetKeycode1
    /\ UNCHANGED <<player, opponent, road, status, beenReset>>

Next == Frame \/ Reset \/ SetKey

Spec == Init /\ [][Next]_vars

-----------------------------------------------------------------------------

TypeOK ==
    /\ Player!TypeOK /\ Driver!TypeOK /\ Status!TypeOK
    /\ AIDistance \in 0 .. DistanceSpan - 1 /\ AIY \in Reg10
    /\ laneDistance \in [Road!Lanes -> Reg11] /\ Distance \in Reg11
    /\ beenReset \in BOOLEAN

\* The opponent is drawn where it is in the race.  Its line follows the speeds
\* of the opponent and of the road, the lead follows the distances of the two
\* cars, the player's line follows his speed and the road's: three updates in
\* three modules that must agree.  (Before the first reset they do not: the
\* register that is loaded from PlayerY powers up with any value.)
DrawnAtLead == beenReset => AIY = U10(PlayerY - RaceOf!TarDistance)

\* Lanes move apart only by the speeds of their cars: the difference between
\* the two lanes of each direction is the same (one line per frame), and a
\* pair of opposite lanes together has moved twice as far as the road.
LanesTogether ==
    LET n == U11(laneDistance.LR - laneDistance.LL)
    IN  /\ n = U11(laneDistance.RR - laneDistance.RL)
        /\ U11(laneDistance.LL + laneDistance.RR) = U11(2 * Distance)
        /\ U11(laneDistance.LR + laneDistance.RL) = U11(2 * Distance)

\* No other car slips through the player's: where one is seen on a pixel of
\* his car, the collision registers hear of it.  The picture and the collisions
\* are computed apart, from different borders of the lanes, and of the player's
\* car only the corners are compared with the lanes.  Two exceptions are the
\* code's: the nine outer columns on either side feel nothing at the sides of
\* the car, and as the corners are one line further apart than a tile is long,
\* a car exactly on the lines in between is missed.  (What is left of a box is
\* no larger than the other box: they overlap where it has a corner in it.)
SeenIsFelt ==
    [][ Frame =>
          \A x \in {PlayerX + 9, PlayerX + Road!Car_XSize - 9},
             y \in {PlayerY + 1, PlayerY + Road!Car_YSize - 1} :
              Picture!InPlayerBox(x, y) /\ Picture!InObsBox(x, y) =>
                \/ PlayerCollide' # {}
                \/ U11(PlayerY + 1 - laneDistance[Picture!LaneDrawn(x)]) % 64 = 0
      ]_vars

\* Every car is drawn with its own sprite.
OwnSprite == Picture!OwnSprite

\* The collision registers are what the obstacles of the road make of the
\* driver's environment: every step of the game is one of Driver's.
DriverImplemented == Driver!Spec

\* The same for the verdict: the race changes the lead by at most five lines
\* per frame, so every step of the game is one that GameStatus expects.
StatusImplemented == Status!Spec

=============================================================================
