------------------------------ MODULE AiDriver ------------------------------
(***************************************************************************)
(* aiLogic.sv: the state machine that drives the opponent between the two  *)
(* lanes RL and RR of its carriageway, with the part of plotObstacles.sv   *)
(* that registers what its collision box touches.  Where the obstacles are *)
(* is left open: in each frame every lane may or may not have one ahead    *)
(* of, beside and behind the car.  The block's other two registers, AIY    *)
(* and AIDistance, are in module Race.                                     *)
(***************************************************************************)
EXTENDS HardwareWidths

Lane == {"RL", "RR"}
State == {"Init", "Straight", "Slow", "Left", "Right"}

Car_X_Init == 336
Car_X_Min == 325
Car_X_Max == 495
Car_XSize == 47
AI_CarSpeed == 5            \* Default_CarSpeed of aiLogic
AICollideBoxH == 15         \* the box is this much wider than the car

VARIABLES
    GameStart,      \* a key has been pressed since the last reset
    CurState,       \* the state machine
    AIX,            \* left side of the car
    AIXMotion,      \* added to AIX by the next frame
    AISpeed,        \* CarSpeed
    AICollide       \* ahead, behind, left, right: bits 0 to 3 of AICollide

driver == <<CurState, AIX, AIXMotion, AISpeed>>
vars == <<GameStart, driver, AICollide>>

Sensor == [ahead : BOOLEAN, behind : BOOLEAN, left : BOOLEAN, right : BOOLEAN]

TypeOK ==
    /\ GameStart \in BOOLEAN
    /\ CurState \in State
    /\ AIX \in Reg10
    /\ AIXMotion \in {0, 2, U10(-2)}
    /\ AISpeed \in {0, 2, 3, 5}
    /\ AICollide \in Sensor

-----------------------------------------------------------------------------

\* Slips that the definitions of the same names below could contain.
BugNextState ==                     \* a lane change ends in any column
    CASE CurState = "Init" -> IF GameStart THEN "Straight" ELSE "Init"
      [] CurState = "Straight" -> IF AICollide.ahead THEN "Slow"
                                                     ELSE "Straight"
      [] CurState = "Slow" -> IF AIX > 405 THEN "Left" ELSE "Right"
      [] CurState = "Left" -> IF AICollide.right THEN "Left" ELSE "Straight"
      [] CurState = "Right" -> IF AICollide.left THEN "Right" ELSE "Straight"

BugSpeedNotRestored ==              \* Straight keeps the speed it finds
    CASE CurState = "Init" -> AI_CarSpeed - 2
      [] CurState = "Slow" -> U10(AISpeed - 2)
      [] OTHER -> AISpeed

BugMotionBlind ==                   \* the left sensor does not stop the car
    CASE CurState = "Left" -> U10(-2)
      [] CurState = "Right" /\ ~AICollide.right -> 2
      [] OTHER -> 0

\* The car is in lane RR, or right enough in it, when it is past x = 405, and
\* in lane RL when its right side is left of x = 395.  Literals of the code
\* are 32 bits wide: AIX + Car_XSize does not wrap here.
AI_LSec == IF AIX > 405 THEN "RR" ELSE "RL"
AI_RSec == IF AIX + Car_XSize < 395 THEN "RL" ELSE "RR"

\* The lane that holds the pixel column x.
LaneAt(x) == IF x < 405 THEN "RL" ELSE "RR"

\* The combinational next state.
NextState ==
    CASE CurState = "Init" -> IF GameStart THEN "Straight" ELSE "Init"
      [] CurState = "Straight" -> IF AICollide.ahead THEN "Slow"
                                                     ELSE "Straight"
      [] CurState = "Slow" -> IF AI_LSec = "RR" THEN "Left"
                              ELSE IF AI_RSec = "RL" THEN "Right"
                              ELSE "Slow"
      [] CurState = "Left" -> IF AI_RSec = "RL" /\ ~AICollide.right
                              THEN "Straight" ELSE "Left"
      [] CurState = "Right" -> IF AI_LSec = "RR" /\ ~AICollide.left
                               THEN "Straight" ELSE "Right"

NextAISpeed ==
    CASE CurState = "Init" -> AI_CarSpeed - 2
      [] CurState = "Straight" -> AI_CarSpeed
      [] CurState = "Slow" -> U10(AISpeed - 2)
      [] CurState = "Left" -> IF AICollide.left /\ AICollide.ahead
                              THEN AI_CarSpeed - 3 ELSE AISpeed
      [] CurState = "Right" -> AISpeed

NextAIXMotion ==
    CASE CurState = "Left" /\ ~AICollide.left -> U10(-2)
      [] CurState = "Right" /\ ~AICollide.right -> 2
      [] OTHER -> 0

\* The box reaches into one lane or into both: ahead and behind it is as wide
\* as the car, at its sides AICollideBoxH wider.  The arguments say in which
\* lanes there is an obstacle ahead of, behind and beside the box.
Touched(ahead, behind, beside) ==
    [ ahead |-> LaneAt(AIX) \in ahead \/ LaneAt(U10(AIX + Car_XSize)) \in ahead,
      behind |-> LaneAt(AIX) \in behind
                 \/ LaneAt(U10(AIX + Car_XSize)) \in behind,
      left |-> LaneAt(U10(AIX - AICollideBoxH)) \in beside,
      right |-> LaneAt(U10(AIX + Car_XSize + AICollideBoxH)) \in beside ]

-----------------------------------------------------------------------------

\* Reset covers the state and the position, but neither AISpeed and AIXMotion
\* nor AICollide, whose blocks have no reset.
ResetDriver ==
    /\ CurState' = "Init"
    /\ AIX' = Car_X_Init
    /\ UNCHANGED <<AIXMotion, AISpeed>>

\* One frame; every register reads what the others held before the edge.
FrameDriver ==
    /\ CurState' = NextState
    /\ AIX' = U10(AIX + AIXMotion)
    /\ AISpeed' = NextAISpeed
    /\ AIXMotion' = NextAIXMotion

\* Registers without a reset power up with zero.
InitDriver ==
    /\ CurState = "Init"
    /\ AIX = Car_X_Init
    /\ AIXMotion = 0 /\ AISpeed = 0

Init ==
    /\ GameStart = FALSE
    /\ InitDriver
    /\ AICollide = [ahead |-> FALSE, behind |-> FALSE,
                    left |-> FALSE, right |-> FALSE]

Reset ==
    /\ ResetDriver
    /\ GameStart' = FALSE
    /\ UNCHANGED AICollide

Frame(ahead, behind, beside) ==
    /\ FrameDriver
    /\ AICollide' = Touched(ahead, behind, beside)
    /\ \/ UNCHANGED GameStart
       \/ GameStart' = TRUE         \* a key is pressed

AnyFrame ==
    \E ahead, behind, beside \in SUBSET Lane : Frame(ahead, behind, beside)

Next == Reset \/ AnyFrame

Spec == Init /\ [][Next]_vars

\* Frames never stop, whatever the player and the road do.
FairSpec == Spec /\ WF_vars(AnyFrame)

-----------------------------------------------------------------------------

\* aiLogic declares a leftmost and a rightmost point of the car and then tests
\* neither: nothing but its lane changes holds the car back.  Yet wherever the
\* obstacles are, and however they move, it stays between those two points.
OnCarriageway == Car_X_Min <= AIX /\ AIX + Car_XSize <= Car_X_Max

\* The driver only brakes for an obstacle while it is well inside one lane, so
\* that Slow has a lane to change to; and always from full speed, so that the
\* unsigned AISpeed - 2 cannot wrap.
BrakesInLane ==
    CurState \in {"Straight", "Slow"} =>
        /\ AI_LSec = "RR" \/ AI_RSec = "RL"
        /\ CurState = "Slow" => AISpeed = AI_CarSpeed

\* Slow lasts one frame and hands over to the lane change away from the lane
\* that is blocked; a lane change ends in the other lane.
LaneChange ==
    [][ /\ CurState = "Slow" /\ ~Reset
           => CurState' = IF AIX > 405 THEN "Left" ELSE "Right"
        /\ CurState = "Left" /\ CurState' = "Straight" => AI_RSec' = "RL"
        /\ CurState = "Right" /\ CurState' = "Straight" => AI_LSec' = "RR" ]_vars

\* Once the road ahead of and beside the driver stays free, every lane change
\* it has begun comes to an end and it drives straight at full speed.
Recovers ==
    (/\ <>[](GameStart /\ ~AICollide.ahead /\ ~AICollide.left
                       /\ ~AICollide.right))
        => <>[](CurState = "Straight" /\ AIXMotion = 0
                                      /\ AISpeed = AI_CarSpeed)

=============================================================================
