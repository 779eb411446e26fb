----------------------------- MODULE Obstacles ------------------------------
(***************************************************************************)
(* plotObstacles.sv: four lanes of other cars.  A lane is a track of 32    *)
(* tiles of 64 lines each, seen through a window that scrolls; its cars    *)
(* stand on some of the tiles.  The module also registers, once per frame, *)
(* what the collision boxes of the player and of the opponent touch.       *)
(***************************************************************************)
EXTENDS HardwareWidths

\* Oncoming lanes LL, LR, then the lanes of the race RL, RR.
Lanes == {"LL", "LR", "RL", "RR"}

\* Bits of left_left, left_right, right_left and right_right.
Track == [ LL |-> {11, 13, 29},
           LR |-> {9, 15, 21, 25, 29},
           RL |-> {3, 9, 15, 23, 29},
           RR |-> {7, 19, 25, 31} ]

\* A slip: the size that playerLogic and aiLogic have.
BugCar_YSize == 67

Car_YSize == 65             \* two lines less than in playerLogic and aiLogic
Car_XSize == 47
AICollideBoxV == 20
PlayerCollideBox == 3

VARIABLES
    GroundSpeed,                \* of the road under the player's car
    PlayerX, PlayerY,           \* top left corners of the two cars
    AIX, AIY,
    laneDistance,               \* LL_Distance, LR_Distance, RL_ and RR_
    PlayerCollide,              \* sides of the player's box on an obstacle
    AICollide                   \* the same for the opponent, bits 0 to 3

-----------------------------------------------------------------------------

\* A slip that Scrolled could contain: all four distances grow.
BugScrolled ==
    [ LL |-> U11(laneDistance.LL + 2 + GroundSpeed),
      LR |-> U11(laneDistance.LR + 3 + GroundSpeed),
      RL |-> U11(laneDistance.RL + 3 - GroundSpeed),
      RR |-> U11(laneDistance.RR + 2 - GroundSpeed) ]

\* Oncoming cars drive against the road, the others along with it.
RelativeSpeed == [ LL |-> 2 + GroundSpeed,
                   LR |-> 3 + GroundSpeed,
                   RL |-> U11(3 - GroundSpeed),
                   RR |-> U11(2 - GroundSpeed) ]

Scrolled ==
    [ LL |-> U11(laneDistance.LL + RelativeSpeed.LL),
      LR |-> U11(laneDistance.LR + RelativeSpeed.LR),
      RL |-> U11(laneDistance.RL - RelativeSpeed.RL),
      RR |-> U11(laneDistance.RR - RelativeSpeed.RR) ]

\* Is there a car of this lane on line y of the screen?
Occupied(lane, y) == U11(y - laneDistance[lane]) \div 64 \in Track[lane]

LaneAt(x) ==
    CASE x < 235 -> "LL"
      [] x \in 235 .. 314 -> "LR"
      [] x \in 315 .. 404 -> "RL"
      [] OTHER -> "RR"

\* Where the left and the right side of the player's box are: nine columns
\* inside the car.
LeftLane == LaneAt(U10(PlayerX - PlayerCollideBox + 12))
RightLane == LaneAt(U10(PlayerX + Car_XSize + PlayerCollideBox - 12))

\* Corners of the player's box; front and back are three lines outside the car.
PlayerTouches ==
    LET vl == LaneAt(PlayerX)
        vr == LaneAt(U10(PlayerX + Car_XSize))
        hl == LeftLane
        hr == RightLane
        top == U10(PlayerY - PlayerCollideBox)
        bottom == U10(PlayerY + Car_YSize + PlayerCollideBox)
        end == U10(PlayerY + Car_YSize)
        Hit(side) ==
            CASE side = "front" -> Occupied(vl, top) \/ Occupied(vr, top)
              [] side = "back" -> Occupied(vl, bottom) \/ Occupied(vr, bottom)
              [] side = "left" -> Occupied(hl, PlayerY) \/ Occupied(hl, end)
              [] side = "right" -> Occupied(hr, PlayerY) \/ Occupied(hr, end)
    IN  {side \in {"front", "left", "back", "right"} : Hit(side)}

\* The lanes of the race with a car ahead of, behind and beside the opponent.
AIAhead == {l \in {"RL", "RR"} : Occupied(l, U10(AIY - AICollideBoxV))}
AIBehind ==
    {l \in {"RL", "RR"} : Occupied(l, U10(AIY + Car_YSize + AICollideBoxV))}
AIBeside ==
    {l \in {"RL", "RR"} : Occupied(l, AIY) \/ Occupied(l, U10(AIY + Car_YSize))}

\* One frame.  touched is what the opponent's box touches of these lanes; the
\* blocks of this module have no asynchronous reset, and their synchronous one
\* is never seen (module VgaTiming).
FrameObstacles(touched) ==
    /\ laneDistance' = Scrolled
    /\ PlayerCollide' = PlayerTouches
    /\ AICollide' = touched

InitObstacles ==
    /\ laneDistance = [l \in Lanes |-> 0]
    /\ PlayerCollide = {}
    /\ AICollide = [ahead |-> FALSE, behind |-> FALSE,
                    left |-> FALSE, right |-> FALSE]

=============================================================================
