------------------------------- MODULE Pixels -------------------------------
(***************************************************************************)
(* Which cars a pixel shows: plotPlayer.sv, plotAI.sv and the first half   *)
(* of plotObstacles.sv find the cars whose boxes hold the pixel; their     *)
(* colours come from one sheet of sprites (CarSpriteMatcher.sv,            *)
(* fetech_carram.sv), out of a memory that answers one pixel later.        *)
(***************************************************************************)
EXTENDS Obstacles

CONSTANTS
    SheetWidth,     \* pixels in a row of the sheet                   (404)
    TileWidth,      \* from one sprite to the next, and               (51)
    TileHeight,     \* from the sprites to the reversed ones          (67)
    Words           \* of four pixels each, in car_ram                (16384)

VARIABLE inFrame    \* is the opponent on the screen?

PlayerCar == 7
AICar == 1

OnScreen(x, y) == x \in 0 .. 639 /\ y \in 0 .. 479

-----------------------------------------------------------------------------

\* A slip that Within could contain.
BugWithin(p, first, size) == first <= p /\ p < U10(first + size)

\* The first line and the first column of a box are not drawn.
Within(p, first, size) == first < p /\ p < U10(first + size)

InPlayerBox(x, y) ==
    Within(x, PlayerX, Car_XSize) /\ Within(y, PlayerY, Car_YSize)

InAIBox(x, y) ==
    inFrame /\ Within(x, AIX, Car_XSize) /\ Within(y, AIY, Car_YSize)

\* The lane that a column is drawn in: not quite that of LaneAt.
LaneDrawn(x) ==
    CASE x < 245 -> "LL"
      [] x \in 245 .. 314 -> "LR"
      [] x \in 315 .. 404 -> "RL"
      [] OTHER -> "RR"

LaneLeft == [LL |-> 165, LR |-> 245, RL |-> 325, RR |-> 405]

\* Oncoming cars are drawn from the reversed sprites.
Reverse(lane) == IF lane \in {"LL", "LR"} THEN 1 ELSE 0

\* The tile decides what the car looks like; nobody else has the player's or
\* the opponent's car.
CarIdx(lane, y) ==
    LET car == (U11(y - laneDistance[lane]) \div 128) % 8
    IN  IF Reverse(lane) = 1 THEN car
        ELSE IF car = PlayerCar THEN 2 ELSE IF car = AICar THEN 0 ELSE car

ObsX(lane, y) == LaneLeft[lane] + 12 + CarIdx(lane, y)

InObsBox(x, y) ==
    LET lane == LaneDrawn(x)
    IN  Occupied(lane, y) /\ Within(x, ObsX(lane, y), Car_XSize)

\* Where in the sheet column tx and line ty of a sprite are looked up; both
\* are six bits wide.
CarSpriteX(car, tx) == car * TileWidth + (tx % 64)
CarSpriteY(row, ty) == row * TileHeight + (ty % 64)

PixelIdx(car, row, tx, ty) ==
    (CarSpriteX(car, tx) + CarSpriteY(row, ty) * SheetWidth) % 65536

PlayerRead(x, y) == PixelIdx(PlayerCar, 0, x - PlayerX, y - PlayerY)
AIRead(x, y) == PixelIdx(AICar, 0, x - AIX, y - AIY)
ObsRead(x, y) ==
    LET lane == LaneDrawn(x)
    IN  PixelIdx(CarIdx(lane, y), Reverse(lane), x - ObsX(lane, y),
                 U11(y - laneDistance[lane]))

-----------------------------------------------------------------------------

\* The memory has this pixel, and it is one of this car's sprite.
Belongs(idx, car, row) ==
    /\ idx \div 4 < Words
    /\ (idx % SheetWidth) - car * TileWidth \in 0 .. Car_XSize - 1
    /\ (idx \div SheetWidth) - row * TileHeight \in 0 .. TileHeight - 1

\* The colour of a pixel is what was looked up for the pixel to its left.  All
\* the same no car is drawn with the pixels of another one's sprite: the edges
\* of the boxes make up for it.  (Looked at where a box begins and ends.)
OwnSprite ==
    /\ \A x \in {PlayerX, PlayerX + 1, PlayerX + Car_XSize - 1},
          y \in {PlayerY, PlayerY + 1, PlayerY + Car_YSize - 1} :
           InPlayerBox(x, y) => Belongs(PlayerRead(x - 1, y), PlayerCar, 0)
    /\ \A x \in {AIX, AIX + 1, AIX + Car_XSize - 1},
          y \in {AIY, AIY + 1, AIY + Car_YSize - 1} :
           OnScreen(x, y) /\ InAIBox(x, y)
               => Belongs(AIRead(x - 1, y), AICar, 0)
    /\ \A lane \in Lanes, y \in {0, 100, PlayerY} :
           LET left == ObsX(lane, y)
           IN  \A x \in {left, left + 1, left + Car_XSize - 1} :
                   InObsBox(x, y) =>
                       Belongs(ObsRead(x - 1, y), CarIdx(lane, y), Reverse(lane))

=============================================================================
