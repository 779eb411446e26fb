---------------------------- MODULE PlayerLogic ----------------------------
(***************************************************************************)
(* playerLogic.sv: the registers of the player's car.  They change on the  *)
(* reset button and once per video frame; all right-hand sides read the    *)
(* values the registers had before the edge.  The two key codes are PIO    *)
(* registers that the firmware writes at any time between two frames.      *)
(***************************************************************************)
EXTENDS HardwareWidths

CONSTANTS
    Car_X_Init, Car_X_Min, Car_X_Max, Car_XSize,    \* the road, in pixels
    Car_Y_Init, Car_Y_Min, Car_Y_Max, Car_YSize,    \* the screen, in lines
    DistanceSpan,       \* PlayerDistance counts modulo this (2^16 in the code)
    Keys0, Keys1        \* the codes the firmware may put in each key register

Default_CarSpeed == 3
BottomMargin == 20      \* the car is at the bottom edge from here on
TopStrip == 160         \* the top edge is a strip this many lines high

KeyA == 4               \* 8'h04, 8'h07: steer
KeyD == 7
KeyS == 22              \* 8'h16, 8'h1A: brake, accelerate
KeyW == 26
NoKey == 0

ASSUME RoadAssumption ==
    /\ Car_X_Init \in Nat /\ Car_X_Min \in Nat
    /\ Car_X_Max \in Nat /\ Car_XSize \in Nat
    /\ 3 <= Car_X_Min
    /\ Car_X_Min <= Car_X_Init
    /\ Car_X_Init + Car_XSize <= Car_X_Max
    /\ Car_X_Max + 3 < 1024

ASSUME ScreenAssumption ==
    /\ Car_Y_Init \in Nat /\ Car_Y_Min \in Nat
    /\ Car_Y_Max \in Nat /\ Car_YSize \in Nat
    /\ Car_Y_Min + TopStrip + 5 <= Car_Y_Init
    /\ Car_Y_Init + Car_YSize + BottomMargin < Car_Y_Max
    /\ Car_Y_Max < 1000

ASSUME KeyAssumption ==
    /\ Keys0 \subseteq Nat /\ NoKey \in Keys0
    /\ Keys1 \subseteq Nat /\ NoKey \in Keys1
    /\ DistanceSpan \in Nat \ {0}

VARIABLES
    keycode_0, keycode_1,       \* input PIOs: steering key, speed key
    PlayerX, PlayerY,           \* top left corner of the car on the screen
    PlayerXMotion,              \* added to PlayerX by the next frame
    PlayerSpeed,                \* how fast the car drives
    GroundSpeed,                \* how fast the road scrolls under it
    PlayerDistance              \* how far the car has driven

keys == <<keycode_0, keycode_1>>
playerRegs == <<PlayerX, PlayerY, PlayerXMotion, PlayerSpeed, GroundSpeed,
                PlayerDistance>>
vars == <<keys, playerRegs>>

TypeOK ==
    /\ keycode_0 \in Keys0 /\ keycode_1 \in Keys1
    /\ PlayerX \in Reg10 /\ PlayerY \in Reg10
    /\ PlayerXMotion \in {0, 2, U10(-2)}
    /\ PlayerSpeed \in 1 .. 5 /\ GroundSpeed \in 1 .. 5
    /\ PlayerDistance \in 0 .. DistanceSpan - 1

-----------------------------------------------------------------------------

\* The bugs against which the properties are measured: each is a slip that the
\* definition of the same name, further down, could contain.
BugGroundSpeedNoTop ==              \* the top edge is forgotten
    IF U10(PlayerY + Car_YSize + BottomMargin) >= Car_Y_Max
       /\ PlayerSpeed <= Default_CarSpeed - 1
    THEN PlayerSpeed
    ELSE Default_CarSpeed

BugGroundSpeedOffByOne ==           \* "< 2" at the bottom, "> 2" at the top
    IF \/ /\ U10(PlayerY + Car_YSize + BottomMargin) >= Car_Y_Max
          /\ PlayerSpeed < Default_CarSpeed - 1
       \/ PlayerY <= Car_Y_Min + TopStrip /\ PlayerSpeed > 2
    THEN PlayerSpeed
    ELSE Default_CarSpeed

BugXMotionKeyOnly ==                \* the right side of the road is not tested
    CASE keycode_0 = KeyA /\ PlayerX > Car_X_Min -> U10(-2)
      [] keycode_0 = KeyD -> 2
      [] OTHER -> 0

BugSpeedNoLimit ==                  \* no upper limit on the speed
    CASE keycode_1 = KeyS -> Default_CarSpeed - 1
      [] keycode_1 = KeyW -> PlayerSpeed + 1
      [] OTHER -> PlayerSpeed

BugSpeedFullBrake ==                \* braking is full everywhere
    CASE keycode_1 = KeyS -> Default_CarSpeed - 2
      [] keycode_1 = KeyW -> IF PlayerSpeed + 1 <= 5 THEN PlayerSpeed + 1
                                                     ELSE PlayerSpeed
      [] OTHER -> IF PlayerSpeed - 1 >= Default_CarSpeed THEN PlayerSpeed - 1
                                                         ELSE PlayerSpeed

AtBottom == U10(PlayerY + Car_YSize + BottomMargin) >= Car_Y_Max
AtTop == PlayerY <= Car_Y_Min + TopStrip

\* At either edge of the screen the road takes over the speed of the car, so
\* that the car stops moving on the screen.
NextGroundSpeed ==
    IF \/ AtBottom /\ PlayerSpeed <= Default_CarSpeed - 1
       \/ AtTop /\ PlayerSpeed >= 2
    THEN PlayerSpeed
    ELSE Default_CarSpeed

NextXMotion ==
    CASE keycode_0 = KeyA /\ PlayerX > Car_X_Min -> U10(-2)
      [] keycode_0 = KeyD /\ U10(PlayerX + Car_XSize) < Car_X_Max -> 2
      [] OTHER -> 0

NextSpeed ==
    CASE keycode_1 = KeyS -> IF AtBottom THEN Default_CarSpeed - 2
                                         ELSE Default_CarSpeed - 1
      [] keycode_1 = KeyW -> IF PlayerSpeed + 1 <= 5 THEN PlayerSpeed + 1
                                                     ELSE PlayerSpeed
      [] OTHER -> IF PlayerSpeed > 0 /\ PlayerSpeed - 1 >= Default_CarSpeed
                  THEN PlayerSpeed - 1
                  ELSE PlayerSpeed

\* The reset button sets every register at once, without waiting for a frame.
ResetPlayer ==
    /\ PlayerX' = Car_X_Init /\ PlayerY' = Car_Y_Init
    /\ PlayerXMotion' = 0
    /\ PlayerSpeed' = Default_CarSpeed /\ GroundSpeed' = Default_CarSpeed
    /\ PlayerDistance' = 0

\* One video frame.
FramePlayer ==
    /\ GroundSpeed' = NextGroundSpeed
    /\ PlayerXMotion' = NextXMotion
    /\ PlayerSpeed' = NextSpeed
    /\ PlayerY' = U10(PlayerY - PlayerSpeed + GroundSpeed)
    /\ PlayerX' = U10(PlayerX + PlayerXMotion)
    /\ PlayerDistance' = (PlayerDistance + PlayerSpeed) % DistanceSpan

\* The firmware stores a new code in each of the two key registers; main.c
\* writes the speed key first, so the frame edge may come between the two.
SetKeycode0 ==
    /\ keycode_0' \in Keys0
    /\ UNCHANGED keycode_1

SetKeycode1 ==
    /\ keycode_1' \in Keys1
    /\ UNCHANGED keycode_0

-----------------------------------------------------------------------------

\* The registers power up with their reset values.
InitPlayer ==
    /\ PlayerX = Car_X_Init /\ PlayerY = Car_Y_Init
    /\ PlayerXMotion = 0
    /\ PlayerSpeed = Default_CarSpeed /\ GroundSpeed = Default_CarSpeed
    /\ PlayerDistance = 0

Init ==
    /\ keycode_0 = NoKey /\ keycode_1 = NoKey
    /\ InitPlayer

Reset == ResetPlayer /\ UNCHANGED keys
Frame == FramePlayer /\ UNCHANGED keys
SetKey == (SetKeycode0 \/ SetKeycode1) /\ UNCHANGED playerRegs

Next == Reset \/ Frame \/ SetKey

Spec == Init /\ [][Next]_vars

\* The video controller never stops producing frames, whatever the keys do.
FairSpec == Spec /\ WF_vars(Frame)

-----------------------------------------------------------------------------

\* Steering: the car overshoots each side of the road by at most three pixels.
\* The test that stops it reads PlayerX, while the motion it left in the
\* pipeline (Car_X_Motion) is still to be added; the last two conjuncts say
\* where the car can be with such a motion pending.
OnRoad ==
    /\ PlayerX \in Car_X_Min - 3 .. Car_X_Max - Car_XSize + 3
    /\ PlayerXMotion = U10(-2) => PlayerX >= Car_X_Min - 1
    /\ PlayerXMotion = 2 => PlayerX + Car_XSize <= Car_X_Max + 1

\* Speed: the road takes over the car's speed one frame late, at both edges of
\* the screen, yet the car never drives off the screen: it enters the top
\* strip by at most three lines and the bottom margin by at most three, so no
\* 10-bit sum of the code ever wraps.
OnScreen ==
    /\ PlayerY >= Car_Y_Min + TopStrip - 3
    /\ PlayerY + Car_YSize + BottomMargin <= Car_Y_Max + 3

\* The car is pinned to the top strip: whatever speed the road takes over from
\* it, what it can fall back before the road has the new speed is too little.
Pinned ==
    /\ AtTop
    /\ PlayerSpeed >= 2 /\ GroundSpeed >= 2
    /\ PlayerY + GroundSpeed <= Car_Y_Min + TopStrip + 2

\* Once pinned, a car can never leave the top strip again: no sequence of keys,
\* braking included, moves it out, only the reset button does.  Holding W from
\* the start position, one frame less or more, decides whether this happens.
PinnedForever == [][Pinned => Pinned' \/ ResetPlayer]_vars

\* A driver who leaves the speed key alone ends up at rest on the screen: the
\* road scrolls at the car's own speed from some frame on.
Settles ==
    (/\ <>[][~Reset]_vars
     /\ \E k \in Keys1 : <>[](keycode_1 = k))
        => <>[](GroundSpeed = PlayerSpeed)

=============================================================================
