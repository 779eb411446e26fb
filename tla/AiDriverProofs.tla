--------------------------- MODULE AiDriverProofs --------------------------
(***************************************************************************)
(* The driver keeps to its carriageway however the obstacles move.         *)
(*                                                                         *)
(* The argument: nothing tests the sides of the carriageway, but once the  *)
(* collision box no longer reaches both lanes the left and the right       *)
(* sensor look at the same lane (SameLane).  Then a driver that is still   *)
(* allowed to move sideways sees nothing on the other side either, and     *)
(* ends its lane change; one that must not end it must not move.  What is  *)
(* left is the motion of the frames in the pipeline.                       *)
(***************************************************************************)
EXTENDS AiDriver, TLAPS

\* A value that fits the register is stored unchanged.
LEMMA U10Fits == ASSUME NEW n \in 0 .. 1023 PROVE U10(n) = n
BY DEF U10

\* A small negative value is stored as its two's complement.
LEMMA U10Negative == ASSUME NEW n \in -1024 .. -1 PROVE U10(n) = n + 1024
BY DEF U10

\* The motion that the code writes as -2.
LEMMA MinusTwo == U10(-2) = 1022
BY U10Negative

SameLane ==
    CurState # "Init" /\ (AIX <= 340 \/ AIX >= 422)
        => AICollide.left = AICollide.right

InitInv ==
    CurState = "Init" =>
        \/ AIX = Car_X_Init
        \/ AIXMotion = 0 /\ AIX \in 334 .. 338

StraightInv ==
    CurState = "Straight" =>
        \/ AIXMotion = 0 /\ AIX \in (334 .. 347) \cup (406 .. 427)
        \/ AIXMotion = 2 /\ AIX \in 406 .. 425
        \/ AIXMotion = 1022 /\ AIX \in 337 .. 347

SlowInv ==
    CurState = "Slow" =>
        /\ AIXMotion = 0 /\ AIX \in (334 .. 347) \cup (406 .. 427)
        /\ AISpeed = 5

LeftInv ==
    CurState = "Left" =>
        \/ AIXMotion = 0 /\ AIX \in 337 .. 427
        \/ AIXMotion = 1022 /\ AIX \in 339 .. 427

RightInv ==
    CurState = "Right" =>
        \/ AIXMotion = 0 /\ AIX \in 334 .. 425
        \/ AIXMotion = 2 /\ AIX \in 334 .. 423

IInv == /\ TypeOK /\ SameLane
        /\ InitInv /\ StraightInv /\ SlowInv /\ LeftInv /\ RightInv

LEMMA InitIInv == Init => IInv
<1> SUFFICES ASSUME Init PROVE IInv
  OBVIOUS
<1>1. TypeOK
  <2>1. AICollide \in Sensor
    BY DEF Init, Sensor
  <2>2. AIX \in Reg10 /\ AIXMotion = 0 /\ AISpeed = 0
    BY DEF Init, InitDriver, Reg10, Car_X_Init
  <2>3. GameStart \in BOOLEAN /\ CurState \in State
    BY DEF Init, InitDriver, State
  <2> QED
    BY <2>1, <2>2, <2>3 DEF TypeOK
<1>2. CurState = "Init" /\ AIX = Car_X_Init
  BY DEF Init, InitDriver
<1> QED
  BY <1>1, <1>2
     DEF IInv, SameLane, InitInv, StraightInv, SlowInv, LeftInv, RightInv

\* All positions of the invariant lie far inside the register.
LEMMA Position ==
    ASSUME IInv
    PROVE  /\ AIX \in 334 .. 427
           /\ AIXMotion \in {0, 2, 1022}
           /\ AIXMotion = 0 => U10(AIX + AIXMotion) = AIX
           /\ AIXMotion = 2 => U10(AIX + AIXMotion) = AIX + 2
           /\ AIXMotion = 1022 => U10(AIX + AIXMotion) = AIX - 2
<1>1. AIX \in 334 .. 427 /\ AIXMotion \in {0, 2, 1022}
  BY MinusTwo
     DEF IInv, TypeOK, State, InitInv, StraightInv, SlowInv, LeftInv, RightInv,
         Car_X_Init
<1>2. /\ U10(AIX + 0) = AIX
      /\ U10(AIX + 2) = AIX + 2
      /\ U10(AIX + 1022) = AIX - 2
  BY <1>1 DEF U10
<1> QED
  BY <1>1, <1>2

\* A car whose box lies in one lane has equal sensors in the next frame.
LEMMA TouchedSameLane ==
    ASSUME IInv, NEW ahead \in SUBSET Lane, NEW behind \in SUBSET Lane,
           NEW beside \in SUBSET Lane, Frame(ahead, behind, beside)
    PROVE  /\ AICollide' \in Sensor
           /\ AIX <= 342 \/ AIX >= 420 => AICollide.left' = AICollide.right'
<1>1. AICollide' = Touched(ahead, behind, beside)
  BY DEF Frame
<1>2. AIX \in 334 .. 427
  BY Position
<1>3. /\ U10(AIX - AICollideBoxH) = AIX - 15
      /\ U10(AIX + Car_XSize + AICollideBoxH) = AIX + 62
  BY <1>2 DEF U10, AICollideBoxH, Car_XSize
<1>4. ASSUME AIX <= 342 \/ AIX >= 420
      PROVE  LaneAt(U10(AIX - AICollideBoxH))
               = LaneAt(U10(AIX + Car_XSize + AICollideBoxH))
  BY <1>2, <1>3, <1>4 DEF LaneAt
<1>5. AICollide' \in Sensor
  BY <1>1 DEF Touched, Sensor
<1> QED
  BY <1>1, <1>4, <1>5 DEF Touched

\* One frame, by the state the driver is in.
LEMMA FrameIInv ==
    ASSUME IInv, NEW ahead \in SUBSET Lane, NEW behind \in SUBSET Lane,
           NEW beside \in SUBSET Lane, Frame(ahead, behind, beside)
    PROVE  IInv'
<1> DEFINE x == AIX
           m == AIXMotion
<1>1. /\ CurState' = NextState
      /\ AISpeed' = NextAISpeed
      /\ AIXMotion' = NextAIXMotion
      /\ AIX' = U10(AIX + AIXMotion)
      /\ GameStart' \in BOOLEAN
  BY DEF Frame, FrameDriver, IInv, TypeOK
<1>2. /\ x \in 334 .. 427
      /\ \/ m = 0 /\ AIX' = x
         \/ m = 2 /\ AIX' = x + 2
         \/ m = 1022 /\ AIX' = x - 2
  BY <1>1, Position
<1>3. AIX' \in 332 .. 429
  BY <1>2
<1>4. SameLane'
  BY <1>2, TouchedSameLane DEF SameLane
<1>5. AICollide' \in Sensor
  BY TouchedSameLane
<1>6. U10(3) = 3
  BY U10Fits
<1> USE DEF AI_RSec, AI_LSec, Car_XSize, AI_CarSpeed
<1>7. CASE CurState = "Init"
  <2>1. /\ CurState' \in {"Init", "Straight"}
        /\ AISpeed' = 3 /\ AIXMotion' = 0
    BY <1>1, <1>7 DEF NextState, NextAISpeed, NextAIXMotion
  <2>2. AIX' \in 334 .. 338
    BY <1>2, <1>7 DEF IInv, InitInv, Car_X_Init
  <2> QED
    BY <1>1, <1>4, <1>5, <2>1, <2>2
       DEF IInv, TypeOK, State, Reg10, InitInv, StraightInv, SlowInv, LeftInv,
           RightInv
<1>8. CASE CurState = "Straight"
  <2>1. /\ CurState' \in {"Straight", "Slow"}
        /\ AISpeed' = 5 /\ AIXMotion' = 0
    BY <1>1, <1>8 DEF NextState, NextAISpeed, NextAIXMotion
  <2>2. AIX' \in (334 .. 347) \cup (406 .. 427)
    BY <1>2, <1>8 DEF IInv, StraightInv
  <2> QED
    BY <1>1, <1>4, <1>5, <2>1, <2>2
       DEF IInv, TypeOK, State, Reg10, InitInv, StraightInv, SlowInv, LeftInv,
           RightInv
<1>9. CASE CurState = "Slow"
  <2>1. /\ m = 0 /\ x \in (334 .. 347) \cup (406 .. 427)
        /\ AISpeed = 5
    BY <1>9 DEF IInv, SlowInv
  <2>2. /\ AISpeed' = 3 /\ AIXMotion' = 0
        /\ AIX' = x
    BY <1>1, <1>2, <1>6, <1>9, <2>1 DEF NextAISpeed, NextAIXMotion
  <2>3. \/ CurState' = "Left" /\ x \in 406 .. 427
        \/ CurState' = "Right" /\ x \in 334 .. 347
    BY <1>1, <1>9, <2>1 DEF NextState
  <2> QED
    BY <1>1, <1>4, <1>5, <2>2, <2>3
       DEF IInv, TypeOK, State, Reg10, InitInv, StraightInv, SlowInv, LeftInv,
           RightInv
<1>10. CASE CurState = "Left"
  <2>1. /\ CurState' \in {"Left", "Straight"}
        /\ CurState' = "Straight" <=> x <= 347 /\ ~AICollide.right
    BY <1>1, <1>2, <1>10 DEF NextState
  <2>2. /\ AICollide.left => AIXMotion' = 0
        /\ ~AICollide.left => AIXMotion' = 1022
    BY <1>1, <1>10, MinusTwo DEF NextAIXMotion
  <2>3. AISpeed' \in {0, 2, 3, 5}
    BY <1>1, <1>10 DEF NextAISpeed, IInv, TypeOK
  <2>4. /\ AIX' \in 337 .. 427
        /\ x <= 340 => AICollide.left = AICollide.right
    BY <1>2, <1>10 DEF IInv, LeftInv, SameLane
  <2>5. CurState' = "Left" /\ AIXMotion' = 1022 => AIX' \in 339 .. 427
    BY <1>2, <1>10, <2>1, <2>2, <2>4 DEF IInv, LeftInv
  <2>6. CurState' = "Straight" => AIX' \in 337 .. 347
    BY <1>2, <1>10, <2>1, <2>4 DEF IInv, LeftInv
  <2>7. /\ CurState' # "Init" /\ CurState' # "Slow" /\ CurState' # "Right"
        /\ AIXMotion' = 0 \/ AIXMotion' = 1022
    BY <2>1, <2>2
  <2>8. TypeOK'
    BY <1>1, <1>3, <1>5, <2>1, <2>3, <2>7, MinusTwo DEF TypeOK, State, Reg10
  <2> QED
    BY <1>4, <2>1, <2>4, <2>5, <2>6, <2>7, <2>8
       DEF IInv, InitInv, StraightInv, SlowInv, LeftInv, RightInv
<1>11. CASE CurState = "Right"
  <2>1. /\ CurState' \in {"Right", "Straight"}
        /\ CurState' = "Straight" <=> x >= 406 /\ ~AICollide.left
    BY <1>1, <1>2, <1>11 DEF NextState
  <2>2. /\ AICollide.right => AIXMotion' = 0
        /\ ~AICollide.right => AIXMotion' = 2
    BY <1>1, <1>11 DEF NextAIXMotion
  <2>3. AISpeed' \in {0, 2, 3, 5}
    BY <1>1, <1>11 DEF NextAISpeed, IInv, TypeOK
  <2>4. /\ AIX' \in 334 .. 425
        /\ x >= 422 => AICollide.left = AICollide.right
    BY <1>2, <1>11 DEF IInv, RightInv, SameLane
  <2>5. CurState' = "Right" /\ AIXMotion' = 2 => AIX' \in 334 .. 423
    BY <1>2, <1>11, <2>1, <2>2, <2>4 DEF IInv, RightInv
  <2>6. CurState' = "Straight" => AIX' \in 406 .. 425
    BY <1>2, <1>11, <2>1, <2>4 DEF IInv, RightInv
  <2>7. /\ CurState' # "Init" /\ CurState' # "Slow" /\ CurState' # "Left"
        /\ AIXMotion' = 0 \/ AIXMotion' = 2
    BY <2>1, <2>2
  <2>8. TypeOK'
    BY <1>1, <1>3, <1>5, <2>1, <2>3, <2>7 DEF TypeOK, State, Reg10
  <2> QED
    BY <1>4, <2>1, <2>4, <2>5, <2>6, <2>7, <2>8
       DEF IInv, InitInv, StraightInv, SlowInv, LeftInv, RightInv
<1> QED
  BY <1>7, <1>8, <1>9, <1>10, <1>11 DEF IInv, TypeOK, State

\* The reset button may fall into any state: what it leaves in the pipeline
\* moves the car by at most two pixels.
LEMMA ResetIInv == ASSUME IInv, Reset PROVE IInv'
<1>1. CurState' = "Init" /\ AIX' = 336 /\ GameStart' = FALSE
  BY DEF Reset, ResetDriver, Car_X_Init
<1>2. TypeOK'
  <2>1. AIX' \in Reg10 /\ CurState' \in State
    BY <1>1 DEF State, Reg10
  <2> QED
    BY <1>1, <2>1 DEF Reset, ResetDriver, IInv, TypeOK
<1> QED
  BY <1>1, <1>2
     DEF IInv, SameLane, InitInv, StraightInv, SlowInv, LeftInv, RightInv,
         Car_X_Init

LEMMA StutterIInv == ASSUME IInv, UNCHANGED vars PROVE IInv'
BY DEF vars, driver, IInv, TypeOK, SameLane, InitInv, StraightInv, SlowInv,
       LeftInv, RightInv

LEMMA StepIInv == IInv /\ [Next]_vars => IInv'
BY FrameIInv, ResetIInv, StutterIInv DEF Next, AnyFrame

\* The state machine stays in its five states and its speed never wraps.
THEOREM DriverTypeCorrect == Spec => []TypeOK
<1>1. IInv => TypeOK
  BY DEF IInv
<1> QED
  BY InitIInv, StepIInv, <1>1, PTL DEF Spec

\* Wherever obstacles appear, the car stays between the leftmost and the
\* rightmost point that aiLogic declares but never tests.
THEOREM KeepsToCarriageway == Spec => []OnCarriageway
<1>1. IInv => OnCarriageway
  BY Position DEF OnCarriageway, Car_X_Min, Car_X_Max, Car_XSize
<1> QED
  BY InitIInv, StepIInv, <1>1, PTL DEF Spec

\* The driver is inside one lane and at full speed whenever it starts braking.
THEOREM AlwaysBrakesInLane == Spec => []BrakesInLane
<1>1. IInv => BrakesInLane
  BY DEF IInv, StraightInv, SlowInv, BrakesInLane, AI_LSec, AI_RSec, Car_XSize,
         AI_CarSpeed
<1> QED
  BY InitIInv, StepIInv, <1>1, PTL DEF Spec

\* Braking lasts one frame and every lane change ends in the other lane.
THEOREM ChangesLanes == Spec => LaneChange
<1>1. ASSUME IInv, IInv', AnyFrame, CurState = "Slow"
      PROVE  CurState' = IF AIX > 405 THEN "Left" ELSE "Right"
  BY <1>1 DEF AnyFrame, Frame, FrameDriver, NextState, AI_LSec, AI_RSec, IInv,
              SlowInv, Car_XSize
<1>2. ASSUME IInv, IInv', AnyFrame, CurState = "Left", CurState' = "Straight"
      PROVE  AI_RSec' = "RL"
  <2>1. AIX <= 347
    BY <1>2, Position
       DEF AnyFrame, Frame, FrameDriver, NextState, AI_RSec, Car_XSize
  <2>2. AIX' <= AIX
    BY <1>2, Position DEF AnyFrame, Frame, FrameDriver, IInv, LeftInv
  <2>3. AIX \in Int /\ AIX' \in Int
    BY <1>2, Position DEF IInv, TypeOK, Reg10
  <2>4. \A x, y \in Int : x <= 347 /\ y <= x => y + 47 < 395
    OBVIOUS
  <2> QED
    BY <2>1, <2>2, <2>3, <2>4 DEF AI_RSec, Car_XSize
<1>3. ASSUME IInv, IInv', AnyFrame, CurState = "Right", CurState' = "Straight"
      PROVE  AI_LSec' = "RR"
  <2>1. AIX >= 406
    BY <1>3, Position DEF AnyFrame, Frame, FrameDriver, NextState, AI_LSec
  <2>2. AIX' >= AIX
    BY <1>3, Position DEF AnyFrame, Frame, FrameDriver, IInv, RightInv
  <2> QED
    BY <1>3, <2>1, <2>2, Position DEF AI_LSec, IInv, TypeOK, Reg10
<1> DEFINE Step ==
             /\ CurState = "Slow" /\ ~Reset
                  => CurState' = IF AIX > 405 THEN "Left" ELSE "Right"
             /\ CurState = "Left" /\ CurState' = "Straight" => AI_RSec' = "RL"
             /\ CurState = "Right" /\ CurState' = "Straight" => AI_LSec' = "RR"
<1>4. IInv /\ IInv' /\ [Next]_vars => [Step]_vars
  <2>1. ASSUME Reset PROVE CurState' = "Init"
    BY <2>1 DEF Reset, ResetDriver
  <2> QED
    BY <1>1, <1>2, <1>3, <2>1 DEF Next
<1> QED
  BY InitIInv, StepIInv, <1>4, PTL DEF Spec, LaneChange

=============================================================================
