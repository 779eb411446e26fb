----------------------------- MODULE GameProofs -----------------------------
(***************************************************************************)
(* Facts about the composed game: what one component assumes of another is *)
(* what the other provides, the picture is what the collisions and the     *)
(* race say it is, and what is shown of each component alone holds in the  *)
(* game, for every sequence of keys and resets and for games of any        *)
(* length, in which the 16-bit distances wrap.                             *)
(***************************************************************************)
EXTENDS Game, TLAPS

\* Truncating an operand does not change a truncated sum or difference, be it
\* to the width of the result or, for a 16-bit operand, to a larger one.
LEMMA U10Operand ==
    ASSUME NEW m \in Int, NEW n \in Int
    PROVE  /\ U10(U10(m) + n) = U10(m + n)
           /\ U10(U10(m) - n) = U10(m - n)
           /\ U10(m - U10(n)) = U10(m - n)
           /\ U10(m - (n % 65536)) = U10(m - n)
BY DEF U10

\* The same for 16-bit operands of a 16-bit difference.
LEMMA Operand16 ==
    ASSUME NEW m \in Int, NEW n \in Int
    PROVE  ((m % 65536) - (n % 65536)) % 65536 = (m - n) % 65536
OBVIOUS

\* Truncated operands of an 11-bit sum or difference.
LEMMA U11Operands ==
    ASSUME NEW m \in Int, NEW n \in Int
    PROVE  /\ U11(U11(m) - U11(n)) = U11(m - n)
           /\ U11(U11(m) + U11(n)) = U11(m + n)
           /\ U11(m - U11(n)) = U11(m - n)
BY DEF U11

LEMMA U11Type == ASSUME NEW n \in Int PROVE U11(n) \in Int
BY DEF U11

\* Two values that agree after truncation still do when the same is added.
LEMMA U11Shift ==
    ASSUME NEW m \in Int, NEW n \in Int, NEW k \in Int, U11(m) = U11(n)
    PROVE  U11(m + k) = U11(n + k)
BY DEF U11

\* One frame moves the opponent's line by the same amount as the difference
\* between the player's line and the lead, although each term is truncated on
\* its own.
LEMMA SameDrift ==
    ASSUME PlayerY \in Int, GroundSpeed \in Int, PlayerSpeed \in Int, AISpeed \in Int,
           AIDistance \in Int, PlayerDistance \in Int, AIY \in Int,
           AIY = U10(PlayerY - ((AIDistance - PlayerDistance) % 65536))
    PROVE  U10(AIY - U10(AISpeed - GroundSpeed))
             = U10(U10((PlayerY - PlayerSpeed) + GroundSpeed)
                   - ((((AIDistance + AISpeed) % 65536) - ((PlayerDistance + PlayerSpeed) % 65536)) % 65536))
<1> DEFINE v == AISpeed - GroundSpeed
           lead == AIDistance - PlayerDistance
           yy == (PlayerY - PlayerSpeed) + GroundSpeed
           nad == AIDistance + AISpeed
           npd == PlayerDistance + PlayerSpeed
<1>1. v \in Int /\ lead \in Int /\ yy \in Int /\ nad \in Int /\ npd \in Int
        /\ nad - npd \in Int /\ PlayerY - lead \in Int
  OBVIOUS
<1>8. (PlayerY - lead) - v = yy - (nad - npd)
  OBVIOUS
<1> HIDE DEF v, lead, yy, nad, npd
<1>2. U10(AIY - U10(v)) = U10(AIY - v)
  BY <1>1, U10Operand
<1>3. AIY = U10(PlayerY - lead)
  BY <1>1, U10Operand DEF lead
<1>4. U10(AIY - v) = U10((PlayerY - lead) - v)
  BY <1>1, <1>3, U10Operand
<1>5. ((nad % 65536) - (npd % 65536)) % 65536 = (nad - npd) % 65536
  BY <1>1, Operand16
<1>6. U10(U10(yy) - ((nad - npd) % 65536)) = U10(U10(yy) - (nad - npd))
  <2>1. \A w \in Int : U10(w - ((nad - npd) % 65536)) = U10(w - (nad - npd))
    BY <1>1, U10Operand
  <2>2. U10(yy) \in Int
    BY <1>1 DEF U10
  <2> QED
    BY <2>1, <2>2
<1>7. U10(U10(yy) - (nad - npd)) = U10(yy - (nad - npd))
  BY <1>1, U10Operand
<1>9. U10(AIY - U10(v)) = U10(U10(yy) - (((nad % 65536) - (npd % 65536)) % 65536))
  BY <1>2, <1>4, <1>5, <1>6, <1>7, <1>8
<1> QED BY <1>9 DEF v, yy, nad, npd

-----------------------------------------------------------------------------

\* Every behaviour of the game is one of the driver on its own: the obstacles
\* of the road only ever choose among the environments that AiDriver allows.
THEOREM ImplementsDriver == Spec => DriverImplemented
<1>1. Init => Driver!Init
  BY DEF Init, Driver!Init, Driver!InitDriver, Road!InitObstacles,
         Status!InitStatus
<1>2. Frame => Driver!AnyFrame
  <2> SUFFICES ASSUME Frame PROVE Driver!AnyFrame
    OBVIOUS
  <2>1. Road!AIAhead \in SUBSET Driver!Lane /\ Road!AIBehind \in SUBSET Driver!Lane
          /\ Road!AIBeside \in SUBSET Driver!Lane
    BY DEF Road!AIAhead, Road!AIBehind, Road!AIBeside, Driver!Lane
  <2>2. AICollide' = Driver!Touched(Road!AIAhead, Road!AIBehind, Road!AIBeside)
    BY DEF Frame, Road!FrameObstacles, AITouches
  <2>3. GameStart' = GameStart \/ GameStart' = TRUE
    BY DEF Frame, Status!FrameStatus, Status!NextVerdict
  <2>4. Driver!FrameDriver
    BY DEF Frame
  <2>5. Driver!Frame(Road!AIAhead, Road!AIBehind, Road!AIBeside)
    BY <2>2, <2>3, <2>4 DEF Driver!Frame
  <2> QED
    BY <2>1, <2>5 DEF Driver!AnyFrame
<1>3. Reset => Driver!Reset
  BY DEF Reset, Driver!Reset, Status!ResetStatus, road
<1>4. SetKey \/ UNCHANGED vars => UNCHANGED Driver!vars
  BY DEF SetKey, vars, opponent, road, status, Driver!vars, Driver!driver
<1>5. [Next]_vars => [Driver!Next]_(Driver!vars)
  BY <1>2, <1>3, <1>4 DEF Next, Driver!Next
<1> QED
  BY <1>1, <1>5, PTL DEF Spec, DriverImplemented, Driver!Spec

-----------------------------------------------------------------------------

\* That the opponent is drawn at its lead needs no more of the other registers
\* than that they hold numbers.
RaceInv ==
    /\ PlayerY \in Int /\ PlayerSpeed \in Int /\ GroundSpeed \in Int
    /\ PlayerDistance \in Int
    /\ CurState \in Driver!State
    /\ AISpeed \in Int /\ AIDistance \in Int /\ AIY \in Int
    /\ beenReset \in BOOLEAN
    /\ DrawnAtLead

LEMMA SameWidths ==
    ASSUME NEW n \in Int
    PROVE  Player!U10(n) = U10(n) /\ Driver!U10(n) = U10(n)
             /\ RaceOf!U10(n) = U10(n) /\ U10(n) \in Int
BY DEF U10, Player!U10, Driver!U10, RaceOf!U10

LEMMA NextNumbers ==
    ASSUME PlayerSpeed \in Int, AISpeed \in Int, CurState \in Driver!State
    PROVE  /\ Player!NextSpeed \in Int /\ Player!NextGroundSpeed \in Int
           /\ Driver!NextState \in Driver!State
           /\ Driver!NextAISpeed \in Int
<1>1. Player!NextSpeed \in Int /\ Player!NextGroundSpeed \in Int
  BY DEF Player!NextSpeed, Player!NextGroundSpeed, Player!Default_CarSpeed,
         Player!KeyS, Player!KeyW
<1>2. Driver!NextState \in Driver!State
  BY DEF Driver!NextState, Driver!State
<1>3. Driver!NextAISpeed \in Int
  BY DEF Driver!NextAISpeed, Driver!State, Driver!AI_CarSpeed, Driver!U10
<1> QED
  BY <1>1, <1>2, <1>3

LEMMA InitRaceInv == ASSUME Init PROVE RaceInv
<1>1. /\ PlayerY \in Int /\ PlayerSpeed \in Int /\ GroundSpeed \in Int
      /\ PlayerDistance \in Int
  BY DEF Init, Player!InitPlayer, Player!Default_CarSpeed
<1>2. CurState \in Driver!State /\ AISpeed \in Int
  BY DEF Init, Driver!InitDriver, Driver!State
<1>3. AIDistance \in Int /\ AIY \in Int
  BY PowerUpAssumption DEF Init, RaceOf!Car_Y_Init_Dist
<1>4. beenReset = FALSE
  BY DEF Init
<1> QED
  BY <1>1, <1>2, <1>3, <1>4 DEF RaceInv, DrawnAtLead

\* A reset loads the opponent's line and its lead from the same two numbers.
LEMMA ResetRaceInv == ASSUME RaceInv, Reset PROVE RaceInv'
<1>1. /\ PlayerY' = 315 /\ PlayerSpeed' = 3 /\ GroundSpeed' = 3
      /\ PlayerDistance' = 0
  BY DEF Reset, Player!ResetPlayer, Player!Default_CarSpeed
<1>2. CurState' = "Init" /\ AISpeed' = AISpeed
  BY DEF Reset, Driver!ResetDriver
<1>3. AIDistance' = 180 /\ AIY' = 135 /\ beenReset' = TRUE
  BY <1>1 DEF Reset, RaceOf!ResetRace, RaceOf!Car_Y_Init_Dist, RaceOf!U10
<1>4. DrawnAtLead'
  BY <1>1, <1>3 DEF DrawnAtLead, RaceOf!TarDistance, U10, DistanceSpan
<1> QED
  BY <1>1, <1>2, <1>3, <1>4 DEF RaceInv, Driver!State

LEMMA FrameRaceInv == ASSUME RaceInv, Frame PROVE RaceInv'
<1> USE DEF RaceInv
<1>1. /\ PlayerY' = U10(PlayerY - PlayerSpeed + GroundSpeed)
      /\ PlayerSpeed' = Player!NextSpeed
      /\ GroundSpeed' = Player!NextGroundSpeed
      /\ PlayerDistance' = (PlayerDistance + PlayerSpeed) % 65536
  BY SameWidths DEF Frame, Player!FramePlayer, DistanceSpan
<1>2. CurState' = Driver!NextState /\ AISpeed' = Driver!NextAISpeed
  BY DEF Frame, Driver!FrameDriver
<1>3. /\ AIDistance' = (AIDistance + AISpeed) % 65536
      /\ AIY' = U10(AIY - U10(AISpeed - GroundSpeed))
  <2>1. RaceOf!U10(AISpeed - GroundSpeed) = U10(AISpeed - GroundSpeed)
          /\ U10(AISpeed - GroundSpeed) \in Int
    BY SameWidths
  <2>2. \A n \in Int : RaceOf!U10(AIY - n) = U10(AIY - n)
    BY SameWidths
  <2> QED
    BY <2>1, <2>2 DEF Frame, RaceOf!FrameRace, DistanceSpan
<1>4. beenReset' = beenReset
  BY DEF Frame
<1>5. /\ PlayerY' \in Int /\ PlayerSpeed' \in Int /\ GroundSpeed' \in Int
      /\ PlayerDistance' \in Int /\ CurState' \in Driver!State
      /\ AISpeed' \in Int /\ AIDistance' \in Int /\ AIY' \in Int
  <2>1. PlayerY' \in Int /\ PlayerDistance' \in Int /\ AIDistance' \in Int
    BY <1>1, <1>3, SameWidths
  <2>2. AIY' \in Int
    BY <1>3 DEF U10
  <2> QED
    BY <1>1, <1>2, <2>1, <2>2, NextNumbers
<1>6. ASSUME beenReset
      PROVE  AIY' = U10(PlayerY' - ((AIDistance' - PlayerDistance') % 65536))
  <2>1. AIY = U10(PlayerY - ((AIDistance - PlayerDistance) % 65536))
    BY <1>6 DEF DrawnAtLead, RaceOf!TarDistance, DistanceSpan
  <2>2. U10(AIY - U10(AISpeed - GroundSpeed))
          = U10(U10((PlayerY - PlayerSpeed) + GroundSpeed)
                - ((((AIDistance + AISpeed) % 65536)
                    - ((PlayerDistance + PlayerSpeed) % 65536)) % 65536))
    BY <2>1, SameDrift
  <2> QED
    BY <2>2, <1>1, <1>3
<1>7. DrawnAtLead'
  BY <1>4, <1>6 DEF DrawnAtLead, RaceOf!TarDistance, DistanceSpan
<1> QED
  BY <1>4, <1>5, <1>7

LEMMA RaceAlways == Spec => []RaceInv
<1>1. Init => RaceInv
  BY InitRaceInv
<1>2. RaceInv /\ [Next]_vars => RaceInv'
  <2> SUFFICES ASSUME RaceInv, [Next]_vars PROVE RaceInv'
    OBVIOUS
  <2>1. CASE Frame
    BY <2>1, FrameRaceInv
  <2>2. CASE Reset
    BY <2>2, ResetRaceInv
  <2>3. CASE SetKey \/ UNCHANGED vars
    BY <2>3 DEF SetKey, vars, player, opponent, RaceInv, DrawnAtLead,
                RaceOf!TarDistance, DistanceSpan
  <2> QED
    BY <2>1, <2>2, <2>3 DEF Next
<1> QED
  BY <1>1, <1>2, PTL DEF Spec

\* The opponent is drawn where it is in the race, however long the game, with
\* any keys and with any number of resets.
THEOREM AlwaysDrawnAtLead == Spec => []DrawnAtLead
<1>1. RaceInv => DrawnAtLead
  BY DEF RaceInv
<1> QED
  BY <1>1, RaceAlways, PTL

-----------------------------------------------------------------------------

LanesInv ==
    /\ PlayerSpeed \in Int /\ GroundSpeed \in Int /\ Distance \in Int
    /\ laneDistance.LL \in Int /\ laneDistance.LR \in Int
    /\ laneDistance.RL \in Int /\ laneDistance.RR \in Int
    /\ LanesTogether

\* What a frame does to the five counters of the road, the inner truncation of
\* the relative speeds removed.
LEMMA FrameScrolls ==
    ASSUME LanesInv, Frame
    PROVE  /\ laneDistance'.LL = U11(laneDistance.LL + (2 + GroundSpeed))
           /\ laneDistance'.LR = U11(laneDistance.LR + (3 + GroundSpeed))
           /\ laneDistance'.RL = U11(laneDistance.RL - (3 - GroundSpeed))
           /\ laneDistance'.RR = U11(laneDistance.RR - (2 - GroundSpeed))
           /\ Distance' = U11(Distance + GroundSpeed)
<1>1. laneDistance' = Road!Scrolled
  BY DEF Frame, Road!FrameObstacles
<1>2. /\ laneDistance'.LL = U11(laneDistance.LL + (2 + GroundSpeed))
      /\ laneDistance'.LR = U11(laneDistance.LR + (3 + GroundSpeed))
  BY <1>1 DEF Road!Scrolled, Road!RelativeSpeed, Road!U11, U11
<1>3. /\ laneDistance'.RL = U11(laneDistance.RL - U11(3 - GroundSpeed))
      /\ laneDistance'.RR = U11(laneDistance.RR - U11(2 - GroundSpeed))
  BY <1>1 DEF Road!Scrolled, Road!RelativeSpeed, Road!U11, U11
<1>4. /\ U11(laneDistance.RL - U11(3 - GroundSpeed))
           = U11(laneDistance.RL - (3 - GroundSpeed))
      /\ U11(laneDistance.RR - U11(2 - GroundSpeed))
           = U11(laneDistance.RR - (2 - GroundSpeed))
  <2>1. /\ laneDistance.RL \in Int /\ laneDistance.RR \in Int
        /\ 3 - GroundSpeed \in Int /\ 2 - GroundSpeed \in Int
    BY DEF LanesInv
  <2> QED
    BY <2>1, U11Operands
<1>5. Distance' = U11(Distance + GroundSpeed)
  BY DEF Frame
<1> QED
  BY <1>2, <1>3, <1>4, <1>5

LEMMA FrameLanesInv == ASSUME LanesInv, Frame PROVE LanesInv'
<1> DEFINE ll == laneDistance.LL + (2 + GroundSpeed)
           lr == laneDistance.LR + (3 + GroundSpeed)
           rl == laneDistance.RL - (3 - GroundSpeed)
           rr == laneDistance.RR - (2 - GroundSpeed)
           d == Distance + GroundSpeed
           twice == 2 * GroundSpeed
<1>1. ll \in Int /\ lr \in Int /\ rl \in Int /\ rr \in Int /\ d \in Int
        /\ twice \in Int
  BY DEF LanesInv
<1>2. /\ lr - ll = (laneDistance.LR - laneDistance.LL) + 1
      /\ rr - rl = (laneDistance.RR - laneDistance.RL) + 1
      /\ ll + rr = (laneDistance.LL + laneDistance.RR) + twice
      /\ lr + rl = (laneDistance.LR + laneDistance.RL) + twice
      /\ d + d = 2 * Distance + twice
  <2>1. /\ laneDistance.LL \in Int /\ laneDistance.LR \in Int
        /\ laneDistance.RL \in Int /\ laneDistance.RR \in Int
        /\ GroundSpeed \in Int /\ Distance \in Int
    BY DEF LanesInv
  <2>2. lr - ll = (laneDistance.LR - laneDistance.LL) + 1
    BY <2>1
  <2>3. rr - rl = (laneDistance.RR - laneDistance.RL) + 1
    BY <2>1
  <2>4. ll + rr = (laneDistance.LL + laneDistance.RR) + twice
    BY <2>1
  <2>5. lr + rl = (laneDistance.LR + laneDistance.RL) + twice
    BY <2>1
  <2>6. d + d = 2 * Distance + twice
    BY <2>1
  <2> QED
    BY <2>2, <2>3, <2>4, <2>5, <2>6
<1>3. /\ U11(laneDistance.LR - laneDistance.LL)
           = U11(laneDistance.RR - laneDistance.RL)
      /\ U11(laneDistance.LL + laneDistance.RR) = U11(2 * Distance)
      /\ U11(laneDistance.LR + laneDistance.RL) = U11(2 * Distance)
  BY DEF LanesInv, LanesTogether
<1>4. /\ laneDistance.LR - laneDistance.LL \in Int
      /\ laneDistance.RR - laneDistance.RL \in Int
      /\ laneDistance.LL + laneDistance.RR \in Int
      /\ laneDistance.LR + laneDistance.RL \in Int
      /\ 2 * Distance \in Int
  BY DEF LanesInv
<1>5. /\ laneDistance'.LL = U11(ll) /\ laneDistance'.LR = U11(lr)
      /\ laneDistance'.RL = U11(rl) /\ laneDistance'.RR = U11(rr)
      /\ Distance' = U11(d)
  BY FrameScrolls
<1>6. PlayerSpeed' \in Int /\ GroundSpeed' \in Int
  BY DEF LanesInv, Frame, Player!FramePlayer, Player!NextSpeed,
         Player!NextGroundSpeed, Player!Default_CarSpeed, Player!KeyS,
         Player!KeyW
<1> HIDE DEF ll, lr, rl, rr, d, twice
<1>7. U11(lr - ll) = U11(rr - rl)
  BY <1>2, <1>3, <1>4, U11Shift
<1>8. U11(ll + rr) = U11(d + d) /\ U11(lr + rl) = U11(d + d)
  BY <1>1, <1>2, <1>3, <1>4, U11Shift
<1>9. /\ U11(U11(lr) - U11(ll)) = U11(U11(rr) - U11(rl))
      /\ U11(U11(ll) + U11(rr)) = U11(U11(d) + U11(d))
      /\ U11(U11(lr) + U11(rl)) = U11(U11(d) + U11(d))
  BY <1>1, <1>7, <1>8, U11Operands
<1>10. U11(d) \in Int /\ U11(d) + U11(d) = 2 * U11(d)
  BY <1>1, U11Type
<1>11. LanesTogether'
  BY <1>5, <1>9, <1>10 DEF LanesTogether
<1>12. /\ Distance' \in Int
       /\ laneDistance'.LL \in Int /\ laneDistance'.LR \in Int
       /\ laneDistance'.RL \in Int /\ laneDistance'.RR \in Int
  BY <1>1, <1>5, U11Type
<1> QED
  BY <1>6, <1>11, <1>12 DEF LanesInv

LEMMA LanesAlways == Spec => []LanesInv
<1>1. Init => LanesInv
  <2> SUFFICES ASSUME Init PROVE LanesInv
    OBVIOUS
  <2>1. PlayerSpeed = 3 /\ GroundSpeed = 3 /\ Distance = 0
    BY DEF Init, Player!InitPlayer, Player!Default_CarSpeed
  <2>2. /\ laneDistance.LL = 0 /\ laneDistance.LR = 0
        /\ laneDistance.RL = 0 /\ laneDistance.RR = 0
    BY DEF Init, Road!InitObstacles, Road!Lanes
  <2> QED
    BY <2>1, <2>2 DEF LanesInv, LanesTogether, U11
<1>2. LanesInv /\ [Next]_vars => LanesInv'
  <2> SUFFICES ASSUME LanesInv, [Next]_vars PROVE LanesInv'
    OBVIOUS
  <2>1. CASE Frame
    BY <2>1, FrameLanesInv
  <2>2. CASE Reset
    <3>1. PlayerSpeed' = 3 /\ GroundSpeed' = 3
      BY <2>2 DEF Reset, Player!ResetPlayer, Player!Default_CarSpeed
    <3>2. laneDistance' = laneDistance /\ Distance' = Distance
      BY <2>2 DEF Reset, road
    <3> QED
      BY <3>1, <3>2 DEF LanesInv, LanesTogether
  <2>3. CASE SetKey \/ UNCHANGED vars
    BY <2>3 DEF SetKey, vars, player, road, LanesInv, LanesTogether
  <2> QED
    BY <2>1, <2>2, <2>3 DEF Next
<1> QED
  BY <1>1, <1>2, PTL DEF Spec

\* The four lanes keep the formation of their cars' speeds however long the
\* game is, across the wrap-around of every counter.
THEOREM LanesStayTogether == Spec => []LanesTogether
<1>1. LanesInv => LanesTogether
  BY DEF LanesInv
<1> QED
  BY <1>1, LanesAlways, PTL

-----------------------------------------------------------------------------
\* That the opponent never drives faster than five lines is a fact about its
\* driver alone, and the game implements the driver.
DriverFacts == INSTANCE AiDriverProofs

LEMMA SameDriver == Driver!Spec => DriverFacts!Spec
<1>1. Driver!Init => DriverFacts!Init
  BY DEF Driver!Init, DriverFacts!Init, Driver!InitDriver, DriverFacts!InitDriver,
         Driver!Car_X_Init, DriverFacts!Car_X_Init
<1>2. [Driver!Next]_(Driver!vars) => [DriverFacts!Next]_(DriverFacts!vars)
  BY Zenon
  DEF Driver!Next, DriverFacts!Next, Driver!vars, DriverFacts!vars, Driver!driver,
      DriverFacts!driver, Driver!AnyFrame, DriverFacts!AnyFrame, Driver!Frame,
      DriverFacts!Frame, Driver!FrameDriver, DriverFacts!FrameDriver,
      Driver!Reset, DriverFacts!Reset, Driver!ResetDriver,
      DriverFacts!ResetDriver, Driver!NextState, DriverFacts!NextState,
      Driver!NextAISpeed, DriverFacts!NextAISpeed, Driver!NextAIXMotion,
      DriverFacts!NextAIXMotion, Driver!Touched, DriverFacts!Touched,
      Driver!LaneAt, DriverFacts!LaneAt, Driver!AI_LSec, DriverFacts!AI_LSec,
      Driver!AI_RSec, DriverFacts!AI_RSec, Driver!Car_X_Init,
      DriverFacts!Car_X_Init, Driver!Car_XSize, DriverFacts!Car_XSize,
      Driver!AI_CarSpeed, DriverFacts!AI_CarSpeed, Driver!AICollideBoxH,
      DriverFacts!AICollideBoxH, Driver!Lane, DriverFacts!Lane, Driver!U10,
      DriverFacts!U10
<1> QED
  BY <1>1, <1>2, PTL DEF Driver!Spec, DriverFacts!Spec

\* What bounds the change of the lead.
PaceInv ==
    /\ PlayerSpeed \in 1 .. 5
    /\ PlayerDistance \in Int /\ AIDistance \in Int

LEMMA StepPace == ASSUME PaceInv, AISpeed \in 0 .. 5, [Next]_vars PROVE PaceInv'
<1>1. CASE Frame
  <2>1. PlayerSpeed' = Player!NextSpeed
    BY <1>1 DEF Frame, Player!FramePlayer
  <2>2. Player!NextSpeed \in 1 .. 5
    BY DEF PaceInv, Player!NextSpeed, Player!Default_CarSpeed
  <2>3. /\ PlayerDistance' = (PlayerDistance + PlayerSpeed) % 65536
        /\ AIDistance' = (AIDistance + AISpeed) % 65536
    BY <1>1 DEF Frame, Player!FramePlayer, RaceOf!FrameRace, DistanceSpan
  <2> QED
    BY <2>1, <2>2, <2>3 DEF PaceInv
<1>2. CASE Reset
  BY <1>2 DEF Reset, Player!ResetPlayer, Player!Default_CarSpeed, RaceOf!ResetRace,
              RaceOf!Car_Y_Init_Dist, PaceInv
<1>3. CASE SetKey \/ UNCHANGED vars
  BY <1>3 DEF SetKey, vars, player, opponent, PaceInv
<1> QED
  BY <1>1, <1>2, <1>3 DEF Next

LEMMA InitStatusOf == Init => Status!Init
BY DEF Init, Status!Init, Player!InitPlayer, Road!InitObstacles, RaceOf!TarDistance,
       RaceOf!Car_Y_Init_Dist, DistanceSpan

LEMMA StepStatusOf ==
    ASSUME PaceInv, AISpeed \in 0 .. 5, [Next]_vars
    PROVE  [Status!Next]_(Status!vars)
<1>1. CASE Frame
  <2>1. \E d \in -5 .. 5 :
           RaceOf!TarDistance' = (RaceOf!TarDistance + d) % DistanceSpan
    <3>1. /\ PlayerDistance' = (PlayerDistance + PlayerSpeed) % 65536
          /\ AIDistance' = (AIDistance + AISpeed) % 65536
      BY <1>1 DEF Frame, Player!FramePlayer, RaceOf!FrameRace, DistanceSpan
    <3>2. AISpeed - PlayerSpeed \in -5 .. 5
      BY DEF PaceInv
    <3>3. RaceOf!TarDistance'
            = ((AIDistance + AISpeed) - (PlayerDistance + PlayerSpeed)) % 65536
      BY <3>1, Operand16 DEF PaceInv, RaceOf!TarDistance, DistanceSpan
    <3>4. (RaceOf!TarDistance + (AISpeed - PlayerSpeed)) % 65536
            = ((AIDistance - PlayerDistance) + (AISpeed - PlayerSpeed)) % 65536
      BY DEF PaceInv, RaceOf!TarDistance, DistanceSpan
    <3>5. (AIDistance - PlayerDistance) + (AISpeed - PlayerSpeed)
            = (AIDistance + AISpeed) - (PlayerDistance + PlayerSpeed)
      BY DEF PaceInv
    <3> QED
      BY <3>2, <3>3, <3>4, <3>5 DEF DistanceSpan
  <2>2. PlayerCollide' \in SUBSET {"front", "left", "back", "right"}
    BY <1>1 DEF Frame, Road!FrameObstacles, Road!PlayerTouches
  <2>3. Status!FrameStatus /\ keycode_1' = keycode_1
    BY <1>1 DEF Frame, keys
  <2> QED
    BY <2>1, <2>2, <2>3 DEF Status!Next, Status!Frame
<1>2. CASE Reset
  <2>1. Status!ResetStatus /\ keycode_1' = keycode_1 /\ PlayerCollide' = PlayerCollide
    BY <1>2 DEF Reset, keys, road
  <2>2. RaceOf!TarDistance' = 180
    BY <1>2 DEF Reset, Player!ResetPlayer, RaceOf!ResetRace, RaceOf!Car_Y_Init_Dist,
                RaceOf!TarDistance, DistanceSpan
  <2> QED
    BY <2>1, <2>2 DEF Status!Next, Status!Reset
<1>3. CASE SetKey
  <2>1. /\ UNCHANGED <<PlayerCollide, GameStart, GameWin, GameLose,
                       slowClk, slow_counter, Scale>>
        /\ RaceOf!TarDistance' = RaceOf!TarDistance
    BY <1>3 DEF SetKey, player, opponent, road, status, RaceOf!TarDistance
  <2>2. keycode_1' \in Keys1 \/ keycode_1' = keycode_1
    BY <1>3 DEF SetKey, Player!SetKeycode0, Player!SetKeycode1
  <2> QED
    BY <2>1, <2>2 DEF Status!Next, Status!SetKey, Status!vars, Status!inputs,
                      Status!verdict, Status!damage
<1>4. CASE UNCHANGED vars
  BY <1>4 DEF vars, keys, player, opponent, road, status, RaceOf!TarDistance,
              Status!vars, Status!inputs, Status!verdict, Status!damage
<1> QED
  BY <1>1, <1>2, <1>3, <1>4 DEF Next

\* The verdict logic gets from the race no more than GameStatus expects: the
\* lead changes by five lines per frame at most, wherever it wraps, so all that
\* is shown of GameStatus holds in the game (Color_Mapper.sv).
THEOREM ImplementsStatus == Spec => StatusImplemented
<1>1. Init => PaceInv
  BY DEF Init, Player!InitPlayer, Player!Default_CarSpeed, RaceOf!Car_Y_Init_Dist, PaceInv
<1>2. DriverFacts!TypeOK => AISpeed \in 0 .. 5
  BY DEF DriverFacts!TypeOK
<1>3. Spec => DriverFacts!Spec
  BY ImplementsDriver, SameDriver DEF DriverImplemented
<1>4. Spec => []DriverFacts!TypeOK
  BY <1>3, DriverFacts!DriverTypeCorrect
<1> QED
  BY <1>1, <1>2, <1>4, StepPace, InitStatusOf, StepStatusOf, PTL
  DEF Spec, StatusImplemented, Status!Spec

-----------------------------------------------------------------------------
(***************************************************************************)
(* The picture: what is drawn on a pixel against what is looked up for it, *)
(* and against what the collision registers compare.                       *)
(***************************************************************************)

\* Where the cars and the lanes are: any place that the registers can hold.
PlacesInv ==
    /\ PlayerX \in 0 .. 1023 /\ PlayerY \in 0 .. 1023
    /\ PlayerXMotion \in Int /\ PlayerSpeed \in Int /\ GroundSpeed \in Int

LanesAreNumbers == \A l \in Road!Lanes : laneDistance[l] \in Int

LEMMA StepPlaces == PlacesInv /\ [Next]_vars => PlacesInv'
<1> SUFFICES ASSUME PlacesInv, [Next]_vars PROVE PlacesInv'
  OBVIOUS
<1>1. CASE Frame
  <2>1. /\ PlayerX' = (PlayerX + PlayerXMotion) % 1024
        /\ PlayerY' = (PlayerY - PlayerSpeed + GroundSpeed) % 1024
        /\ PlayerXMotion' = Player!NextXMotion
        /\ PlayerSpeed' = Player!NextSpeed /\ GroundSpeed' = Player!NextGroundSpeed
    BY <1>1 DEF Frame, Player!FramePlayer, Player!U10
  <2>2. Player!NextXMotion \in Int
    BY DEF Player!NextXMotion, Player!U10
  <2>3. Player!NextSpeed \in Int /\ Player!NextGroundSpeed \in Int
    BY DEF PlacesInv, Player!NextSpeed, Player!NextGroundSpeed, Player!Default_CarSpeed
  <2> QED
    BY <2>1, <2>2, <2>3 DEF PlacesInv
<1>2. CASE Reset
  BY <1>2 DEF Reset, Player!ResetPlayer, Player!Default_CarSpeed, PlacesInv
<1>3. CASE SetKey \/ UNCHANGED vars
  BY <1>3 DEF SetKey, vars, player, PlacesInv
<1> QED
  BY <1>1, <1>2, <1>3 DEF Next

LEMMA PlacesAlways == Spec => []PlacesInv
<1>1. Init => PlacesInv
  BY DEF Init, Player!InitPlayer, Player!Default_CarSpeed, PlacesInv
<1> QED
  BY <1>1, StepPlaces, PTL DEF Spec

LEMMA LaneNumbers == LanesInv => LanesAreNumbers
BY DEF LanesInv, LanesAreNumbers, Road!Lanes

\* The index of a pixel of the sheet fits its 16 bits and the memory's words.
LEMMA IndexFits ==
    ASSUME NEW i \in Int, 0 <= i, i <= 52923
    PROVE  (i % 65536) = i /\ i \div 4 < 16384
OBVIOUS

\* A column and a line inside a sprite are looked up inside the same sprite of
\* the sheet: the rows of the sheet are as long as its eight sprites and do not
\* run over into the next, nor does the index overflow its 16 bits.
LEMMA InSheet ==
    ASSUME NEW car \in 0 .. 7, NEW row \in 0 .. 1, NEW tx \in 0 .. 46, NEW ty \in Int
    PROVE  Picture!Belongs(Picture!PixelIdx(car, row, tx, ty), car, row)
<1> DEFINE c == car * 51 + tx
           l == row * 67 + (ty % 64)
           i == c + l * 404
<1>1. ty % 64 \in 0 .. 63 /\ tx % 64 = tx
  OBVIOUS
<1>2. Picture!PixelIdx(car, row, tx, ty) = i % 65536
  BY <1>1 DEF Picture!PixelIdx, Picture!CarSpriteX, Picture!CarSpriteY
<1>3. c \in 0 .. 403 /\ l \in 0 .. 130 /\ c - car * 51 = tx /\ l - row * 67 = ty % 64
  BY <1>1
<1> HIDE DEF c, l
<1>4. i \in Int /\ 0 <= i /\ i <= 52923 /\ l \in Int /\ i = 404 * l + c
  BY <1>3
<1> HIDE DEF i
<1>5. i % 65536 = i /\ i \div 4 < 16384
  BY <1>4, IndexFits
<1>6. c \in 0 .. 403
  BY <1>3
<1>7. i \in Int /\ l \in Int /\ i = 404 * l + c
  BY <1>4
<1>8. i % 404 = c /\ i \div 404 = l
  BY <1>6, <1>7
<1> QED
  BY <1>1, <1>2, <1>3, <1>5, <1>8 DEF Picture!Belongs, Picture!Car_XSize

\* The column before one of a box is a column of its sprite: the first column of
\* a box is not drawn.
LEMMA BoxColumn ==
    ASSUME NEW first \in Nat, NEW x \in Int, Picture!Within(x, first, Picture!Car_XSize)
    PROVE  (x - 1) - first \in 0 .. 46
BY DEF Picture!Within, Picture!Car_XSize, Picture!U10

\* Where a lane's cars are, and that the columns of their boxes, and the columns
\* before them, are drawn in that lane.
LEMMA LaneColumns ==
    ASSUME LanesAreNumbers, NEW lane \in Road!Lanes, NEW y \in Int
    PROVE  /\ Picture!CarIdx(lane, y) \in 0 .. 7
           /\ Picture!ObsX(lane, y) \in Nat
           /\ \A x \in Picture!ObsX(lane, y) .. Picture!ObsX(lane, y) + 47 :
                 Picture!LaneDrawn(x) = lane
<1> DEFINE car == (Picture!U11(y - laneDistance[lane]) \div 128) % 8
<1>1. laneDistance[lane] \in Int
  BY DEF LanesAreNumbers
<1>2. car \in 0 .. 7
  BY <1>1 DEF Picture!U11
<1> HIDE DEF car
<1>3. Picture!CarIdx(lane, y) \in 0 .. 7
  BY <1>2 DEF Picture!CarIdx, Picture!PlayerCar, Picture!AICar, car
<1> DEFINE k == Picture!CarIdx(lane, y)
<1>4. Picture!ObsX(lane, y) = Picture!LaneLeft[lane] + 12 + k
  BY DEF Picture!ObsX
<1>5. k \in 0 .. 7
  BY <1>3
<1> HIDE DEF k
<1>6. CASE lane = "LL"
  BY <1>3, <1>4, <1>5, <1>6 DEF Picture!LaneLeft, Picture!LaneDrawn
<1>7. CASE lane = "LR"
  BY <1>3, <1>4, <1>5, <1>7 DEF Picture!LaneLeft, Picture!LaneDrawn
<1>8. CASE lane = "RL"
  BY <1>3, <1>4, <1>5, <1>8 DEF Picture!LaneLeft, Picture!LaneDrawn
<1>9. CASE lane = "RR"
  BY <1>3, <1>4, <1>5, <1>9 DEF Picture!LaneLeft, Picture!LaneDrawn
<1> QED
  BY <1>6, <1>7, <1>8, <1>9 DEF Road!Lanes

\* OwnSprite for all columns and lines, not just those at the edges of a box.
OwnPixels ==
    \A x, y \in Int :
        /\ Picture!InPlayerBox(x, y) =>
               Picture!Belongs(Picture!PlayerRead(x - 1, y), Picture!PlayerCar, 0)
        /\ Picture!InAIBox(x, y) =>
               Picture!Belongs(Picture!AIRead(x - 1, y), Picture!AICar, 0)
        /\ Picture!InObsBox(x, y) =>
               Picture!Belongs(Picture!ObsRead(x - 1, y),
                               Picture!CarIdx(Picture!LaneDrawn(x), y),
                               Picture!Reverse(Picture!LaneDrawn(x)))

\* Every pixel of a car is one of its own sprite, although the memory answers
\* one pixel late: wherever the cars and the lanes are.
THEOREM SpritesAreOwn == Spec => [](OwnPixels /\ OwnSprite)
<1>1. ASSUME PlacesInv, LanesAreNumbers, AIX \in Nat, AIY \in Int PROVE OwnPixels
  <2> SUFFICES ASSUME NEW x \in Int, NEW y \in Int
               PROVE  /\ Picture!InPlayerBox(x, y) =>
                            Picture!Belongs(Picture!PlayerRead(x - 1, y), Picture!PlayerCar, 0)
                      /\ Picture!InAIBox(x, y) =>
                            Picture!Belongs(Picture!AIRead(x - 1, y), Picture!AICar, 0)
                      /\ Picture!InObsBox(x, y) =>
                            Picture!Belongs(Picture!ObsRead(x - 1, y),
                                            Picture!CarIdx(Picture!LaneDrawn(x), y),
                                            Picture!Reverse(Picture!LaneDrawn(x)))
    BY DEF OwnPixels
  <2>1. ASSUME Picture!InPlayerBox(x, y)
        PROVE  Picture!Belongs(Picture!PlayerRead(x - 1, y), Picture!PlayerCar, 0)
    <3>1. PlayerX \in Nat /\ y - PlayerY \in Int
      BY <1>1 DEF PlacesInv
    <3>2. (x - 1) - PlayerX \in 0 .. 46
      BY <2>1, <3>1, BoxColumn DEF Picture!InPlayerBox
    <3> QED
      BY <3>1, <3>2, InSheet DEF Picture!PlayerRead, Picture!PlayerCar
  <2>2. ASSUME Picture!InAIBox(x, y)
        PROVE  Picture!Belongs(Picture!AIRead(x - 1, y), Picture!AICar, 0)
    <3>1. AIX \in Nat /\ y - AIY \in Int
      BY <1>1
    <3>2. (x - 1) - AIX \in 0 .. 46
      BY <2>2, <3>1, BoxColumn DEF Picture!InAIBox
    <3> QED
      BY <3>1, <3>2, InSheet DEF Picture!AIRead, Picture!AICar
  <2>3. ASSUME Picture!InObsBox(x, y)
        PROVE  Picture!Belongs(Picture!ObsRead(x - 1, y),
                               Picture!CarIdx(Picture!LaneDrawn(x), y),
                               Picture!Reverse(Picture!LaneDrawn(x)))
    <3> DEFINE lane == Picture!LaneDrawn(x)
               left == Picture!ObsX(lane, y)
    <3>1. lane \in Road!Lanes
      BY DEF Picture!LaneDrawn, Road!Lanes
    <3>2. Picture!Within(x, left, Picture!Car_XSize)
      BY <2>3 DEF Picture!InObsBox
    <3> HIDE DEF lane
    <3>3. /\ left \in Nat /\ Picture!CarIdx(lane, y) \in 0 .. 7
          /\ \A c \in left .. left + 47 : Picture!LaneDrawn(c) = lane
      BY <1>1, <3>1, LaneColumns
    <3> HIDE DEF left
    <3>4. (x - 1) - left \in 0 .. 46
      BY <3>2, <3>3, BoxColumn
    <3>5. x - 1 \in left .. left + 47
      BY <3>3, <3>4
    <3>6. Picture!LaneDrawn(x - 1) = lane
      BY <3>3, <3>5
    <3>7. Picture!U11(y - laneDistance[lane]) \in Int /\ Picture!Reverse(lane) \in 0 .. 1
      BY <1>1, <3>1 DEF LanesAreNumbers, Picture!U11, Picture!Reverse
    <3>8. Picture!ObsRead(x - 1, y) =
             Picture!PixelIdx(Picture!CarIdx(lane, y), Picture!Reverse(lane),
                              (x - 1) - left, Picture!U11(y - laneDistance[lane]))
      BY <3>6 DEF Picture!ObsRead, left
    <3>9. Picture!Belongs(Picture!ObsRead(x - 1, y), Picture!CarIdx(lane, y),
                          Picture!Reverse(lane))
      BY <3>3, <3>4, <3>7, <3>8, InSheet
    <3> QED
      BY <3>9 DEF lane
  <2> QED
    BY <2>1, <2>2, <2>3
<1>2. ASSUME PlacesInv, LanesAreNumbers, AIX \in Nat, AIY \in Int, OwnPixels PROVE OwnSprite
  <2>1. /\ PlayerX \in Int /\ PlayerY \in Int
        /\ {PlayerY, PlayerY + 1, PlayerY + Picture!Car_YSize - 1} \subseteq Int
        /\ {AIY, AIY + 1, AIY + Picture!Car_YSize - 1} \subseteq Int
        /\ {0, 100, PlayerY} \subseteq Int
        /\ {PlayerX, PlayerX + 1, PlayerX + Picture!Car_XSize - 1} \subseteq Int
        /\ {AIX, AIX + 1, AIX + Picture!Car_XSize - 1} \subseteq Int
    BY <1>2 DEF PlacesInv, Picture!Car_YSize, Picture!Car_XSize
  <2>2. ASSUME NEW lane \in Picture!Lanes, NEW y \in {0, 100, PlayerY},
               NEW x \in {Picture!ObsX(lane, y), Picture!ObsX(lane, y) + 1,
                          Picture!ObsX(lane, y) + Picture!Car_XSize - 1},
               Picture!InObsBox(x, y)
        PROVE  Picture!Belongs(Picture!ObsRead(x - 1, y), Picture!CarIdx(lane, y),
                               Picture!Reverse(lane))
    <3> DEFINE left == Picture!ObsX(lane, y)
    <3>1. y \in Int /\ lane \in Road!Lanes
      BY <2>1 DEF Picture!Lanes, Road!Lanes
    <3>2. left \in Nat /\ \A c \in left .. left + 47 : Picture!LaneDrawn(c) = lane
      BY <1>2, <3>1, LaneColumns
    <3>3. x \in {left, left + 1, left + 47 - 1}
      BY DEF Picture!Car_XSize
    <3> HIDE DEF left
    <3>4. x \in left .. left + 47 /\ x \in Int
      BY <3>2, <3>3
    <3>5. Picture!LaneDrawn(x) = lane
      BY <3>2, <3>4
    <3> QED
      BY <1>2, <2>2, <3>1, <3>4, <3>5 DEF OwnPixels
  <2> QED
    BY <1>2, <2>1, <2>2 DEF OwnPixels, OwnSprite, Picture!OwnSprite
<1>3. Spec => []DriverFacts!TypeOK
  <2>1. Spec => DriverFacts!Spec
    BY ImplementsDriver, SameDriver DEF DriverImplemented
  <2> QED
    BY <2>1, DriverFacts!DriverTypeCorrect
<1>4. DriverFacts!TypeOK => AIX \in Nat
  BY DEF DriverFacts!TypeOK, DriverFacts!Reg10
<1>5. RaceInv => AIY \in Int
  BY DEF RaceInv
<1> QED
  BY <1>1, <1>2, <1>3, <1>4, <1>5, PlacesAlways, LanesAlways, LaneNumbers, RaceAlways, PTL

-----------------------------------------------------------------------------

\* The lines on either side of a car are in the same tile of a lane, unless the
\* car is on the lines between two tiles.
LEMMA SameTile ==
    ASSUME NEW n \in Int, Picture!U11(n) % 64 # 0
    PROVE  /\ Road!U11(n - 1) \div 64 = Picture!U11(n) \div 64
           /\ Road!U11(n + 64) \div 64 = Picture!U11(n + 63) \div 64
<1> DEFINE q == n \div 2048
           r == n % 2048
           t == r \div 64
           b == r % 64
<1>1. q \in Int /\ r \in 0 .. 2047 /\ n = 2048 * q + r
  OBVIOUS
<1>2. t \in 0 .. 31 /\ b \in 1 .. 63 /\ r = 64 * t + b
  BY <1>1 DEF Picture!U11
<1> HIDE DEF q, r, t, b
<1>3. (n - 1) % 2048 = r - 1 /\ n % 2048 = r
  BY <1>1, <1>2
<1>4. (r - 1) \div 64 = t /\ r \div 64 = t
  BY <1>2
<1>5. CASE t < 31
  <2>1. (n + 64) % 2048 = r + 64 /\ (n + 63) % 2048 = r + 63
    BY <1>1, <1>2, <1>5
  <2>2. (r + 64) \div 64 = t + 1 /\ (r + 63) \div 64 = t + 1
    BY <1>2
  <2> QED
    BY <1>3, <1>4, <2>1, <2>2 DEF Road!U11, Picture!U11
<1>6. CASE t = 31
  <2>1. (n + 64) % 2048 = r - 1984 /\ (n + 63) % 2048 = r - 1985
    BY <1>1, <1>2, <1>6
  <2>2. (r - 1984) \div 64 = 0 /\ (r - 1985) \div 64 = 0
    BY <1>2, <1>6
  <2> QED
    BY <1>3, <1>4, <2>1, <2>2 DEF Road!U11, Picture!U11
<1> QED
  BY <1>2, <1>5, <1>6

\* A pixel of a box is in the lane that the collisions look at, although the
\* borders of the lanes are not the same.
LEMMA SameLane ==
    ASSUME LanesAreNumbers, NEW x \in Int, NEW y \in Int, Picture!InObsBox(x, y)
    PROVE  /\ Picture!LaneDrawn(x) \in Road!Lanes
           /\ Road!LaneAt(x) = Picture!LaneDrawn(x)
           /\ Picture!Occupied(Picture!LaneDrawn(x), y)
<1> DEFINE lane == Picture!LaneDrawn(x)
<1>1. lane \in Road!Lanes
  BY DEF Picture!LaneDrawn, Road!Lanes
<1>2. Picture!ObsX(lane, y) \in Int /\ Picture!Within(x, Picture!ObsX(lane, y), 47)
  BY <1>1, LaneColumns DEF Picture!InObsBox, Picture!Car_XSize
<1>3. Picture!Occupied(lane, y)
  BY DEF Picture!InObsBox
<1>4. CASE x \in 235 .. 244
  <2>1. lane = "LL"
    BY <1>4 DEF Picture!LaneDrawn
  <2>2. Picture!CarIdx(lane, y) \in 0 .. 7
    BY <1>1, LaneColumns
  <2>3. Picture!ObsX(lane, y) \in 177 .. 184
    BY <2>1, <2>2 DEF Picture!ObsX, Picture!LaneLeft
  <2>4. x < (Picture!ObsX(lane, y) + 47) % 1024
    BY <1>2 DEF Picture!Within, Picture!U10
  <2> QED
    BY <1>4, <2>3, <2>4
<1>5. CASE x \notin 235 .. 244
  BY <1>1, <1>3, <1>5 DEF Road!LaneAt, Picture!LaneDrawn
<1> QED
  BY <1>4, <1>5

\* No other car slips through the player's, wherever the cars and the lanes are:
\* where one is seen on a corner of what is left of his box, the collision
\* registers hear of it in the same frame.
THEOREM WhatIsSeenIsFelt == Spec => SeenIsFelt
<1> DEFINE Felt(x) ==
              \/ PlayerCollide' # {}
              \/ U11(PlayerY + 1 - laneDistance[Picture!LaneDrawn(x)]) % 64 = 0
           AllFelt ==
              Frame =>
                \A x \in {PlayerX + 9, PlayerX + Road!Car_XSize - 9},
                   y \in {PlayerY + 1, PlayerY + Road!Car_YSize - 1} :
                    Picture!InPlayerBox(x, y) /\ Picture!InObsBox(x, y) => Felt(x)
<1>1. ASSUME PlacesInv, LanesAreNumbers, Frame,
             NEW x \in {PlayerX + 9, PlayerX + 38}, NEW y \in {PlayerY + 1, PlayerY + 64},
             Picture!InPlayerBox(x, y), Picture!InObsBox(x, y)
      PROVE  Felt(x)
  <2> DEFINE lane == Picture!LaneDrawn(x)
             n == PlayerY + 1 - laneDistance[lane]
  <2>1. PlayerX \in 0 .. 1023 /\ PlayerY \in 0 .. 1023 /\ x \in Int /\ y \in Int
    BY <1>1 DEF PlacesInv
  <2>2. /\ lane \in Road!Lanes /\ Road!LaneAt(x) = lane /\ Picture!Occupied(lane, y)
    BY <1>1, <2>1, SameLane
  <2>3. /\ PlayerX < x /\ x < (PlayerX + 47) % 1024
        /\ PlayerY < y /\ y < (PlayerY + 65) % 1024
    BY <1>1 DEF Picture!InPlayerBox, Picture!Within, Picture!U10, Picture!Car_XSize,
                Picture!Car_YSize
  <2>4. /\ (PlayerX + 9) % 1024 = PlayerX + 9 /\ (PlayerX + 38) % 1024 = PlayerX + 38
        /\ (PlayerY + 65) % 1024 = PlayerY + 65
    BY <2>1, <2>3
  <2>5. Road!LeftLane = Road!LaneAt(PlayerX + 9) /\ Road!RightLane = Road!LaneAt(PlayerX + 38)
    <3>1. /\ PlayerX - 3 + 12 = PlayerX + 9 /\ PlayerX + 47 + 3 - 12 = PlayerX + 38
      BY <2>1
    <3> QED
      BY <2>4, <3>1 DEF Road!LeftLane, Road!RightLane, Road!U10, Road!Car_XSize,
                        Road!PlayerCollideBox
  <2>6. PlayerCollide' = Road!PlayerTouches
    BY <1>1 DEF Frame, Road!FrameObstacles
  <2>7. ASSUME Road!Occupied(lane, PlayerY) \/ Road!Occupied(lane, PlayerY + 65)
        PROVE  PlayerCollide' # {}
    <3>1. Road!U10(PlayerY + Road!Car_YSize) = PlayerY + 65
      BY <2>4 DEF Road!U10, Road!Car_YSize
    <3>2. CASE x = PlayerX + 9
      <4>1. "left" \in Road!PlayerTouches
        BY <2>2, <2>5, <2>7, <3>1, <3>2 DEF Road!PlayerTouches
      <4> QED
        BY <2>6, <4>1
    <3>3. CASE x = PlayerX + 38
      <4>1. "right" \in Road!PlayerTouches
        BY <2>2, <2>5, <2>7, <3>1, <3>3 DEF Road!PlayerTouches
      <4> QED
        BY <2>6, <4>1
    <3> QED
      BY <1>1, <3>2, <3>3
  <2>8. laneDistance[lane] \in Int /\ n \in Int
    BY <1>1, <2>1, <2>2 DEF LanesAreNumbers
  <2>9. CASE U11(n) % 64 = 0
    BY <2>9
  <2>10. CASE U11(n) % 64 # 0
    <3>1. /\ Road!U11(n - 1) \div 64 = Picture!U11(n) \div 64
          /\ Road!U11(n + 64) \div 64 = Picture!U11(n + 63) \div 64
      <4>1. Picture!U11(n) % 64 # 0
        BY <2>10 DEF U11, Picture!U11
      <4> QED
        BY <2>8, <4>1, SameTile
    <3>2. /\ n - 1 = PlayerY - laneDistance[lane]
          /\ n + 64 = (PlayerY + 65) - laneDistance[lane]
          /\ n + 63 = PlayerY + 64 - laneDistance[lane]
      BY <2>1, <2>8
    <3>3. Road!Occupied(lane, PlayerY) \/ Road!Occupied(lane, PlayerY + 65)
      <4>9. Picture!Track = Road!Track
        BY DEF Picture!Track, Road!Track
      <4>10. Picture!U11(y - laneDistance[lane]) \div 64 \in Picture!Track[lane]
        BY <2>2 DEF Picture!Occupied
      <4>1. CASE y = PlayerY + 1
        <5>1. y - laneDistance[lane] = n
          BY <2>1, <2>8, <4>1
        <5>2. Picture!U11(n) \div 64 \in Road!Track[lane]
          BY <4>9, <4>10, <5>1
        <5>3. Road!U11(PlayerY - laneDistance[lane]) \div 64 \in Road!Track[lane]
          BY <3>1, <3>2, <5>2
        <5>4. Road!Occupied(lane, PlayerY)
          BY <5>3 DEF Road!Occupied
        <5> QED
          BY <5>4
      <4>2. CASE y = PlayerY + 64
        <5>1. y - laneDistance[lane] = n + 63
          BY <2>1, <2>8, <3>2, <4>2
        <5>2. Picture!U11(n + 63) \div 64 \in Road!Track[lane]
          BY <4>9, <4>10, <5>1
        <5>3. Road!U11((PlayerY + 65) - laneDistance[lane]) \div 64 \in Road!Track[lane]
          BY <3>1, <3>2, <5>2
        <5>4. Road!Occupied(lane, PlayerY + 65)
          BY <5>3 DEF Road!Occupied
        <5> QED
          BY <5>4
      <4> QED
        BY <1>1, <4>1, <4>2
    <3> QED
      BY <2>7, <3>3
  <2> QED
    BY <2>9, <2>10
<1>2. PlacesInv /\ LanesAreNumbers => AllFelt
  <2> SUFFICES ASSUME PlacesInv, LanesAreNumbers, Frame,
                      NEW x \in {PlayerX + 9, PlayerX + Road!Car_XSize - 9},
                      NEW y \in {PlayerY + 1, PlayerY + Road!Car_YSize - 1},
                      Picture!InPlayerBox(x, y), Picture!InObsBox(x, y)
               PROVE  Felt(x)
    OBVIOUS
  <2>1. x \in {PlayerX + 9, PlayerX + 38} /\ y \in {PlayerY + 1, PlayerY + 64}
    BY DEF Road!Car_XSize, Road!Car_YSize, PlacesInv
  <2> QED
    BY <1>1, <2>1
<1> HIDE DEF AllFelt
<1>3. Spec => [][AllFelt]_vars
  BY <1>2, PlacesAlways, LanesAlways, LaneNumbers, PTL DEF Spec
<1> QED
  BY <1>3 DEF SeenIsFelt, AllFelt


-----------------------------------------------------------------------------
(***************************************************************************)
(* The player's car in the game.                                           *)
(***************************************************************************)

\* Nothing in the game moves the player's car but the keys and the button:
\* every behaviour of the game is one of playerLogic.sv on its own.
PlayerImplemented == Player!Spec

\* The connections of Color_Mapper.sv leave playerLogic.sv as it is alone: step
\* simulation, so that all that is shown of PlayerLogic holds in the game.
THEOREM ImplementsPlayer == Spec => PlayerImplemented
<1>1. Init => Player!Init
  BY DEF Init, Player!Init, Player!NoKey
<1>2. Frame => Player!Frame
  BY DEF Frame, Player!Frame, keys, Player!keys
<1>3. Reset => Player!Reset
  BY DEF Reset, Player!Reset, keys, Player!keys
<1>4. SetKey => Player!SetKey
  BY DEF SetKey, Player!SetKey, player, Player!playerRegs
<1>5. UNCHANGED vars => UNCHANGED Player!vars
  BY DEF vars, keys, player, Player!vars, Player!keys, Player!playerRegs
<1>6. [Next]_vars => [Player!Next]_(Player!vars)
  BY <1>2, <1>3, <1>4, <1>5 DEF Next, Player!Next
<1> QED
  BY <1>1, <1>6, PTL DEF Spec, PlayerImplemented, Player!Spec

PlayerFacts == INSTANCE PlayerLogicProofs WITH
    Car_X_Init <- 336, Car_X_Min <- 145, Car_X_Max <- 495, Car_XSize <- 47,
    Car_Y_Init <- 315, Car_Y_Min <- 0, Car_Y_Max <- 479, Car_YSize <- 67

LEMMA SamePlayer == Player!Spec => PlayerFacts!Spec
<1>1. Player!Init => PlayerFacts!Init
  BY DEF Player!Init, PlayerFacts!Init, Player!InitPlayer, PlayerFacts!InitPlayer,
         Player!Default_CarSpeed, PlayerFacts!Default_CarSpeed, Player!NoKey,
         PlayerFacts!NoKey
<1>2. [Player!Next]_(Player!vars) => [PlayerFacts!Next]_(PlayerFacts!vars)
  BY Zenon
  DEF Player!Next, PlayerFacts!Next, Player!vars, PlayerFacts!vars, Player!keys,
      PlayerFacts!keys, Player!playerRegs, PlayerFacts!playerRegs,
      Player!Frame, PlayerFacts!Frame, Player!FramePlayer, PlayerFacts!FramePlayer,
      Player!Reset, PlayerFacts!Reset, Player!ResetPlayer, PlayerFacts!ResetPlayer,
      Player!SetKey, PlayerFacts!SetKey, Player!SetKeycode0, PlayerFacts!SetKeycode0,
      Player!SetKeycode1, PlayerFacts!SetKeycode1, Player!NextSpeed,
      PlayerFacts!NextSpeed, Player!NextXMotion, PlayerFacts!NextXMotion,
      Player!NextGroundSpeed, PlayerFacts!NextGroundSpeed, Player!AtTop,
      PlayerFacts!AtTop, Player!AtBottom, PlayerFacts!AtBottom, Player!TopStrip,
      PlayerFacts!TopStrip, Player!BottomMargin, PlayerFacts!BottomMargin,
      Player!Default_CarSpeed, PlayerFacts!Default_CarSpeed, Player!KeyA,
      PlayerFacts!KeyA, Player!KeyD, PlayerFacts!KeyD, Player!KeyS,
      PlayerFacts!KeyS, Player!KeyW, PlayerFacts!KeyW, Player!U10, PlayerFacts!U10
<1> QED
  BY <1>1, <1>2, PTL DEF Player!Spec, PlayerFacts!Spec

\* What the road, the screen and the key registers are in the game meets the
\* assumptions that playerLogic.sv alone needs.
LEMMA PlayerAssumptions ==
    /\ PlayerFacts!RoadAssumption /\ PlayerFacts!ScreenAssumption
    /\ PlayerFacts!KeyAssumption
<1>1. PlayerFacts!RoadAssumption
  BY DEF PlayerFacts!RoadAssumption
<1>2. PlayerFacts!ScreenAssumption
  BY DEF PlayerFacts!ScreenAssumption, PlayerFacts!TopStrip, PlayerFacts!BottomMargin
<1>3. PlayerFacts!KeyAssumption
  BY KeyAssumption DEF PlayerFacts!KeyAssumption, PlayerFacts!NoKey, DistanceSpan
<1> QED
  BY <1>1, <1>2, <1>3

\* Where the cars can be on the screen of the game.
CarsInPlace ==
    /\ PlayerX \in 142 .. 451 /\ PlayerY \in 157 .. 395
    /\ AIX \in 325 .. 448

\* The player's car stays between columns 142 and 451 and lines 157 and 395, and
\* the opponent's in the two lanes of its carriageway, in games of any length: no
\* sum of playerLogic.sv or aiLogic.sv that places a car wraps.
THEOREM CarsStayInPlace == Spec => []CarsInPlace
<1>1. Spec => PlayerFacts!Spec
  BY ImplementsPlayer, SamePlayer DEF PlayerImplemented
<1>2. Spec => []PlayerFacts!OnRoad /\ []PlayerFacts!OnScreen /\ []PlayerFacts!TypeOK
  BY <1>1, PlayerAssumptions, PlayerFacts!StaysOnRoad, PlayerFacts!StaysOnScreen,
     PlayerFacts!TypeCorrect
<1>3. Spec => []DriverFacts!OnCarriageway /\ []DriverFacts!TypeOK
  BY ImplementsDriver, SameDriver, DriverFacts!KeepsToCarriageway,
     DriverFacts!DriverTypeCorrect DEF DriverImplemented
<1>4. ASSUME PlayerFacts!OnRoad, PlayerFacts!OnScreen, PlayerFacts!TypeOK,
             DriverFacts!OnCarriageway, DriverFacts!TypeOK
      PROVE  CarsInPlace
  BY <1>4
  DEF PlayerFacts!OnRoad, PlayerFacts!OnScreen, PlayerFacts!TypeOK,
      PlayerFacts!TopStrip, PlayerFacts!BottomMargin, PlayerFacts!Reg10,
      DriverFacts!OnCarriageway, DriverFacts!TypeOK, DriverFacts!Car_X_Min,
      DriverFacts!Car_X_Max, DriverFacts!Car_XSize, DriverFacts!Reg10, CarsInPlace
<1> QED
  BY <1>2, <1>3, <1>4, PTL

\* What is shown of the verdict for every setting of its gaps and clocks holds in
\* the game.  (The observers of MCGameStatus play no part in it.)
StatusFacts == INSTANCE GameStatusProofs WITH
    SlowLast <- 15, ScaleMax <- 7, WinGap <- 65, LoseGap <- 32767,
    StartGap <- 180, GapSpan <- DistanceSpan, GapStep <- 5,
    TarDistance <- RaceOf!TarDistance,
    Collisions <- SUBSET {"front", "left", "back", "right"},
    MaxPassed <- 0, MaxLead <- 0, lead <- 0, quiet <- TRUE, onFor <- 0, damagedFor <- 0

LEMMA StatusAssumptions ==
    StatusFacts!StatusAssumption /\ StatusFacts!CollisionAssumption
<1>1. StatusFacts!StatusAssumption
  BY KeyAssumption DEF StatusFacts!StatusAssumption, DistanceSpan
<1>2. StatusFacts!CollisionAssumption
  BY DEF StatusFacts!CollisionAssumption, StatusFacts!Side
<1> QED
  BY <1>1, <1>2

LEMMA SameStatus == Status!Spec => StatusFacts!Spec
<1>1. Status!Init => StatusFacts!Init
  BY DEF Status!Init, StatusFacts!Init, Status!InitStatus, StatusFacts!InitStatus
<1>2. Status!NextVerdict = StatusFacts!NextVerdict
  BY SMT DEF Status!NextVerdict, StatusFacts!NextVerdict
<1>3. Status!NextSlow = StatusFacts!NextSlow /\ Status!NextScale = StatusFacts!NextScale
  BY SMT
  DEF Status!NextSlow, StatusFacts!NextSlow, Status!NextScale, StatusFacts!NextScale,
      Status!ScaleAfter, StatusFacts!ScaleAfter, Status!RisingSlowEdge,
      StatusFacts!RisingSlowEdge, Status!SlowEdge, StatusFacts!SlowEdge
<1>4. Status!Frame => StatusFacts!Frame
  BY <1>2, <1>3, SMT
  DEF Status!Frame, StatusFacts!Frame, Status!FrameStatus, StatusFacts!FrameStatus
<1>5. Status!SetKey => StatusFacts!SetKey
  BY SMT
  DEF Status!SetKey, StatusFacts!SetKey, Status!verdict, StatusFacts!verdict,
      Status!damage, StatusFacts!damage
<1>6. Status!Reset => StatusFacts!Reset
  BY SMT
  DEF Status!Reset, StatusFacts!Reset, Status!ResetStatus, StatusFacts!ResetStatus
<1>7. UNCHANGED Status!vars => UNCHANGED StatusFacts!vars
  BY SMT
  DEF Status!vars, StatusFacts!vars, Status!inputs, StatusFacts!inputs,
      Status!verdict, StatusFacts!verdict, Status!damage, StatusFacts!damage
<1>8. [Status!Next]_(Status!vars) => [StatusFacts!Next]_(StatusFacts!vars)
  BY <1>4, <1>5, <1>6, <1>7 DEF Status!Next, StatusFacts!Next
<1> QED
  BY <1>1, <1>8, PTL DEF Status!Spec, StatusFacts!Spec

\* In the game a loss stands without a key, a win is only taken back by the
\* distance, and nobody both wins and loses: what the cars, the road and the
\* keys do to the verdict is within what Color_Mapper.sv is prepared for.
THEOREM VerdictsStandInGame == Spec => StatusFacts!VerdictStands
<1>1. Spec => StatusFacts!Spec
  BY ImplementsStatus, SameStatus DEF StatusImplemented
<1> QED
  BY <1>1, StatusAssumptions, StatusFacts!VerdictsStand

-----------------------------------------------------------------------------

\* The registers that no component alone has.
SharedTypes ==
    /\ AIDistance \in 0 .. DistanceSpan - 1 /\ AIY \in Reg10
    /\ laneDistance \in [Road!Lanes -> Reg11] /\ Distance \in Reg11
    /\ beenReset \in BOOLEAN

LEMMA Width16 ==
    ASSUME NEW n \in Int PROVE n % DistanceSpan \in 0 .. DistanceSpan - 1
<1>1. \A m \in Int, k \in Nat \ {0} : m % k \in 0 .. k - 1
  BY SMT
<1>2. DistanceSpan \in Nat \ {0}
  BY SMT DEF DistanceSpan
<1> QED
  BY <1>1, <1>2, SMT

LEMMA InitShared == Init => SharedTypes
<1> SUFFICES ASSUME Init PROVE SharedTypes
  OBVIOUS
<1>1. AIDistance \in 0 .. DistanceSpan - 1 /\ AIY \in Reg10
  BY PowerUpAssumption DEF Init, RaceOf!Car_Y_Init_Dist, DistanceSpan, Reg10
<1>2. laneDistance \in [Road!Lanes -> Reg11]
  BY DEF Init, Road!InitObstacles, Reg11
<1>3. Distance \in Reg11
  BY DEF Init, Reg11
<1>4. beenReset \in BOOLEAN
  BY DEF Init
<1> QED
  BY <1>1, <1>2, <1>3, <1>4 DEF SharedTypes

LEMMA StepShared ==
    ASSUME SharedTypes, GroundSpeed \in Int, AISpeed \in Int, [Next]_vars
    PROVE  SharedTypes'
<1>1. CASE Frame
  <2>1. AIDistance' \in 0 .. DistanceSpan - 1
    <3>1. AIDistance' = (AIDistance + AISpeed) % DistanceSpan
      BY <1>1 DEF Frame, RaceOf!FrameRace
    <3>2. AIDistance + AISpeed \in Int
      BY DEF SharedTypes
    <3> QED
      BY <3>1, <3>2, Width16
  <2>2. AIY' \in Reg10
    <3>1. AIY' = (AIY - ((AISpeed - GroundSpeed) % 1024)) % 1024
      BY <1>1 DEF Frame, RaceOf!FrameRace, RaceOf!U10
    <3>2. AIY - ((AISpeed - GroundSpeed) % 1024) \in Int
      BY DEF SharedTypes, Reg10
    <3> QED
      BY <3>1, <3>2 DEF Reg10
  <2>3. laneDistance' \in [Road!Lanes -> Reg11]
    <3>1. /\ laneDistance.LL \in Int /\ laneDistance.LR \in Int
          /\ laneDistance.RL \in Int /\ laneDistance.RR \in Int
      <4>1. laneDistance \in [{"LL", "LR", "RL", "RR"} -> Reg11]
        BY DEF SharedTypes, Road!Lanes
      <4>2. \A n \in Reg11 : n \in Int
        BY DEF Reg11
      <4> QED
        BY <4>1, <4>2
    <3>2. laneDistance' = Road!Scrolled
      BY <1>1 DEF Frame, Road!FrameObstacles
    <3>3. \A n \in Int : Road!U11(n) \in Reg11
      BY DEF Road!U11, Reg11
    <3>4. /\ Road!RelativeSpeed.LL \in Int /\ Road!RelativeSpeed.LR \in Int
          /\ Road!RelativeSpeed.RL \in Int /\ Road!RelativeSpeed.RR \in Int
      BY DEF Road!RelativeSpeed, Road!U11
    <3>5. Road!Scrolled \in [{"LL", "LR", "RL", "RR"} -> Reg11]
      BY <3>1, <3>3, <3>4 DEF Road!Scrolled
    <3> QED
      BY <3>2, <3>5 DEF Road!Lanes
  <2>4. Distance' \in Reg11
    BY <1>1 DEF Frame, SharedTypes, Reg11, U11
  <2> QED
    BY <1>1, <2>1, <2>2, <2>3, <2>4 DEF Frame, SharedTypes
<1>2. CASE Reset
  <2>1. AIDistance' = 180 /\ AIY' = U10(135)
    BY <1>2 DEF Reset, RaceOf!ResetRace, Player!ResetPlayer, RaceOf!Car_Y_Init_Dist,
                RaceOf!U10, U10
  <2>2. AIDistance' \in 0 .. DistanceSpan - 1 /\ AIY' \in Reg10
    BY <2>1 DEF DistanceSpan, U10, Reg10
  <2> QED
    BY <1>2, <2>2 DEF Reset, road, SharedTypes
<1>3. CASE SetKey \/ UNCHANGED vars
  BY <1>3 DEF SetKey, vars, opponent, road, SharedTypes
<1> QED
  BY <1>1, <1>2, <1>3 DEF Next

\* Every register of the game keeps its width and its own range of values, in
\* games of any length.
THEOREM GameTypes == Spec => []TypeOK
<1>1. Spec => []PlayerFacts!TypeOK
  BY ImplementsPlayer, SamePlayer, PlayerAssumptions, PlayerFacts!TypeCorrect
  DEF PlayerImplemented
<1>2. Spec => []DriverFacts!TypeOK
  BY ImplementsDriver, SameDriver, DriverFacts!DriverTypeCorrect DEF DriverImplemented
<1>3. Spec => []StatusFacts!TypeOK
  BY ImplementsStatus, SameStatus, StatusAssumptions, StatusFacts!StatusTypes
  DEF StatusImplemented
<1>4. PlayerFacts!TypeOK => GroundSpeed \in Int
  BY DEF PlayerFacts!TypeOK
<1>5. DriverFacts!TypeOK => AISpeed \in Int
  BY DEF DriverFacts!TypeOK
<1>6. SharedTypes /\ GroundSpeed \in Int /\ AISpeed \in Int /\ [Next]_vars => SharedTypes'
  BY StepShared
<1>7. Spec => []SharedTypes
  BY <1>1, <1>2, <1>4, <1>5, <1>6, InitShared, PTL DEF Spec
<1>8. PlayerFacts!TypeOK => Player!TypeOK
  BY DEF PlayerFacts!TypeOK, Player!TypeOK, PlayerFacts!Reg10, Player!Reg10,
         PlayerFacts!U10, Player!U10
<1>9. DriverFacts!TypeOK => Driver!TypeOK
  BY DEF DriverFacts!TypeOK, Driver!TypeOK, DriverFacts!Reg10, Driver!Reg10,
         DriverFacts!U10, Driver!U10, DriverFacts!State, Driver!State,
         DriverFacts!Sensor, Driver!Sensor
<1>10. StatusFacts!TypeOK => Status!TypeOK
  BY DEF StatusFacts!TypeOK, Status!TypeOK, StatusFacts!Side, Status!Side
<1>11. Player!TypeOK /\ Driver!TypeOK /\ Status!TypeOK /\ SharedTypes => TypeOK
  BY DEF SharedTypes, TypeOK
<1> QED
  BY <1>1, <1>2, <1>3, <1>7, <1>8, <1>9, <1>10, <1>11, PTL

====
