------------------------- MODULE PlayerLogicProofs -------------------------
(***************************************************************************)
(* What PlayerLogic guarantees for every road, every screen and every pair *)
(* of key sets that satisfy its assumptions.                               *)
(***************************************************************************)
EXTENDS PlayerLogic, TLAPS

\* A small negative value is stored as its two's complement.
LEMMA U10Negative == ASSUME NEW n \in -1024 .. -1 PROVE U10(n) = n + 1024
BY DEF U10

\* The motion that the code writes as -2.
LEMMA MinusTwo == U10(-2) = 1022
BY U10Negative

\* OnRoad bounds PlayerX together with the motion that is still to be added,
\* and so it is inductive once the registers have their widths.
RoadInv == TypeOK /\ OnRoad

\* OnScreen alone is not inductive.  What the code really preserves is the sum
\* PlayerY + GroundSpeed while the road has taken over the car's speed; the
\* other parts say which pairs of speeds occur away from the edges.
ScreenInv ==
    /\ PlayerY + GroundSpeed >= Car_Y_Min + TopStrip + 2
    /\ PlayerY + GroundSpeed + Car_YSize + BottomMargin <= Car_Y_Max + 4
    /\ GroundSpeed < 3 => PlayerSpeed <= GroundSpeed + 1
    /\ PlayerSpeed = 1 => GroundSpeed <= 3
    /\ GroundSpeed > 3 => PlayerY <= Car_Y_Min + TopStrip + 3

IInv == RoadInv /\ ScreenInv

LEMMA InitIInv == Init => IInv
<1> SUFFICES ASSUME Init PROVE IInv
  OBVIOUS
<1> USE DEF Init, InitPlayer
<1>1. TypeOK
  <2>1. PlayerX \in Reg10 /\ PlayerY \in Reg10
    BY RoadAssumption, ScreenAssumption DEF Reg10, TopStrip, BottomMargin
  <2>2. keycode_0 \in Keys0 /\ keycode_1 \in Keys1
    BY KeyAssumption
  <2>3. PlayerDistance \in 0 .. DistanceSpan - 1
    BY KeyAssumption
  <2> QED
    BY <2>1, <2>2, <2>3 DEF TypeOK, Default_CarSpeed
<1>2. OnRoad
  BY RoadAssumption, MinusTwo DEF OnRoad
<1>3. ScreenInv
  BY ScreenAssumption DEF ScreenInv, Default_CarSpeed, TopStrip, BottomMargin
<1> QED
  BY <1>1, <1>2, <1>3 DEF IInv, RoadInv

\* Modular arithmetic is only needed to know that it does nothing: as long as
\* the invariant holds, no sum of a frame leaves the range of its register.
LEMMA NoWrap ==
    ASSUME IInv
    PROVE  /\ U10(PlayerY + Car_YSize + BottomMargin)
                = PlayerY + Car_YSize + BottomMargin
           /\ U10(PlayerX + Car_XSize) = PlayerX + Car_XSize
           /\ U10(PlayerY - PlayerSpeed + GroundSpeed)
                = PlayerY - PlayerSpeed + GroundSpeed
           /\ PlayerXMotion = 0 => U10(PlayerX + PlayerXMotion) = PlayerX
           /\ PlayerXMotion = 2 => U10(PlayerX + PlayerXMotion) = PlayerX + 2
           /\ PlayerXMotion = U10(-2)
                => U10(PlayerX + PlayerXMotion) = PlayerX - 2
BY RoadAssumption, ScreenAssumption
   DEF IInv, RoadInv, ScreenInv, TypeOK, OnRoad, Reg10, U10, TopStrip,
       BottomMargin

\* The road part: one frame.
LEMMA FrameRoad ==
    ASSUME IInv, Frame
    PROVE  /\ PlayerX' \in Reg10 /\ PlayerXMotion' \in {0, 2, U10(-2)}
           /\ OnRoad'
<1>1. PlayerXMotion' = NextXMotion /\ PlayerX' = U10(PlayerX + PlayerXMotion)
  BY DEF Frame, FramePlayer
<1>2. /\ NextXMotion \in {0, 2, U10(-2)}
      /\ NextXMotion = U10(-2) => PlayerX > Car_X_Min
      /\ NextXMotion = 2 => PlayerX + Car_XSize < Car_X_Max
  <2>1. U10(PlayerX + Car_XSize) = PlayerX + Car_XSize
    BY NoWrap
  <2> QED
    BY <2>1, MinusTwo DEF NextXMotion, KeyA, KeyD
<1>3. \/ PlayerXMotion = 0 /\ PlayerX' = PlayerX
      \/ PlayerXMotion = 2 /\ PlayerX' = PlayerX + 2
      \/ PlayerXMotion = U10(-2) /\ PlayerX' = PlayerX - 2
  BY <1>1, NoWrap DEF IInv, RoadInv, TypeOK
<1> QED
  BY <1>1, <1>2, <1>3, RoadAssumption
     DEF IInv, RoadInv, TypeOK, OnRoad, Reg10, U10

\* The screen part: one frame.
LEMMA FrameScreen ==
    ASSUME IInv, Frame
    PROVE  /\ PlayerY' \in Reg10
           /\ PlayerSpeed' \in 1 .. 5 /\ GroundSpeed' \in 1 .. 5
           /\ ScreenInv'
<1> DEFINE Bottom == PlayerY + Car_YSize + BottomMargin >= Car_Y_Max
<1>1. AtBottom <=> Bottom
  BY NoWrap DEF AtBottom
<1>2. PlayerY' = PlayerY - PlayerSpeed + GroundSpeed
  BY NoWrap DEF Frame, FramePlayer
<1>3. \/ /\ GroundSpeed' = PlayerSpeed
         /\ \/ Bottom /\ PlayerSpeed <= 2
            \/ AtTop /\ PlayerSpeed >= 2
      \/ /\ GroundSpeed' = 3
         /\ ~Bottom \/ PlayerSpeed >= 3
         /\ ~AtTop \/ PlayerSpeed = 1
  BY <1>1 DEF Frame, FramePlayer, NextGroundSpeed, Default_CarSpeed, IInv,
              RoadInv, TypeOK
<1>4. /\ PlayerSpeed' \in 1 .. 5
      /\ PlayerSpeed' <= PlayerSpeed + 1
      /\ PlayerSpeed' = 1 => Bottom \/ PlayerSpeed = 1
  <2>1. PlayerSpeed' = NextSpeed /\ PlayerSpeed \in 1 .. 5
    BY DEF Frame, FramePlayer, IInv, RoadInv, TypeOK
  <2>2. CASE keycode_1 = KeyS
    BY <1>1, <2>1, <2>2 DEF NextSpeed, Default_CarSpeed
  <2>3. CASE keycode_1 = KeyW
    BY <2>1, <2>3 DEF NextSpeed, KeyS, KeyW
  <2>4. CASE keycode_1 # KeyS /\ keycode_1 # KeyW
    BY <2>1, <2>4 DEF NextSpeed, Default_CarSpeed
  <2> QED
    BY <2>2, <2>3, <2>4
<1>5. /\ PlayerY \in Int /\ PlayerSpeed \in 1 .. 5 /\ GroundSpeed \in 1 .. 5
      /\ ScreenInv
  BY DEF IInv, RoadInv, TypeOK, Reg10
<1>6. GroundSpeed' \in 1 .. 5
  BY <1>3, <1>5
<1> USE ScreenAssumption DEF ScreenInv, TopStrip, BottomMargin, AtTop
<1>7. /\ PlayerY' + GroundSpeed' >= Car_Y_Min + TopStrip + 2
      /\ PlayerY' + GroundSpeed' + Car_YSize + BottomMargin <= Car_Y_Max + 4
  <2>1. CASE GroundSpeed' = PlayerSpeed
    BY <1>2, <1>5, <2>1
  <2>2. CASE GroundSpeed' = 3 /\ PlayerSpeed >= 3
    BY <1>2, <1>3, <1>5, <2>2
  <2>3. CASE GroundSpeed' = 3 /\ ~Bottom /\ PlayerSpeed <= 2
    BY <1>2, <1>3, <1>5, <2>3
  <2> QED
    BY <1>3, <1>5, <2>1, <2>2, <2>3
<1>8. GroundSpeed' < 3 => PlayerSpeed' <= GroundSpeed' + 1
  BY <1>3, <1>4, <1>5
<1>9. PlayerSpeed' = 1 => GroundSpeed' <= 3
  BY <1>3, <1>4, <1>5
<1>10. GroundSpeed' > 3 => PlayerY' <= Car_Y_Min + TopStrip + 3
  BY <1>2, <1>3, <1>5
<1>11. PlayerY' \in Reg10
  BY <1>2, <1>5, <1>6, <1>7 DEF Reg10
<1> QED
  BY <1>4, <1>6, <1>7, <1>8, <1>9, <1>10, <1>11

LEMMA FrameIInv == ASSUME IInv, Frame PROVE IInv'
<1>1. keycode_0' \in Keys0 /\ keycode_1' \in Keys1
  BY DEF Frame, keys, IInv, RoadInv, TypeOK
<1>2. PlayerDistance' \in 0 .. DistanceSpan - 1
  BY KeyAssumption DEF Frame, FramePlayer, IInv, RoadInv, TypeOK
<1> QED
  BY <1>1, <1>2, FrameRoad, FrameScreen DEF IInv, RoadInv, TypeOK

\* The reset button leaves the registers as they were at power-up, and the
\* firmware only changes the key codes.
LEMMA OtherIInv ==
    ASSUME IInv, Reset \/ SetKey \/ UNCHANGED vars PROVE IInv'
<1>1. CASE Reset
  <2>1. (keycode_0 \in Keys0 /\ keycode_1 \in Keys1)'
    BY <1>1 DEF Reset, keys, IInv, RoadInv, TypeOK
  <2>2. (PlayerX \in Reg10 /\ PlayerY \in Reg10)'
    BY <1>1, RoadAssumption, ScreenAssumption
       DEF Reset, ResetPlayer, Reg10, TopStrip, BottomMargin
  <2>3. (PlayerDistance \in 0 .. DistanceSpan - 1)'
    BY <1>1, KeyAssumption DEF Reset, ResetPlayer
  <2>4. OnRoad'
    BY <1>1, RoadAssumption, MinusTwo DEF Reset, ResetPlayer, OnRoad
  <2>5. ScreenInv'
    BY <1>1, ScreenAssumption
       DEF Reset, ResetPlayer, ScreenInv, Default_CarSpeed, TopStrip,
           BottomMargin
  <2>6. /\ PlayerXMotion' = 0
        /\ PlayerSpeed' = 3 /\ GroundSpeed' = 3
    BY <1>1 DEF Reset, ResetPlayer, Default_CarSpeed
  <2> QED
    BY <2>1, <2>2, <2>3, <2>4, <2>5, <2>6 DEF IInv, RoadInv, TypeOK
<1>2. CASE SetKey
  BY <1>2 DEF SetKey, SetKeycode0, SetKeycode1, playerRegs, IInv, RoadInv,
              ScreenInv, TypeOK, OnRoad
<1>3. CASE UNCHANGED vars
  BY <1>3 DEF vars, keys, playerRegs, IInv, RoadInv, ScreenInv, TypeOK, OnRoad
<1> QED
  BY <1>1, <1>2, <1>3

\* Every register keeps to its range: speeds are 1 to 5 and no motion other
\* than -2, 0 and 2 ever reaches the adder.
THEOREM TypeCorrect == Spec => []TypeOK
<1>1. IInv /\ [Next]_vars => IInv'
  BY FrameIInv, OtherIInv DEF Next
<1>2. IInv => TypeOK
  BY DEF IInv, RoadInv
<1> QED
  BY InitIInv, <1>1, <1>2, PTL DEF Spec

\* On every road the car overshoots each side by at most three pixels.
THEOREM StaysOnRoad == Spec => []OnRoad
<1>1. IInv /\ [Next]_vars => IInv'
  BY FrameIInv, OtherIInv DEF Next
<1>2. IInv => OnRoad
  BY DEF IInv, RoadInv
<1> QED
  BY InitIInv, <1>1, <1>2, PTL DEF Spec

\* On every screen the car stays between the first and the last line, however
\* late the road takes over its speed.
THEOREM StaysOnScreen == Spec => []OnScreen
<1>1. IInv /\ [Next]_vars => IInv'
  BY FrameIInv, OtherIInv DEF Next
<1>2. IInv => OnScreen
  BY ScreenAssumption
     DEF IInv, RoadInv, ScreenInv, TypeOK, Reg10, OnScreen, TopStrip,
         BottomMargin
<1> QED
  BY InitIInv, <1>1, <1>2, PTL DEF Spec

\* In the top strip a frame hands the car's speed to the road, which preserves
\* PlayerY + GroundSpeed: the car can never come back out.
LEMMA PinnedFrame == ASSUME IInv, Pinned, Frame PROVE Pinned'
<1>1. /\ PlayerY \in Int /\ PlayerSpeed \in 1 .. 5 /\ GroundSpeed \in 1 .. 5
      /\ PlayerY <= Car_Y_Min + TopStrip
      /\ PlayerSpeed >= 2 /\ GroundSpeed >= 2
      /\ PlayerY + GroundSpeed <= Car_Y_Min + TopStrip + 2
  BY DEF IInv, RoadInv, TypeOK, Reg10, Pinned, AtTop
<1>2. ~AtBottom
  BY <1>1, NoWrap, ScreenAssumption DEF AtBottom, TopStrip, BottomMargin
<1>3. GroundSpeed' = PlayerSpeed
  BY <1>1 DEF Frame, FramePlayer, NextGroundSpeed, AtTop
<1>4. PlayerY' = PlayerY - PlayerSpeed + GroundSpeed
  BY NoWrap DEF Frame, FramePlayer
<1>5. PlayerSpeed' >= 2
  <2>1. PlayerSpeed' = NextSpeed
    BY DEF Frame, FramePlayer
  <2>2. CASE keycode_1 = KeyS
    BY <1>2, <2>1, <2>2 DEF NextSpeed, Default_CarSpeed, KeyS, KeyW
  <2>3. CASE keycode_1 = KeyW
    BY <1>1, <2>1, <2>3 DEF NextSpeed, KeyS, KeyW
  <2>4. CASE keycode_1 # KeyS /\ keycode_1 # KeyW
    BY <1>1, <2>1, <2>4 DEF NextSpeed, Default_CarSpeed
  <2> QED
    BY <2>2, <2>3, <2>4
<1> QED
  BY <1>1, <1>3, <1>4, <1>5, ScreenAssumption DEF Pinned, AtTop, TopStrip

\* A car pinned to the top strip stays there until the reset button is pressed.
THEOREM NeverUnpinned == Spec => PinnedForever
<1>1. IInv /\ [Next]_vars => IInv'
  BY FrameIInv, OtherIInv DEF Next
<1>2. IInv /\ [Next]_vars => [Pinned => Pinned' \/ ResetPlayer]_vars
  <2> SUFFICES ASSUME IInv, [Next]_vars, Pinned
               PROVE  Pinned' \/ ResetPlayer \/ UNCHANGED vars
    OBVIOUS
  <2>1. CASE Frame
    BY <2>1, PinnedFrame
  <2>2. CASE SetKey
    BY <2>2 DEF SetKey, playerRegs, Pinned, AtTop
  <2> QED
    BY <2>1, <2>2 DEF Next, Reset
<1> QED
  BY InitIInv, <1>1, <1>2, PTL DEF Spec, PinnedForever

=============================================================================
