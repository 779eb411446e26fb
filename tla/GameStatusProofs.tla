-------------------------- MODULE GameStatusProofs --------------------------
(***************************************************************************)
(* Facts about the verdict and the damage, for every setting of the gaps   *)
(* and of the slow clock: a verdict stands, a player who overtakes the     *)
(* opponent has one, and Scale measures the time spent on obstacles.       *)
(***************************************************************************)
EXTENDS MCGameStatus, TLAPS

\* That a game is never both won and lost is what makes a verdict stand: the
\* test that decides a win asks whether the game is lost, and the other way
\* round.
OneVerdict ==
    /\ GameWin \in BOOLEAN /\ GameLose \in BOOLEAN
    /\ ~(GameWin /\ GameLose)

LEMMA InitOneVerdict == Init => OneVerdict
BY DEF Init, InitStatus, OneVerdict

LEMMA StepOneVerdict == OneVerdict /\ [Next]_vars => OneVerdict'
<1> SUFFICES ASSUME OneVerdict, [Next]_vars PROVE OneVerdict'
  OBVIOUS
<1>1. CASE Frame
  <2>1. CASE keycode_1 # 0
    BY <1>1, <2>1 DEF Frame, FrameStatus, NextVerdict, OneVerdict
  <2>2. CASE keycode_1 = 0
    BY <1>1, <2>2 DEF Frame, FrameStatus, NextVerdict, OneVerdict
  <2> QED
    BY <2>1, <2>2
<1>2. CASE SetKey
  BY <1>2 DEF SetKey, verdict, OneVerdict
<1>3. CASE Reset
  BY <1>3 DEF Reset, ResetStatus, OneVerdict
<1>4. CASE UNCHANGED vars
  BY <1>4 DEF vars, verdict, OneVerdict
<1> QED
  BY <1>1, <1>2, <1>3, <1>4 DEF Next

\* What VerdictStands asks of a step.
StandsNow ==
    Frame /\ keycode_1 = 0 =>
        /\ GameLose => GameLose'
        /\ GameWin /\ ~GameWin' => TarDistance >= LoseGap
        /\ ~(GameWin' /\ GameLose')

LEMMA StepStands ==
    OneVerdict /\ OneVerdict' /\ [Next]_vars
        => [StandsNow]_vars
<1> SUFFICES ASSUME OneVerdict, OneVerdict', Frame, keycode_1 = 0
             PROVE  /\ GameLose => GameLose'
                    /\ GameWin /\ ~GameWin' => TarDistance >= LoseGap
                    /\ ~(GameWin' /\ GameLose')
  BY DEF StandsNow
<1>1. NextVerdict
  BY DEF Frame, FrameStatus
<1>2. GameLose => GameLose'
  BY <1>1 DEF NextVerdict
<1>3. GameWin /\ ~GameWin' => TarDistance >= LoseGap
  BY <1>1 DEF NextVerdict
<1> QED
  BY <1>2, <1>3 DEF OneVerdict

\* Without a key a loss stands, a win is only taken back by the distance, and
\* there is one verdict at most, for every setting of the gaps and the clock.
THEOREM VerdictsStand == Spec => VerdictStands
<1>1. Spec => []OneVerdict
  BY InitOneVerdict, StepOneVerdict, PTL DEF Spec
<1>2. Spec => [][StandsNow]_vars
  BY <1>1, StepStands, PTL DEF Spec
<1> QED
  BY <1>2 DEF VerdictStands, StandsNow

\* The damage stops short of its three bits, the lead stays a number modulo
\* GapSpan and the slow clock's counter in its range, for every setting of them.
THEOREM StatusTypes == Spec => []TypeOK
<1> DEFINE Numbers ==
              /\ keycode_1 \in Keys1 /\ TarDistance \in 0 .. GapSpan - 1
              /\ slow_counter \in 0 .. SlowLast /\ Scale \in 0 .. ScaleMax
           Flags ==
              /\ GameStart \in BOOLEAN /\ GameWin \in BOOLEAN /\ GameLose \in BOOLEAN
              /\ slowClk \in BOOLEAN /\ PlayerCollide \subseteq Side
<1>1. TypeOK <=> Numbers /\ Flags
  BY Zenon DEF TypeOK
<1>2. ASSUME Init PROVE Numbers /\ Flags
  <2>1. Numbers
    BY <1>2, StatusAssumption DEF Init, InitStatus
  <2>2. Flags
    BY <1>2 DEF Init, InitStatus
  <2> QED
    BY <2>1, <2>2
<1>3. ASSUME Numbers, Flags, [Next]_vars PROVE Numbers' /\ Flags'
  <2>1. CASE Frame
    <3>1. Flags'
      <4>1. PlayerCollide' \subseteq Side
        BY <2>1, CollisionAssumption DEF Frame
      <4>2. GameStart' \in BOOLEAN /\ GameWin' \in BOOLEAN /\ GameLose' \in BOOLEAN
        BY <1>3, <2>1 DEF Frame, FrameStatus, NextVerdict
      <4>3. slowClk' \in BOOLEAN
        BY <1>3, <2>1 DEF Frame, FrameStatus, NextSlow
      <4> QED
        BY <4>1, <4>2, <4>3
    <3>2. TarDistance' \in 0 .. GapSpan - 1 /\ keycode_1' = keycode_1
      <4>1. PICK d \in -GapStep .. GapStep : TarDistance' = (TarDistance + d) % GapSpan
        BY <2>1 DEF Frame
      <4>2. d \in Int /\ TarDistance \in Int /\ GapSpan \in Nat \ {0}
        BY <1>3, <4>1, StatusAssumption
      <4> QED
        BY <2>1, <4>1, <4>2 DEF Frame
    <3>3. slow_counter' \in 0 .. SlowLast
      BY <1>3, <2>1, StatusAssumption DEF Frame, FrameStatus, NextSlow,
         SlowEdge
    <3>4. Scale' \in 0 .. ScaleMax
      <4>1. \A touched : ScaleAfter(touched) \in 0 .. ScaleMax
        BY <1>3, StatusAssumption DEF ScaleAfter
      <4> QED
        BY <1>3, <2>1, <4>1 DEF Frame, FrameStatus, NextScale
    <3> QED
      BY <1>3, <3>1, <3>2, <3>3, <3>4
  <2>2. CASE SetKey
    BY <1>3, <2>2 DEF SetKey, verdict, damage
  <2>3. CASE Reset
    <3>1. Numbers'
      BY <1>3, <2>3, StatusAssumption DEF Reset, ResetStatus
    <3>2. Flags'
      BY <1>3, <2>3 DEF Reset, ResetStatus
    <3> QED
      BY <3>1, <3>2
  <2>4. CASE UNCHANGED vars
    BY <1>3, <2>4 DEF vars, inputs, verdict, damage
  <2> QED
    BY <1>3, <2>1, <2>2, <2>3, <2>4 DEF Next
<1>4. TypeOK /\ [Next]_vars => TypeOK'
  <2> SUFFICES ASSUME TypeOK, [Next]_vars
               PROVE  TypeOK'
    OBVIOUS
  <2>1. Numbers' /\ Flags'
    BY <1>1, <1>3
  <2> QED
    BY <2>1, Zenon DEF TypeOK
<1> QED
  BY <1>1, <1>2, <1>4, PTL DEF Spec

-----------------------------------------------------------------------------
(***************************************************************************)
(* What the observer of MCGameStatus counts.                               *)
(***************************************************************************)

\* The observer only watches.
LEMMA Watches == [MCNext]_<<vars, history>> => [Next]_vars
BY DEF MCNext, Next

LEMMA ObservedTypes == MCSpec => []TypeOK
<1>1. MCInit => Init
  BY DEF MCInit
<1>2. MCSpec => Spec
  BY <1>1, Watches, PTL DEF MCSpec, Spec
<1> QED
  BY <1>2, StatusTypes, PTL

\* No frame changes the lead so much that it could jump over the window in which
\* the player wins: by the time the lead is WinGap - GapStep a frame has begun
\* inside the window.
LevelInv ==
    /\ lead \in Int /\ TarDistance = lead % GapSpan
    /\ quiet /\ lead <= WinGap - GapStep => GameWin \/ GameLose

LEMMA Modulo == ASSUME NEW m \in Nat, NEW i \in 0 .. m - 1 PROVE i % m = i
BY SMT

\* Without a key, a game that is decided stays so, and one whose lead is inside
\* the window is decided now.
LEMMA Decided ==
    ASSUME NextVerdict, keycode_1 = 0,
           GameWin \/ GameLose \/ TarDistance <= WinGap
    PROVE  GameWin' \/ GameLose'
<1>1. CASE GameWin \/ GameLose
  BY <1>1 DEF NextVerdict
<1>2. CASE TarDistance <= WinGap
  BY <1>2 DEF NextVerdict
<1> QED
  BY <1>1, <1>2

LEMMA LevelFrame ==
    ASSUME TypeOK, LevelInv, Frame, ObserveFrame PROVE LevelInv'
<1>1. /\ lead \in Int /\ lead' \in lead - GapStep .. lead + GapStep
      /\ TarDistance' = lead' % GapSpan
  BY DEF ObserveFrame, LevelInv
<1>2. /\ WinGap \in Nat /\ GapStep \in Nat /\ LoseGap \in Nat /\ GapSpan \in Nat
      /\ GapStep < WinGap /\ WinGap < LoseGap /\ LoseGap < GapSpan
  BY StatusAssumption
<1>3. lead' \in Int
  BY <1>1, <1>2
<1>4. ASSUME quiet', lead' <= WinGap - GapStep PROVE GameWin' \/ GameLose'
  <2>1. keycode_1 = 0 /\ (quiet \/ lead \in WinGap + 1 .. LoseGap - 1)
    BY <1>4 DEF ObserveFrame
  <2>2. lead <= WinGap
    BY <1>1, <1>2, <1>4
  <2>3. quiet
    BY <1>2, <2>1, <2>2
  <2>4. CASE lead < 0
    <3>1. lead <= WinGap - GapStep
      BY <1>1, <1>2, <2>4
    <3>2. GameWin \/ GameLose
      BY <2>3, <3>1 DEF LevelInv
    <3> QED
      BY <2>1, <3>2, Decided DEF Frame, FrameStatus
  <2>5. CASE lead >= 0
    <3>1. lead \in 0 .. GapSpan - 1
      BY <1>1, <1>2, <2>2, <2>5
    <3>2. TarDistance = lead
      BY <1>2, <3>1, Modulo DEF LevelInv
    <3> QED
      BY <2>1, <2>2, <3>2, Decided DEF Frame, FrameStatus
  <2> QED
    BY <1>1, <2>4, <2>5
<1> QED
  BY <1>1, <1>3, <1>4 DEF LevelInv

\* The opponent's head start puts the lead outside the window.
LEMMA LevelStart ==
    ASSUME lead' = StartGap, TarDistance' = StartGap PROVE LevelInv'
<1>1. /\ StartGap \in 0 .. GapSpan - 1 /\ GapSpan \in Nat
      /\ ~(StartGap <= WinGap - GapStep)
  BY StatusAssumption
<1> QED
  BY <1>1, Modulo DEF LevelInv

LEMMA LevelInit == MCInit => LevelInv
<1>1. /\ StartGap \in 0 .. GapSpan - 1 /\ GapSpan \in Nat
      /\ ~(StartGap <= WinGap - GapStep)
  BY StatusAssumption
<1>2. StartGap % GapSpan = StartGap
  BY <1>1, Modulo
<1> QED
  BY <1>1, <1>2 DEF MCInit, Init, LevelInv

\* A player who overtakes the opponent with no key pressed has been given a
\* verdict when he draws level, for every window that is wider than what the
\* lead may lose in a frame.
THEOREM OvertakingIsDecided == MCSpec => []OvertakenIsDecided
<1>1. ASSUME TypeOK, LevelInv, [MCNext]_<<vars, history>> PROVE LevelInv'
  <2>1. CASE Frame /\ ObserveFrame
    BY <1>1, <2>1, LevelFrame
  <2>2. CASE SetKey /\ UNCHANGED history
    BY <1>1, <2>2 DEF SetKey, history, verdict, LevelInv
  <2>3. CASE Reset /\ ObserveReset
    BY <2>3, LevelStart DEF Reset, ObserveReset
  <2>4. CASE UNCHANGED <<vars, history>>
    BY <1>1, <2>4 DEF vars, inputs, verdict, history, LevelInv
  <2> QED
    BY <1>1, <2>1, <2>2, <2>3, <2>4 DEF MCNext
<1>2. LevelInv => OvertakenIsDecided
  <2>1. ASSUME NEW i \in Int, i < 0 PROVE i <= WinGap - GapStep
    BY <2>1, StatusAssumption
  <2> QED
    BY <2>1 DEF LevelInv, OvertakenIsDecided
<1> QED
  BY <1>1, <1>2, ObservedTypes, LevelInit, PTL DEF MCSpec

-----------------------------------------------------------------------------

\* Frames since the last rising edge of the slow clock, or since the one that
\* would have been before the reset.
SinceEdge == IF slowClk THEN slow_counter ELSE SlowLast + 1 + slow_counter

LEMMA Periods ==
    /\ Period \in Nat \ {0} /\ Period = SlowLast + 1 + SlowLast + 1
    /\ SlowLast \in Nat /\ ScaleMax \in Nat \ {0}
BY StatusAssumption DEF Period

\* The edges are a period apart.
LEMMA EdgeStep ==
    ASSUME TypeOK, NextSlow
    PROVE  /\ SinceEdge \in 0 .. Period - 1
           /\ RisingSlowEdge => SinceEdge = Period - 1 /\ SinceEdge' = 0
           /\ ~RisingSlowEdge => SinceEdge' = SinceEdge + 1
<1>1. slow_counter \in 0 .. SlowLast /\ slowClk \in BOOLEAN
  BY DEF TypeOK
<1>2. CASE slowClk
  <2>1. ~RisingSlowEdge /\ SinceEdge = slow_counter
    BY <1>2 DEF RisingSlowEdge, SinceEdge
  <2>2. CASE SlowEdge
    <3>1. ~slowClk' /\ slow_counter' = 0 /\ slow_counter = SlowLast
      BY <1>2, <2>2 DEF NextSlow, SlowEdge
    <3> QED
      BY <1>1, <2>1, <3>1, Periods DEF SinceEdge
  <2>3. CASE ~SlowEdge
    <3>1. slowClk' /\ slow_counter' = slow_counter + 1
      BY <1>2, <2>3 DEF NextSlow
    <3> QED
      BY <1>1, <2>1, <3>1, Periods DEF SinceEdge
  <2> QED
    BY <2>2, <2>3
<1>3. CASE ~slowClk
  <2>1. SinceEdge = SlowLast + 1 + slow_counter /\ (RisingSlowEdge <=> SlowEdge)
    BY <1>3 DEF RisingSlowEdge, SinceEdge
  <2>2. CASE SlowEdge
    <3>1. slowClk' /\ slow_counter' = 0 /\ slow_counter = SlowLast
      BY <1>3, <2>2 DEF NextSlow, SlowEdge
    <3> QED
      BY <1>1, <2>1, <2>2, <3>1, Periods DEF SinceEdge
  <2>3. CASE ~SlowEdge
    <3>1. ~slowClk' /\ slow_counter' = slow_counter + 1 /\ slow_counter # SlowLast
      BY <1>3, <2>3 DEF NextSlow, SlowEdge
    <3> QED
      BY <1>1, <2>1, <2>3, <3>1, Periods DEF SinceEdge
  <2> QED
    BY <2>2, <2>3
<1> QED
  BY <1>1, <1>2, <1>3

\* Each edge adds one to Scale: so Scale periods and what has gone since the last
\* edge bound the time on the obstacle from above until the damage is full, and
\* one period less bounds it from below.
DamageInv ==
    /\ onFor \in Nat /\ damagedFor \in Nat
    /\ Scale \in 1 .. ScaleMax - 1 => damagedFor > (Scale - 1) * Period + SinceEdge
    /\ Scale = ScaleMax => damagedFor > (ScaleMax - 1) * Period
    /\ onFor > 0 => PlayerCollide # {}
    /\ onFor > 0 /\ Scale # ScaleMax => onFor <= Scale * Period + SinceEdge + 1

\* Periods of the slow clock, multiplied out.
LEMMA Multiples ==
    ASSUME NEW s \in 0 .. ScaleMax
    PROVE  /\ s * Period \in Nat /\ ScaleMax * Period \in Nat
           /\ (s + 1) * Period = s * Period + Period
           /\ (s - 1) * Period = s * Period - Period
           /\ s # ScaleMax => s * Period + Period <= ScaleMax * Period
           /\ s * Period <= ScaleMax * Period
           /\ (ScaleMax - 1) * Period = ScaleMax * Period - Period
           /\ Longest = ScaleMax * Period + Period + Period
<1> DEFINE p == Period
<1>1. p \in Nat \ {0} /\ ScaleMax \in Nat \ {0} /\ s \in Nat
  BY Periods
<1> HIDE DEF p
<1>2. s * p \in Nat /\ ScaleMax * p \in Nat
  BY <1>1, SMT
<1>3. (s + 1) * p = s * p + p /\ (s - 1) * p = s * p - p
  BY <1>1, SMT
<1>4. (ScaleMax - 1) * p = ScaleMax * p - p /\ (ScaleMax + 2) * p = ScaleMax * p + p + p
  BY <1>1, SMT
<1>5. s * p <= ScaleMax * p
  <2>1. (ScaleMax - s) * p >= 0 /\ (ScaleMax - s) * p = ScaleMax * p - s * p
    BY <1>1, SMT
  <2> QED
    BY <1>2, <2>1
<1>6. s # ScaleMax => s * p + p <= ScaleMax * p
  <2> SUFFICES ASSUME s # ScaleMax PROVE s * p + p <= ScaleMax * p
    OBVIOUS
  <2> DEFINE e == ScaleMax - s - 1
  <2>1. e \in Nat /\ ScaleMax = s + 1 + e
    BY <1>1
  <2> HIDE DEF e
  <2>2. ScaleMax * p = s * p + p + e * p /\ e * p >= 0 /\ e * p \in Nat
    BY <1>1, <2>1, SMT
  <2> QED
    BY <1>1, <1>2, <2>2
<1> QED
  BY <1>2, <1>3, <1>4, <1>5, <1>6 DEF p, Longest

LEMMA DamageFrame ==
    ASSUME TypeOK, TypeOK', DamageInv, Frame, ObserveFrame PROVE DamageInv'
<1> DEFINE r == SinceEdge
           q == Scale * Period
           m == ScaleMax * Period
<1>1. /\ Scale \in 0 .. ScaleMax /\ Scale' \in 0 .. ScaleMax
      /\ onFor \in Nat /\ damagedFor \in Nat
  BY DEF TypeOK, DamageInv
<1>2. /\ r \in 0 .. Period - 1 /\ Period \in Nat \ {0}
      /\ RisingSlowEdge => r = Period - 1 /\ r' = 0
      /\ ~RisingSlowEdge => r' = r + 1
  BY EdgeStep, Periods DEF Frame, FrameStatus
<1>3. /\ q \in Nat /\ m \in Nat /\ Longest = m + Period + Period
      /\ (Scale + 1) * Period = q + Period /\ (Scale - 1) * Period = q - Period
      /\ Scale # ScaleMax => q + Period <= m
      /\ (ScaleMax - 1) * Period = m - Period
  BY <1>1, Multiples
<1>4. /\ Scale \in 1 .. ScaleMax - 1 => damagedFor > q - Period + r
      /\ Scale = ScaleMax => damagedFor > m - Period
      /\ onFor > 0 => PlayerCollide # {}
      /\ onFor > 0 /\ Scale # ScaleMax => onFor <= q + r + 1
  BY <1>3 DEF DamageInv
<1>5. /\ onFor' = IF PlayerCollide' = {} THEN 0 ELSE UpTo(onFor)
      /\ damagedFor' = IF Scale' = 0 THEN 0 ELSE UpTo(damagedFor)
  BY DEF ObserveFrame
<1>6. ~RisingSlowEdge => Scale' = Scale
  BY DEF Frame, FrameStatus, NextScale
<1>7. RisingSlowEdge =>
        \/ Scale' = 0
        \/ Scale' = IF Scale # ScaleMax THEN Scale + 1 ELSE Scale
  BY DEF Frame, FrameStatus, NextScale, ScaleAfter
<1>8. RisingSlowEdge /\ onFor > 0 /\ onFor' > 0 =>
        Scale' = IF Scale # ScaleMax THEN Scale + 1 ELSE Scale
  BY <1>4, <1>5 DEF Frame, FrameStatus, NextScale, ScaleAfter
<1>9. /\ (Scale' - 1) * Period' = Scale' * Period - Period
      /\ (ScaleMax - 1) * Period' = m - Period
      /\ Scale' * Period' = Scale' * Period
      /\ Scale' * Period \in Nat
  BY <1>1, Multiples DEF Period
<1>10. /\ Scale' = Scale => Scale' * Period = q
       /\ Scale' = Scale + 1 => Scale' * Period = q + Period
  BY <1>3
<1> DEFINE w == Scale' * Period
<1>11. ScaleMax \in Nat \ {0}
  BY Periods
<1> HIDE DEF r, q, m, w
<1>12. onFor' \in Nat /\ damagedFor' \in Nat
  BY <1>1, <1>5 DEF UpTo
<1>13. onFor' > 0 => PlayerCollide' # {} /\ onFor' <= onFor + 1
  BY <1>1, <1>5 DEF UpTo
<1>14. w \in Nat /\ (Scale' = Scale => w = q) /\ (Scale' = Scale + 1 => w = q + Period)
  BY <1>9, <1>10 DEF w
<1>15. Scale' \in 1 .. ScaleMax - 1 => damagedFor' > w - Period + r'
  <2> SUFFICES ASSUME Scale' \in 1 .. ScaleMax - 1 PROVE damagedFor' > w - Period + r'
    OBVIOUS
  <2>1. damagedFor' = IF damagedFor < Longest THEN damagedFor + 1 ELSE damagedFor
    BY <1>1, <1>5 DEF UpTo
  <2>2. CASE ~RisingSlowEdge
    <3>1. Scale' = Scale /\ w = q /\ r' = r + 1 /\ Scale \in 1 .. ScaleMax - 1
      BY <1>2, <1>6, <1>14, <2>2
    <3> QED
      BY <1>1, <1>2, <1>3, <1>4, <1>11, <2>1, <3>1
  <2>3. CASE RisingSlowEdge
    <3>1. /\ Scale' = Scale + 1 /\ w = q + Period /\ r' = 0 /\ r = Period - 1
          /\ Scale # ScaleMax
      BY <1>1, <1>2, <1>7, <1>11, <1>14, <2>3
    <3>2. CASE Scale = 0
      <4>1. q = 0
        BY <1>2, <3>2 DEF q
      <4> QED
        BY <1>1, <1>2, <1>3, <2>1, <3>1, <4>1
    <3>3. CASE Scale # 0
      <4>1. damagedFor > q - Period + r
        BY <1>1, <1>4, <1>11, <3>1, <3>3
      <4> QED
        BY <1>1, <1>2, <1>3, <2>1, <3>1, <4>1
    <3> QED
      BY <3>2, <3>3
  <2> QED
    BY <2>2, <2>3
<1>16. Scale' = ScaleMax => damagedFor' > m - Period
  <2> SUFFICES ASSUME Scale' = ScaleMax PROVE damagedFor' > m - Period
    OBVIOUS
  <2>1. damagedFor' = IF damagedFor < Longest THEN damagedFor + 1 ELSE damagedFor
    BY <1>1, <1>5, <1>11 DEF UpTo
  <2>2. CASE Scale = ScaleMax
    BY <1>1, <1>2, <1>3, <1>4, <2>1, <2>2
  <2>3. CASE Scale # ScaleMax
    <3>1. /\ RisingSlowEdge /\ Scale' = Scale + 1 /\ w = q + Period
          /\ r = Period - 1
      BY <1>1, <1>2, <1>6, <1>7, <1>11, <1>14, <2>3
    <3>2. w = m
      BY DEF w, m
    <3>3. CASE Scale = 0
      <4>1. q = 0
        BY <1>2, <3>3 DEF q
      <4> QED
        BY <1>1, <1>2, <1>3, <2>1, <3>1, <3>2, <4>1
    <3>4. CASE Scale # 0
      <4>1. damagedFor > q - Period + r
        BY <1>1, <1>4, <2>3, <3>4
      <4> QED
        BY <1>1, <1>2, <1>3, <2>1, <3>1, <3>2, <4>1
    <3> QED
      BY <3>3, <3>4
  <2> QED
    BY <2>2, <2>3
<1>17. onFor' > 0 /\ Scale' # ScaleMax => onFor' <= w + r' + 1
  <2> SUFFICES ASSUME onFor' > 0, Scale' # ScaleMax PROVE onFor' <= w + r' + 1
    OBVIOUS
  <2>1. CASE onFor = 0
    BY <1>1, <1>2, <1>12, <1>13, <1>14, <2>1
  <2>2. CASE onFor # 0
    <3>1. onFor > 0
      BY <1>1, <2>2
    <3>2. CASE ~RisingSlowEdge
      BY <1>1, <1>2, <1>3, <1>4, <1>6, <1>12, <1>13, <1>14, <3>1, <3>2
    <3>3. CASE RisingSlowEdge
      <4>1. Scale # ScaleMax /\ Scale' = Scale + 1
        BY <1>8, <3>1, <3>3
      <4> QED
        BY <1>1, <1>2, <1>3, <1>4, <1>12, <1>13, <1>14, <3>1, <3>3, <4>1
    <3> QED
      BY <3>2, <3>3
  <2> QED
    BY <2>1, <2>2
<1> QED
  BY <1>9, <1>12, <1>13, <1>15, <1>16, <1>17 DEF DamageInv, r, w, m

LEMMA DamageInit == MCInit => DamageInv
<1>1. ScaleMax # 0 /\ 0 \in Nat
  BY Periods
<1> QED
  BY <1>1 DEF MCInit, Init, InitStatus, DamageInv

\* Scale measures the time spent on obstacles, for every length of the slow
\* clock's period and every limit of the damage: full damage takes more than
\* ScaleMax - 1 periods on an obstacle, and never more than ScaleMax.
THEOREM DamageIsTime == MCSpec => []DamageClock
<1>1. ASSUME TypeOK, TypeOK', DamageInv, [MCNext]_<<vars, history>> PROVE DamageInv'
  <2>1. CASE Frame /\ ObserveFrame
    BY <1>1, <2>1, DamageFrame
  <2>2. CASE UNCHANGED <<PlayerCollide, slowClk, slow_counter, Scale, onFor, damagedFor>>
    <3>1. SinceEdge' = SinceEdge /\ Period' = Period
      BY <2>2 DEF SinceEdge, Period
    <3> QED
      BY <1>1, <2>2, <3>1 DEF DamageInv
  <2>3. CASE SetKey /\ UNCHANGED history
    BY <2>2, <2>3 DEF SetKey, damage, history
  <2>4. CASE Reset /\ ObserveReset
    <3>1. ScaleMax # 0 /\ 0 \in Nat
      BY Periods
    <3> QED
      BY <2>4, <3>1 DEF Reset, ResetStatus, ObserveReset, DamageInv
  <2>5. CASE UNCHANGED <<vars, history>>
    BY <2>2, <2>5 DEF vars, inputs, damage, history
  <2> QED
    BY <1>1, <2>1, <2>3, <2>4, <2>5 DEF MCNext
<1>2. TypeOK /\ DamageInv => DamageClock
  <2> SUFFICES ASSUME TypeOK, DamageInv, onFor > ScaleMax * Period, Scale # ScaleMax
               PROVE  FALSE
    BY DEF DamageInv, DamageClock
  <2>1. Scale \in 0 .. ScaleMax /\ onFor \in Nat
    BY DEF TypeOK, DamageInv
  <2>2. /\ Scale * Period \in Nat /\ ScaleMax * Period \in Nat
        /\ Scale * Period + Period <= ScaleMax * Period
    BY <2>1, Multiples
  <2>3. onFor <= Scale * Period + SinceEdge + 1
    BY <2>1, <2>2 DEF DamageInv
  <2>4. SinceEdge \in 0 .. Period - 1
    BY Periods DEF SinceEdge, TypeOK
  <2> QED
    BY <2>1, <2>2, <2>3, <2>4, Periods
<1> QED
  BY <1>1, <1>2, ObservedTypes, DamageInit, PTL DEF MCSpec

=============================================================================
