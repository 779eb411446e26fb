----------------------------- MODULE GameStatus -----------------------------
(***************************************************************************)
(* Color_Mapper.sv: who has won, who has lost, and how much damage the     *)
(* player's car shows.  The race (TarDistance, how far the opponent is     *)
(* ahead), the obstacles (PlayerCollide) and the keys are the environment  *)
(* here; module Game connects them to their components.                    *)
(***************************************************************************)
EXTENDS Integers

CONSTANTS
    SlowLast,       \* slow_counter runs from 0 to here         (15)
    ScaleMax,       \* the largest value of Scale               (3'b111)
    WinGap,         \* the player wins this close               (65)
    LoseGap,        \* and has lost this far behind             (16'h7FFF)
    StartGap,       \* the opponent's head start                (180)
    GapSpan,        \* TarDistance counts modulo this           (2^16)
    GapStep,        \* no car drives faster than this per frame (5)
    Keys1,          \* codes the firmware may put in the speed key register
    Collisions      \* what the obstacles may do to PlayerCollide

ASSUME StatusAssumption ==
    /\ {SlowLast, ScaleMax} \subseteq Nat \ {0}
    /\ {WinGap, LoseGap, StartGap, GapSpan, GapStep} \subseteq Nat
    /\ GapStep < WinGap
    /\ WinGap < StartGap /\ StartGap < LoseGap
    /\ LoseGap + GapStep < GapSpan
    /\ Keys1 \subseteq Nat /\ 0 \in Keys1

Side == {"front", "left", "back", "right"}

ASSUME CollisionAssumption == Collisions \subseteq SUBSET Side

VARIABLES
    keycode_1,                      \* the speed key
    TarDistance,                    \* lead of the opponent, modulo GapSpan
    PlayerCollide,                  \* sides of the player on an obstacle
    GameStart, GameWin, GameLose,   \* the verdict
    slowClk, slow_counter,          \* the frame clock divided by 32
    Scale                           \* damage: colours are shifted right by it

inputs == <<keycode_1, TarDistance, PlayerCollide>>
verdict == <<GameStart, GameWin, GameLose>>
damage == <<slowClk, slow_counter, Scale>>
vars == <<inputs, verdict, damage>>

TypeOK ==
    /\ keycode_1 \in Keys1
    /\ TarDistance \in 0 .. GapSpan - 1
    /\ PlayerCollide \subseteq Side
    /\ {GameStart, GameWin, GameLose, slowClk} \subseteq BOOLEAN
    /\ slow_counter \in 0 .. SlowLast
    /\ Scale \in 0 .. ScaleMax

-----------------------------------------------------------------------------

\* Slips that the definitions of the same names below could contain.
BugVerdict ==                       \* a crash counts whatever the verdict
    IF keycode_1 # 0
    THEN GameStart' = TRUE /\ GameWin' = FALSE /\ GameLose' = FALSE
    ELSE /\ UNCHANGED GameStart
         /\ IF TarDistance >= LoseGap \/ Scale = ScaleMax
            THEN GameWin' = FALSE /\ GameLose' = TRUE
            ELSE IF TarDistance <= WinGap
            THEN GameWin' = TRUE /\ GameLose' = FALSE
            ELSE UNCHANGED <<GameWin, GameLose>>

BugVerdictExact ==                  \* "== 65" for "<= 65"
    IF keycode_1 # 0
    THEN GameStart' = TRUE /\ GameWin' = FALSE /\ GameLose' = FALSE
    ELSE /\ UNCHANGED GameStart
         /\ IF TarDistance >= LoseGap \/ (Scale = ScaleMax /\ ~GameWin)
            THEN GameWin' = FALSE /\ GameLose' = TRUE
            ELSE IF TarDistance = WinGap /\ ~GameLose
            THEN GameWin' = TRUE /\ GameLose' = FALSE
            ELSE UNCHANGED <<GameWin, GameLose>>

BugScaleAfter(touched) ==           \* the 3-bit counter wraps
    IF touched = {} THEN 0 ELSE (Scale + 1) % (ScaleMax + 1)

BugScaleRange(touched) ==           \* the limit is tested one too late
    IF touched = {} THEN 0
    ELSE IF Scale <= ScaleMax THEN Scale + 1 ELSE Scale

BugSlow ==                          \* set, where the code toggles
    /\ slowClk' = (slowClk \/ slow_counter = SlowLast)
    /\ slow_counter' = IF slow_counter = SlowLast THEN 0 ELSE slow_counter + 1

\* The slow clock is itself a clock: Scale only changes on its rising edge.
SlowEdge == slow_counter = SlowLast
RisingSlowEdge == SlowEdge /\ ~slowClk

NextSlow ==
    /\ slowClk' = IF SlowEdge THEN ~slowClk ELSE slowClk
    /\ slow_counter' = IF SlowEdge THEN 0 ELSE slow_counter + 1

ScaleAfter(touched) ==
    IF touched = {} THEN 0
    ELSE IF Scale # ScaleMax THEN Scale + 1 ELSE Scale

\* The rising edge of slowClk leaves a register of the frame clock, together
\* with the new PlayerCollide: which of its two values is sampled depends on
\* the delays of the build.
NextScale ==
    IF RisingSlowEdge
    THEN \E touched \in {PlayerCollide, PlayerCollide'} :
             Scale' = ScaleAfter(touched)
    ELSE UNCHANGED Scale

\* Any key starts a new game; a lead of LoseGap includes being overtaken,
\* because the lead is unsigned.
NextVerdict ==
    IF keycode_1 # 0
    THEN GameStart' = TRUE /\ GameWin' = FALSE /\ GameLose' = FALSE
    ELSE /\ UNCHANGED GameStart
         /\ IF TarDistance >= LoseGap \/ (Scale = ScaleMax /\ ~GameWin)
            THEN GameWin' = FALSE /\ GameLose' = TRUE
            ELSE IF TarDistance <= WinGap /\ ~GameLose
            THEN GameWin' = TRUE /\ GameLose' = FALSE
            ELSE UNCHANGED <<GameWin, GameLose>>

FrameStatus == NextVerdict /\ NextSlow /\ NextScale

ResetStatus ==
    /\ GameStart' = FALSE /\ GameWin' = FALSE /\ GameLose' = FALSE
    /\ slowClk' = FALSE /\ slow_counter' = 0 /\ Scale' = 0

InitStatus ==
    /\ GameStart = FALSE /\ GameWin = FALSE /\ GameLose = FALSE
    /\ slowClk = FALSE /\ slow_counter = 0 /\ Scale = 0

-----------------------------------------------------------------------------

\* The component on its own: between two frames the lead changes by less than
\* one car can gain on the other.
Init ==
    /\ InitStatus
    /\ keycode_1 = 0 /\ TarDistance = StartGap /\ PlayerCollide = {}

Frame ==
    /\ \E d \in -GapStep .. GapStep :
           TarDistance' = (TarDistance + d) % GapSpan
    /\ PlayerCollide' \in Collisions
    /\ UNCHANGED keycode_1
    /\ FrameStatus

SetKey ==
    /\ keycode_1' \in Keys1
    /\ UNCHANGED <<TarDistance, PlayerCollide, verdict, damage>>

Reset ==
    /\ ResetStatus
    /\ TarDistance' = StartGap
    /\ UNCHANGED <<keycode_1, PlayerCollide>>

Next == Frame \/ SetKey \/ Reset

Spec == Init /\ [][Next]_vars

-----------------------------------------------------------------------------

\* As long as no key is pressed a verdict stands: a lost game stays lost even
\* if the player catches up, a won game is never taken back by a crash (only
\* by the distance), and there are never two verdicts at once.
VerdictStands ==
    [][ Frame /\ keycode_1 = 0 =>
          /\ GameLose => GameLose'
          /\ GameWin /\ ~GameWin' => TarDistance >= LoseGap
          /\ ~(GameWin' /\ GameLose') ]_vars

=============================================================================
