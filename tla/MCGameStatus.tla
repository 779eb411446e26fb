---------------------------- MODULE MCGameStatus ----------------------------
(***************************************************************************)
(* GameStatus with what an observer of the game could count: the true lead *)
(* of the opponent, whether a key was pressed since the opponent was last  *)
(* well ahead, and how long the player's car has been on an obstacle.      *)
(***************************************************************************)
EXTENDS GameStatus, FiniteSets

CONSTANTS MaxPassed, MaxLead    \* bounds of the observed lead

VARIABLES
    lead,       \* AIDistance - PlayerDistance, without the wrap-around
    quiet,      \* no key pressed since the lead was last between the gaps
    onFor,      \* frames since a reset or since no side was on an obstacle
    damagedFor  \* frames since Scale was last zero

history == <<lead, quiet, onFor, damagedFor>>

Period == 2 * (SlowLast + 1)             \* of the slow clock, in frames
Longest == (ScaleMax + 2) * Period       \* bound of the two frame counters
UpTo(n) == IF n < Longest THEN n + 1 ELSE n

Keys == {0, 26}
TouchOrNot == {{}, {"front"}}

MCInit ==
    /\ Init
    /\ lead = StartGap /\ quiet = TRUE /\ onFor = 0 /\ damagedFor = 0

ObserveFrame ==
    /\ lead' \in -MaxPassed .. MaxLead
    /\ lead' \in lead - GapStep .. lead + GapStep
    /\ TarDistance' = lead' % GapSpan
    /\ quiet' = (keycode_1 = 0 /\ (quiet \/ lead \in WinGap + 1 .. LoseGap - 1))
    /\ onFor' = IF PlayerCollide' = {} THEN 0 ELSE UpTo(onFor)
    /\ damagedFor' = IF Scale' = 0 THEN 0 ELSE UpTo(damagedFor)

ObserveReset ==
    /\ lead' = StartGap /\ quiet' = TRUE /\ onFor' = 0 /\ damagedFor' = 0

MCNext ==
    \/ Frame /\ ObserveFrame
    \/ SetKey /\ UNCHANGED history
    \/ Reset /\ ObserveReset

MCSpec == MCInit /\ [][MCNext]_<<vars, history>>

\* Frames never stop.
MCFairSpec == MCSpec /\ WF_<<vars, history>>(Frame /\ ObserveFrame)

\* A player who overtakes the opponent with no key pressed has already been
\* given a verdict when he draws level: the window of WinGap lines is wide
\* enough that no frame can jump over it.
OvertakenIsDecided == quiet /\ lead < 0 => GameWin \/ GameLose

\* Scale is a clock of the time spent on obstacles.  Full damage takes more than
\* ScaleMax - 1 periods of the slow clock, and a car that does not leave the
\* obstacle has it after ScaleMax periods, the one that was under way when it
\* touched the obstacle included.
DamageClock ==
    /\ Scale = ScaleMax => damagedFor > (ScaleMax - 1) * Period
    /\ onFor > ScaleMax * Period => Scale = ScaleMax

\* A car that stays on an obstacle, with its driver's hands off the keys, ends
\* the game.
CrashEndsGame ==
    (/\ <>[][~Reset]_vars
     /\ <>[](PlayerCollide # {} /\ keycode_1 = 0))
        => <>[](GameWin \/ GameLose)

=============================================================================
