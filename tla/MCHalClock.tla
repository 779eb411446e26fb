---------------------------- MODULE MCHalClock ----------------------------
(***************************************************************************)
(* HalClock with the wall clock that the time of day should follow.        *)
(***************************************************************************)
EXTENDS HalClock

VARIABLES wall, sound

MCInit == ClockInit /\ wall = 0 /\ sound = TRUE

\* The wall clock can be followed until the tick counter wraps; and the clock
\* is set right as long as the product in settimeofday does not wrap.
MCNext ==
    \/ /\ alt_tick
       /\ wall' = IF sound /\ nticks' # 0 THEN wall + ALT_US \div Rate ELSE 0
       /\ sound' = (sound /\ nticks' # 0)
    \/ \E t \in Times :
          /\ ALT_SETTIMEOFDAY(t)
          /\ sound' = (Micros < W)
          /\ wall' = IF sound' THEN t.sec * ALT_US + t.usec ELSE 0
    \/ /\ alt_sysclk_init \/ \E a \in Alarms : alt_alarm_start(a) \/ alt_alarm_stop(a)
       /\ UNCHANGED <<wall, sound>>

MCSpec == MCInit /\ [][MCNext]_<<clockVars, wall, sound>>

\* "so that subsequent calls to gettimeofday() will return the elapsed wall
\* clock time".
KeepsTime ==
    sound => ALT_GETTIMEOFDAY = [sec |-> wall \div ALT_US, usec |-> wall % ALT_US]

TwoTimes == {[sec |-> 0, usec |-> 1], [sec |-> 5, usec |-> 4]}
===========================================================================
