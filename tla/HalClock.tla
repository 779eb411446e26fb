------------------------------ MODULE HalClock ------------------------------
(***************************************************************************)
(* The system clock of the board support package: the tick counter that    *)
(* wraps, the alarms compared with it, and the time of day worked out from *)
(* it.  Starting and stopping an alarm run with interrupts disabled and    *)
(* the tick runs in the timer's interrupt, so each is one step.            *)
(***************************************************************************)
EXTENDS Integers

CONSTANTS
    W,              \* 2^32, the range of alt_u32
    ALT_US,         \* microseconds in a second
    Rate,           \* ticks in a second, as the timer is generated
    Alarms,
    Delays,         \* ticks that alt_alarm_start is asked to wait
    Periods,        \* what callbacks return
    Times           \* times of day that settimeofday is given

ASSUME WidthAssumption == W \in Nat /\ W > 1
ASSUME DelayAssumption == Delays \subseteq 0 .. W - 2 /\ Periods \subseteq 0 .. W - 1
ASSUME RateAssumption ==
    ALT_US \in Nat \ {0} /\ Rate \in 1 .. ALT_US /\ ALT_US % Rate = 0
ASSUME TimeAssumption == Times \subseteq [sec : Nat, usec : 0 .. ALT_US - 1]

VARIABLES
    tick_rate,      \* _alt_tick_rate, zero until the timer is initialised
    nticks,         \* _alt_nticks
    listed,         \* the alarms on alt_alarm_list
    time, rollover, \* of each alarm
    fired,          \* the alarms called back by the last tick
    alt_resettime   \* the time of day at tick zero

alarms == <<listed, time, rollover, fired>>
clockVars == <<tick_rate, nticks, alarms, alt_resettime>>

ClockInit ==
    /\ tick_rate = 0 /\ nticks = 0
    /\ listed = {} /\ fired = {}
    /\ time = [a \in Alarms |-> 0] /\ rollover = [a \in Alarms |-> FALSE]
    /\ alt_resettime = [sec |-> 0, usec |-> 0]

alt_sysclk_init ==
    /\ tick_rate = 0 /\ tick_rate' = Rate
    /\ UNCHANGED <<nticks, alarms, alt_resettime>>

(***************************************************************************)
(* Alarms.                                                                 *)
(***************************************************************************)
BugPassed(t, now) == FALSE

\* The time is behind the counter, so the counter has to wrap first.
Passed(t, now) == t < now

\* Without a clock it is refused.  An alarm that is on the list already is
\* not put there again.
alt_alarm_start(a) ==
    /\ tick_rate # 0 /\ a \notin listed
    /\ \E n \in Delays :
          LET t == (n + nticks + 1) % W
          IN  /\ time' = [time EXCEPT ![a] = t]
              /\ rollover' = [rollover EXCEPT ![a] = Passed(t, nticks)]
    /\ listed' = listed \cup {a} /\ fired' = {}
    /\ UNCHANGED <<tick_rate, nticks, alt_resettime>>

alt_alarm_stop(a) ==
    /\ listed' = listed \ {a} /\ fired' = {}
    /\ UNCHANGED <<tick_rate, nticks, time, rollover, alt_resettime>>

BugDue(a) == a \in listed /\ time[a] <= nticks'

StillRolling(a) == rollover[a] /\ nticks' # 0
Due(a) == a \in listed /\ time[a] <= nticks' /\ ~StillRolling(a)

alt_tick ==
    /\ tick_rate # 0
    /\ nticks' = (nticks + 1) % W
    /\ fired' = {a \in Alarms : Due(a)}
    /\ \E next \in [Alarms -> Periods] :
          /\ listed' = listed \ {a \in fired' : next[a] = 0}
          /\ time' = [a \in Alarms |-> IF a \in fired' THEN (time[a] + next[a]) % W
                                       ELSE time[a]]
          /\ rollover' = [a \in Alarms |->
                IF a \in listed
                THEN StillRolling(a) \/ (a \in fired' /\ Passed(time'[a], nticks'))
                ELSE rollover[a]]
    /\ UNCHANGED <<tick_rate, alt_resettime>>

(***************************************************************************)
(* Time of day.  settimeofday multiplies in 32 bits, gettimeofday in 64.   *)
(***************************************************************************)
Micros == nticks * (ALT_US \div Rate)

BugSetTime(t) ==
    /\ tick_rate # 0
    /\ alt_resettime' = [sec  |-> t.sec - nticks \div Rate,
                         usec |-> t.usec - (Micros % W)]
    /\ UNCHANGED <<tick_rate, nticks, alarms>>

ALT_SETTIMEOFDAY(t) ==
    /\ tick_rate # 0
    /\ alt_resettime' = [sec  |-> t.sec - nticks \div Rate,
                         usec |-> t.usec - ((Micros % W) % ALT_US)]
    /\ UNCHANGED <<tick_rate, nticks, alarms>>

BugNormal(s, u) ==
    IF u >= ALT_US THEN [sec |-> s + 1, usec |-> u - ALT_US]
    ELSE [sec |-> s, usec |-> u]

Normal(s, u) ==
    IF u < 0 THEN IF s <= 0 THEN [sec |-> 0, usec |-> 0]
                  ELSE [sec |-> s - 1, usec |-> u + ALT_US]
    ELSE IF u >= ALT_US THEN [sec |-> s + 1, usec |-> u - ALT_US]
    ELSE [sec |-> s, usec |-> u]

\* What gettimeofday returns.
ALT_GETTIMEOFDAY ==
    Normal(alt_resettime.sec + nticks \div Rate,
           alt_resettime.usec + (Micros % ALT_US))

ClockNext ==
    \/ alt_sysclk_init \/ alt_tick
    \/ \E a \in Alarms : alt_alarm_start(a) \/ alt_alarm_stop(a)
    \/ \E t \in Times : ALT_SETTIMEOFDAY(t)

ClockSpec == ClockInit /\ [][ClockNext]_clockVars

-----------------------------------------------------------------------------
ClockTypes ==
    /\ tick_rate \in {0, Rate} /\ nticks \in 0 .. W - 1
    /\ listed \subseteq Alarms /\ fired \subseteq Alarms
    /\ time \in [Alarms -> 0 .. W - 1] /\ rollover \in [Alarms -> BOOLEAN]
    /\ alt_resettime \in [sec : Int, usec : 1 - ALT_US .. ALT_US - 1]

\* The ticks an alarm has to wait, across a wrap of the counter.
Left ==
    [a \in Alarms |-> IF a \notin listed THEN 0
                      ELSE IF time[a] >= nticks THEN time[a] - nticks
                      ELSE W - nticks + time[a]]

\* Alarms keep their promise for ever, though the counter wraps.
Promise == INSTANCE Countdown WITH left <- Left
AlarmsOnTime == Promise!Spec

\* The rollover flag tells a time still to come from one that has passed:
\* nothing else does, as both may be smaller than the counter.
RolloverTells ==
    \A a \in listed : time[a] # nticks /\ (rollover[a] <=> time[a] < nticks)

=============================================================================
