SPECIFICATION MCSpec
CONSTANTS
    W = 10
    ALT_US = 6
    Rate = 3
    Alarms = {a1, a2}
    Delays = {0, 8}
    Periods = {0, 3, 9}
    Times <- TwoTimes
INVARIANT
    KeepsTime
PROPERTY
    AlarmsOnTime
