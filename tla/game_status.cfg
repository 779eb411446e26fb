SPECIFICATION MCFairSpec
CONSTANTS
    SlowLast = 1
    ScaleMax = 3
    WinGap = 3
    LoseGap = 9
    StartGap = 5
    GapSpan = 18
    GapStep = 2
    MaxPassed = 4
    MaxLead = 11
    Keys1 <- Keys
    Collisions <- TouchOrNot
INVARIANTS
    OvertakenIsDecided
    DamageClock
PROPERTIES
    VerdictStands
    CrashEndsGame
