\* Three timers, one period too long for an int, the clock set back once.
CONSTANTS
    MsPerSec = 2
    IntMax = 7
    Periods = {0, 1, 3, 9}
    MaxId = 3
    MaxTime = 5
    MaxSetBacks = 1
    RearmAfterDelete = FALSE

SPECIFICATION FairSpec

INVARIANTS
    TypeOK
    ForcedTimersRun

PROPERTIES
    NoDueTimerSkipped
    TimerKeepsItsTime
    SleepsUntilNearest
    DueTimersFire
