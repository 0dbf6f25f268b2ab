\* A callback deletes its own timer, creates one, and returns a period.
CONSTANTS
    MsPerSec = 2
    IntMax = 7
    Periods = {1, 3}
    MaxId = 2
    MaxTime = 8
    MaxSetBacks = 0
    RearmAfterDelete = TRUE

SPECIFICATION Spec

PROPERTY
    TimerKeepsItsTime
