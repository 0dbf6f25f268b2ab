\* Does an overdue timer make the loop poll without waiting?
CONSTANTS
    MsPerSec = 2
    IntMax = 7
    Periods = {1, 3}
    MaxId = 2
    MaxTime = 8
    MaxSetBacks = 0
    RearmAfterDelete = FALSE

SPECIFICATION Spec

PROPERTY
    OverdueTimerDoesNotWait
