\* One start before the wrap of the int, one across it, one after it.
CONSTANTS
    Modulus = 32
    Starts = {0, 12, 18}
    Duration = 3
    Interval = 1
    Count = 2
    MaxRun = 5

SPECIFICATION Spec

INVARIANTS
    TypeOK
    ThreadEndsFirst
    TraceIsClean

PROPERTIES
    SendsFullTime
    Ends

\* The process ends.
CHECK_DEADLOCK FALSE
