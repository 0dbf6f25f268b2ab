\* Callbacks may make any call: two slots, one descriptor beyond them.
CONSTANTS
    SetSize = 2
    FdLimit = 3
    Procs = {p1, p2}
    NoProc = NoProc
    OwnDescriptorOnly = FALSE

SPECIFICATION Spec

INVARIANTS
    TypeOK
    MaxfdExact
    InterestAgrees
    CallsSetHandler

PROPERTY
    LostOnlyByClose
