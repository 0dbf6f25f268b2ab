\* A callback may remove, close and reuse the descriptor of another fired entry.
CONSTANTS
    SetSize = 2
    FdLimit = 2
    Procs = {p1}
    NoProc = NoProc
    OwnDescriptorOnly = FALSE

SPECIFICATION Spec

PROPERTY
    StillValid
