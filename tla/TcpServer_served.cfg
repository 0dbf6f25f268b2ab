\* Two peers that connect one after the other, both threads fair.
CONSTANTS
    Peer = {p1, p2}
    NoPeer = NoPeer
    NumFd = 2
    Hdr = 2
    Total = 3
    RecvMax = 2
    Cap = 2
    MaxEvents = 2
    OneAtATime = TRUE

SPECIFICATION FairSpec

PROPERTIES
    FinishedPeersServed
    SignalStops

CHECK_DEADLOCK FALSE
