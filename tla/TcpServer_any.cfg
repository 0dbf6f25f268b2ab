\* Three peers in any order, two descriptors, two events at a time.
CONSTANTS
    Peer = {p1, p2, p3}
    NoPeer = NoPeer
    NumFd = 2
    Hdr = 2
    Total = 3
    RecvMax = 2
    Cap = 2
    MaxEvents = 2
    OneAtATime = FALSE

SPECIFICATION Spec

INVARIANTS
    TypeOK
    NothingStranded
    ReceivedOnce
    AnnouncedIsStored
    ClientsDeleted

SYMMETRY PeerSymmetry

CHECK_DEADLOCK FALSE
