\* Room for the listening socket and two clients.
CONSTANTS
    SetSize = 3
    FdLimit = 3
    Procs = {"AcceptTcpHandler", "ReadFromClient"}
    NoProc = NoProc
    OwnDescriptorOnly = TRUE
    Peer = {a, b}
    NoPeer = NoPeer
    MaxUnread = 1
    MaxSignals = 1

SPECIFICATION ServerSpec

INVARIANTS
    ServerTypeOK
    LeaksOneAtMost

PROPERTIES
    KeepsConventions
    FreshDelivery
    ClientsServed
    SignalStops

\* The process ends.
CHECK_DEADLOCK FALSE
