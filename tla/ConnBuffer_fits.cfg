SPECIFICATION Spec
CONSTANTS
    c1 = c1
    c2 = c2
    Conn = {c1, c2}
    NoConn = NoConn
    Mbuf = {1, 2, 3, 4, 5, 6}
    Cap = 2
    RecycleLength = 0
    Lens = {1, 2, 3}
    MaxSent = 5
PROPERTIES ReadFits
CHECK_DEADLOCK FALSE
