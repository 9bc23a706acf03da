SPECIFICATION Spec
CONSTANTS
    Client = {c1, c2, c3}
    Conn = {k1, k2, k3}
    Min = 1
    Max = 2
    SizeMax = 4
    MaxBreak = 1
    MaxShutdown = 1
    NoConn = NoConn
INVARIANTS
    TypeOK
    OneOwner
    AtMostMax
    WaitOnlyAtReducedMax
PROPERTY CallsReturn
CHECK_DEADLOCK FALSE
