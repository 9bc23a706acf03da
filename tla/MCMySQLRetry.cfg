SPECIFICATION Spec
CONSTANTS
    Client = {c1}
    Conn = {k1, k2, k3}
    Min = 2
    Max = 2
    SizeMax = 4
    MaxBreak = 0
    MaxShutdown = 0
    NoConn = NoConn
INVARIANT WithinMax
CHECK_DEADLOCK FALSE
