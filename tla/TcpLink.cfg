SPECIFICATION TcpFairSpec
CONSTANTS
    k1 = k1
    k2 = k2
    Closed = Closed
    Conns <- MCConns
    Requests <- MCRequests
CHECK_DEADLOCK FALSE
INVARIANT PairedUntilTimeout
PROPERTIES LockReleased EndedIsDropped
