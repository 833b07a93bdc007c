CONSTANTS
    Threads = {t1, t2, t3}
    Conns = {c1, c2}
    NoConn = NoConn
    MaxSize = 2
    UnitKinds = {"execute"}
    UnitSize = 2
    Faults <- ConflictFaults
SPECIFICATION DbmSpec
SYMMETRY Symmetry
INVARIANT IdleConnectionsClean
\* Every thread serves one request and stops.
CHECK_DEADLOCK FALSE
