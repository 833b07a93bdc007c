CONSTANTS
    Threads = {t1, t2, t3}
    Conns = {c1, c2}
    NoConn = NoConn
    MaxSize = 2
    UnitKinds = {"execute", "transaction"}
    UnitSize = 2
    Faults <- DriverFaults
SPECIFICATION DbmSpec
SYMMETRY Symmetry
INVARIANT UnitAtomic
\* Every thread serves one request and stops.
CHECK_DEADLOCK FALSE
