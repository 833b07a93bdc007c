CONSTANTS
    Threads = {t1, t2, t3}
    Conns = {c1, c2}
    NoConn = NoConn
    MaxSize = 2
    UnitKinds = {"execute", "transaction"}
    UnitSize = 2
    Faults <- AllFaults
SPECIFICATION DbmSpec
SYMMETRY Symmetry
INVARIANT AtomicUnlessHit
INVARIANT OutcomeIsTrue
INVARIANT QuietConnectionsClean
PROPERTY ImplementsAtomicUnits
\* Every thread serves one request and stops.
CHECK_DEADLOCK FALSE
