CONSTANTS
    Threads = {t1, t2, t3, t4, t5}
    Conns = {c1, c2, c3}
    NoConn = NoConn
    MaxSize = 2
    Timeouts = FALSE
SPECIFICATION Spec

INVARIANT NoLostWakeup
