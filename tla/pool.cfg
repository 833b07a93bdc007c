CONSTANTS
    Threads = {t1, t2, t3, t4}
    Conns = {c1, c2, c3}
    NoConn = NoConn
    MaxSize = 2
    Timeouts = TRUE
SPECIFICATION FairSpec
INVARIANT CountExact
PROPERTY ImplementsBoundedPool
PROPERTY EventuallyAnswered
