CONSTANTS
    Threads = {t1, t2}
    Slugs = {a, b}
    Menus = {m1, m2}
    Rules = {r1}
    Settings = {s1}
    Pages = {p1}
    Unborn = Unborn
    Deleted = Deleted
    Nobody = Nobody
    MaxWrites = 2
SPECIFICATION MCFairSpec
INVARIANT SingleFlight
PROPERTY KeyLockReleased
PROPERTY EventuallyFresh
PROPERTY StaleOnlyFromThreeCauses
