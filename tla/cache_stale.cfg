CONSTANTS
    Threads = {t1, t2}
    Slugs = {}
    Menus = {}
    Rules = {r1}
    Settings = {}
    Pages = {p1}
    Unborn = Unborn
    Deleted = Deleted
    Nobody = Nobody
    MaxWrites = 2
SPECIFICATION MCSpec
INVARIANT InvalidatedImmediately
