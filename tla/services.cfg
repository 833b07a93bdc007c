CONSTANTS
    PageIds = {1, 2}
    Slugs = {"a", "b", "c"}
    Edits = {e1, e2}
    NoPage = NoPage
    NoEdit = NoEdit
    Gone = Gone
    Done = Done
    FirstRules <- SomeRules
    FixedSlugs = {"c"}
    Deployments <- SomeDeployments
    PluginRows <- OnePage
    PrefixedSlugs = {"admin-guide"}
    OtherPaths <- SomePaths
    Calls = {c1, c2, c3}
    Keys = {k1, k2}
    MaxHits = 1
    Window = 3
    MaxDelay = 1
    MaxTime = 8
    Paths = {p1}
    Visitors = {v1, v2}
    Flushers = {f1, f2}
    LastDay = 2
    MaxPaths = 1
    MaxViews = 3
    NoBatch = NoBatch
    Containers = {b1, b2, b3}
    NoOne = NoOne
    OldColumns = {}
    MaxCrashes = 1
    Threads = {t1, t2}
    NoThread = NoThread
    Builder = t1
    Processes <- SomeProcesses
    MayRaise = {"Cache", "Mailer"}
    DayLength = 4
    Target = 2
    LastHour = 10
    MaxShifts = 2
    NeverRun = NeverRun
    Runs = {r1, r2, r3}
    Keep = 1
    PageSize = 2
    FirstRows = 3
    LastId = 5
    Submissions = {m1, m2}
    Clerks = {a1, a2}
    MaxPerWindow = 1
    Saves = {s1, s2}
    Readers = {q1}
    NoEntry = NoEntry
    Items = {1}
    Indexers = {b1, b2}
    Searches = {q2}
    MaxEdits = 2
    Viewers = {v1, v2}
    NoLoad = NoLoad
    TimeToLive <- SomeTtls
    MaxLoad = 1
    EndOfTime = 5
    Forms = {m1, m2}
    Uploads = {u1, u2}
    Removals = {d1, d2}
    Listings = {l1}
    NoFile = NoFile
SPECIFICATION Spec
INVARIANT ForwardsToNewest
INVARIANT HiddenOnlyByReuse
INVARIANT AnsweredAsPromised
INVARIANT PagesAgreeWithApi
INVARIANT WindowBounded
INVARIANT IdleKeysDropped
INVARIANT ViewsConserved
INVARIANT SeededOnce
INVARIANT UpMeansReady
INVARIANT SingletonsSound
INVARIANT OncePerDay
INVARIANT NewestKept
INVARIANT NothingMissed
INVARIANT AnswersAreTrue
INVARIANT ShownAreStored
INVARIANT SavesAreKept
INVARIANT IndexServesSearch
INVARIANT StaleForAtMostTtl
INVARIANT EditsAreKept
INVARIANT LogTellsTheDirectory
PROPERTY UniquesOnlyGrow
PROPERTY AllComeUp
\* A request that was answered, a client on the last page, edits, calls and
\* clocks at their bounds have no further step.
CHECK_DEADLOCK FALSE
