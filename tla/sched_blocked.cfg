CONSTANTS
    j1 = j1
    j2 = j2
    Jobs = {j1, j2}
    DailyJobs = {}
    SlowJobs = {j1}
    MaxAttempts <- Attempts
    LoopSlots = {1, 2}
    ManualSlots = {}
    Workers = 2
SPECIFICATION Spec
INVARIANT SlowJobBlocksNobody
