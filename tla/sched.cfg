CONSTANTS
    j1 = j1
    j2 = j2
    Jobs = {j1, j2}
    DailyJobs = {j2}
    SlowJobs = {j2}
    MaxAttempts <- Attempts
    LoopSlots = {1}
    ManualSlots = {2}
    Workers = 2
SPECIFICATION FairSpec
INVARIANT ExecutionsAccountedFor
PROPERTY StopReturns
PROPERTY DueJobFires
