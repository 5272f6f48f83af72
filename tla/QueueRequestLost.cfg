\* One crash between the save of the job and the sync of its request.
SPECIFICATION Spec
CONSTANTS
    Nobody = Nobody
    NoJob = NoJob
    Workers = {w1, w2}
    DailyJobs = {d1}
    ManualJobs = {m1}
    DueAt <- MCDueAt
    DayEnd <- MCDayEnd
    MaxAttempts = 2
    RetryBase = 1
    RetryMax = 2
    LeaseTime = 2
    LeaseOutlivesWork = TRUE
    MaxFaults = 1
    MaxRequeues = 1
    LastArrival = 2
    LastFault = 4
    MaxTime = 4
SYMMETRY Symmetry
INVARIANT SuccessReachesRequest
