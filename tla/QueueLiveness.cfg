\* Prompt clock: jobs, leases and requests settle after one fault and one requeue.
SPECIFICATION FairSpec
CONSTANTS
    Nobody = Nobody
    NoJob = NoJob
    Workers = {w1, w2}
    DailyJobs = {d1}
    ManualJobs = {m1}
    DueAt <- MCDueAt
    DayEnd <- MCDayEnd
    MaxAttempts = 2
    RetryBase = 1
    RetryMax = 1
    LeaseTime = 2
    LeaseOutlivesWork = TRUE
    MaxFaults = 1
    MaxRequeues = 0
    LastArrival = 1
    LastFault = 2
    MaxTime = 7
PROPERTIES
    EveryJobSettles
    LeaseIsFreed
    RequestsSettle
