\* Live workers finish within their lease; crashes and database errors happen.
SPECIFICATION Spec
CONSTANTS
    Nobody = Nobody
    NoJob = NoJob
    Workers = {w1, w2}
    DailyJobs = {d1}
    ManualJobs = {m1}
    DueAt <- MCDueAt
    DayEnd <- MCDayEnd
    MaxAttempts = 2
    RetryBase = 1
    RetryMax = 2
    LeaseTime = 2
    LeaseOutlivesWork = TRUE
    MaxFaults = 1
    MaxRequeues = 1
    LastArrival = 2
    LastFault = 5
    MaxTime = 5
SYMMETRY Symmetry
INVARIANTS
    SingleWorker
    MemoryIsFresh
    WithinBudget
    HistoryAgrees
    CompletedMeansSuccess
    RequestInSync
PROPERTY LifecycleSpec
