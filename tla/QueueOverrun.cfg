\* Collections may outlive their lease: a stale worker saves after another took over.
SPECIFICATION Spec
CONSTANTS
    Nobody = Nobody
    NoJob = NoJob
    Workers = {w1, w2}
    DailyJobs = {d1}
    ManualJobs = {m1}
    DueAt <- MCDueAt
    DayEnd <- MCDayEnd
    MaxAttempts = 2
    RetryBase = 1
    RetryMax = 2
    LeaseTime = 2
    LeaseOutlivesWork = FALSE
    MaxFaults = 1
    MaxRequeues = 1
    LastArrival = 2
    LastFault = 4
    MaxTime = 4
SYMMETRY Symmetry
INVARIANTS TypeOK
    ReservationProtected
    AttemptsNumbered
    PendingNotRunning
