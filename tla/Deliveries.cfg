\* Messages out and in: alert delivery, webhook updates, and the local radar.
SPECIFICATION MCSpec
CONSTANTS
    Parts = {"delivery", "receipts", "radar"}
    t1 = t1
    a1 = a1
    Workers = {w1, w2}
    Tenants = {t1}
    LastEvent = 1
    TenantOf <- MCTenantOf
    Limit = 1
    LeaseTime = 1
    MaxFaults = 1
    LastFault = 1
    MaxTime = 3
    Updates = {u1, u2}
    Threads = {h1, h2}
    Cooldown = 1
    MaxHour = 2
    MaxMishaps = 1
    Radars = {r1, r2}
    LastRun = 4
    MaxTrouble = 1
    Wares = {a1}
    Stalls = {l1}
    WareOf <- MCWareOf
    Quotes = {90, 100}
    Goal = 95
    AlertIncrease = TRUE
CHECK_DEADLOCK FALSE
INVARIANTS
    DeliveriesTypeOK
    OneSender
    AcceptedAccountedFor
    OneHandler
    CooldownHolds
    FailureIsRetried
    GoalIsCrossed
PROPERTIES
    AlertLifecycleSpec
    EveryAlertRecorded
    UnsentIsRetried
    EveryUpdateSettles
