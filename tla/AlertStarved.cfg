\* A limit below the backlog: the oldest events belong to a tenant without a bot.
SPECIFICATION FairSpec
CONSTANTS
    t1 = t1
    t2 = t2
    Workers = {w1}
    Tenants = {t1, t2}
    LastEvent = 2
    TenantOf <- LastIsOther
    Limit = 1
    LeaseTime = 1
    MaxFaults = 0
    LastFault = 0
    MaxTime = 1
PROPERTY NoAlertStarves
