\* One collection after the other: a target alert, a failed collection, the alert again.
SPECIFICATION MCSpec
CONSTANTS
    Parts = {"engine"}
    Handlers = {h1}
    MaxToken = 1
    MaxSecret = 1
    MaxFaults = 0
    Null = Null
    Products = {p1}
    Urls = {u1}
    MaxPreviews = 1
    Requests = {h1}
    Ttl = 1
    Window = 1
    RateLimit = 1
    MaxMinute = 1
    Visits = {h1}
    BetaRequired = TRUE
    MaxAccounts = 2
    o1 = o1
    i1 = i1
    s1 = s1
    LastBatch = 4
    Collectors = 1
    MaxLosses = 0
    LastClock = 2
    Owners = {o1}
    Items = {i1}
    Links = {s1}
    Unroutable = {}
    Prices = {90, 100}
    Freight = {0}
    Target = 95
    OwnerOf <- MCOwnerOf
    ItemOf <- MCItemOf
    OfferOf <- MCOfferOf
    Rule <- MCRule
CHECK_DEADLOCK FALSE
INVARIANT TargetIsCrossed
