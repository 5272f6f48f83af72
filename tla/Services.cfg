\* The services that work on a tenant's rows, with their concurrency and faults.
SPECIFICATION MCSpec
CONSTANTS
    Parts = {"bot", "panel", "account", "engine"}
    Handlers = {h1, h2}
    MaxToken = 3
    MaxSecret = 3
    MaxFaults = 2
    Null = Null
    Products = {p1, p2}
    Urls = {u1}
    MaxPreviews = 3
    Requests = {h1, h2}
    Ttl = 1
    Window = 1
    RateLimit = 1
    MaxMinute = 1
    Visits = {h1, h2}
    BetaRequired = TRUE
    MaxAccounts = 2
    o1 = o1
    i1 = i1
    s1 = s1
    LastBatch = 3
    Collectors = 2
    MaxLosses = 1
    LastClock = 2
    Owners = {o1}
    Items = {i1}
    Links = {s1}
    Unroutable = {}
    Prices = {90, 100}
    Freight = {0}
    Target = 95
    OwnerOf <- MCOwnerOf
    ItemOf <- MCItemOf
    OfferOf <- MCOfferOf
    Rule <- MCRule
SYMMETRY MCSymmetry
VIEW MCView
CONSTRAINT NothingOutdatedSaved
CHECK_DEADLOCK FALSE
INVARIANTS
    ServicesTypeOK
    ActiveIsConnected
    WipedKeepsNothing
    TokenIsCurrent
    BotListens
    ArchivedFreesItsLinks
    LimitHolds
    NoOrphanProduct
    OneBaseline
    SuccessIsComplete
    DropIsNews
PROPERTIES
    StaysDisconnected
    ConfirmationIsFinal
    ErasedByItsOwner
    EndedStaysEnded
