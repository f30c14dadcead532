SPECIFICATION FairSpec
CONSTANTS
    Frontends = {f1, f2}
    Clients = {c1, own}
    c1 = c1
    ownClient = own
    Callers <- MCCallers
    TokenLife = 2
    MaxTime = 3
    CacheTTL = 1
    CacheMax = 1
    MaxDelay = 1
    HardcodedEnabled = FALSE
INVARIANTS TypeOK AuthorizedWasGood RefusedWasBad GatewayErrorsHaveACause
PROPERTIES EveryRequestAuthorized
