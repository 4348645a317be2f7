SPECIFICATION FairSpec
CONSTANTS
    timer = timer
    admin = admin
    k1 = k1
    k2 = k2
    noKey = noKey
    facebook = facebook
    discord = discord
    MaxRows = 2
    Key = {k1}
    NoKey = noKey
    Channel = {facebook, discord}
    Configured = {facebook}
    Dispatcher = {timer, admin}
    Scope <- MCScope
    Limit = 2
    MaxAttempts = 2
    Backoff <- MCBackoff
    RetryHints = {2}
    Delays = {0}
    Stale = 2
    Retention = 1
    Horizon = 0
    AgeCap = 2
    Timely = TRUE
    Lossy = TRUE
    MayCrash = TRUE
CHECK_DEADLOCK FALSE
INVARIANTS LiveKeyUnique ClaimsExclusive SentWasTaken
PROPERTIES SettledIsFinal KeepsPromise EverySettles
