SPECIFICATION PostsSpec
CONSTANTS
    tick = tick
    admin = admin
    noKey = noKey
    facebook = facebook
    MaxRows = 2
    Key = {1, 2}
    NoKey = noKey
    Channel = {facebook}
    Configured = {facebook}
    Dispatcher = {tick, admin}
    Scope <- MCScope
    Limit = 3
    MaxAttempts = 2
    Backoff <- MCBackoff
    RetryHints = {}
    Delays = {0}
    Stale = 2
    Retention = 1
    Horizon = 0
    AgeCap = 2
    Timely = TRUE
    Lossy = TRUE
    MayCrash = TRUE
    MaxSched = 2
    Platform = facebook
    MaxFaults = 1
SYMMETRY MCSymmetry
CHECK_DEADLOCK FALSE
INVARIANTS QueuedIsHeld OutOnce PublishedIsOut NotRetried
