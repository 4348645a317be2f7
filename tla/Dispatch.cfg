SPECIFICATION FairSpec
CONSTANTS
    s1 = s1
    s2 = s2
    cli = cli
    MaxJobs = 1
    MaxDispatches = 3
    MaxRuns = 4
    Scheduler = {s1}
    Cli = {}
    Attempts = 3
    Cooldown = 1
    Lease = 1
    Cutoff = 2
    Timely = TRUE
    MayCrash = TRUE
CHECK_DEADLOCK FALSE
INVARIANTS OutcomeOfRuns OneDispatchPerAttempt
PROPERTIES EveryDispatchSettles
