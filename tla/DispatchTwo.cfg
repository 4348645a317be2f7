SPECIFICATION Spec
CONSTANTS
    s1 = s1
    s2 = s2
    cli = cli
    MaxJobs = 2
    MaxDispatches = 2
    MaxRuns = 3
    Scheduler = {s1, s2}
    Cli = {cli}
    Attempts = 2
    Cooldown = 1
    Lease = 1
    Cutoff = 2
    Timely = TRUE
    MayCrash = FALSE
SYMMETRY SchedulerSymmetry
CHECK_DEADLOCK FALSE
INVARIANTS OneWorker FailureIsRetried
PROPERTIES KeepsQueuePromise
