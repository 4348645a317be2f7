SPECIFICATION FairSpec
CONSTANTS
    timer = timer
    admin = admin
    Doc = {1}
    Row = {1}
    Timer = {timer}
    Operator = {admin}
    MaxAttempts = 2
    Rounds = 2
    FailAt = {1, 2, 4}
    Alone = TRUE
    MaxRuns = 6
    MaxMishaps = 1
    MaxManual = 1
CHECK_DEADLOCK FALSE
INVARIANTS SucceededIsWhole SucceededLosesNoRow
PROPERTIES DocumentsSettle
