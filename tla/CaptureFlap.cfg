SPECIFICATION Spec
CONSTANTS
    carrot = carrot
    leek = leek
    none = none
    Row <- MCRow
    Price = {10, 20}
    NoPrice = 0
    Label <- MCName
    Lineage <- MCName
    Bundle = {1}
    Item <- MCItemOne
    NoItem = none
    MaxArtifacts = 2
    MaxObs = 4
    Rollback = FALSE
    MayCrash = FALSE
CHECK_DEADLOCK FALSE
INVARIANTS LatestCaptureInForce
