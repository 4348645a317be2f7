SPECIFICATION Spec
CONSTANTS
    carrot = carrot
    leek = leek
    none = none
    Row <- MCRow
    Price = {10, 20}
    NoPrice = 0
    Label <- MCLabel
    Lineage <- MCPack
    Bundle = {1,2,3}
    Item <- MCItem
    NoItem = none
    MaxArtifacts = 2
    MaxObs = 5
    Rollback = FALSE
    MayCrash = TRUE
CHECK_DEADLOCK FALSE
INVARIANTS OnePriceInForce SnapshotInForce HistoryEnds
PROPERTIES PromotionIsIdempotent
