SPECIFICATION Spec
CONSTANTS
    carrot = carrot
    leek = leek
    pettah = pettah
    kandy = kandy
    none = none
    nobody = nobody
    w1 = w1
    w2 = w2
    b1 = b1
    b2 = b2
    Artifact = {1, 2}
    Rank <- MCRank
    Run = {1, 2, 3}
    ReadIn <- MCReadIn
    Row <- MCRow
    Label = {"c", "l"}
    Market = {pettah, kandy}
    Item = {carrot, leek}
    NoItem = none
    Bundle <- MCBundles
    Worker = {w1, w2}
    NoWorker = nobody
    Rollback = FALSE
    DataVersion = {1}
    Builder = {b1, b2}
    AtOnce = 2
SYMMETRY MCSymmetry
CHECK_DEADLOCK FALSE
INVARIANTS OneInForce LaterIsEffective PriceIsReviewed RecordedIsThere
PROPERTIES WholeDocuments
