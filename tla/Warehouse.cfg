SPECIFICATION FairSpec
CONSTANTS
    MaxRows = 3
    MaxStamp = 3
    Key = {1}
    Pub = {1}
    Syncer = {1, 2}
    BatchSize = 2
    Apart = TRUE
    Weather <- MCCalm
CHECK_DEADLOCK FALSE
INVARIANTS CursorCovers
PROPERTIES MirrorsInTheEnd
