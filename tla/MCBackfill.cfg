CONSTANTS
    Block <- MCBlock
    Genesis = "g"
    Parent <- MCParent
    Height <- MCHeight
    Key <- MCKey
    Chunks <- MCChunks
    Touch <- MCTouch
    NoBlock = NoBlock
    StartBulk = NoBlock
    StartCursor = NoBlock
    BufSize = 3
    BatchSize = 2
    Advertise = FALSE
    InitTip = "a4"
    InitLog <- MCLogTop
    Window = 1
    PageSize = 2
    QueueCap = 3
    MaxReorg = 0
    Trials <- MCBackfill
SPECIFICATION Spec
INVARIANTS BulkDataMatches AdvertisedHasEntry
PROPERTY BackfillCompletes
CHECK_DEADLOCK FALSE
