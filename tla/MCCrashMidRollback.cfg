CONSTANTS
    Block <- MCBlock
    Genesis = "g"
    Parent <- MCParent
    Height <- MCHeight
    Key <- MCKey
    Chunks <- MCChunks
    Touch <- MCTouch
    NoBlock = NoBlock
    StartBulk = "a1"
    StartCursor = "a3"
    BufSize = 3
    BatchSize = 1
    Advertise = FALSE
    InitTip = "a3"
    InitLog <- MCLog
    Window = 5
    PageSize = 2
    QueueCap = 2
    MaxReorg = 2
    Trials <- MCCrash
SPECIFICATION Spec
INVARIANT DataMatchesCursor
CHECK_DEADLOCK FALSE
