CONSTANTS
    Block <- MCBlock
    Genesis = "g"
    Parent <- MCParent
    Height <- MCHeight
    Confs = 0
    NoConfs = NoConfs
    NoBlock = NoBlock
    Spending <- MCSpending
    FlushEvery = 2
    MaxSeq = 30
    MaxTip = 4
    PageSize = 2
    Recent = 2
    Dense = 3
    QueueSize = 2
    Commands = {"sync"}
    MaxFaults = 1
SPECIFICATION SyncSpec
INVARIANTS HealthReportsTip IntersectKnown EmptyTableStartsAtGenesis
PROPERTIES SyncConverges
CHECK_DEADLOCK FALSE
