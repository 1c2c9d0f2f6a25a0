CONSTANTS
    Block <- MCBlock
    Genesis = "g"
    Parent <- MCParent
    Height <- MCHeight
    Confs = 1
    NoConfs = NoConfs
    NoBlock = NoBlock
    Spending <- MCSpending
    FlushEvery = 3
    MaxSeq = 7
    MaxTip = 4
    NoSeq = NoSeq
SPECIFICATION StreamSpec
PROPERTY EveryUpdateDelivered
