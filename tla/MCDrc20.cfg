SPECIFICATION PolyphonySpec
CONSTANTS
    None = None
    MaxU = 15
    MaxLimit = 7
    Steps <- MCSteps
    FirstDuneHeight = 2
    Interval = 1
    Reserved = 100
    Base = 10
    MaxDec = 1
    MaxInt = 9
    Tx <- Drc20Tx
    CoinbaseAt <- Drc20Coinbases
    MaxHeight = 3
    MaxTxs = 3
    MaxRollbacks = 1
    MaxFailures = 0
    FirstRune = 1
    FirstInscription = 1
    Subsidy = 1
    Absent = Absent
    MaxAmount = 31
    MaxOffset = 1
    MaxBatch = 2
    UtxosInMemory = FALSE
INVARIANTS TablesMatchChain Drc20Conserved InscriptionsWellPlaced OutputsIndexed InscriptionsIndexed
CHECK_DEADLOCK FALSE
