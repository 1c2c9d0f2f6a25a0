SPECIFICATION PolyphonySpec
CONSTANTS
    None = None
    MaxU = 15
    MaxLimit = 7
    Steps <- MCSteps
    FirstDuneHeight = 2
    Interval = 1
    Reserved = 100
    Base = 10
    MaxDec = 1
    MaxInt = 9
    Tx <- DuneTx
    CoinbaseAt <- DuneCoinbases
    MaxHeight = 3
    MaxTxs = 2
    MaxRollbacks = 1
    MaxFailures = 1
    FirstRune = 1
    FirstInscription = 1
    Subsidy = 2
    Absent = Absent
    MaxAmount = 31
    MaxOffset = 1
    MaxBatch = 2
    UtxosInMemory = TRUE
INVARIANTS TablesMatchChain MemoryAgrees MemorySizeCovers DunesWithinTerms OutputsIndexed DunesIndexed
CHECK_DEADLOCK FALSE
