CONSTANTS
    Block <- MCBlock
    Genesis = "g"
    Parent <- MCParent
    Height <- MCHeight
    Instance = {1, 2}
    Serves <- MCServes
    StartAt <- MCStartAt
    Registered = {1}
    Output <- MCOutput
    PerHeight = 5
    DuneOutputs = {11, 17}
    InscriptionOutputs = {12, 15, 18}
    Etched <- MCSeen
    Known <- MCSeen
    Span = 20
    MaxMoves = 2
    Options <- MCOptions
    DawScanSize = 10
    DawFits = 5
    Fits = 3
    Listings <- MCListings
    Dust = {13}
    Ids <- MCIds
    BatchSize = 4
    MaxRequests = 3
SPECIFICATION Spec
INVARIANTS PageOfItsBlock ListingExact WipeComplete
PROPERTIES RequestsAnswered
CHECK_DEADLOCK FALSE
