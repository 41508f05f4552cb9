CONSTANTS
    Steps = {a, b}
    GOMAXPROCS = 2
    Int32Half = 4
    OptionLists <- AllOptionLists
    MaxItems = 3
    MaxCalls = 3
SPECIFICATION FairSpec
INVARIANTS AtMostOneLate EveryJobAccounted SuccessMeansAllSucceeded CollectorSeesEveryChunk
PROPERTIES NoResponseLost ImplementsPool RunReturns
