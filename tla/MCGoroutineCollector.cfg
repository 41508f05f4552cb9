CONSTANTS
    a = a
    Steps = {a}
    GOMAXPROCS = 2
    Int32Half = 4
    OptionLists <- StrictOptionLists
    MaxItems = 4
    MaxCalls = 3
SPECIFICATION Spec
PROPERTIES CallerSeesOnlyMerged
