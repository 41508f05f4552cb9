CONSTANTS
    Payloads = {p, q}
    Poison = {p}
    MaxPublish = 2
    MaxAttempts = 1
    Prefetch = 2
    Goroutines = 2
    HandlerCount = 2
    MaxRestarts = 1
    Items = {a, b}
    NoJob = none
SPECIFICATION AloneSpec
INVARIANTS NoMessageLost JobRunsItsHandler
PROPERTIES EveryMessageHandled CloseGivesBack ListenReturns 
CHECK_DEADLOCK FALSE
