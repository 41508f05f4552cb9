CONSTANTS
    Routers = {r1, r2}
    Requests = {p}
    Fields = {"code", "data"}
    LogicalCodes = {404000, 7, 60000}
    FileChunks = 1
SPECIFICATION WebSpec
INVARIANTS OwnHandlerAnswers
CHECK_DEADLOCK FALSE
