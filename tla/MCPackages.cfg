CONSTANTS
    Routers = {r1, r2}
    Requests = {p, q}
    Fields = {"code", "data"}
    LogicalCodes = {404000, 7, 60000}
    FileChunks = 1
    Spans = {s1, s2}
    Codes = {100, 409000}
    Statuses = {200, 400}
    MaxEnds = 2
    Events = {e}
    States = {s, t}
    Firers = {f}
    ZeroState = none
    MaxRules = 2
    MaxHooks = 1
    Uploaders = {u}
    MaxChunks = 2
    PartCount = 2
    MaxTries = 2
    CopyTypes <- MCTypes
    CopyValues <- MCValues
    IntTop = 32
    ByteTop = 4
    FloatBits = 4
    MaxExponent = 12
SPECIFICATION AloneSpec
INVARIANTS PayloadIsOwn AnsweredOnce LogsAgree TraceIsWhole ErrorsAreAnswered FireIsOfOneRule ObjectsAreWhole 
CHECK_DEADLOCK FALSE
