CONSTANTS
    Callers = {"a"}
    Helpers = {"postgres", "sqlx", "gorm", "mongo"}
    MaxOpenConns = 2
    MaxWrites = 2
    MaxExecs = 3
    Askers = {a1, a2}
    Names = {"id", "id_card"}
    Prefixes <- MCPrefixes
    PoolSize = 1
    MaxRows = 1
    Clients = {c1, c2}
    CacheKeys = {k}
    Values = {v}
    TTLs <- MCTTLs
    MaxTime = 3
SPECIFICATION AloneSpec
INVARIANTS AllOrNothing NilMeansStored  ParametersBound
PROPERTIES TransactionsEnd CallsReturn ImplementsStore ExpiredItemsGo
CHECK_DEADLOCK FALSE
