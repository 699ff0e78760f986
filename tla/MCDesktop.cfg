SPECIFICATION MCDesktopSpec
CONSTANTS
    Ops = {o1}
    Workers = {w1, w2}
    Engines = {"postgres", "mysql", "mongodb"}
    Scripts <- MCScripts
    Queries <- MCQueries
    RowRequests = {0, 3}
    MaxRowsSettings = {1, 3}
    MaxAgentRows = 2
    MaxDesktopRows = 2
    MaxMatching = 3
    MaxRevision = 2
    MaxRestarts = 1
    StoreMayFail = TRUE
    Threads = {t1}
    Turns = {k1, k2}
    Scopes = {"personal", "team"}
    MaxChunks = 1
    MaxScopeSwitches = 1
INVARIANTS ServiceRecordsAreHonest ExecutingIsOwned TranscriptIsFaithful
PROPERTIES EverythingEnds
CHECK_DEADLOCK FALSE
