SPECIFICATION FairBrokerSpec
CONSTANTS
    d1 = d1  d2 = d2  r1 = r1  r2 = r2
    Desktops = {d1}
    Calls = {r1}
    Requests <- CatalogRequest
    MaxConnections = 1
    MaxBrokerRevision = 1
    MaxIssued = 1
    MaxPolls = 1
PROPERTY EditGetsTheGate
CHECK_DEADLOCK FALSE
