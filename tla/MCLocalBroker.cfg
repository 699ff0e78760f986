SPECIFICATION MCBrokerSpec
CONSTANTS
    d1 = d1  d2 = d2  r1 = r1  r2 = r2
    Desktops = {d1, d2}
    Calls = {r1}
    Requests <- AnyRequest
    MaxConnections = 1
    MaxBrokerRevision = 1
    MaxIssued = 1
    MaxPolls = 2
INVARIANTS ExitCodeIsHonest StoppedBrokerIsQuiet TargetUnderItsRevision
PROPERTIES NobodyHangs
CHECK_DEADLOCK FALSE
