SPECIFICATION FairSpec
CONSTANTS
    Ops = {"o1", "a1"}
    Keys = {"o1", "a1"}
    AgentOps = {"a1"}
    AutocommitKinds = {}
    SafetySettings = {"writable"}
    MaxScope = 1
    MaxDecisions = 1
    MayOverlap = FALSE
    StoreMayFail = FALSE
    Runtimes = {r1}
    Workers = {w1, w2}
    Cancellers = {}
    Kinds = {"write_sql", "read_query"}
    Payloads = {"h"}
    Policies <- MCPolicies
    Lifetimes = {1}
    NoExpiry = NoExpiry
    NoRow = NoRow
    NoHash = NoHash
    Hashes = {0}
    EventHash <- MCEventHash
    MaxTime = 1
    MaxProgress = 0
INVARIANTS NoAccessUnderChangedPolicy
PROPERTIES ExecutionEnds
CHECK_DEADLOCK FALSE
