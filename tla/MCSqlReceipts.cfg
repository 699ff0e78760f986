SPECIFICATION Spec
CONSTANTS
    Ops = {"o1"}
    Keys = {"o1"}
    AgentOps = {}
    AutocommitKinds = {"ddl"}
    SafetySettings = {"guarded", "writable"}
    MaxScope = 0
    MaxDecisions = 1
    MayOverlap = TRUE
    StoreMayFail = TRUE
    Runtimes = {r1, r2}
    Workers = {w1, w2}
    Cancellers = {"c1"}
    Kinds = {"write_sql", "read_query", "ddl"}
    Payloads = {"h"}
    Policies <- MCPolicies
    Lifetimes = {1}
    NoExpiry = NoExpiry
    NoRow = NoRow
    NoHash = NoHash
    Hashes = {0}
    EventHash <- MCEventHash
    MaxTime = 1
    MaxProgress = 0
SYMMETRY MCSymmetry
CONSTRAINT MCBound
INVARIANTS RecordsAreHonest CancellableWhileExecuting
PROPERTIES StoreSpec
CHECK_DEADLOCK FALSE
