SPECIFICATION Spec
CONSTANTS
    Ops = {"o1"}
    Keys = {"o1"}
    AgentOps = {}
    AutocommitKinds = {}
    SafetySettings = {"writable"}
    MaxScope = 0
    MaxDecisions = 1
    MayOverlap = FALSE
    StoreMayFail = TRUE
    Runtimes = {r1, r2}
    Workers = {w1, w2}
    Cancellers = {"c1"}
    Kinds = {"write_sql"}
    Payloads = {"h"}
    Policies <- MCPolicies
    Lifetimes = {1}
    NoExpiry = NoExpiry
    NoRow = NoRow
    NoHash = NoHash
    Hashes = {0}
    EventHash <- MCEventHash
    MaxTime = 1
    MaxProgress = 0
SYMMETRY MCSymmetry
INVARIANTS CancelledMeansUnchanged
CHECK_DEADLOCK FALSE
