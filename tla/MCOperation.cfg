SPECIFICATION Spec
CONSTANTS
    o1 = o1
    o2 = o2
    Runtimes = {r1, r2, r3}
    Ops = {o1, o2}
    Kinds = {"read_query", "write_sql", "import", "export"}
    Payloads = {"h1", "h2"}
    Policies = {"p1", "p2"}
    Keys = {"k1"}
    Lifetimes = {1}
    NoExpiry = NoExpiry
    NoRow = NoRow
    NoHash = NoHash
    Hashes <- MCHashes
    EventHash <- MCEventHash
    MaxTime = 2
    MaxProgress = 5
SYMMETRY MCSymmetry
CONSTRAINT MCIdsInOrder
INVARIANTS TypeOK ApprovedBeforeMutation ExecutedAtMostOnce LedgerIsSound KeyBindsOneOperation
PROPERTIES RecoveryIsHonest
CHECK_DEADLOCK FALSE
