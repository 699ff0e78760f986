SPECIFICATION MCLocalSpec
CONSTANTS
    Readers = {q1, q2}
    Sessions = {s1}
    MaxChanges = 1
    MaxEdits = 1
    MaxTokens = 3
    JS_MAX_SAFE_INT = 4
    MaxInt = 14
    Desktops = {d1, d2}
    PathDesktops = {d1}
    MaxVersion = 2
    MAX_PROFILE_BYTES = 4
    Locals = {c1, c2}
    Requests = {r1, r2}
    AppOf <- MCAppOf
    Engines = {"postgres", "mysql"}
    SchemaGroups = {"g"}
    OldSecret = "old"
    MaxCrashes = 1
    Teams = {t1}
    Users = {u1, u2}
    Personal = Personal
    NoUser = NoUser
    LocalIds = {l1}
    SharedIds = {s1}
    Contents = {"x"}
    Creds = {p1}
    Dashboards = {d1}
    PinOps = {o1}
    MaxPinEdits = 3
    Processes = {"p1", "p2"}
    Writers = {w1, w2, w3}
    Connections = {"c1", "c2"}
    Fields = {"f1", "f2"}
    Hashes <- MCHashes
    NoHash = NoHash
    compute_hash <- MCHash
    MaxRows = 3
    MayOverlap = FALSE
    LeaseRequests = {m1}
    RETIRE_MARGIN = 3
    MIN_VALID = 3
    MAX_VALID = 5
    Lifetimes = {2, 3, 4, 5, 6}
    Lags <- MCLags
    MaxTick = 7
    DashUsers = {u1, u2}
    DashRequests = {r1}
    BoardIds = {b1}
    BoardTexts = {"pg", "update"}
    MaxDashEdits = 2
CONSTRAINT MCLocalBound
INVARIANTS ChangesWereApproved ReadsAreFaithful TextIsFaithful InstallationIsSound ProfilesAreSound
    NothingIsLeftBehind RevisionsAreTrue ChainVerifies HandedOutAlive DashboardsAreReads
PROPERTIES HistoryStaysInScope OnlyConfirmedReplacement
CHECK_DEADLOCK FALSE
