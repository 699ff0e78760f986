SPECIFICATION Spec
CONSTANTS
    Tasks = {t1, t2}
    Mutators = {m1}
    Accesses = {"read"}
    Pools = {p1, p2, p3}
    Slots = {s1, s2}
    NoPool = NoPool
    NoSlot = NoSlot
    Lifetimes = {1}
    MaxScope = 1
    MaxTime = 2
    ForeignWriter = TRUE
SYMMETRY MCSymmetry
INVARIANTS PoolsAreSound NoLeaseIsLeaked RevokedGetsNoPool
PROPERTIES NoExpiredHandOff
CHECK_DEADLOCK FALSE
