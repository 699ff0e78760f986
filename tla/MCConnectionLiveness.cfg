SPECIFICATION FairSpec
CONSTANTS
    Tasks = {t1, t2}
    Mutators = {m1}
    Accesses = {"read"}
    Pools = {p1, p2}
    Slots = {s1}
    NoPool = NoPool
    NoSlot = NoSlot
    Lifetimes = {1}
    MaxScope = 1
    MaxTime = 1
    ForeignWriter = FALSE
INVARIANTS CacheIsCurrent
PROPERTIES EveryoneFinishes ExpiredLeaseIsReturned
CHECK_DEADLOCK FALSE
