CONSTANTS
    Readers = {r1}
    Sessions = {s1}
    MaxChanges = 1
    MaxEdits = 0
SPECIFICATION ReadsSpec
INVARIANT NoLeakedTransaction
CHECK_DEADLOCK FALSE
