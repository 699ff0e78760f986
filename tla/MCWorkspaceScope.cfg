CONSTANTS
    Teams = {t1}
    Users = {u1, u2}
    Personal = Personal
    NoUser = NoUser
    Calls = {k1, k2}
    MaxCalls = 3
    MaxGeneration = 3
    MaxServerChanges = 1
SYMMETRY Symmetry
SPECIFICATION Spec
INVARIANTS ScopeIsSound
PROPERTIES ImplementsActiveScope
