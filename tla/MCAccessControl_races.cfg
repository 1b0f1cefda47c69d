CONSTANTS
    Keys = {m, a, b}
    Master = m
    Parents = {a}
    Hooks = {h}
    Deployed = {h}
    Verbs = {"manage", "execute"}
    Nobody = Nobody
    Workers = {w1, w2}
    MaxRequests = 3
SPECIFICATION Spec
SYMMETRY Symmetry
INVARIANTS
    RightsRooted
PROPERTIES
    DeletionStaysBelow
CHECK_DEADLOCK FALSE
