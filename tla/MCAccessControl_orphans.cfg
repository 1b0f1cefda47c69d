CONSTANTS
    Keys = {m, a, b}
    Master = m
    Parents = {a}
    Hooks = {h}
    Deployed = {}
    Verbs = {"manage", "execute"}
    Nobody = Nobody
    Workers = {w1, w2}
    MaxRequests = 2
SPECIFICATION Spec
SYMMETRY Symmetry
INVARIANT LineageKept
CHECK_DEADLOCK FALSE
