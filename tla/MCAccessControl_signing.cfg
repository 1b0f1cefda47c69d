CONSTANTS
    Keys = {m, a, b}
    Master = m
    Parents = {a}
    Hooks = {h}
    Deployed = {}
    Verbs = {"manage", "execute"}
    Nobody = Nobody
    Workers = {w1}
    MaxRequests = 2
SPECIFICATION Spec
SYMMETRY Symmetry
INVARIANT ManagersCanSign
CHECK_DEADLOCK FALSE
