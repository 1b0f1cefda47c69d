CONSTANTS
    Keys = {m, a, b}
    Master = m
    Parents = {a}
    Hooks = {h}
    Deployed = {}
    Verbs = {"manage", "execute"}
    Nobody = Nobody
    Workers = {w1}
    MaxRequests = 4
SPECIFICATION Spec
SYMMETRY Symmetry
INVARIANTS
    TypeOK
    RightsRooted
    LineageKept
    ManagersSignStandard
    ElevatedVetted
PROPERTIES
    DeletionStaysBelow
    DispatchContained
CHECK_DEADLOCK FALSE
