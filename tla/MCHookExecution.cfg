CONSTANTS
    Requests = {r1, r2}
    Keys = {k1}
    Masters = {}
    Keyless = Keyless
    MaxLimit = 2
    MaxAdmin = 2
    RequireSigned = FALSE
    Unprivileged = FALSE
SPECIFICATION Spec
SYMMETRY Symmetry
INVARIANTS
    TypeOK
    PermitsConserved
    SpawnEntitled
    HistoryFaithful
CHECK_DEADLOCK FALSE
