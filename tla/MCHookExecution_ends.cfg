CONSTANTS
    Requests = {r1, r2}
    Keys = {k1}
    Masters = {k1}
    Keyless = Keyless
    MaxLimit = 1
    MaxAdmin = 0
    RequireSigned = TRUE
    Unprivileged = TRUE
SPECIFICATION FairSpec
INVARIANTS
    ConcurrencyRespected
    TimeoutLeavesNothing
PROPERTIES
    RequestEnds
CHECK_DEADLOCK FALSE
