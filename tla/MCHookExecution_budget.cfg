CONSTANTS
    Requests = {r1, r2, r3}
    Keys = {k1}
    Masters = {}
    Keyless = Keyless
    MaxLimit = 2
    MaxAdmin = 1
    RequireSigned = TRUE
    Unprivileged = FALSE
SPECIFICATION Spec
SYMMETRY Symmetry
INVARIANT
    CountedUntilFinished
CHECK_DEADLOCK FALSE
