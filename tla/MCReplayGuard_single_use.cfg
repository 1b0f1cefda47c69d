CONSTANTS
    Sigs = {s1}
    Workers = {w1, w2}
    Presented = 0
    TimestampOf <- MCTimestampOf
    MaxAge = 1
    MaxWindow = 3600
    TicksPerSecond = 2
    MaxTime = 5
    MaxTracked = 1
    PruneDivisor = 2
    CapacityDivisor = 2
SPECIFICATION Spec
SYMMETRY Symmetry
INVARIANT
    SingleUse
CHECK_DEADLOCK FALSE
