SPECIFICATION Spec
CONSTANTS
    Names = {n1}
    Gens = {1}
    EventKeys = {k1}
    Suppressing = {n1}
    Malformed = {}
    Duration = 1
    Cap = 1
    MaxInstalls = 2
    MaxTime = 1
INVARIANT NoCrash
CHECK_DEADLOCK FALSE
