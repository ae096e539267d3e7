SPECIFICATION FairSpec
CONSTANTS
    Names = {n1}
    Gens = {1, 2}
    EventKeys = {k1}
    Suppressing = {n1}
    Malformed = {n1}
    Duration = 1
    Cap = 1
    MaxInstalls = 2
    MaxTime = 1
INVARIANTS NoOrphanGoroutine InstalledListens SuppressionHonoured
           TwiceOnlyByLeftover CrashCauses
PROPERTY GoroutineEnds
CHECK_DEADLOCK FALSE
