SPECIFICATION FairSpec
CONSTANTS
    r1 = r1
    r2 = r2
    r3 = r3
    Runs = {r1, r2, r3}
    Actions <- MCActions
    DryRun = {r3}
    Steps = 2
    MaxLives = 2
INVARIANTS TypeOK DebugOnce StopsAtFailure NoRetryNoRepeat
PROPERTY RunEnds
CHECK_DEADLOCK FALSE
