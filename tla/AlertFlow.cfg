SPECIFICATION FairSpec
CONSTANTS
    AlertName = 1
    Fnv32a <- MCFnv32a
    Alerts <- MCAlerts
    Steady <- MCSteady
    Sources <- MCSources
    EventName <- MCEventName
    Duration = 1
    Cap = 1
    MaxTime = 1
PROPERTIES OncePerWindow SkippedForItsKey FiringRuns
