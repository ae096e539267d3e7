SPECIFICATION FairSpec
CONSTANTS
    Names = {n1}
    Gens = {1, 2}
    Alerts = {a1}
    MaxAdds = 2
INVARIANTS TypeOK NoProducerMissed
PROPERTIES ActiveIsPublished ShutdownStopsPolling
