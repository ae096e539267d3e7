SPECIFICATION FairSpec
CONSTANTS
    Topics <- MCTopics
    MaxSubs = 3
    MaxEvents = 2
INVARIANTS MatchIsOrderedPrefixes MergedOnce EmptyMeansClosed
PROPERTIES MergeDelivers MergeEnds
CHECK_DEADLOCK FALSE
