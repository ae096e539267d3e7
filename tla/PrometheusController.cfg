SPECIFICATION FairSpec
CONSTANTS
    Specs <- MCSpecs
    MaxEdits = 3
INVARIANTS LaunchedOnce PollsAsStored
PROPERTIES PollingIsRegistered ReadyIsInstalled DeletedIsForgotten
