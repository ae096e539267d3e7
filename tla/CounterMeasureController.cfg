SPECIFICATION FairSpec
CONSTANTS
    Specs <- MCSpecs
    MaxEdits = 3
INVARIANT InstalledRuns
PROPERTIES MonitoringMeansInstalled DeletedIsRemoved ValidIsInstalled Settles
