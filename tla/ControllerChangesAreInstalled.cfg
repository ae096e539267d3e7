SPECIFICATION FairSpec
CONSTANTS
    Specs <- ValidSpecs
    MaxEdits = 2
PROPERTY ChangesAreInstalled
