CONSTANTS
    N = 3
    MaxForeign = 1
    MaxCrashes = 2
    MaxFailures = 2
    MaxJournal = 14
    FailureClasses = {"infrastructure", "semantic", "data", "internal"}
    TornWrites = TRUE
SPECIFICATION FairSpec
INVARIANTS
    ProvisionedInOrder
    ReadableOutsideWindow
PROPERTIES
    Provisioned
CHECK_DEADLOCK FALSE
