CONSTANTS
    Scenarios <- AllScenarios
    None = None
SPECIFICATION FairSpec
INVARIANTS
    RunIsSchedule
    CacheIsCausal
PROPERTIES
    Ends
