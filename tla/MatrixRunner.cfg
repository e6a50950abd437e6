CONSTANTS
    N = 3
    MaxFailures = 2
    MaxCrashes = 2
SPECIFICATION FairSpec
INVARIANTS
    ScoredOnce
    JournalLegal
    NeverReexecuted
PROPERTIES
    Settles
