CONSTANTS
    Handlers = {h1, h2}
    Tools = {t1, t2}
    Runner = Runner
    None = None
    Broken = Broken
    Reps = {r}
    Price <- UnitPrices
    Accesses <- AccessIds
    Budget = 1
    MaxAccesses = 2
    MaxRetries = 1
    MaxEvents = 2
    MaxTransfers = 1
    MaxFaults = 2
SPECIFICATION FairSpec
INVARIANTS
    AccessesAreExact
    OutcomeIsCounted
PROPERTIES
    CompleteIsExact
    TrialRecorded
