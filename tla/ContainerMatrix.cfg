CONSTANTS
    N = 2
    Conditional = {2}
    MaxRestarts = 1
    MaxFailures = 3
    Processes = {p1, p2}
    None = None
    MaxCrashes = 2
SPECIFICATION FairSpec
INVARIANTS
    FilesAgree
    MeasuredOnce
PROPERTIES
    Settles
CHECK_DEADLOCK FALSE
