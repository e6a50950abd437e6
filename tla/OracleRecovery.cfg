CONSTANTS
    None = None
    Order <- MCOrder
    Files = {"x", "y", "z"}
    Desired <- MCDesired
    Foreign <- MCForeign
    Trials <- MCTrials
    MaxConsecutive = 2
    MaxAttempts = 2
    MaxFaults = 3
SPECIFICATION Spec
INVARIANTS
    DesignIsActive
    LedgerIsTrue
PROPERTIES
    Settles
CHECK_DEADLOCK FALSE
