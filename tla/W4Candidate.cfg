CONSTANTS
    n7 = n7  n8 = n8  d = d  f1 = f1  f2 = f2
    Nodes = {n7, n8}
    LastTrial = 3
    NodeOf <- AlternatingNodes
    Repetition <- RepeatedOnce
    Rankings <- TwoPrefixes
    Runs = {ra, rb}
    Slots = {s1, s2}
    None = None
    MaxFaults = 2
SPECIFICATION FairSpec
INVARIANTS
    OneExecution
    CacheIsHonest
PROPERTIES
    Settles
CHECK_DEADLOCK FALSE
