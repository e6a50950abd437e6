CONSTANTS
    o1 = o1  o2 = o2
    get = get  put1 = put1  put2 = put2  ask = ask  t1 = t1  t2 = t2
    h1 = h1  h2 = h2
    Handlers = {h1, h2}
    Requests <- MixedRequests
    Ids = {get, put1, put2, ask, t1, t2}
    Objects = {o1, o2}
    Sizes = {1, 2, 3}
    Capacity = 2
    None = None
    MaxFailures = 1
    MaxDeaths = 1
SPECIFICATION Spec
SYMMETRY ThreadsAndTrials
INVARIANTS
    AnsweredOnce
    SleepersAreOwed
PROPERTIES
    LruPerEpoch
