CONSTANTS
    wa = wa  wb = wb  k1 = k1  k2 = k2  k3 = k3
    Payload = payload
    Workloads = {wa, wb}
    Keys = {k1, k2, k3}
    Contents = {payload}
    Size <- UnitSize
    Capacity = 2
    NoContent = NoContent
    Artifacts <- TwoAndOne
    Trials <- FiveTrials
    NoTrial = NoTrial
    MaxConcurrent = 2
    MaxRestarts = 1
    MaxDeaths = 1
    MaxFailures = 1
SPECIFICATION Spec
INVARIANTS
    LineageIsSound
    PairsComplete
    NoSpuriousFailure
CHECK_DEADLOCK FALSE
