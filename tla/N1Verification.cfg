CONSTANTS
    q1 = q1  q2 = q2  q3 = q3  u1 = u1  u2 = u2  t1 = t1  t2 = t2
    h1 = h1  h2 = h2  c1 = c1  c2 = c2
    Requests <- CompetingRequests
    RequestIds = {q1, q2, q3}
    Units = {u1, u2}
    Packages <- TwoPackages
    NoPackage = NoPackage
    NoRow = NoRow
    Handlers = {h1, h2}
    NoRequest = NoRequest
    MaxCrashes = 1
    MaxFailures = 1
    Challenges = {c1, c2}
    MaxVerifications = 1
    MaxRemounts = 1
SPECIFICATION SystemSpec
INVARIANTS
    AnswersAreTrue
    AttestedOnce
PROPERTIES
    OneShotSpec
