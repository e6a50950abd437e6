CONSTANTS
    k1 = k1  k2 = k2  x = x  y = y  z = z
    v1 = v1  v2 = v2  v3 = v3  v4 = v4
    p1 = p1  p2 = p2  p3 = p3
    h1 = h1  h2 = h2
    a = a  b = b  d = d  e = e  s = s  t = t
    Keys = {k1, k2}
    Contents = {x, y, z}
    Absent = Absent
    Versions = {v1, v2, v3, v4}
    NoVersion = NoVersion
    PublicationIds = {p1, p2, p3}
    Requests <- ChainRequests
    NoGeneration = NoGeneration
    NoRow = NoRow
    Handlers = {h1, h2}
    NoRequest = NoRequest
    MaxCrashes = 1
    FramePlans <- MCFramePlans
    DigestRequests <- MCDigestRequests
    Digests = {y, z}
    Registries <- MCRegistries
    Threads = {a, b}
    None = None
    MaxFaults = 2
    MaxCalls = 2
SYMMETRY Alike
SPECIFICATION SystemSpec
INVARIANTS
    CommittedIsServable
    ReplyIsDurable
    MaterializedOnce
    PublishedIsMaterialized
PROPERTIES
    CatalogSpec
CHECK_DEADLOCK FALSE
