CONSTANTS
    k1 = k1  k2 = k2  k3 = k3  x = x  y = y  z = z
    i1 = i1  i2 = i2  i3 = i3   h1 = h1  h2 = h2
    Keys = {k1, k2, k3}
    Contents = {x, y, z}
    Size <- Sizes
    Capacity = 3
    NoContent = NoContent
    Puts <- SmallPuts
    PutIds = {i1, i2, i3}
    Handlers = {h1, h2}
    None = None
    MaxCrashes = 1
    MaxSequence = 4
SPECIFICATION Spec
INVARIANTS
    FilesAreKept
PROPERTIES
    UnreadableOnlyIfEvicted
    LruSpec
