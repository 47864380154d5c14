SPECIFICATION Spec
CONSTANTS
    p1 = p1
    p2 = p2
    p3 = p3
    global = global
    org1 = org1
    org2 = org2
    i1 = i1
    i2 = i2
    i3 = i3
    i4 = i4
    Proc = {p1, p2}
    Path = {global}
    Global = global
    CacheTTL = 2
    Cooldown = 2
    MaxEntries = 1
    MaxDelay = 1
    Id = {i1}
    Ops = {"verify"}
    MaxTime = 3
    MaxVer = 1
    Free = Free
VIEW InUse
SYMMETRY Interchangeable
INVARIANTS
    CachedKidsKnown
