SPECIFICATION MCSpec
CONSTANTS
    p1 = p1
    p2 = p2
    global = global
    i1 = i1
    k1 = k1
    jwt = jwt
    ann = ann
    bob = bob
    actor = actor
    Free = Free
    Proc = {p1, p2}
    Path = {global}
    Global = global
    CacheTTL = 1
    Cooldown = 2
    MaxEntries = 1
    MaxDelay = 1
    Id = {i1}
    Ops = {"signing", "verify"}
    MaxTime = 3
    MaxVer = 1
INVARIANTS
    KeysBounded
    
    
PROPERTIES
    EveryWaitEnds
