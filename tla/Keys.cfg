SPECIFICATION MCSpec
CONSTANTS
    p1 = p1
    p2 = p2
    global = global
    org1 = org1
    org2 = org2
    i1 = i1
    i2 = i2
    i3 = i3
    i4 = i4
    Free = Free
    Tokens <- MCTokens
    Options <- MCOptions
    Keys <- PublishedKeys
    ClientAudience = ""
    DefaultLeeway = 1
    MaxLeeway = 2
    MaxNumericDate = 9
    MaxInt = 16
    MaxTime = 4
VIEW InUse
SYMMETRY Interchangeable
INVARIANTS
    AcceptedIsSound
    RejectedIsUnsound
    
