SPECIFICATION MCSpec
CONSTANTS
    p1 = p1
    p2 = p2
    Handler = Handler
    k2 = k2
    i1 = i1
    i2 = i2
    i3 = i3
    jwt = jwt
    apikey = apikey
    Free = Free
    Proc = {p1, p2, Handler}
    Key <- MCKey
    Cred = {jwt, apikey}
    JWTKeys <- Questions
    NegativeErr <- MCNegativeErr
    Id = {i1, i2, i3}
    CredOf <- MCCredOf
    Pos <- MCPos
    Neg <- MCNeg
    Exp <- MCExp
    Chains <- MCChains
    Wirings <- MCWirings
    Creds = {"none", "jwt"}
    Scopes = {TRUE}
    MaxEntries = 1
    MaxTime = 2
    MaxVer = 1
    Forgetful = TRUE
VIEW InUse
SYMMETRY Interchangeable
INVARIANTS
    StalenessBounded
    InvalidationHonoured
    FreshIsFresh
    FreshRefreshes
    
    MaxEntriesBound
PROPERTIES
    KeepsPromise
    BehavesAsGate
