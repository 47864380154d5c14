SPECIFICATION Spec
CONSTANTS
    Chains <- MCChains
    Wirings <- MCWirings
    Creds = {"none", "jwt", "apikey"}
    Scopes = {TRUE, FALSE}
    Pos <- MCPos
    Neg <- MCNeg
    Exp <- MCExp
    MaxTime = 1
    MaxVer = 1
    Doubtful <- MCDoubtful
VIEW ButOut
INVARIANTS
    OnlyTheAllowed
    IdentityIsVerified
    FailOpenOnlyOnOutage
    
