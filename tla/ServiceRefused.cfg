SPECIFICATION MCSpec
CONSTANTS
    Methods = {"GET", "HEAD", "POST", "PUT", "PATCH", "DELETE"}
    MaxRetries = 2
    BackoffBase = 1
    BackoffMax = 2
    Hints = {0, 3}
    Callers = {c1}
    Objects = {o1, o2}
    Subjects = {s1}
    MaxChecks = 2
    MaxTrouble = 2
    Deployments = {d1, d2}
    Wanted <- MCWanted
    MaxVersions = 2
    MaxErrors = 1
INVARIANTS
    CountIsOfDeleted
