SPECIFICATION Spec
CONSTANTS
    Methods = {"GET", "POST"}
    MaxRetries = 2
    BackoffBase = 1
    BackoffMax = 2
    Hints = {0, 1, 3}
INVARIANTS
    SuccessIsWhole
