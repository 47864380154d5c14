SPECIFICATION MCSpec
CONSTANTS
    Processes = {p1, p2}
    Commands <- MCCommands
    MaxCommands = 3
    Logins = {login}
    MaxFaults = 2
    MaxWords = 5
SYMMETRY Twins
INVARIANTS
    TypeOK
    
    UpgradeKeeps
    
PROPERTIES
    LoginsLast
CHECK_DEADLOCK FALSE
