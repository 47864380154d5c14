SPECIFICATION MCSpec
CONSTANTS
    Processes = {p1}
    Commands <- MCCommands
    MaxCommands = 3
    Logins = {login}
    MaxFaults = 1
    MaxWords = 5
INVARIANTS
    UpgradeLogsNobodyOut
CHECK_DEADLOCK FALSE
