SPECIFICATION FairSpec
CONSTANTS
    p1 = p1
    p2 = p2
    Players = {p1}
    MaxRounds = 2
    MaxAttempts = 2
    PickLimit = 1
    FaultKinds = {"chain", "db", "server", "worker"}
    MaxFaults = 2
PROPERTIES ClosedRowsSettle
CHECK_DEADLOCK FALSE
