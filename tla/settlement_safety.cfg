SPECIFICATION Spec
CONSTANTS
    p1 = p1
    p2 = p2
    Players = {p1, p2}
    MaxRounds = 2
    MaxAttempts = 2
    PickLimit = 2
    FaultKinds = {"chain", "db", "server", "worker"}
    MaxFaults = 2
SYMMETRY Symmetry
INVARIANTS TypeOK RecordIsTrue PlacedHadResults ChainInStep
PROPERTIES NoWayBack ChainIsLedger
CHECK_DEADLOCK FALSE
