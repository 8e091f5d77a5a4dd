SPECIFICATION Spec
CONSTANTS
    p1 = p1
    p2 = p2
    Players = {p1, p2}
    MaxRounds = 1
    MaxAttempts = 3
    PickLimit = 5
    FaultKinds = {}
    MaxFaults = 0
INVARIANT EverySeatIsPlaced
CHECK_DEADLOCK FALSE
