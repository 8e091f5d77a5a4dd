SPECIFICATION Spec
CONSTANTS
    p1 = p1
    p2 = p2
    p3 = p3
    a1 = a1
    a2 = a2
    b1 = b1
    c1 = c1
    NoSocket = none
    Sockets = {a1, a2, b1}
    Players = {p1, p2}
    Owner <- MCOwner2
    MaxPlayers = 2
    MaxLobbies = 2
    SlowInserts = FALSE
    Reports = {"open"}
INVARIANTS TypeOK OnlyEntrantsPlay
PROPERTIES EveryoneIsRanked StakedSeatSurvives
CHECK_DEADLOCK FALSE
