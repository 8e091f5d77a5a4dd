SPECIFICATION FairSpec
CONSTANTS
    p1 = p1
    p2 = p2
    p3 = p3
    a1 = a1
    a2 = a2
    b1 = b1
    c1 = c1
    NoSocket = none
    Sockets = {a1, a2, b1}
    Players = {p1, p2}
    Owner <- MCOwner2
    MaxPlayers = 2
    MaxLobbies = 1
    SlowInserts = TRUE
    Reports = {"open"}
PROPERTIES PhasesInOrder StakedRoundCloses
CHECK_DEADLOCK FALSE
