SPECIFICATION ServicesSpec
CONSTANTS
    Parts = {"accounts", "limits", "sender", "roster", "tools"}
    a1 = a1  a2 = a2  q1 = q1  q2 = q2
    w1 = w1  w2 = w2  w3 = w3  bot = bot
    Addresses = {a1, a2}
    Guest = guest
    Calls = {q1, q2}
    NonceTTL = 1
    NonceMax = 1
    SessionTTL = 2
    RoundTTL = 1
    MaxRounds = 1
    DbFaults = {"lost", "failed", "crash"}
    MaxDbFaults = 1
    MaxNonces = 2
    MaxRows = 2
    MaxKeys = 2
    MaxHour = 2
    WindowMs = 3
    HttpLimit = 2
    SocketLimit = 1
    SweepAfter = 1
    MaxPerSec = 2
    Second = 2
    MaxAdmitted = 7
    LimitTime = 10
    SendMax = 3
    MaxAttempts = 2
    Floor = 2000
    BaseFees = {100, 2000, 5000}
    Stalled = TRUE
    SeatList <- MCSeatList
    Wallets = {w1, w2, w3}
    TierTables <- MCTierTables
    RoundCap = 6
    MostPlacements = 3
    MostPlace = 4
    MaxPoints = 2
    Tools = {t1, t2}
    Labels = {"l"}
    Secrets = {s1, s2}
    NoSecret = none
    Stakes = {1, 2}
    FundAmount = 1
    MaxRuns = 3
SYMMETRY Symmetry
INVARIANTS
    ServicesTypeOK
    SignatureIsSingleUse OneScorePerRound NoFlood
    SendsAreTrue SettlementIsAcceptable SavedSeedOpens
CHECK_DEADLOCK FALSE
