SPECIFICATION GameSpec
CONSTANTS
    Parts = {"round", "movement", "powerups", "layout", "collection", "sandbox"}
    h = h  b = b  c = c  f1 = f1  f2 = f2  g1 = g1  g2 = g2  l1 = l1  l2 = l2
    p = p  q = q  x1 = x1  x2 = x2
    NoOne = none
    Humans = {h}
    Bots = {b, c}
    BotOrder <- MCBotOrder
    Frags = {f1, f2, g1, g2}
    RarityOf <- MCRarityOf
    Places = {l1, l2}
    MaxFrags = 3
    FragsPerChest = 2
    MintLimit = 1
    FragPoints = 3
    MintPoints <- MCMintPoints
    MintDurations <- MCMintDurations
    MintGrace = 1
    Reports = {0}
    RoundTime = 2
    Base = 4
    Boost = 8
    BotPace = 3
    FullSize = 2
    Penalty = 50
    MaxCarried = 2
    Loads = {0, 2}
    Window = 2
    Tolerance = 1
    Knock = 2
    KnockTime = 2
    BoostTime = 2
    MaxDt = 2
    Jump = 7
    MaxGrants = 1
    MaxTime = 5
    ClientTime = 4
    SeatOrder <- MCSeatOrder
    Fields = {0, 1}
    Types = {"speed", "shield"}
    PwDuration <- MCPwDuration
    PwFirst = 1
    PwInterval = 2
    PwLifetime = 3
    PwMaxActive = 2
    PwMaxTime = 6
    FragIds = {1, 2}
    FragRarity <- MCFragRarity
    Attempts = 1
    Free = free
    Viewer = p
    Claimers = {h}
    MaxDraws = 6
    MaxBlocked = 2
    MaxRespawns = 2
    MaxWire = 2
    Collectors = {p, q}
    Assets = {x1, x2}
    NoCollector = nobody
    Spots = {0, 1}
    Tags = {"t"}
    Rolls = {59, 60}
    RarityTable <- MCRarityTable
    DiscoveryRadius = 0
    ContestRadius = 0
    SpeedBonusWindow = 0
    SpeedPercent = 120
    CollectGrace = 1
    CollectLimit = 2
    DiscoveryCredit = 5
    SetSize = 2
    SetPercent = 150
    CollectTime = 2
    w1 = w1  w2 = w2  n1 = n1  n2 = n2
    wallet = wallet  guest1 = guest1  guest2 = guest2
    Conns = {w1, w2, n1, n2}
    Wallets = {wallet}
    IdOf <- MCIdOf
    HallMax = 3
    HallMin = 2
    MaxHalls = 2
SYMMETRY Symmetry
INVARIANTS
    GameTypeOK
    ScoreIsEarned ClaimsAreCredited BotsSeeTheRound
    PathWithinCap
    EventsTellTheField LayoutReplays MapPaysOnce OpenRowIsHeld
PROPERTIES
    FlagOnlyAfterFall
CHECK_DEADLOCK FALSE
