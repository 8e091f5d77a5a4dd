SPECIFICATION MCSpec
CONSTANTS
    p1 = p1
    p2 = p2
    k1 = k1
    k2 = k2
    k3 = k3
    k4 = k4
    escrow = escrow
    house = house
    r1 = r1
    r2 = r2
    r3 = r3
    s1 = s1
    none = none
    zero = zero
    Players <- MCTwoPlayers
    Keys = {k1, k2, k3, k4}
    Escrow = escrow
    House = house
    RoundIds = {r1, r2, r3}
    Seeds = {s1}
    NoSeed = none
    NoKey = zero
    Purse <- MCPurse
    EntryChoices = {0, 1}
    TierChoices <- MCTiers
    CapChoices <- MCCaps
    HeirChoices = {zero, k1, k2, k3, k4}
    PlacementLists <- MCSettlements
    MaxTiers = 2
    MaxPlacements = 2
    Uint192Max = 3
    MaxBlock = 3
SYMMETRY Symmetry
INVARIANTS TypeOK Solvent TotalIsSum PlacedWereSeated ParametersFit CapBoundsCredits
PROPERTIES BalanceMoves PauseFreezesPlayers ImplementsLedger
CHECK_DEADLOCK FALSE
